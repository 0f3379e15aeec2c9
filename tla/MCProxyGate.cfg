SPECIFICATION Spec
CONSTANTS
  Requests = {"r1", "r2"}
  Readers = {"k"}
  Writers = {"w1", "w2"}
  Background = {"w2"}
  Clients = {"client"}
  ClientOf <- MCClientOf
  Nobody = "nobody"
INVARIANTS GateTrue NoSleepThrough
PROPERTIES ImplementsLock Served
CHECK_DEADLOCK FALSE
