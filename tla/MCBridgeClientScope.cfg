\* Calls in flight when the scope is closed.
SPECIFICATION Spec
CONSTANTS
  Ops = {p, q}
  Kinds = {"call"}
  MaxFrames = 1
  Faults = "none"
  Closes = "may"
PROPERTIES ExitFailsEveryone
CHECK_DEADLOCK FALSE
