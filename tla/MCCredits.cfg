SPECIFICATION Spec
CONSTANTS
  Window = 3
  ChunkSize = 2
  Body = 5
  Kinds = {"stream", "request", "ws"}
INVARIANTS CreditAccounted NoLostWakeup
PROPERTIES ImplementsChannel FlowEnds
CHECK_DEADLOCK FALSE
