SPECIFICATION Spec
CONSTANTS
  Writers = {w1, w2}
  MaxRuns = 2
  None = None
  GoKinds = {"WsRead", "Cancelled"}
INVARIANTS SleepsOnlyUndecided OnlyOwnReason GaugeTrue
PROPERTIES NoConnectionLeft
CHECK_DEADLOCK FALSE
