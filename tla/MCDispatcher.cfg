SPECIFICATION Spec
CONSTANTS
  Ops <- MCOps
  MaxFrames = 2
  Sessions = {"s", "t"}
  Plans <- MCPlans
  Cancellable = {2}
  Unwritable = {2}
INVARIANTS OneTerminalEach NoUseAfterRetire
PROPERTIES SilenceAfterGoodbye StoppedEnds
CHECK_DEADLOCK FALSE
