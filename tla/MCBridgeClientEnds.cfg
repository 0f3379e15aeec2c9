\* The scope stays open and the Bridge is honest, but may crash between two frames.
SPECIFICATION Spec
CONSTANTS
  Ops = {p, q}
  Kinds = {"call", "stream", "socket"}
  MaxFrames = 1
  Faults = "none"
  Closes = "never"
PROPERTIES ExitFailsEveryone InterruptEnds
CHECK_DEADLOCK FALSE
