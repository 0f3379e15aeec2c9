\* Two operations of every pair of kinds; the Bridge may crash or be refused, the
\* scope may be closed at any moment.
SPECIFICATION Spec
CONSTANTS
  Ops = {p, q}
  Kinds = {"call", "stream", "socket"}
  MaxFrames = 2
  Faults = "badFrame"
  Closes = "may"
SYMMETRY MCSymmetry
INVARIANTS WaitersAccounted HonestBridgeTrusted NothingAbandoned
CHECK_DEADLOCK FALSE
