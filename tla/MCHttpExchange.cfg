SPECIFICATION Spec
CONSTANTS
  Absent = Absent
  NotANumber = NotANumber
  TextPlain = TextPlain
  Multipart = Multipart
  None = None
  Givens <- MCGivens
  HttpBodies <- MCHttpBodies
  GoKinds = {"Cancelled", "Timeout"}
  Size = 2
INVARIANTS NothingLeft BodyIsWhole ToldOnceAndTruly DeclaredIsSent
PROPERTIES AbortEnds
CHECK_DEADLOCK FALSE
