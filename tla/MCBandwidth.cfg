SPECIFICATION Spec
CONSTANTS
  Requests = {"r1", "r2", "r3"}
  Gets = {"g"}
  Resets = {"x"}
  Destroys = {"d"}
  Sessions = {"s", "e"}
  Ephemeral = {"e"}
  MaxBytes = 1
  Targets <- MCTargets
  ClientOf <- MCClientOf
INVARIANTS BooksBalance DeltaExact
PROPERTIES EverybodyEnds
CHECK_DEADLOCK FALSE
