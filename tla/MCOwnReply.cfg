CONSTANTS
  Calls <- Unsplit
  MaxWorld = 0
  MaxAsks = 2
  MaxEnds = 0
SPECIFICATION Spec
INVARIANTS
  NothingForeign
CHECK_DEADLOCK FALSE
