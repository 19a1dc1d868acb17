CONSTANTS
  a = a
  b = b
  None = None
  Window = {a, b}
  Row = {1}
  Glyph = {0, 1}
  MaxKeys = 2
  MaxChanges = 1
  MaxSecs = 2
SPECIFICATION Spec
INVARIANTS
  LineageHolds
  FollowsSelection
  WideWithBillboards
PROPERTIES
  FreshIsTrue
CHECK_DEADLOCK FALSE
