CONSTANTS
  a = a
  b = b
  None = None
  Window = {a, b}
  Row = {1}
  Glyph = {0, 1}
  MaxKeys = 4
  MaxChanges = 2
  MaxSecs = 3
SPECIFICATION ScheduledSpec
PROPERTIES
  NeverWrong
CHECK_DEADLOCK FALSE
