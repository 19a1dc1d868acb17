CONSTANTS
  Shapes <- MCShapes
  Sizes <- MCSizes
  Counts <- MCCounts
  FirstSize <- MCFirst
  FirstWidth = 1
  Widths <- MCWidths
  MaxMoves = 2
  None = None
SPECIFICATION Spec
PROPERTIES
  RoundTrip
  GivesBack
  WidthIsChosen
CHECK_DEADLOCK FALSE
