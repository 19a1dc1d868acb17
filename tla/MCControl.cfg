CONSTANTS
  Calls <- MCCalls
  MaxWorld = 2
  MaxAsks = 2
  MaxEnds = 1
SPECIFICATION FairSpec
INVARIANTS
  OwnReply
PROPERTIES
  Answered
  AnnouncedIsSeen
CHECK_DEADLOCK FALSE
