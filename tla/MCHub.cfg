CONSTANTS
  c1 = c1
  e1 = e1
  e2 = e2
  v = v
  x = x
  y = y
  Sub = {c1}
  Entity = {e1, e2}
  Value = {v}
  First <- MCFirst
  None = None
  Target = {x, y}
  ChanCap = 2
  WireCap = 1
  CmdCap = 1
  MaxLog = 3
  MaxPushes = 2
SPECIFICATION FairSpec
INVARIANTS
  StreamsAgree
  SelectionAgrees
PROPERTIES
  DroppedLearns
  HelloAnswered
  FollowsPublished
CHECK_DEADLOCK FALSE
