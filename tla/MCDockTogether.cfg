CONSTANTS
  s1 = s1
  s2 = s2
  w1 = w1
  w2 = w2
  w3 = w3
  p1 = p1
  p2 = p2
  b1 = b1
  b2 = b2
  c1 = c1
  Window = {w1, w2, w3}
  Spacer = {p1, p2}
  Sidebar = {b1, b2}
  SessOf <- MCSessOf
  Named = {w2}
  Roomy = {w1, w2}
  Other = {c1}
  None = None
  MaxUser = 1
SPECIFICATION FairSpec
INVARIANTS
  NoOrphans
  PanesInPlace
  WindowsWhole
PROPERTIES
  KillCarriesClient
  QueueDrains
  FollowsClient
  EmptyWindowsClose
CHECK_DEADLOCK FALSE
