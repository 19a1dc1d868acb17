CONSTANTS
  s1 = s1
  s2 = s2
  a1 = a1
  a2 = a2
  Sessions <- MCSessions
  Agents <- MCAgents
  Home <- MCHome
  Branched <- MCBranched
  MaxWorlds = 2
  MaxTyped = 1
  MaxFound = 2
SYMMETRY MCSymmetry
SPECIFICATION Spec
INVARIANTS
  OwnerIsDrawn
PROPERTIES
  SelectionSticks
CHECK_DEADLOCK FALSE
