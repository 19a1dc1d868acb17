CONSTANTS
  c1 = c1
  c2 = c2
  s1 = s1
  s2 = s2
  w1 = w1
  w2 = w2
  w3 = w3
  w4 = w4
  p1 = p1
  Client = {c1}
  Session = {s1, s2}
  Window = {w1, w2, w3, w4}
  SessOf <- MCSessOf
  Pane = {p1}
  None = None
  Own = Own
  JumpCap = 3
  MaxChanges = 3
SPECIFICATION Spec
PROPERTY
  JumpBrings
