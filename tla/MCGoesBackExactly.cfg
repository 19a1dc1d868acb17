CONSTANTS
  s1 = s1
  s2 = s2
  w1 = w1
  format1 = format1
  format2 = format2
  rename1 = rename1
  u1 = u1
  pad = pad
  scrub = scrub
  off = off
  Key = {format1, format2, rename1}
  Session = {s1, s2}
  Window = {w1}
  Within <- MCWithin
  ObjOf <- MCObjOf
  Rank <- MCRank
  UserVal = {u1}
  Args = {pad, scrub, off}
  Off = off
  Unset = unset
  unset = unset
  Initially <- MCInitially
  None = None
  MaxWrites = 1
SPECIFICATION Spec
INVARIANT
  GoesBackExactly
CHECK_DEADLOCK FALSE
