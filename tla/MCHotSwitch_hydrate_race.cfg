SPECIFICATION MCSpec
CONSTANTS
  u1 = u1
  u2 = u2
  u3 = u3
  m1 = m1
  m2 = m2
  w1 = w1
  d0 = d0
  t1 = t1
  t2 = t2
  n1 = n1
  n2 = n2
  p1 = p1
  p2 = p2
  Users = {u1, u3}
  Manual = {m1, m2}
  Webshare = {w1}
  Default = d0
  Defs = {t1, t2}
  Names = {n1, n2}
  DefaultName = n2
  Passwords = {p1, p2}
  NoRow = NoRow
  NoUser = NoUser
  NoId = NoId
  NoName = NoName
  NoPwd = NoPwd
  NameGroup = NameGroup
  Reqs = {r1, r2}
  Conns = {}
  Kinds = {"remap", "addUser"}
  HydratesOverlap = TRUE
  MaxAborts = 0
  MaxCrashes = 0
  IdsReturn = FALSE
  NoMutex = NoMutex
  Absent = Absent
INVARIANTS AddedUserKnown
CHECK_DEADLOCK FALSE
