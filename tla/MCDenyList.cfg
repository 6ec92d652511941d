SPECIFICATION Spec
CONSTANTS
  IPs = {a}
  Callers = {c1, c2, c3, c4}
  Threshold = 2
  Window = 3
  BanFor = 4
  Delay = 1
  MaxTime = 7
SYMMETRY Symmetry
INVARIANTS NoMissedBan
PROPERTIES BanJustified BanHolds
CHECK_DEADLOCK FALSE
