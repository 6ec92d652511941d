SPECIFICATION Spec
CONSTANTS
  Owners = {o1, o2}
  Closers = {k1}
  Logins = {a, b}
  Upstreams = {x, y}
  MaxIds = 4
INVARIANTS IndexConsistent
PROPERTIES Implements
CHECK_DEADLOCK FALSE
