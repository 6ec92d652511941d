SPECIFICATION Spec
CONSTANTS
  Addrs = {a, b}
  Respelled = {a}
  Reqs = {r1, r2}
  Kinds = {"start"}
  Conns = {}
  MaxInst = 2
  MaxFailures = 0
  MaxRestarts = 0
PROPERTIES StartIdempotent
CHECK_DEADLOCK FALSE
