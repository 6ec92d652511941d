SPECIFICATION Spec
CONSTANTS
  Addrs = {a, b}
  Respelled = {}
  Reqs = {r1, r2}
  Kinds = {"start", "settings"}
  Conns = {}
  MaxInst = 2
  MaxFailures = 0
  MaxRestarts = 0
INVARIANTS BoundAsConfigured RunningIsEnabled
CHECK_DEADLOCK FALSE
