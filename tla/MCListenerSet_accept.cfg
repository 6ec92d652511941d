SPECIFICATION Spec
CONSTANTS
  Addrs = {a, b}
  Respelled = {}
  Reqs = {r1}
  Kinds = {"start", "stop", "settings"}
  Conns = {}
  MaxInst = 2
  MaxFailures = 1
  MaxRestarts = 0
INVARIANTS RunningIsServing
CHECK_DEADLOCK FALSE
