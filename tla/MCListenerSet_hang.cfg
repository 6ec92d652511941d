SPECIFICATION FairSpec
CONSTANTS
  Addrs = {a}
  Respelled = {}
  Reqs = {}
  Kinds = {"start", "stop", "settings"}
  Conns = {c1}
  MaxInst = 2
  MaxFailures = 0
  MaxRestarts = 0
PROPERTIES ShutdownEnds
CHECK_DEADLOCK FALSE
