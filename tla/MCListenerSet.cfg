SPECIFICATION FairSpec
CONSTANTS
  Addrs = {a, b}
  Respelled = {}
  Reqs = {r1, r2}
  Kinds = {"start", "stop", "settings"}
  Conns = {c1}
  MaxInst = 3
  MaxFailures = 1
  MaxRestarts = 1
INVARIANTS SocketsReleased StopDrains RestartRestores
PROPERTIES ShutdownEndsTunnels
CHECK_DEADLOCK FALSE
