SPECIFICATION Spec
CONSTANTS
  Proxies = {p1, p2}
  Off = off
  Requests = {r1}
  MaxCommands = 2
  MaxKills = 1
SYMMETRY Symmetric
INVARIANTS IconAlwaysTrue CacheAlwaysFlushed IconTellsProxied CredentialedBounded
PROPERTIES RemovedStaysRemoved
CHECK_DEADLOCK FALSE
