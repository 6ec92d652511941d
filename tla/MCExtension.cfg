SPECIFICATION Spec
CONSTANTS
  Proxies = {p1, p2}
  Off = off
  Requests = {r1}
  MaxCommands = 3
  MaxKills = 1
INVARIANTS OfferedOnce SwitchTakesEffect IconShowsStored
SYMMETRY Symmetric
CHECK_DEADLOCK FALSE
