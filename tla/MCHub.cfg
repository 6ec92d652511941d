SPECIFICATION FairSpec
CONSTANTS
  Clients = {c1, c2}
  Capacity = 2
  MaxEvents = 5
INVARIANTS RegisteredIsOpen NoGap
PROPERTIES DroppedClientsEnd
CHECK_DEADLOCK FALSE
