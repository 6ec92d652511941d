SPECIFICATION FairSpec
CONSTANTS
  Clients = {c1}
  Capacity = 2
  MaxEvents = 5
PROPERTIES CloseEndsAll
CHECK_DEADLOCK FALSE
