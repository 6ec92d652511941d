SPECIFICATION Spec
CONSTANTS
  Fronts = {"connect"}
  Hops = {"http"}
  MaxData = 1
INVARIANTS BridgeStartsClean
CHECK_DEADLOCK FALSE
