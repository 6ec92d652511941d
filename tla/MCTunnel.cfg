SPECIFICATION Spec
CONSTANTS
  Fronts = {"connect", "plain", "socks5"}
  Hops = {"direct", "http", "https", "socks5"}
  MaxData = 2
INVARIANTS NothingLeft OpenIsListed
PROPERTIES Implements SentArrives CancelEnds EitherEndEnds
CHECK_DEADLOCK FALSE
