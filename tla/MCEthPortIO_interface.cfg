SPECIFICATION Spec
CONSTANTS
  Names = {e1, e2}
  NoName = NoName
  MaxEthPortCount = 2
  MqMaxMsg = 1
  SockBuf = 2
  Filtering = TRUE
  Promiscuous = FALSE
  BindFilters = TRUE
  MaxArrivals = 2
INVARIANTS RightInterface
CHECK_DEADLOCK FALSE
