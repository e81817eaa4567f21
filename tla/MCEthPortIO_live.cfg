SPECIFICATION FairSpec
CONSTANTS
  Names = {e1, e2}
  NoName = NoName
  MaxEthPortCount = 1
  MqMaxMsg = 2
  SockBuf = 2
  Filtering = TRUE
  Promiscuous = TRUE
  BindFilters = TRUE
  MaxArrivals = 4
INVARIANTS InOrder
PROPERTIES CallsReturn SocketsAreRead ReceiversEnd
CHECK_DEADLOCK FALSE
