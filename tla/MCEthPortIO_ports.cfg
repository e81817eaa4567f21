SPECIFICATION Spec
CONSTANTS
  Names = {e1, e2}
  NoName = NoName
  MaxEthPortCount = 2
  MqMaxMsg = 1
  SockBuf = 2
  Filtering = TRUE
  Promiscuous = FALSE
  BindFilters = FALSE
  MaxArrivals = 2
INVARIANTS TypeOK OpenPortsUsable FailedOpenLeaksNothing CloseReleasesAll
PROPERTIES RefinesLossyFifo RefinesPortQueues
CHECK_DEADLOCK FALSE
