SPECIFICATION FairSpec
CONSTANTS
  MaxScriptFileDepth = 2
  Ports = {p1, p2}
  Packets = {m1, m2}
  TestCaseIds = {"T1", "T2"}
  NoId = NoId
  MqMaxMsg = 2
  MaxFileLen = 2
  MaxPackets = 2
INVARIANTS TypeOK VerdictSound ReportMatchesCases TrafficOnlyWhilePassing SyntaxCheckOpensNoPort CleanupDrains IInv
PROPERTIES IncludeNeverSpoilsPass RefinesTestRun RefinesPortQueues RunEnds
CHECK_DEADLOCK FALSE
