SPECIFICATION Spec
CONSTANTS
  MaxScriptFileDepth = 2
  Ports = {p1, p2}
  Packets = {m1, m2}
  TestCaseIds = {"T1"}
  NoId = NoId
  MqMaxMsg = 2
  MaxFileLen = 2
  MaxPackets = 2
PROPERTIES SkippedStatementsDoNotCount
CHECK_DEADLOCK FALSE
