SPECIFICATION Spec
CONSTANTS
  Statements <- MCStatements
  NUL = NUL
  Others = {">", "@", "A", "B", "v"}
  MaxLen = 10
  MaxPrintLen = 5
  MaxVarCount = 3
  MaxReads = 7
INVARIANTS TypeOK SubstitutedAsWritten LatestValue OnePassIsEnough OverrunOnlyWhenLong
PROPERTIES RefusedOnlyWhenFull
CHECK_DEADLOCK FALSE
