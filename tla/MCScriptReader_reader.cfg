SPECIFICATION Spec
CONSTANTS
  MaxLineLen = 5
  MaxStatementLen = 3
  MaxChars = 8
INVARIANTS TypeOK StatementsBeginWithText ReadsAsDocumented
CHECK_DEADLOCK FALSE
