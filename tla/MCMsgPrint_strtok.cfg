SPECIFICATION Spec
CONSTANTS
  Receivers = {r1, r2}
  main = main
  Errnos = {EAGAIN}
  NoErrno = NoErrno
  MaxTokens = 3
  MaxWords = 2
  MaxMessages = 2
  MaxStatements = 2
INVARIANTS PacketIsStatement
CHECK_DEADLOCK FALSE
