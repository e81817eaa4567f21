SPECIFICATION Spec
CONSTANTS
  ByteRange = 4
  MaxPktSize = 8
  MinFrame = 2
  PadTo = 3
  MaxCsSize = 2
  HexValues = {1, 7}
  CopyPositions = {6}
  Ranges <- MCRanges
  Frames <- MCFrames
  MaxBytes = 7
  MaxStatements = 3
CONSTRAINT Sizes
INVARIANTS TypeOK
PROPERTIES SentAsWritten CopiesAreReceived ChecksumsRight MatchesWrittenPackets
CHECK_DEADLOCK FALSE
