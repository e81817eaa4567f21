SPECIFICATION Spec
CONSTANTS
  ByteRange = 4
  MaxPktSize = 6
  MinFrame = 2
  PadTo = 3
  MaxCsSize = 1
  HexValues = {1, 7}
  CopyPositions = {6}
  Ranges <- MCEvenRanges
  Frames <- MCFrames
  MaxBytes = 4
  MaxStatements = 3
PROPERTIES ChecksumsAsDocumented
CHECK_DEADLOCK FALSE
