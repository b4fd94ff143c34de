SPECIFICATION Spec
CONSTANTS
  MsgLen = 5
  DataSize = 2
  TextLen <- PlainText
  Text <- PlainBytes
  SWindow = 3
  RWindow = 3
  MaxLoss = 0
  MaxCorrupt = 0
  CorruptSeqs = {}
  CountCap = 10
CHECK_DEADLOCK FALSE
INVARIANT FileHasMessageLength
