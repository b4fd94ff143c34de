SPECIFICATION OptSpec
CONSTANTS
  MsgLen = 3
  DataSize = 2
  TextLen <- PlainText
  SWindow = 2
  RWindow = 2
  MaxLoss = 0
  MaxCorrupt = 0
  CorruptSeqs = {}
  CountCap = 0
CHECK_DEADLOCK FALSE
INVARIANT OptFinishedMeansDelivered
