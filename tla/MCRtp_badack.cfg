SPECIFICATION Spec
CONSTANTS
  MsgLen = 3
  DataSize = 2
  TextLen <- PlainText
  Text <- PlainBytes
  SWindow = 2
  RWindow = 2
  MaxLoss = 0
  MaxCorrupt = 1
  CorruptSeqs = {0, 1, 2}
  CountCap = 0
CHECK_DEADLOCK FALSE
INVARIANT FinishedMeansDelivered
