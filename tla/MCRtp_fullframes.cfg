SPECIFICATION FairSpec
CONSTANTS
  MsgLen = 4
  DataSize = 2
  TextLen <- PlainText
  Text <- PlainBytes
  SWindow = 2
  RWindow = 2
  MaxLoss = 0
  MaxCorrupt = 0
  CorruptSeqs = {}
  CountCap = 0
CHECK_DEADLOCK FALSE
PROPERTY AllAckedFinishes
