SPECIFICATION Spec
CONSTANTS
  MsgLen = 5
  DataSize = 2
  TextLen <- PlainText
  Text <- PlainBytes
  SWindow = 3
  RWindow = 2
  MaxLoss = 0
  MaxCorrupt = 1
  CorruptSeqs = {0, 1, 2, 3, 4}
  CountCap = 0
CHECK_DEADLOCK FALSE
INVARIANTS
  DeliveredPrefix
  ReceiverInv
  OkIsCheckCksum
PROPERTY DeliverySpec
