SPECIFICATION FairSpec
CONSTANTS
  MsgLen = 9
  DataSize = 2
  TextLen <- PlainText
  Text <- PlainBytes
  SWindow = 3
  RWindow = 3
  MaxLoss = 2
  MaxCorrupt = 0
  CorruptSeqs = {}
  CountCap = 9
CHECK_DEADLOCK FALSE
INVARIANTS
  TypeOK
  DeliveredPrefix
  UndeliveredIsCached
  ResendsOldest
  FinishedMeansDelivered
  EndNeverEarly
  NeverBothWait
  WithinReceiverWindow
  WholeOrAbandoned
  FileNotShort
  SenderInv
PROPERTIES
  TransferSpec
  Completes
  EndIsHeard
