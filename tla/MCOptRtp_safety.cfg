SPECIFICATION OptFairSpec
CONSTANTS
  MsgLen = 9
  DataSize = 2
  TextLen <- PlainText
  SWindow = 3
  RWindow = 3
  MaxLoss = 1
  MaxCorrupt = 0
  CorruptSeqs = {}
  CountCap = 9
CHECK_DEADLOCK FALSE
INVARIANTS
  TypeOK
  DeliveredPrefix
  AckedIsHeld
  UnackedIsCached
  OptNeverBothWait
  FileNotShort
PROPERTIES
  DeliveredFinishes
  DeliverySpec
