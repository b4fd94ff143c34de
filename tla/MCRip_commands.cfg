SPECIFICATION FairSpec
CONSTANTS
  RtNum = 2
  Confs <- Pair
  StackGarbage <- Garbage
  Commands = {"dv", "update", "show", "reset"}
  Changes <- PairChanged
  Patient = FALSE
  MaxCommands = 3
  MaxOverwritten = 1
  MaxCopies = 2
  MaxCost = 8
  Dist <- ShortestDist
CHECK_DEADLOCK FALSE
INVARIANT OnlyResetKills
PROPERTY ShowReturns
