SPECIFICATION Spec
CONSTANTS
  RtNum = 2
  Confs <- Pair
  StackGarbage <- Garbage
  Commands = {"dv", "update"}
  Changes <- PairCut
  Patient = FALSE
  MaxCommands = 2
  MaxOverwritten = 0
  MaxCopies = 2
  MaxCost = 8
  Dist <- ShortestDist
CHECK_DEADLOCK FALSE
INVARIANT NextIsNeighbor
