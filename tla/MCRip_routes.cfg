SPECIFICATION FairSpec
CONSTANTS
  RtNum = 3
  Confs <- RouteConfs
  StackGarbage <- Garbage
  Commands = {"dv", "update"}
  Changes <- LinkLowered
  Patient = TRUE
  MaxCommands = 4
  MaxOverwritten = 1
  MaxCopies = 2
  MaxCost = 20
  Dist <- ShortestDist
CHECK_DEADLOCK FALSE
INVARIANTS
  TypeOK
  NeverTooShort
  NextIsCloser
  DirectCostKnown
  ShortestWhenQuiet
PROPERTIES
  Converges
  ComesToRest
