SPECIFICATION Spec
CONSTANTS
  RtNum = 3
  Confs <- Chain
  StackGarbage <- Garbage
  Commands = {"dv", "update"}
  Changes <- LinkRaised
  Patient = TRUE
  MaxCommands = 4
  MaxOverwritten = 0
  MaxCopies = 1
  MaxCost = 6
  Dist <- ShortestDist
CHECK_DEADLOCK FALSE
INVARIANT ShortestWhenQuiet
