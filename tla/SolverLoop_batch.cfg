SPECIFICATION Spec
CONSTANTS
  w1 = w1 w2 = w2
  Worlds <- TwoWorlds
  Caps <- Limits3
  MaxNeed = 4
  NCheck = 2
  MaxSolves = 2
INVARIANTS ActiveCount ResultExact EarlyExitWindow IndInv
PROPERTIES ImplementsWorldSolve EverySolveCompletes
