CONSTANTS
  Iterations = 2
  MaxSteps = 2
SPECIFICATION Spec
INVARIANTS
  ReadsAsSequential
  Joined
  RefusedOnlyForCG
  RaceFree
