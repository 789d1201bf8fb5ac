CONSTANTS
  Iterations = 2
  MaxSteps = 2
SPECIFICATION Spec
INVARIANT
  IndependentOfCollision
