SPECIFICATION Spec
CONSTANTS
  Tiers = {1, 4, 10}
  Needs = {1, 3}
  UserIters = {6}
  EnvIters = {0}
  Monitor = 2
  Bufs = {"ten_Jdot", "qpos"}
  Watched = "ten_Jdot"
  MaxMoves = 1
INVARIANT NoAbandonedCapture
