SPECIFICATION Spec
CONSTANTS
  Tiers = {1, 4, 10}
  Needs = {2, 3, 12}
  UserIters = {2, 100}
  EnvIters = {0, 4}
  Monitor = 2
  Bufs = {"qpos"}
  Watched = "qpos"
  MaxMoves = 1
INVARIANTS IterationsRestored FlagMatchesRecording IndInv
PROPERTIES WatchedIsLive BudgetCatchesUp
