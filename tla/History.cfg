\* The program may stop stepping at any time: the model does at MaxTime.
CHECK_DEADLOCK FALSE

SPECIFICATION Spec

CONSTANTS
  Channels <- MCChannels
  LoadedTimes <- MCLoadedTimes
  Phases <- MCPhases
  Never <- MCNever
  MaxTime = 10
  MaxExtra = 1
  MaxRuns = 2

INVARIANTS
  TypeOK
  BisectionExact
  IntervalExact

PROPERTIES
  IsQueue
  DelayedExact
  ReevaluationStable
