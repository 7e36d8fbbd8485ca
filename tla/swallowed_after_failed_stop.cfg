SPECIFICATION Spec
CONSTANTS
  RkLocal = TRUE
  FaultSets <- OnlyStopsFail
CHECK_DEADLOCK FALSE
INVARIANTS
  ActiveStreamsDeliver
