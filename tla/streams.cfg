SPECIFICATION Spec
CONSTANTS
  RkLocal = FALSE
  FaultSets <- Sessions
CHECK_DEADLOCK FALSE
INVARIANTS
  StreamsServedIfStopsAndAnswersWork
  NothingLeftRunningIfStopsAndAnswersWork
  IdleOperationsAreIdleIfStopsAndAnswersWork
  CaptureStartsFresh
PROPERTIES
  PausedStreamsRestored
  FailedCommandKeepsConfiguration
