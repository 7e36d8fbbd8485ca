SPECIFICATION Spec
CONSTANTS
  Day <- ShortDay
  Fresh <- OneUnit
  Latency <- OneUnit
  FirstTime <- BeforeMidnight
  MaxTime <- NextDay
  GpsAhead <- TwoAhead
  LeapSettings <- KnownOrNot
  Heard <- GoodAndBad
  CacheSize <- SmallCache
  MaxRecords <- FewRecords
  MaxRestarts <- OneRestart
  MaxPolls <- TwoPolls
CHECK_DEADLOCK FALSE
INVARIANTS
  FixIsRecent
  CovarianceMatches
  StampIsItsTime
  CountedOnce
