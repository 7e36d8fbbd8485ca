SPECIFICATION Spec
CONSTANTS
  Capacity <- SmallQueue
  MaxPages <- FewPages
  CacheSize <- SmallCache
  PageSize <- SmallPage
  MaxRecords <- FewRecords
  MaxRestarts <- OneRestart
  MaxFailures <- OneFailure
INVARIANTS
  InOrderOnce
  LossAnnounced
PROPERTIES
  CatchesUp
