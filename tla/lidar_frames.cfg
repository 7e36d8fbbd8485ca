SPECIFICATION Spec
CONSTANTS
  Period <- Window
  MaxTime <- LastTime
  OffsetSize <- OffsetValues
  MaxPoints <- FewPoints
  MaxBatch <- SmallBatch
CHECK_DEADLOCK FALSE
INVARIANTS
  InOneWindow
  NothingLost
  OffsetsRightIfOrdered
