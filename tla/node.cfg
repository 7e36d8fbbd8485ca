SPECIFICATION Spec
CONSTANTS
  Versions <- BothNodes
  Limit <- SmallLimit
CHECK_DEADLOCK FALSE
INVARIANTS
  WritesAreConfirmed
  SuccessMeansDone
  OneWriteAtMost
PROPERTIES
  ProcessEnds
