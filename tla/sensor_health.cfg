SPECIFICATION Spec
CONSTANTS
  Modulus <- Numbers
  Silence <- Two
  Interval <- Two
  MaxTime <- LastTime
  MaxNumber <- LastNumber
  MaxBurst <- LongBurst
  MaxOther <- One
CHECK_DEADLOCK FALSE
INVARIANTS
  NothingForgotten
  LossCounted
PROPERTIES
  LongSilenceReported
