SPECIFICATION Spec
CONSTANTS
  c1 = c1
  c2 = c2
  c3 = c3
  Callers <- ThreeCallers
  Limit <- SmallLimit
INVARIANTS
  EveryWaiterHeldOnce
  NobodyWaitsWhenDown
  FatalEndsSession
PROPERTIES
  EveryCallReturns
