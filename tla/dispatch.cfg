SPECIFICATION DispatchSpec
CONSTANTS
  Capacity <- SmallCapacity
  MaxPushes <- Pushes
INVARIANTS
  Accounting
PROPERTIES
  ImplementsContract
  StopReturns
  ValueLeaves
