SPECIFICATION Spec
CONSTANTS
  Imagers <- TwoCameras
  Credits <- TwoCredits
  MaxSets <- TwoSets
  MaxFaults <- OneFault
CHECK_DEADLOCK FALSE
INVARIANTS
  OneCreditIfAcksWork
  ImagesPublished
PROPERTIES
  CreditsComeBack
