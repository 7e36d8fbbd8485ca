SPECIFICATION PublicationSpec
CONSTANTS
  Cameras <- TwoCameras
  Imu <- BoardImu
  Limit <- Limits
INVARIANTS
  UnconfirmedReported
PROPERTIES
  LanesAllPublished
  WorkerGoesOn
