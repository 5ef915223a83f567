SPECIFICATION FairSpec
CONSTANTS
  Cameras <- AllCameras
  Torn <- CutShort
  MEM_POOL_SIZE = 2
  Target = 3
  Pipes = 2
  MaxPlugs = 2
  Environments <- OneTrouble
INVARIANTS TypeOK SelectsReference SettingFitsPipe StreamsAsAgreed PipesAccounted
PROPERTIES CameraServed
CHECK_DEADLOCK FALSE
