SPECIFICATION Spec
CONSTANTS
  Cameras <- AllCameras
  Torn <- CutShort
  MEM_POOL_SIZE = 2
  Target = 3
  Pipes = 2
  MaxPlugs = 2
  Environments <- CalmOnly
INVARIANT PrefersMJPEG
CHECK_DEADLOCK FALSE
