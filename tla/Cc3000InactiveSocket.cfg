SPECIFICATION FairSpec
CONSTANTS
  MaxCalls = 4
  MaxEvents = 1
  MaxPortions = 3
  Buffers = 2
  Environments <- SocketDies
PROPERTIES SendReturns
CHECK_DEADLOCK FALSE
