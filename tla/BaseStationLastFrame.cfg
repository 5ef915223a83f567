SPECIFICATION FairSpec
CONSTANTS
  Frames = 3
  Chunks = 2
  MaxId = 2
  InFlight = 2
  Timeout = 1
  MaxSignals = 2
  Networks <- GoodNetwork
CHECK_DEADLOCK FALSE
PROPERTY EveryFrameSaved
