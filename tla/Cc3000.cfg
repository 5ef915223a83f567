SPECIFICATION FairSpec
CONSTANTS
  MaxCalls = 6
  MaxEvents = 1
  MaxPortions = 3
  Buffers = 2
  Environments <- OneTrouble
INVARIANTS TypeOK SentWhole BuffersAccounted
PROPERTIES CallSpec
CHECK_DEADLOCK FALSE
