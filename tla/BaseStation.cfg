SPECIFICATION FairSpec
CONSTANTS
  Frames = 4
  Chunks = 2
  MaxId = 2
  InFlight = 2
  Timeout = 1
  MaxSignals = 2
  Networks <- SomeNetworks
CHECK_DEADLOCK FALSE
INVARIANTS TypeOK ShownIsWhole SavedInOrder ScreenIsLatest DrawsImages
PROPERTIES QuitEnds SilenceShows FrameSavedAfterNext
