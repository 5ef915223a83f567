SPECIFICATION FairSpec
CONSTANTS
  Size = 4
  Units = 2
  MaxPacket = 2
  Chunk = 2
  MaxPos = 7
  MaxId = 2
  Environments <- AnyEnvironment
INVARIANTS TypeOK BufferIsContiguous SavedIsCaptured SendStaysInside FreshId
PROPERTIES FirstFrameSaved BufferReleased SlotSpec
