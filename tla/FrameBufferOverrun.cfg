SPECIFICATION Spec
CONSTANTS
  Size = 4
  Units = 3
  MaxPacket = 2
  Chunk = 1
  MaxPos = 9
  MaxId = 2
  Environments <- FastRaw
PROPERTIES FrameStays
