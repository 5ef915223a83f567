SPECIFICATION Spec
CONSTANTS
  RFID_timeout = 1
  MIC_timeout = 1
  BootPins <- BootDrawn
  BootIES <- BootRisingIES
INVARIANTS FlagMeansTrigger StreamsForTrigger
