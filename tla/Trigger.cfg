SPECIFICATION FairSpec
CONSTANTS
  RFID_timeout = 3
  MIC_timeout = 2
  BootPins <- BootDrawn
  BootIES <- BootRisingIES
  Debounced = TRUE
INVARIANTS TypeOK WakeFollowsFlags EdgeReady FlagsTrackInputs
PROPERTIES MicHoldsWindow FallsOnlyWithoutTrigger SettlesAsleep
