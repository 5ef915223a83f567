SPECIFICATION Spec
CONSTANTS
  RFID_timeout = 3
  MIC_timeout = 2
  BootPins <- BootDrawn
  BootIES <- BootRisingIES
  Debounced = TRUE
PROPERTIES DrawnHoldsWindow
