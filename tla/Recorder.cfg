SPECIFICATION FairSpec
CONSTANTS
  SlowLine = TRUE
  BootLine <- BootLow
  APInReach = TRUE
  SlowCamera = TRUE
INVARIANTS TypeOK TriggerFollowsLine InitIsServed
PROPERTIES LineStartsStream BootRetries
