SPECIFICATION FairSpec
CONSTANTS
  Window = 1
  MaxSends <- MCSends
  Breakable = {"near"}
  Splits = {"near"}
CHECK_DEADLOCK FALSE
INVARIANTS
  TypeOK
  InOrderOnce
  ClosedIsComplete
PROPERTIES
  ImplementsChannels
  CallsProceed
