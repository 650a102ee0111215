SPECIFICATION FairSpec
CONSTANT Capacity = 2
CHECK_DEADLOCK FALSE
INVARIANTS
  NoOrphan
  OkMeansExited
PROPERTIES
  CloseReturns
  DropReachesChild
