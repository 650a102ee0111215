SPECIFICATION FairSpec
CONSTANTS
  Sizes = {0, 1, 2, 3}
  Rooms = {2, 3}
  MaxSends = 3
CHECK_DEADLOCK FALSE
INVARIANTS
  BytesExact
  StopsForCause
  NoLostWakeup
PROPERTY DataArrives
