SPECIFICATION Spec
CONSTANTS
  t1 = t1
  t2 = t2
  T1 = T1
  T2 = T2
  Threads <- MCThreads
  Types <- MCTypes
  NoType = NoType
  MaxCalls = 2
  MaxClears = 1
CHECK_DEADLOCK FALSE
INVARIANTS
  RefsLive
  PanicNeedsTwoTypes
