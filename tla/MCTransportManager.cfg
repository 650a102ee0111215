SPECIFICATION Spec
CONSTANTS
  t1 = t1
  t2 = t2
  u1 = u1
  u2 = u2
  u3 = u3
  Nothing = Nothing
  Tasks <- MCTasks
  Urls <- MCUrls
  Transports <- MCTransports
  Defaults <- MCDefaults
  cache_size = 2
  cache_ttl = 1
  MaxTime = 2
  MaxWins = 2
SYMMETRY MCSymmetry
INVARIANTS
  CountExact
PROPERTY RemovalJustified
