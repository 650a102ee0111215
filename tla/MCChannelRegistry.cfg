SPECIFICATION FairSpec
CONSTANTS
  c1 = c1
  c2 = c2
  c3 = c3
  n1 = n1
  n2 = n2
  Nobody = Nobody
  Callers <- MCCallers
  Names <- MCNames
  Capacity = 1
  MaxBytes <- MCBytes
CHECK_DEADLOCK FALSE
INVARIANTS
  TypeOK
  HalvesConserved
  OnlyRacesPark
  ReadsWhatWasWritten
PROPERTY DropReachesPeer
