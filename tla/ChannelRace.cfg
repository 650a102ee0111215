SPECIFICATION Spec
CONSTANTS
  c1 = c1
  c2 = c2
  c3 = c3
  n1 = n1
  n2 = n2
  Nobody = Nobody
  Callers <- MCPair
  Names <- MCOneName
  Capacity = 1
  MaxBytes <- MCBytes
CHECK_DEADLOCK FALSE
INVARIANT SecondCallerPaired
