CONSTANTS
  Names = {n1, n2, n3, n4}
  Ttl = 2
  MaxEntries = 2
  SweepEvery = 2
  OpsPerSweep = 3
  MaxTime = 5
  MaxQueue = 6
SYMMETRY NameSymmetry
SPECIFICATION Spec
INVARIANTS
  Consistent
  NoneOverstays
CHECK_DEADLOCK FALSE
