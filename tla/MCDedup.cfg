CONSTANTS
  Keys = {k1, k2, k3}
  Ttl = 2
  MaxEntries = 2
  MaxTime = 4
  MaxCalls = 6
SYMMETRY KeySymmetry
SPECIFICATION Spec
INVARIANTS
  Consistent
PROPERTIES
  NoRepeatInWindow
  NoFalseSuppression
CHECK_DEADLOCK FALSE
