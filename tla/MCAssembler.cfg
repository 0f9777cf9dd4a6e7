CONSTANTS
  Keys <- MCKeys
  Total <- MCTotal
  Texts = {x, y}
  Timeout = 2
  MaxFragments = 3
  MaxGroups = 2
  MaxTime = 3
  MaxCalls = 5
SYMMETRY TextSymmetry
SPECIFICATION Spec
INVARIANTS
  Consistent
  NoStaleCompletion
PROPERTIES
  EndsAreReported
  OnlyProgressRenews
  EvictsLongestWaiting
  Reassembles
CHECK_DEADLOCK FALSE
