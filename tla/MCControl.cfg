CONSTANTS
  o1 = o1
  o2 = o2
  Operators = {o1, o2}
  BadTable <- MCBadTable
  DeepTable <- MCDeepTable
  Disabled <- MCDisabled
  Others <- MCOthers
  MaxRequestBytes = 1
  MaxStarts = 2
  MaxCommands = 2
  MaxEvents = 4
SPECIFICATION Spec
INVARIANTS
  ToldTheTruth
  StaysReachable
PROPERTIES
  NoLostUpdate
  EverythingEnds
CHECK_DEADLOCK FALSE
