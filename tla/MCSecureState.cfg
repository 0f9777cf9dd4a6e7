CONSTANTS
  a1 = a1
  a2 = a2
  a3 = a3
  Addrs = {a1, a2, a3}
  h1 = h1
  h2 = h2
  h3 = h3
  Hellos = {h1, h2, h3}
  Stamp <- Stamps
  Sentences = {n1, n2}
  SessionTtl = 2
  MaxSessions = 2
  PendingTtl = 1
  MaxPending = 1
  ReplayTtl = 2
  MaxReplays = 1
  NonceTtl = 2
  MaxNonces = 2
  Freshness = 1
  MaxTime = 4
  MaxKeys = 3
SYMMETRY Symmetry
SPECIFICATION Spec
INVARIANTS
  Consistent
  NoRepeatInWindow
PROPERTY EndsForAReason
CHECK_DEADLOCK FALSE
