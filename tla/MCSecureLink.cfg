CONSTANTS
  a1 = a1
  a2 = a2
  Addrs = {a1, a2}
  MaxAttempts = 3
  Pings <- ThreePings
  HandshakeTimeout = 1
  ReconnectDelay = 1
  Keepalive = 1
  PeerTimeout = 2
  RefreshInterval = 3
  SessionTtl = 3
  MaxSessions = 2
  PendingTtl = 2
  MaxPending = 2
  ReplayTtl = 3
  MaxReplays = 3
  NonceTtl = 3
  MaxNonces = 4
  Freshness = 1
  MaxTime = 6
  MaxKeys = 3
  MaxDelay = 2
  MaxFaults = 1
SYMMETRY AddrSymmetry
SPECIFICATION Spec
INVARIANTS
  KeysAgree
  DeadSessionsAreLeft
  RecoversInTime
CHECK_DEADLOCK FALSE
