CONSTANTS
  Readers = {r1, r2, r3, r4, r5}
  Frames = {frame}
  Capacity = 2
  MaxGeneration = 2
SPECIFICATION FairSpec
INVARIANTS
  Consistent
  NoLostWakeup
  GenerationsInOrder
PROPERTY EveryWaitEnds
