CONSTANTS
  t1 = t1
  t2 = t2
  t3 = t3
  Sources = {s1, s2}
  InboxCapacity = 1
  Capacity = 1
  Targets = {t1, t2, t3}
  Endpoint <- SomeEndpoints
  Batches <- SomeBatches
  MaxFrames = 2
  MaxGeneration = 1
SPECIFICATION CountedFairSpec
INVARIANTS
  Consistent
  NoOrphans
  StatisticsAddUp
PROPERTIES
  Delivers
  FramesAreHandled
  EndsTogether
CHECK_DEADLOCK FALSE
