CONSTANTS
  MaxLineBytes = 1
  QueueLines = 2
  MaxSentences = 2
  MaxChunk = 2
  MaxBytes = 4
  MaxOpenings = 2
  MaxFailures = 1
SPECIFICATION SerialSpec
INVARIANTS
  FramesAsSplit
  Accounted
PROPERTIES
  NothingLingers
