CONSTANTS
  Keys <- MCKeys
  Total <- MCTotal
  Texts <- MCTexts
  Timeout = 2
  MaxFragments = 2
  MaxGroups = 1
  MaxTime = 3
  MaxCalls = 5
  Ttl = 2
  MaxEntries = 3
  Frames <- MCFrames
  Snapshots <- MCSnapshots
  PreserveC = TRUE
  PreserveGid = TRUE
  AlwaysTagSingle = FALSE
  NoValue = NoValue
  Generated = Generated
  StationId = NoValue
  Anonymous = Anonymous
  Address = Address
SPECIFICATION ProcessorSpec
INVARIANTS
  ProcessorConsistent
  OutputsDrawOnTheirGroup
PROPERTIES
  SentOncePerWindow
CHECK_DEADLOCK FALSE
