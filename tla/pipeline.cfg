SPECIFICATION FairSpec
CONSTANTS
  Worker = {w1, w2}
  Start = 0
  End = 7
  ReorderHigh = 1
  ChannelDepth = 1
  BlocksPerPart = 3
  Scenarios <- MCScenarios
INVARIANTS
  TypeOK
  EachHeightOnce
  BufferBound
  PartFilesComplete
  FailsOnlyIfTripped
PROPERTIES
  PlainTerminates
