SPECIFICATION FairSpec
CONSTANTS
  Worker = {w1, w2}
  Start = 0
  End = 8
  ReorderHigh = 1
  ChannelDepth = 1
  BlocksPerPart = 3
  Scenarios <- StaleOnly
PROPERTIES
  Terminates
