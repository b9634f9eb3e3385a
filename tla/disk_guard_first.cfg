SPECIFICATION Spec
CONSTANTS
  Net <- MCNet
  Size <- MCSize
  Tip <- MCTip
  Step = 10
  HeightMax = 999
  BytesMax = 999
  Disk = 25
  MinFree = 10
  MaxTears = 0
  MaxStarts = 2
INVARIANTS
  SteadyGrowthStarts
CHECK_DEADLOCK FALSE
