SPECIFICATION Spec
CONSTANTS
  Net <- MCNet
  Size <- MCSize
  Tip <- MCTip
  Step = 10
  HeightMax = 999
  BytesMax = 999
  Disk = 25
  MinFree = 10
  MaxTears = 1
  MaxStarts = 2
INVARIANTS
  LossBounded
  KeptBySomeone
  SteadyGrowthStartsFromTwo
  ProjectsAtLeastMean
CHECK_DEADLOCK FALSE
