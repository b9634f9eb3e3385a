SPECIFICATION Spec
CONSTANTS
  Entities <- MCEntities
  Ddl <- MCDdl
  RowsPer <- MCRowsPer
  Tip = 2
  BlocksPerPart = 2
  BatchSize = 2
  MaxPasses = 2
  MaxLoads = 2
INVARIANTS
  PartsAgree
  FirstLoadExact
  LoadsAddUp
CHECK_DEADLOCK FALSE
