SPECIFICATION FairLiveSpec
CONSTANTS
  Outpoint <- MCOutpoint
  Value <- MCValue
  NoTip = NoTip
  Block <- SmallBlock
  Genesis = "g"
  Parent <- SmallParent
  Height <- SmallHeight
  Branch <- SmallBranch
  Txs <- SmallTxs
  Ledger <- SmallLedger
  BlocksPerPart = 2
  NoBlock = NoBlock
  Base = "a1"
  MaxReorgDepth = 2
  ZmqHwm = 1
  Env = {"rpc_error", "parent_error", "crash", "crash_apply", "crash_disconnect", "deep_reorg", "race", "base_reorg", "gap", "sink_error"}
INVARIANTS
  RowsInTheirPart
PROPERTIES
  CatchUpTerminates
