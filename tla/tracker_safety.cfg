SPECIFICATION LiveSpec
CONSTANTS
  Outpoint <- MCOutpoint
  Value <- MCValue
  NoTip = NoTip
  Block <- MCBlock
  Genesis = "g"
  Parent <- MCParent
  Height <- MCHeight
  Branch <- MCBranch
  Txs <- MCTxs
  Ledger <- MCLedger
  BlocksPerPart = 3
  NoBlock = NoBlock
  Base = "a1"
  MaxReorgDepth = 1
  ZmqHwm = 2
  Env = {"rpc_error", "crash", "base_reorg"}
INVARIANTS
  TypeOK
  IndexMatchesTip
  UndoLogExact
  NoHoles
PROPERTIES
  AppliesOnTip
  FeesExact
  CaughtUpExact
  ImplementsIndex
