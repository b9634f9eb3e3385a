SPECIFICATION LiveSpec
CONSTANTS
  Outpoint <- MCOutpoint
  Value <- MCValue
  NoTip = NoTip
  Block <- MCBlock
  Genesis = "g"
  Parent <- MCParent
  Height <- MCHeight
  Branch <- MCBranch
  Txs <- MCTxs
  Ledger <- MCLedger
  BlocksPerPart = 2
  NoBlock = NoBlock
  Base = "g"
  MaxReorgDepth = 2
  ZmqHwm = 2
  Env = {"deep_reorg"}
PROPERTIES
  CaughtUpExact
