SPECIFICATION FairLiveSpec
CONSTANTS
  Outpoint <- MCOutpoint
  Value <- MCValue
  NoTip = NoTip
  Block <- MCBlock
  Genesis = "g"
  Parent <- MCParent
  Height <- MCHeight
  Branch <- MCBranch
  Txs <- MCTxs
  Ledger <- MCLedger
  BlocksPerPart = 2
  NoBlock = NoBlock
  Base = "g"
  MaxReorgDepth = 2
  ZmqHwm = 1
  Env = {"crash"}
PROPERTIES
  CatchesUp
