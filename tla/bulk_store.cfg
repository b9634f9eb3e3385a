SPECIFICATION Spec
CONSTANTS
  Outpoint <- MCOutpoint
  Value <- MCValue
  NoTip = NoTip
  Tip = 3
  Body <- MCBody
  Ledger <- MCLedger
  CacheEntries = 2
INVARIANTS
  CacheAgrees
  CacheTransparent
  CacheBound
  ReplayConverges
  MissingOnlyFromBelow
  RepeatMissesAll
