SPECIFICATION FairSpec
CONSTANTS
  Coins = {btc, eth}
  MaxConcurrent = 1
  LossLimit = 2
  ManyLosses = 3
  MaxLoss = 9
  ScanEvery = 2
  OrphanAge = 3
  StaleAfter = 2
  LedgerTail = 2
  MaxLives = 3
  MaxFaults = 1
INVARIANTS BreakerHolds AtMostMaxConcurrent
PROPERTY TrackingConverges
