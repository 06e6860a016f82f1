SPECIFICATION FairSpec
CONSTANTS
  k = k
  g = g
  Cycles = {k}
  Watched = {g}
  Deployments <- MCOneScheduler
  Coins = {a, b}
  MaxConcurrent = 1
  LossLimit = 2
  MaxRetries = 1
  LockTTL = 1
  StaleAfter = 1
  EntryCooldown = 1
  CloseCooldown = 1
  Roe <- MCRoe
  StopLoss <- MCStopLoss
  TakeProfit = 2
  TrailActivate = 1
  TrailDistance = 1
  SlippageRoe = 1
  MaxFaults = 1
INVARIANTS ExposureBounded BreakerBoundsLosses
PROPERTIES HaltIsFinal StopIsActedOn
CHECK_DEADLOCK FALSE
