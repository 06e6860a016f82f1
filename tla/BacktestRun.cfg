SPECIFICATION Spec
CONSTANTS
  Coins = {a, b}
  Candles <- MCCandles
  Rates <- MCRates
  Bars = 3
  Engines = {"plain", "regime"}
  MinFunding = 8
  HighEntry = 16
  HighExit = 16
  StopLoss <- MCStopLoss
  TakeProfit = 2
  TrailActivate = 1
  TrailDistance = 1
  TimeoutHours = 2
  Cost = 1
INVARIANTS StopBoundsLoss FundingOnce
PROPERTY PointBarAsLive
CHECK_DEADLOCK FALSE
