SPECIFICATION Spec
CONSTANTS
  Assets = {btc}
  Exchanges = {hl, kc, by}
  Directions = {"long"}
  Prices = {100, 103}
  MaxOpen = 2
  StopLoss = 2
  TakeProfit = 13
  TrailActivate = 2
  TrailDistance = 2
  TimeoutHours = 1
  Legacy <- MCLegacy
  FirstId = 1
  Faults = {"lost", "torn", "unreadable"}
  MaxLag = 0
  MaxClock = 1
  MaxId = 3
  MaxFaultyId = 1
INVARIANTS EachPositionListedOnce AtMostMaxOpen OnePositionPerMarket FundingCoversHolding
PROPERTY RestartInvisible
