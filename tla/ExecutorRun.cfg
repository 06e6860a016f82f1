SPECIFICATION Spec
CONSTANTS
  Coins = {btc, eth, sol}
  MaxConcurrent = 1
  LossLimit = 2
  DailyLossLimit = 10
  Losses = {4, 10}
  MaxDay = 1
  MaxTrades = 4
  MaxFaults = 2
INVARIANTS OwnWithinLimit BreakerStopsOrders
PROPERTY DailyLimitHolds
