SPECIFICATION FairSpec
CONSTANTS
  a = a
  b = b
  NoAsset = none
  Null = null
  Assets = {a, b}
  Markets <- MCMarkets
  ExtremeShare = 10
  HighApy = 800
  ModerateApy = 75
  ExtremeExit = 5
  HighExit = 80
  ModerateExit = 60
  MaxOpen = 1
  MaxLog = 4
  MaxRotations = 1
  MaxFaults = 1
INVARIANTS InOrderOnce NeverBelowMarket
PROPERTY EveryLineServed
