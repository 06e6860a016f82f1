SPECIFICATION FairSpec
CONSTANTS
  Coins = {btc}
  Engine = engine
  Fallbacks = {f1}
  MaxSize = 2
  ForceRetries = 2
  HeartbeatLimit = 0
  Budget = 1
  FreshFor = 1
  MaxFaults = 2
INVARIANT RecordedOnceAndFlat
PROPERTIES FallbackFlattens EngineFlattens
