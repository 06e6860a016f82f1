SPECIFICATION Spec
CONSTANTS
  Coins = {btc}
  Engine = engine
  Fallbacks = {f1}
  MaxSize = 1
  ForceRetries = 1
  HeartbeatLimit = 0
  Budget = 1
  FreshFor = 2
  MaxFaults = 0
INVARIANT OneActorPerExit
