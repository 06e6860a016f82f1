SPECIFICATION FairSpec
CONSTANTS
  Procs = {p}
  Assets = {a, b, c}
  a = a
  b = b
  c = c
  Past <- MCPast
  LossLimit = 1
  LossWindows <- MCLossWindows
  PeakLimit = 2
  MinGap = 0
  MaxOpen = 2
  MaxSignalAge = 1
  DuplicateWindow = 1
  Timeout = 1
  ShownMax = 2
  MaxNow = 1
  MaxSignals = 3
  MaxTrades = 3
  MaxFaults = 1
INVARIANTS TypeOK EachTradeOnce OpenWithinLimits
PROPERTIES EntryIsVetted ExitsComplete
CHECK_DEADLOCK FALSE
