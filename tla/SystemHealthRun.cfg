SPECIFICATION FairSpec
CONSTANTS
  Kinds = {integrity}
  CoreKinds = {integrity}
  Controls <- MCControls
  LowToMedium = 2
  MediumToHigh = 2
  EscalationWindow = 1
  ShownMax = 1
  CriticalCooldown = 2
  DegradedCooldown = 3
  AntiFlapWindow = 4
  AntiFlapLock = 3
  AntiFlapTransitions = 3
  HistoryMax = 2
  RepeatCount = 2
  MaxIncidents = 2
  MaxEdits = 1
  MaxCrashes = 1
INVARIANTS AuditReplays
PROPERTIES CriticalStopsWhileShown CriticalCoolsDown HealthyIsEarned RecoversToNormal
