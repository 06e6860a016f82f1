SPECIFICATION PipelineSpec
CONSTANTS
  hl = hl
  by = by
  Exchanges = {hl, by}
  Fee <- MCFee
  Events <- MCEvents
  Answers <- MCAnswers
  Survivals = {10, 90}
  Spreads = {0, 200}
  TTL = 2
  MinSpecific = 2
  MinFit = 1
  MaxRuns = 2
  MaxEvents = 2
INVARIANTS OldOnlyAfterFailure ActionableRestsOnData AlertsAreLogged
