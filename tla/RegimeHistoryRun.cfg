SPECIFICATION HistorySpec
CONSTANTS
  Assets = {a}
  Exchanges = {hl, by}
  Backward = {by}
  PageSize = 1
  Window = 2
  MaxNow = 4
INVARIANTS TransitionsStayTrue ForwardHasNoHole
PROPERTY BackfillEnds
