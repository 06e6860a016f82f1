--------------------------- MODULE MCSignalPipeline ---------------------------
EXTENDS SignalPipeline

CONSTANTS hl, by

MCFee == [x \in {hl, by} |-> IF x = hl THEN 5 ELSE 8]
\* APYs below and above the gates; an event of each exchange and regime.
MCEvents ==
  {[exch |-> hl, regime |-> "HIGH_FUNDING", apy |-> 20000],
   [exch |-> by, regime |-> "HIGH_FUNDING", apy |-> 1507],
   [exch |-> by, regime |-> "HIGH_FUNDING", apy |-> 1508],
   [exch |-> hl, regime |-> "LOW_FUNDING",  apy |-> 20000]}
\* No list, a leader that does not quote the asset, a thin and a deep market.
MCAnswers ==
  {[own |-> 0, top |-> 0], [own |-> 0, top |-> 9], [own |-> 1, top |-> 1], [own |-> 8, top |-> 9]}
===============================================================================
