------------------------------ MODULE MCBacktest ------------------------------
(* Instance of Backtest: levels one tick apart, so that a bar may reach any.   *)
EXTENDS Backtest

Bar(l, c, h) == [low |-> l, close |-> c, high |-> h]
MCCandles == {Bar(1, 1, 1), Bar(-1, 1, 1), Bar(1, 2, 3), Bar(0, 0, 0), Bar(0, 1, 2), Bar(3, 3, 3)}
MCRates == {-8, 16}
MCStopLoss == -2
=============================================================================
