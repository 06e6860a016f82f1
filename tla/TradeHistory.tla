----------------------------- MODULE TradeHistory -----------------------------
(***************************************************************************)
(* What the paper stack derives from its append-only trade history: the    *)
(* open positions, the consumed signals, the paper account and the state   *)
(* of the circuit breakers.  A history is the set of its readable records; *)
(* n is the line a record stands on.                                       *)
(***************************************************************************)
EXTENDS Integers, FiniteSets

CONSTANTS LossLimit,        \* max_consecutive_losses
          LossWindows,      \* [span, most]: the hourly and the daily loss, a loss being one unit
          PeakLimit,        \* the gain whose peak is 20% above the fixed balance of the check
          MinGap            \* min_time_between_trades_seconds

ASSUME BreakersAssumption ==
  /\ LossLimit \in Nat \ {0} /\ PeakLimit \in Nat \ {0} /\ MinGap \in Nat
  /\ \A w \in LossWindows : w.span \in Nat /\ w.most \in Nat \ {0}

Opens(h)  == {l \in h : l.status = "OPEN"}
Closes(h) == {l \in h : l.status = "CLOSED"}
Losses(h) == {l \in Closes(h) : l.pnl < 0}

\* Mutant: a CLOSED record does not remove its position.
ReplayOpens(h) == {o.pos : o \in Opens(h)}
Replay(h) == {o.pos : o \in {x \in Opens(h) : \A c \in Closes(h) : c.pos.id # x.pos.id}}

Consumed(h) == {l.pos.sig : l \in h}

\* The run of losses at the end of the closed trades.
ConsecutiveLosses(h) ==
  Cardinality({c \in Losses(h) : \A d \in Closes(h) : d.pnl >= 0 => d.n < c.n})

LossSince(h, from) == Cardinality({c \in Losses(h) : c.at >= from})

\* The account after the first k lines, every trade moving it by one unit.
Balance(h, k) ==
  Cardinality({c \in Closes(h) : c.n <= k /\ c.pnl > 0}) - Cardinality({c \in Losses(h) : c.n <= k})

\* The balance that the drawdown is taken from the peak of is a literal: the
\* check compares the peak with a constant.
PeakTooHigh(h) == \E c \in Closes(h) : Balance(h, c.n) >= PeakLimit

LossesTooMany(h, now) ==
  \/ ConsecutiveLosses(h) >= LossLimit
  \/ \E w \in LossWindows : LossSince(h, now - w.span) >= w.most

\* last_trade_timestamp: the latest record, whatever its status.
LastTradeAt(h) == CHOOSE t \in {l.at : l \in h} : \A l \in h : l.at <= t

TooSoon(h, now) == h # {} /\ now - LastTradeAt(h) < MinGap

\* The breakers are computed from the history each time they are asked for.
Trips(h, now) == LossesTooMany(h, now) \/ PeakTooHigh(h) \/ TooSoon(h, now)
=============================================================================
