-------------------------------- MODULE Backtest --------------------------------
(***************************************************************************)
(* The event-driven backtester: scripts/backtest/engine.py with the signal  *)
(* of strategies/funding_arb.py, and engine_regime_exit.py, a copy that also *)
(* closes everything when the market leaves HIGH_FUNDING.  Prices are ticks  *)
(* and a return on equity (ROE) is the distance from the entry price, for a  *)
(* position of one unit; the order of returns is that of the quotients.      *)
(***************************************************************************)
EXTENDS Integers, FiniteSets, FiniteSetsExt, Functions

CONSTANTS Coins,
          Candles,        \* the bars of an asset: [low, close, high]
          Rates,          \* funding rates as the cost model takes them: of eight hours
          Bars,           \* bound: hourly timestamps
          Engines,        \* "plain", "regime": the file that is run
          MinFunding,     \* TIER2_MIN_FUNDING, as a rate
          HighEntry, HighExit,  \* thresholds of HIGH_FUNDING, as rates
          StopLoss, TakeProfit, TrailActivate, TrailDistance, TimeoutHours,
          Cost            \* of an entry, and of an exit

ASSUME BacktestAssumption ==
  /\ IsFiniteSet(Coins) /\ Coins # {}
  /\ Candles \subseteq [low: Int, close: Int, high: Int]
  /\ \A k \in Candles : k.low <= k.close /\ k.close <= k.high
  /\ Rates \subseteq Int /\ Bars \in Nat
  /\ \A rate \in Rates : rate % 8 = 0  \* the unit: an hour's share is a whole number of it
  /\ Engines \subseteq {"plain", "regime"}
  /\ {MinFunding, HighEntry, HighExit, StopLoss, TakeProfit, TrailActivate, TrailDistance, Cost} \subseteq Int
  /\ TimeoutHours \in Nat \ {0}
  /\ StopLoss < 0 /\ TakeProfit > 0 /\ TrailDistance >= 0

VARIABLES engine,     \* which of the two files runs
          phase,      \* "read", "regime", "exits", "entries", "done"
          bar,        \* number of the timestamp
          prices,     \* state.prices: the assets that have a candle now
          fundingRates, \* state.funding_rates: the latest known rates
          positions,  \* self.positions
          closed,     \* self.closed_trades
          capital,    \* gains and losses since initial_capital
          regime,     \* self.current_regime
          earned, missed, \* history: rates of all hours held; of those without a candle
          opened      \* history: entries

market == <<prices, fundingRates>>
book == <<positions, closed, capital>>
history == <<earned, missed, opened>>
vars == <<engine, phase, bar, market, book, regime, history>>

Init ==
  /\ engine \in Engines
  /\ phase = "read" /\ bar = 0
  /\ prices = [c \in {} |-> 0] /\ fundingRates = [c \in {} |-> 0]
  /\ positions = [c \in {} |-> 0] /\ closed = {} /\ capital = 0
  /\ regime = "HIGH_FUNDING"
  /\ earned = 0 /\ missed = 0 /\ opened = 0

Held == DOMAIN positions
Priced == DOMAIN prices
Rated == DOMAIN fundingRates

-----------------------------------------------------------------------------
(* The arithmetic of a position.                                           *)

Roe(p, price) == IF p.direction = "long" THEN price - p.entry ELSE p.entry - price
\* The extremes of the bar as the position sees them.
BestRoe(p, k) == Roe(p, IF p.direction = "long" THEN k.high ELSE k.low)
WorstRoe(p, k) == Roe(p, IF p.direction = "long" THEN k.low ELSE k.high)

Peak(p, k) == IF BestRoe(p, k) > p.peak THEN BestRoe(p, k) ELSE p.peak
Threshold(p, k) == Peak(p, k) - TrailDistance

RateOf(known, c) == IF c \in DOMAIN known THEN known[c] ELSE 0
\* The rate as its sign is for the position.
Signed(p, rate) == IF p.direction = "short" THEN rate ELSE -rate
\* The share of the hours in a rate, which funding_earned takes for one of 8 h.
FundingEarned(rate, hours) == (rate * hours) \div 8
Funding(p, rate) == FundingEarned(Signed(p, rate), 1)
HourFunding(c) == Funding(positions[c], RateOf(fundingRates, c))

Stopped(p, k) == WorstRoe(p, k) <= StopLoss
Expired(p) == bar - p.entered >= TimeoutHours
Profits(p, k) == BestRoe(p, k) >= TakeProfit
Trails(p, k) == Peak(p, k) >= TrailActivate /\ WorstRoe(p, k) <= Threshold(p, k)

\* Mutants: the timeout, the take-profit asked first.
TimeoutFirst(p, k) ==
  IF Expired(p) THEN "TIMEOUT" ELSE IF Stopped(p, k) THEN "STOP_LOSS" ELSE IF Profits(p, k) THEN "TAKE_PROFIT"
  ELSE IF Trails(p, k) THEN "TRAILING_STOP" ELSE "HOLD"
ProfitFirst(p, k) ==
  IF Profits(p, k) THEN "TAKE_PROFIT" ELSE IF Stopped(p, k) THEN "STOP_LOSS" ELSE IF Expired(p) THEN "TIMEOUT"
  ELSE IF Trails(p, k) THEN "TRAILING_STOP" ELSE "HOLD"

\* The first rule that applies to a position in a bar.
ExitReason(p, k) ==
  IF Stopped(p, k) THEN "STOP_LOSS" ELSE IF Expired(p) THEN "TIMEOUT" ELSE IF Profits(p, k) THEN "TAKE_PROFIT"
  ELSE IF Trails(p, k) THEN "TRAILING_STOP" ELSE "HOLD"

\* The return at the exit price: the level of the rule, or the close.
ExitRoe(p, k, reason) ==
  IF reason = "STOP_LOSS" THEN StopLoss ELSE IF reason = "TAKE_PROFIT" THEN TakeProfit
  ELSE IF reason = "TRAILING_STOP" THEN Threshold(p, k) ELSE Roe(p, k.close)

Trade(c, p, reason, gross, funding) ==
  [asset |-> c, entered |-> p.entered, exited |-> bar, reason |-> reason, gross |-> gross,
   net |-> gross - 2 * Cost + funding]

\* del self.positions[pos.asset] for every trade closed.
StillOpen(trades) == Restrict(positions, Held \ {t.asset : t \in trades})

\* _close_position for each of the trades.
Close(trades) ==
  /\ closed' = closed \cup trades
  /\ capital' = capital + SumFunction([t \in trades |-> t.net])

-----------------------------------------------------------------------------
(* The steps of a bar.                                                     *)

\* A timestamp is one of some asset; the others may lack a candle there.
PricesAt == UNION {[D -> Candles] : D \in (SUBSET Coins) \ {{}}}
\* A rate, once there is one, is followed by later ones.
RatesAt == UNION {[D -> Rates] : D \in {E \in SUBSET Coins : Rated \subseteq E}}

\* The rates of the hour read, summed over some of the positions.
Accruing(assets) == SumFunction([c \in assets |-> Signed(positions[c], RateOf(fundingRates', c))])

ReadBar ==
  /\ phase = "read" /\ bar < Bars /\ bar' = bar + 1
  /\ prices' \in PricesAt /\ fundingRates' \in RatesAt
  /\ phase' = IF engine = "regime" THEN "regime" ELSE "exits"
  /\ earned' = earned + Accruing(Held) /\ missed' = missed + Accruing(Held \ DOMAIN prices')
  /\ UNCHANGED <<engine, book, regime, opened>>

Size(r) == IF r < 0 THEN -r ELSE r
MaxRate == Max({Size(fundingRates[c]) : c \in Rated})

\* _update_regime, with a dead zone between HighExit and HighEntry.
Updated ==
  IF Rated = {} THEN regime
  ELSE IF regime = "HIGH_FUNDING"
       THEN IF MaxRate < HighExit THEN "BELOW_HIGH" ELSE regime
       ELSE IF MaxRate >= HighEntry THEN "HIGH_FUNDING" ELSE regime

\* The positions _check_regime_exit closes.
RegimeCloses == IF Updated = "HIGH_FUNDING" THEN {} ELSE Held \cap Priced

CheckRegimeExit ==
  LET trade(c) == Trade(c, positions[c], "REGIME_EXIT", Roe(positions[c], prices[c].close),
                        HourFunding(c))
      trades == {trade(c) : c \in RegimeCloses}
  IN  /\ phase = "regime" /\ phase' = "exits" /\ regime' = Updated
      /\ Close(trades) /\ positions' = StillOpen(trades)
      /\ UNCHANGED <<engine, bar, market, history>>

Reason(c) == IF c \in Priced THEN ExitReason(positions[c], prices[c]) ELSE "HOLD"
Exiting == {c \in Held : Reason(c) # "HOLD"}
ExitTrade(c) ==
  Trade(c, positions[c], Reason(c), ExitRoe(positions[c], prices[c], Reason(c)), HourFunding(c))

\* Mutant: the hour of the exit is paid twice.
AccruedTwice == SumFunction([c \in Held \cap Priced |-> HourFunding(c)])
\* The funding of the positions that stay open.
Accrued == SumFunction([c \in (Held \cap Priced) \ Exiting |-> HourFunding(c)])

WithPeaks(open) ==
  [c \in DOMAIN open |-> IF c \in Priced THEN [open[c] EXCEPT !.peak = Peak(open[c], prices[c])] ELSE open[c]]

CheckExits ==
  LET trades == {ExitTrade(c) : c \in Exiting}
  IN  /\ phase = "exits" /\ phase' = "entries"
      /\ closed' = closed \cup trades /\ positions' = WithPeaks(StillOpen(trades))
      /\ capital' = capital + SumFunction([t \in trades |-> t.net]) + Accrued
      /\ UNCHANGED <<engine, bar, market, regime, history>>

\* The assets a signal may be about; which one is best depends on volumes too.
Candidates == {c \in Rated \cap Priced : Size(fundingRates[c]) >= MinFunding} \ Held

Opened(c) == [direction |-> IF fundingRates[c] > 0 THEN "short" ELSE "long", entry |-> prices[c].close,
              entered |-> bar, peak |-> 0]

OpenPosition ==
  \E c \in Candidates :
    /\ phase = "entries" /\ phase' = "read"
    /\ positions' = [d \in Held \cup {c} |-> IF d = c THEN Opened(c) ELSE positions[d]]
    /\ capital' = capital - Cost /\ opened' = opened + 1
    /\ UNCHANGED <<engine, bar, market, closed, regime, earned, missed>>

\* No signal, or one for an asset that is held.
NoEntry ==
  /\ phase = "entries" /\ phase' = "read"
  /\ UNCHANGED <<engine, bar, market, book, regime, history>>

\* What is still open is closed at the last bar, if it has a candle there.
ForceClose ==
  LET trades == {Trade(c, positions[c], "END_OF_BACKTEST", Roe(positions[c], prices[c].close), 0)
                 : c \in Held \cap Priced}
  IN  /\ phase = "read" /\ bar = Bars /\ phase' = "done"
      /\ Close(trades) /\ positions' = StillOpen(trades)
      /\ UNCHANGED <<engine, bar, market, regime, history>>

Next == ReadBar \/ CheckRegimeExit \/ CheckExits \/ OpenPosition \/ NoEntry \/ ForceClose

Spec == Init /\ [][Next]_vars

-----------------------------------------------------------------------------
(* Properties.                                                             *)

Positions == [direction: {"long", "short"}, entry: Int, entered: Nat, peak: Int]
Reasons == {"STOP_LOSS", "TIMEOUT", "TAKE_PROFIT", "TRAILING_STOP", "REGIME_EXIT", "END_OF_BACKTEST"}
Trades == [asset: Coins, entered: Nat, exited: Nat, reason: Reasons, gross: Int, net: Int]
Partial(S) == UNION {[D -> S] : D \in SUBSET Coins}

TypeOK ==
  /\ engine \in Engines /\ phase \in {"read", "regime", "exits", "entries", "done"} /\ bar \in 0..Bars
  /\ prices \in Partial(Candles) /\ fundingRates \in Partial(Rates)
  /\ Held \subseteq Coins /\ \A c \in Held : positions[c] \in Positions /\ positions[c].entered <= bar
  /\ closed \subseteq Trades /\ \A t \in closed : t.entered < t.exited \/ t.reason = "END_OF_BACKTEST"
  /\ regime \in {"HIGH_FUNDING", "BELOW_HIGH"}
  /\ capital \in Int /\ earned \in Int /\ missed \in Int /\ opened \in Nat

\* No trade that ends by the rules of a position loses more than the stop,
\* whatever else its bar triggers; only the regime exit, which comes first, may.
StopBoundsLoss == \A t \in closed : t.reason # "REGIME_EXIT" => t.gross >= StopLoss

\* Trades of one asset, the open one included, never overlap in time.
OneAtATime ==
  /\ \A t, u \in closed : t.asset = u.asset /\ t # u => t.exited <= u.entered \/ u.exited <= t.entered
  /\ \A t \in closed : t.asset \in Held => t.exited <= positions[t.asset].entered

\* What the trades and the entries leave of capital: the funding paid.
FundingPaid == capital - SumFunction([t \in closed |-> t.gross - 2 * Cost]) + opened * Cost
Settled == phase \in {"entries", "read", "done"}

\* Money is conserved: each hour in which an asset is held and has a candle pays
\* an eighth of its rate once, accrued or with the closing trade, and nothing
\* else does.  Hours without a candle pay nothing: _check_exits skips them.
FundingOnce == Settled => 8 * FundingPaid = earned - missed

\* A position that outlives its timeout has no candle now.
NoOverstay == phase = "entries" => \A c \in Held \cap Priced : bar - positions[c].entered < TimeoutHours

\* The first trigger of the live engine for a position seen at one price.
LiveTrigger(roe, peak, hours) ==
  IF roe <= StopLoss THEN "STOP_LOSS"
  ELSE IF hours >= TimeoutHours THEN "TIMEOUT"
  ELSE IF roe >= TakeProfit THEN "TAKE_PROFIT"
  ELSE IF peak >= TrailActivate /\ roe <= peak - TrailDistance THEN "TRAILING_STOP"
  ELSE "HOLD"

\* In a bar that is a single price the exit is the one the live engine takes
\* (engine.py: "Exit checks (matching live engine priority)").
PointBarAsLive ==
  [][phase = "exits" =>
       \A c \in Held \cap Priced :
         LET p == positions[c]  k == prices[c]  roe == Roe(p, k.close)
             live == LiveTrigger(roe, IF roe > p.peak THEN roe ELSE p.peak, bar - p.entered)
         IN  k.low = k.high =>
               IF live = "HOLD" THEN c \in DOMAIN positions'
               ELSE \E t \in closed' \ closed : t.asset = c /\ t.reason = live]_vars

\* While the market is below HIGH_FUNDING only what this very bar opened, or
\* what has no candle, is held.
BelowHighIsFlat ==
  phase = "read" /\ engine = "regime" /\ regime = "BELOW_HIGH" =>
    \A c \in Held \cap Priced : positions[c].entered = bar

\* _compute_result, as far as the trades and the capital go.
Report == [final |-> capital, total |-> Cardinality(closed), wins |-> Cardinality({t \in closed : t.net > 0}),
           net |-> SumFunction([t \in closed |-> t.net])]

\* The report: final_capital is the sum of the trades' net results.  Violated:
\* an entry is paid when it is opened and again in its trade, and funding of
\* all hours but the last is missing from the trade.
CapitalIsNet == phase = "done" /\ Held = {} => Report.final = Report.net

\* A position earns funding in every hour it is held.  Violated: an hour for
\* which its asset has no candle is not paid then, nor later.
EveryHourPaid == Settled => 8 * FundingPaid = earned

\* funding_arb.py: the rates are "per-hour (Hyperliquid ctx['funding']), not
\* per-8h", so that an hour earns a whole rate.  Violated, with no candle
\* missing: funding_earned divides by eight what is already of an hour.
FundingPerHour == Settled /\ missed = 0 => FundingPaid = earned

\* Each fill is at a price of its bar ("Exit at stop-loss level, not close
\* price").  Violated when a bar lies wholly beyond the level.
FillsInBar ==
  [][\A t \in closed' \ closed :
       LET p == positions[t.asset]  k == prices[t.asset]
       IN  WorstRoe(p, k) <= t.gross /\ t.gross <= BestRoe(p, k)]_vars

\* A trailing stop follows a peak that was there before the bar.  Violated: the
\* high of the same bar raises the peak, though its low may have come first.
TrailsEarlierPeak ==
  [][\A t \in closed' \ closed :
       t.reason = "TRAILING_STOP" => t.gross <= positions[t.asset].peak - TrailDistance]_vars

\* Nothing is opened below HIGH_FUNDING.  Violated: entries do not ask for the
\* regime, so what the regime exit closes is opened again in the same bar.
NoEntryBelowHigh ==
  [][opened' # opened /\ engine = "regime" => regime = "HIGH_FUNDING"]_vars
=============================================================================
