---------------------------- MODULE SignalPipeline ----------------------------
(***************************************************************************)
(* How the live demo scores a regime transition: process of                *)
(* src/pipeline/signal_filter.py with the composite scorer, the duration   *)
(* predictor, the liquidity scorer and the exchange adapters.  Events are  *)
(* processed one after the other, but a score is put together over three   *)
(* awaits; what it rests on was read at different times, from an exchange  *)
(* cache of which parts may be old or missing.                             *)
(*                                                                         *)
(* Volumes are represented by their decimal logarithm, since that is what  *)
(* the liquidity score compares; percentages are integers.                 *)
(***************************************************************************)
EXTENDS Integers, FiniteSets, FiniteSetsExt

CONSTANTS Exchanges,
          Fee,             \* fee_rate_round_trip of an exchange, in 1/100 %
          Events,          \* events handled: exchange, regime, max_apy (1/100 %)
          Answers,         \* ticker lists an exchange may answer with
          Survivals,       \* survival probabilities a fit may give, in %
          Spreads,         \* spreads between exchanges, in %
          TTL,             \* _CACHE_TTL_SECONDS, in ticks
          MinSpecific,     \* _MIN_SAMPLES_SPECIFIC
          MinFit,          \* _MIN_SAMPLES_FIT
          MaxRuns,         \* bound: durations on record
          MaxEvents        \* bound: events of a run

\* A ticker list is known by the asset's own ticker and its largest one: 0, no
\* such ticker.
Tickers == [own: Nat, top: Nat]

ASSUME PipelineAssumption ==
  /\ Fee \in [Exchanges -> Nat]
  /\ Events \subseteq [exch: Exchanges, regime: {"HIGH_FUNDING", "LOW_FUNDING"}, apy: Nat]
  /\ Answers \subseteq Tickers /\ \A a \in Answers : a.own <= a.top
  /\ Survivals \subseteq 0..100 /\ Spreads \subseteq Nat
  /\ TTL \in Nat \ {0} /\ MinFit \in Nat \ {0} /\ MinSpecific >= MinFit
  /\ IsFiniteSet(Exchanges) /\ MaxRuns \in Nat /\ MaxEvents \in Nat

VARIABLES cache,     \* _cache and, as an age, _cache_time
          job,       \* the event under way; overdue is history: exchanges whose tickers
             \* were too old for the score, with no fetch that had just failed
          next,      \* number of the next event
          rows,      \* signal_log
          alerts     \* events alerted on Telegram

pipelineVars == <<cache, job, next, rows, alerts>>

\* Nothing was fetched yet.
NoCache == [known |-> FALSE, own |-> 0, top |-> 0, age |-> 0]
Idle == [stage |-> "idle", event |-> {}, runs |-> 0, survival |-> 0, overdue |-> {},
         liquidity |-> 0, spread |-> {}, actionable |-> FALSE]
Stages == {"idle", "liquidity", "refresh", "spread", "log", "alert"}

-----------------------------------------------------------------------------
(* DurationPredictor.predict.                                              *)

\* The durations on record for asset and regime, or, when they are too few,
\* those of the regime for all assets.
Used(own, pooled) == IF own < MinSpecific THEN pooled ELSE own

\* Mutant: a curve is fitted to any number of durations.
EstimatesAny(n) == Survivals
\* Too few durations give the conservative estimate.
Estimates(n) == IF n < MinFit THEN {0} ELSE Survivals

-----------------------------------------------------------------------------
(* LiquidityScorer.                                                        *)

TooOld(c, x) == ~c[x].known \/ c[x].age >= TTL

\* Mutant: the cache is refreshed when no exchange in it is fresh.
StaleWhenAll == \A x \in Exchanges : TooOld(cache, x)
Stale == \E x \in Exchanges : TooOld(cache, x)

\* The largest ticker of any exchange is the measure of all.
Largest(c) == Max({c[x].top : x \in Exchanges} \cup {0})
\* Mutant: an exchange without a ticker of the asset is measured by its best one.
LiquidityOfTop(c, x) == IF Largest(c) = 0 THEN 0 ELSE (100 * c[x].top) \div Largest(c)
Liquidity(c, x) ==
  IF c[x].own = 0 THEN 0 ELSE (100 * c[x].own) \div Largest(c)

Scored(c) == [x \in Exchanges |-> Liquidity(c, x)]

\* refresh: an exchange that failed inside its request answers an empty list;
\* raised: the exchanges whose answer could not be read, which keep what was
\* cached before.
Refreshed(answer, raised) ==
  [x \in Exchanges |->
     IF x \in raised THEN cache[x]
     ELSE [known |-> TRUE, own |-> answer[x].own, top |-> answer[x].top, age |-> 0]]

-----------------------------------------------------------------------------
(* CompositeSignalScorer.                                                  *)

Clip(n, hi) == IF n < 0 THEN 0 ELSE IF n > hi THEN hi ELSE n

NetApy(e) == e.apy - Fee[e.exch]

\* The composite score in 1/100 of a point: 35 for the APY up to 500 %, 30 for
\* the survival, 20 for the liquidity, 15 for a spread up to 200 %.
Composite(e, survival, liquidity, spread) ==
  (35 * Clip(NetApy(e), 50000)) \div 500 + 30 * survival + 20 * liquidity
    + (15 * Clip(Max(spread \cup {0}), 200)) \div 2

\* Mutant: the gates below the composite score are left out.
ActionableByScore(e, survival, liquidity, spread) ==
  e.regime = "HIGH_FUNDING" /\ Composite(e, survival, liquidity, spread) >= 3500
Actionable(e, survival, liquidity, spread) ==
  /\ e.regime = "HIGH_FUNDING"
  /\ survival >= 40
  /\ liquidity >= 15
  /\ NetApy(e) >= 1500
  /\ Composite(e, survival, liquidity, spread) >= 3500

-----------------------------------------------------------------------------
(* process, await by await.                                                *)

At(s) == job.stage = s

\* The event is taken up and its duration predicted; the history is another
\* process's, which may have recorded any number of durations.
Receive(e, own, pooled) ==
  /\ At("idle") /\ next <= MaxEvents
  /\ own <= pooled
  /\ \E survival \in Estimates(Used(own, pooled)) :
       job' = [Idle EXCEPT !.stage = "liquidity", !.event = {e}, !.runs = Used(own, pooled), !.survival = survival]
  /\ next' = next + 1
  /\ UNCHANGED <<cache, rows, alerts>>

\* score of the liquidity: with the cache as it is,
Score(c, raised) ==
  \E e \in job.event :
    job' = [job EXCEPT !.stage = "spread", !.liquidity = Scored(c)[e.exch],
                       !.overdue = {x \in Exchanges \ raised : TooOld(c, x)}]

UseCache ==
  /\ At("liquidity") /\ ~Stale
  /\ Score(cache, {})
  /\ UNCHANGED <<cache, next, rows, alerts>>

\* or after all exchanges have been asked.
AskAll ==
  /\ At("liquidity") /\ Stale
  /\ job' = [job EXCEPT !.stage = "refresh"]
  /\ UNCHANGED <<cache, next, rows, alerts>>

Refresh(answer, raised) ==
  /\ At("refresh")
  /\ cache' = Refreshed(answer, raised)
  /\ Score(cache', raised)
  /\ UNCHANGED <<next, rows, alerts>>

\* fetch_current_rates: the exchanges that quote a rate of the asset; one that
\* fails answers none.
Quoting == SUBSET Exchanges

\* _compute_cross_exchange_spread: a spread needs two quotes.
SpreadOf(quoting) ==
  IF Cardinality(quoting) < 2 THEN {{}} ELSE {{s} : s \in Spreads}

\* The composite score and the gates.
Decide(spread) ==
  /\ At("spread")
  /\ \E e \in job.event :
       job' = [job EXCEPT !.stage = "log", !.spread = spread,
                          !.actionable = Actionable(e, job.survival, job.liquidity, spread)]
  /\ UNCHANGED <<cache, next, rows, alerts>>

\* _log_signal; written = FALSE: SQLite raises and the event is given up.
\* Mutant: the alert is sent before the signal is logged.
LogAlertFirst(written) ==
  /\ At("log")
  /\ rows' = IF written THEN rows \cup {[no |-> next - 1, actionable |-> job.actionable]} ELSE rows
  /\ alerts' = IF job.actionable THEN alerts \cup {next - 1} ELSE alerts
  /\ job' = Idle
  /\ UNCHANGED <<cache, next>>
Log(written) ==
  /\ At("log")
  /\ rows' = IF written THEN rows \cup {[no |-> next - 1, actionable |-> job.actionable]} ELSE rows
  /\ job' = IF written /\ job.actionable THEN [job EXCEPT !.stage = "alert"] ELSE Idle
  /\ UNCHANGED <<cache, next, alerts>>

\* _send_telegram: a failure is logged and forgotten.
Alert(sent) ==
  /\ At("alert")
  /\ alerts' = IF sent THEN alerts \cup {next - 1} ELSE alerts
  /\ job' = Idle
  /\ UNCHANGED <<cache, next, rows>>

\* Time passes, in an await or between events; ages beyond the limit are alike.
Tick ==
  /\ \E x \in Exchanges : cache[x].known /\ cache[x].age < TTL
  /\ cache' = [x \in Exchanges |->
       IF cache[x].known /\ cache[x].age < TTL THEN [cache[x] EXCEPT !.age = @ + 1] ELSE cache[x]]
  /\ UNCHANGED <<job, next, rows, alerts>>

\* The process is restarted: the cache is in memory, the log is not.
Restart ==
  /\ cache' = [x \in Exchanges |-> NoCache] /\ job' = Idle
  /\ UNCHANGED <<next, rows, alerts>>

PipelineInit ==
  /\ cache = [x \in Exchanges |-> NoCache]
  /\ job = Idle /\ next = 1 /\ rows = {} /\ alerts = {}

ProcessStep ==
  \/ UseCache
  \/ AskAll
  \/ \E answer \in [Exchanges -> Answers], raised \in SUBSET Exchanges : Refresh(answer, raised)
  \/ \E quoting \in Quoting : \E spread \in SpreadOf(quoting) : Decide(spread)
  \/ \E written \in BOOLEAN : Log(written)
  \/ \E sent \in BOOLEAN : Alert(sent)

PipelineNext ==
  \/ \E e \in Events, own, pooled \in 0..MaxRuns : Receive(e, own, pooled)
  \/ ProcessStep
  \/ Tick
  \/ Restart

PipelineSpec == PipelineInit /\ [][PipelineNext]_pipelineVars

-----------------------------------------------------------------------------
(* Properties.                                                             *)

PipelineTypeOK ==
  /\ \A x \in Exchanges :
       /\ [own |-> cache[x].own, top |-> cache[x].top] \in Answers \cup {[own |-> 0, top |-> 0]}
       /\ cache[x].age \in 0..TTL /\ cache[x].known \in BOOLEAN
  /\ job.stage \in Stages /\ (job.event = {} <=> At("idle")) /\ job.event \subseteq Events
  /\ job.runs \in 0..MaxRuns /\ job.survival \in 0..100 /\ job.liquidity \in 0..100
  /\ job.spread \subseteq Spreads /\ job.overdue \subseteq Exchanges /\ job.actionable \in BOOLEAN
  /\ next \in 1..MaxEvents + 1
  /\ rows \subseteq [no: 1..MaxEvents, actionable: BOOLEAN] /\ alerts \subseteq 1..MaxEvents

\* "Caches results for 5 minutes": a score rests on older tickers of an exchange
\* only if that exchange has just been asked and its answer could not be read.
OldOnlyAfterFailure == job.overdue = {}

\* An actionable signal rests on enough observed durations and on a ticker its
\* own exchange quotes for the asset, although both were read before awaits,
\* may be replaced by fallbacks, and the cache may be empty or old.
ActionableRestsOnData ==
  job.actionable =>
    /\ job.runs >= MinFit
    /\ \A e \in job.event : cache[e.exch].own > 0

\* "Log to DB (always)" comes before "Forward to Telegram (if actionable)":
\* whatever fails or restarts, an alert has its row, and the row says actionable.
AlertsAreLogged == \A n \in alerts : [no |-> n, actionable |-> TRUE] \in rows

\* Not so: an exchange that answers nothing lowers the measure of the others,
\* and lifts an asset over the gate that it did not pass before.
OutageLiftsNobody ==
  [][\A x \in Exchanges :
       /\ cache[x].known /\ cache'[x].own = cache[x].own /\ cache'[x].top = cache[x].top
       /\ \A y \in Exchanges \ {x} : cache'[y].top \in {0, cache[y].top}
       => (Liquidity(cache', x) >= 15 => Liquidity(cache, x) >= 15)]_pipelineVars

===============================================================================
