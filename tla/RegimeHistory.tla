---------------------------- MODULE RegimeHistory ----------------------------
(***************************************************************************)
(* The funding history of src/collectors/regime_history.py: backfill asks  *)
(* every exchange for the funding rates it has not stored yet, page by     *)
(* page, stores them, and derives how long each regime lasted.  The        *)
(* exchanges page forward from the oldest rate (Binance, Hyperliquid) or   *)
(* backward from the newest (Bybit).  Whoever runs the backfill may be     *)
(* killed anywhere; both tables survive.                                   *)
(*                                                                         *)
(* Time is counted in funding intervals; a rate is represented by the      *)
(* regime _classify_regime gives it.                                       *)
(***************************************************************************)
EXTENDS Integers, Sequences, FiniteSetsExt

CONSTANTS Assets, Exchanges,
          Backward,          \* exchanges that page from the newest rate
          PageSize,          \* _MAX_LIMIT, _HISTORY_PAGE_SIZE
          Window,            \* backfill_days
          MaxNow             \* bound: intervals of a run

ASSUME HistoryAssumption ==
  /\ Backward \subseteq Exchanges
  /\ PageSize \in Nat \ {0} /\ Window \in Nat \ {0} /\ MaxNow \in Nat

VARIABLES now,           \* the latest funding time
          regimeAt,      \* the market: the regime of each rate of an asset,
                         \* the same on every exchange
          rates,         \* funding_rates: the times stored
          transitions,   \* regime_transitions
          until,         \* the time of the backfill that runs
          due,           \* pairs it has still to fetch
          job,           \* the fetch under way
          building,      \* pairs whose transitions are still to be built
          lapsed         \* history: pairs with rates older than the window
                         \* that no backfill asked for

tables == <<rates, transitions>>
historyVars == <<now, regimeAt, tables, until, due, job, building, lapsed>>

Regimes == {"HIGH_FUNDING", "LOW_FUNDING"}
Pairs == Assets \X Exchanges
Times == 1..MaxNow
Transition == [regime: Regimes, start: Times, end: Times]

\* The fetch of a pair asks for the rates from `from` to `until`.
NoJob == [pairs |-> {}, from |-> 1, cursor |-> 0, got |-> {}, complete |-> FALSE]

-----------------------------------------------------------------------------
(* One page of an exchange's history, and where the next one begins.       *)

FirstOf(n, S) == {t \in S : Cardinality({u \in S : u < t}) < n}
LastOf(n, S)  == {t \in S : Cardinality({u \in S : u > t}) < n}

Page(p) ==
  IF p[2] \in Backward THEN LastOf(PageSize, job.from..job.cursor)
                       ELSE FirstOf(PageSize, job.cursor..until)

\* Mutant: the next page begins at the last rate of this one.
NextCursorStays(p, page) == IF p[2] \in Backward THEN Min(page) ELSE Max(page)
NextCursor(p, page) == IF p[2] \in Backward THEN Min(page) - 1 ELSE Max(page) + 1

\* A short page is the last one.  (After a full one Binance is asked once
\* more; an empty answer and a failure add nothing then.)
LastPage(p, page) ==
  \/ Cardinality(page) < PageSize
  \/ NextCursor(p, page) \notin job.from..until

-----------------------------------------------------------------------------
(* backfill.  The tasks it gathers share nothing but the database, each    *)
(* its own rows: their steps commute, and are taken one pair at a time.    *)

Running == building # {}

\* Mutant: the whole window is fetched again each time.
EffectiveStartWindow(p) == Max({until - Window + 1, 1})
\* Mutant: one rate is left out after the last one stored.
EffectiveStartLater(p) == Max({until - Window + 1, 1} \cup {t + 2 : t \in rates[p] \ {until}})
\* The rate after the last one stored, if that is inside the window.
EffectiveStart(p) == Max({until - Window + 1, 1} \cup {t + 1 : t \in rates[p]})

StartBackfill ==
  /\ ~Running
  /\ until' = now /\ due' = Pairs /\ building' = Pairs
  /\ UNCHANGED <<now, regimeAt, tables, job, lapsed>>

StartFetch(p) ==
  /\ p \in due /\ job = NoJob
  /\ due' = due \ {p}
  /\ LET start == EffectiveStart(p) IN
     job' = [NoJob EXCEPT !.pairs = {p}, !.from = start, !.cursor = IF p[2] \in Backward THEN until ELSE start]
  /\ lapsed' = [lapsed EXCEPT ![p] = @ \/ (rates[p] # {} /\ Max(rates[p]) < until - Window)]
  /\ UNCHANGED <<now, regimeAt, tables, until, building>>

\* fetch_funding_history: one page answers, after up to two retries.
FetchPage(p) ==
  /\ p \in job.pairs /\ ~job.complete
  /\ LET page == Page(p) IN
     job' = IF page = {} THEN [job EXCEPT !.complete = TRUE]
            ELSE IF LastPage(p, page) THEN [job EXCEPT !.complete = TRUE, !.got = @ \cup page]
            ELSE [job EXCEPT !.cursor = NextCursor(p, page), !.got = @ \cup page]
  /\ UNCHANGED <<now, regimeAt, tables, until, due, building, lapsed>>

\* _request gives up after three attempts: the loop ends with what it has.
FetchFails(p) ==
  /\ p \in job.pairs /\ ~job.complete
  /\ job' = [job EXCEPT !.complete = TRUE]
  /\ UNCHANGED <<now, regimeAt, tables, until, due, building, lapsed>>

\* _store_funding_rates; written = FALSE: SQLite raises, which is logged.
Store(p, written) ==
  /\ p \in job.pairs /\ job.complete
  /\ rates' = IF written THEN [rates EXCEPT ![p] = @ \cup job.got] ELSE rates
  /\ job' = NoJob
  /\ UNCHANGED <<now, regimeAt, transitions, until, due, building, lapsed>>

-----------------------------------------------------------------------------
(* _build_regime_transitions.                                              *)

\* The stored times at which the regime differs from the rate stored before.
Starts(p) ==
  {t \in rates[p] :
     LET before == {u \in rates[p] : u < t}
     IN before # {} => regimeAt[p[1]][Max(before)] # regimeAt[p[1]][t]}

\* The regimes that have ended; the last one is still going on.
Runs(p) ==
  {[regime |-> regimeAt[p[1]][s],
    start |-> s,
    end |-> Min({t \in Starts(p) : t > s})] : s \in {x \in Starts(p) : \E t \in Starts(p) : t > x}}

\* INSERT OR IGNORE: one row per start.
BuildTransitions(p) ==
  /\ p \in building /\ due = {} /\ job = NoJob
  /\ transitions' = [transitions EXCEPT ![p] =
       @ \cup {r \in Runs(p) : \A t \in transitions[p] : t.start # r.start}]
  /\ building' = building \ {p}
  /\ until' = IF building = {p} THEN 0 ELSE until
  /\ UNCHANGED <<now, regimeAt, rates, due, job, lapsed>>

\* The process is killed, or SQLite raises while transitions are built.
EndBackfill ==
  /\ Running
  /\ until' = 0 /\ building' = {} /\ due' = {} /\ job' = NoJob
  /\ UNCHANGED <<now, regimeAt, tables, lapsed>>

\* Every exchange publishes the next funding rate of each asset.
Publish(published) ==
  /\ now < MaxNow
  /\ now' = now + 1
  /\ regimeAt' = [a \in Assets |-> Append(regimeAt[a], published[a])]
  /\ UNCHANGED <<tables, until, due, job, building, lapsed>>

-----------------------------------------------------------------------------
HistoryInit ==
  /\ now = 0
  /\ regimeAt = [a \in Assets |-> <<>>]
  /\ rates = [p \in Pairs |-> {}]
  /\ transitions = [p \in Pairs |-> {}]
  /\ until = 0 /\ due = {} /\ job = NoJob
  /\ building = {}
  /\ lapsed = [p \in Pairs |-> FALSE]

BackfillStep ==
  \/ \E p \in Pairs : StartFetch(p) \/ FetchPage(p) \/ BuildTransitions(p)
  \/ \E p \in Pairs, written \in BOOLEAN : Store(p, written)

HistoryNext ==
  \/ StartBackfill
  \/ BackfillStep
  \/ \E p \in Pairs : FetchFails(p)
  \/ EndBackfill
  \/ \E published \in [Assets -> Regimes] : Publish(published)

\* A backfill that runs goes on: a request has a time limit, so it answers if
\* it does not fail.
HistorySpec == HistoryInit /\ [][HistoryNext]_historyVars /\ WF_historyVars(BackfillStep)

-----------------------------------------------------------------------------
(* Properties.                                                             *)

HistoryTypeOK ==
  /\ now \in 0..MaxNow
  /\ regimeAt \in [Assets -> Seq(Regimes)] /\ \A a \in Assets : Len(regimeAt[a]) = now
  /\ rates \in [Pairs -> SUBSET (1..now)]
  /\ transitions \in [Pairs -> SUBSET Transition]
  /\ due \subseteq building /\ building \subseteq Pairs /\ until \in 0..now
  /\ lapsed \in [Pairs -> BOOLEAN]
  /\ job.pairs \subseteq building \ due /\ job.complete \in BOOLEAN
  /\ job.got \subseteq job.from..until
  /\ {job.from, job.cursor} \subseteq 0..until + 1

\* A regime recorded is one the stored rates still show, although rows are
\* never corrected (INSERT OR IGNORE): no later fetch adds a rate before one
\* that is stored, and a regime that has not ended is not recorded.
TransitionsStayTrue == \A p \in Pairs : transitions[p] \subseteq Runs(p)

\* A pair of an exchange that pages forward has no hole in its rates, unless
\* it was left alone for longer than the window: failed pages, failed stores
\* and kills between two runs are made up for by the next one.
ForwardHasNoHole ==
  \A p \in Pairs :
    p[2] \notin Backward /\ ~lapsed[p] /\ rates[p] # {} => rates[p] = Min(rates[p])..Max(rates[p])

\* ... and the durations recorded are those of the market: a regime recorded
\* began and ended when the exchange says so, the first one excepted.
DurationsAreReal ==
  \A p \in Pairs : \A r \in transitions[p] :
    p[2] \notin Backward /\ ~lapsed[p] =>
      /\ \A t \in r.start..r.end - 1 : regimeAt[p[1]][t] = r.regime
      /\ regimeAt[p[1]][r.end] # r.regime
      /\ r.start = Min(rates[p]) \/ regimeAt[p[1]][r.start - 1] # r.regime

\* A backfill ends: paging makes progress in both directions, and a page that
\* fails ends the fetch, not the run.
BackfillEnds == Running ~> ~Running

\* Not so for an exchange that pages backward: a page that fails leaves the
\* older rates out, and the next run begins after the newest one.
NoHole ==
  \A p \in Pairs :
    ~lapsed[p] /\ rates[p] # {} => rates[p] = Min(rates[p])..Max(rates[p])

===============================================================================
