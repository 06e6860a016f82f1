----------------------------- MODULE PaperTrader -----------------------------
(***************************************************************************)
(* The paper-trading simulator of src/simulator/paper_trader.py: open and  *)
(* closed positions in memory, the append-only JSONL log they are rebuilt  *)
(* from when the process restarts, and the exit rules.                     *)
(*                                                                         *)
(* ROE is a fraction of the entry price, so the module keeps the signed    *)
(* price move (ROE times entry) and compares it with the percentage        *)
(* thresholds multiplied out: no rounding is introduced.                   *)
(***************************************************************************)
EXTENDS Integers, FiniteSets

CONSTANTS
  Assets, Exchanges, Directions,
  Prices,            \* mid prices an exchange may quote, all positive
  MaxOpen,           \* max_open_positions
  StopLoss, TakeProfit, TrailActivate, TrailDistance,   \* percent of entry
  TimeoutHours,
  Legacy, FirstId,   \* positions without entry_price that an old log has
                     \* open; the first position_id not in use
  Faults,            \* disk faults that may happen
  MaxLag,            \* bound: how old an event may be when it is handled
  MaxClock,          \* bound: hours of a run
  MaxId, MaxFaultyId \* bounds: positions ever opened, on a faulty disk

ASSUME PricesAssumption == Prices \subseteq Nat \ {0}
ASSUME CapacityAssumption == MaxOpen \in Nat \ {0}
ASSUME DirectionsAssumption == Directions \subseteq {"long", "short"}
ASSUME FaultsAssumption == Faults \subseteq {"lost", "torn", "unreadable"}
ASSUME BoundsAssumption ==
  /\ TimeoutHours \in Nat /\ MaxLag \in Nat
  /\ MaxClock \in Nat /\ MaxId \in Nat /\ MaxFaultyId \in 0..MaxId /\ FirstId \in Nat

NoTime  == -1
NoPrice == 0
Reasons == {"none", "STOP_LOSS", "TIMEOUT", "TAKE_PROFIT", "TRAILING_STOP",
            "stale_cleanup", "regime_change"}

Position ==
  [id: Nat, asset: Assets, exch: Exchanges, dir: Directions,
   entry: Nat, opened: Nat, peak: Nat, hours: Nat, upto: Int,
   reason: Reasons, pnl: Int]

LogRecord == [act: {"OPEN", "CLOSE"}, p: Position]

ASSUME LegacyAssumption ==
  /\ IsFiniteSet(Legacy)
  /\ \A p \in Legacy :
       /\ p \in Position
       /\ p.entry = 0 /\ p.hours = 0 /\ p.id < FirstId /\ p.reason = "none"
       /\ \A q \in Legacy : p.id = q.id => p = q

VARIABLES
  up,          \* the process runs
  positions,   \* self.positions: open positions
  closed,      \* self.closed_positions
  log,         \* the readable records of the JSONL file
  torn,        \* the file ends in a partial line
  clock,       \* wall clock, hours
  nextId,      \* fresh position_id
  faulty       \* the disk is one that may fail

vars == <<up, positions, closed, log, torn, clock, nextId, faulty>>
disk == <<log, torn>>

MayFail(fault) == faulty /\ fault \in Faults

-----------------------------------------------------------------------------
(* The position and its exit rules. *)

\* compute_roe, times the entry price.
Move(p, price) ==
  IF p.entry <= 0 \/ price <= 0 THEN 0
  ELSE IF p.dir = "short" THEN p.entry - price ELSE price - p.entry

Priced(p, quote) == p.entry > 0 /\ quote[p.asset] > 0

Observed(p, quote) ==
  IF Priced(p, quote)
  THEN LET m == Move(p, quote[p.asset])
       IN [p EXCEPT !.peak = IF m > @ THEN m ELSE @]
  ELSE p

HitsStop(p, m)   == 100 * m <= -(StopLoss * p.entry)
HitsProfit(p, m) == 100 * m >= TakeProfit * p.entry
HitsTrail(p, m)  == /\ 100 * p.peak >= TrailActivate * p.entry
                    /\ 100 * m <= 100 * p.peak - TrailDistance * p.entry
Expired(p, now)  == now - p.opened >= TimeoutHours

\* The first rule that fires, in the order the code tests them; p has its
\* peak already raised to this quote.
ExitReason(p, quote, now) ==
  LET m == Move(p, quote[p.asset])
  IN  IF ~Priced(p, quote)  THEN "none"
      ELSE IF HitsStop(p, m)   THEN "STOP_LOSS"
      ELSE IF Expired(p, now)  THEN "TIMEOUT"
      ELSE IF HitsProfit(p, m) THEN "TAKE_PROFIT"
      ELSE IF HitsTrail(p, m)  THEN "TRAILING_STOP"
      ELSE "none"

Close(p, why, move) == [p EXCEPT !.reason = why, !.pnl = move]

HasOpenPosition(a, x) == \E p \in positions : p.asset = a /\ p.exch = x

\* Mutant: the limit is not tested.
MayOpenUncapped(a, x)   == ~HasOpenPosition(a, x)
\* Mutant: a position already open is not looked up.
MayOpenDuplicate(a, x)  == Cardinality(positions) < MaxOpen
MayOpen(a, x) ==
  /\ Cardinality(positions) < MaxOpen
  /\ ~HasOpenPosition(a, x)

-----------------------------------------------------------------------------
(* The log. An append that raises OSError is swallowed; text appended after *)
(* a partial line joins it, so that record is unreadable too.               *)

AppendOutcome(recs, written, tail) ==
  LET lost == recs \ written IN
  /\ written \subseteq recs
  /\ lost # {} => MayFail("lost") \/ MayFail("torn")
  /\ tail /\ ~torn => MayFail("torn")
  /\ tail # torn => lost # {}
  /\ torn /\ tail => written = {} \/ Cardinality(lost) >= 2

LogTrades(act, ps) ==
  LET recs == {[act |-> act, p |-> p] : p \in ps} IN
  \E written \in SUBSET recs, tail \in BOOLEAN :
    /\ AppendOutcome(recs, written, tail)
    /\ log' = log \cup written
    /\ torn' = tail

\* last_funding_update is not written to the log.
Reloaded(p) == [p EXCEPT !.upto = NoTime]

Logged(act) == {r.p : r \in {s \in log : s.act = act}}
\* Mutant: CLOSE records are not matched.
LoggedOpenEver == Logged("OPEN")
LoggedOpen ==
  {p \in Logged("OPEN") : \A c \in Logged("CLOSE") : c.id # p.id}

-----------------------------------------------------------------------------
(* Operations. *)

\* open_position for an event stamped ts, at a positive mid price.
Open(a, x, d, price, ts) ==
  /\ up /\ nextId <= IF faulty THEN MaxFaultyId ELSE MaxId
  /\ MayOpen(a, x)
  /\ LET p == [id |-> nextId, asset |-> a, exch |-> x, dir |-> d,
               entry |-> price, opened |-> ts, peak |-> 0, hours |-> 0,
               upto |-> ts, reason |-> "none", pnl |-> 0]
     IN  /\ positions' = positions \cup {p}
         /\ LogTrades("OPEN", {p})
  /\ nextId' = nextId + 1
  /\ UNCHANGED <<up, closed, clock, faulty>>

\* check_exits: raise the peak of every priced position, close those a rule
\* fires for.
CheckExits(quote) ==
  /\ up /\ positions # {}
  /\ LET seen  == {Observed(p, quote) : p \in positions}
         due   == {p \in seen : ExitReason(p, quote, clock) # "none"}
         done  == {Close(p, ExitReason(p, quote, clock),
                         Move(p, quote[p.asset])) : p \in due}
     IN  /\ positions' = seen \ due
         /\ closed' = closed \cup done
         /\ LogTrades("CLOSE", done)
  /\ UNCHANGED <<up, clock, nextId, faulty>>

\* Funding hours of one position: where it was paid up to, what is due now.
PaidUpTo(p) == IF p.upto = NoTime THEN p.opened ELSE p.upto
\* Mutant: the last payment is not remembered.
PaidForgetful(p) == [p EXCEPT !.hours = @ + clock - PaidUpTo(p)]
Paid(p) == [p EXCEPT !.hours = @ + clock - PaidUpTo(p), !.upto = clock]

\* accrue_hourly_funding: pay the hours since the last payment, or since the
\* entry when none is remembered. rated: the assets with a known rate.
AccrueHourly(rated) ==
  /\ up
  /\ LET due(p) == p.asset \in rated /\ clock > PaidUpTo(p)
     IN  /\ \E p \in positions : due(p)
         /\ positions' = {IF due(p) THEN Paid(p) ELSE p : p \in positions}
  /\ UNCHANGED <<up, closed, disk, clock, nextId, faulty>>

\* close_positions_for_asset, no exit price: the move is not booked.
ClosePositionsForAsset(a, x) ==
  /\ up /\ HasOpenPosition(a, x)
  /\ LET gone == {p \in positions : p.asset = a /\ p.exch = x}
         done == {Close(p, "regime_change", 0) : p \in gone}
     IN  /\ positions' = positions \ gone
         /\ closed' = closed \cup done
         /\ LogTrades("CLOSE", done)
  /\ UNCHANGED <<up, clock, nextId, faulty>>

\* The process dies; a crash inside an append may leave a partial line.
Crash ==
  /\ up
  /\ up' = FALSE /\ positions' = {} /\ closed' = {}
  /\ torn' \in IF MayFail("torn") THEN {torn, TRUE} ELSE {torn}
  /\ UNCHANGED <<log, clock, nextId, faulty>>

\* __init__ with _reload_open_positions_from_log: rebuild both lists, then
\* close what has no entry price.
Restart ==
  LET open  == {Reloaded(p) : p \in LoggedOpen}
      stale == {p \in open : p.entry <= 0}
      swept == {Close(p, "stale_cleanup", 0) : p \in stale}
  IN /\ ~up /\ up' = TRUE
     /\ positions' = open \ stale
     /\ closed' = {Reloaded(p) : p \in Logged("CLOSE")} \cup swept
     /\ LogTrades("CLOSE", swept)
     /\ UNCHANGED <<clock, nextId, faulty>>

\* The log cannot be read: OSError, start with nothing.
RestartUnreadable ==
  /\ MayFail("unreadable")
  /\ ~up /\ up' = TRUE
  /\ positions' = {} /\ closed' = {}
  /\ UNCHANGED <<disk, clock, nextId, faulty>>

PassHour ==
  /\ clock < MaxClock
  /\ clock' = clock + 1
  /\ UNCHANGED <<up, positions, closed, disk, nextId, faulty>>

-----------------------------------------------------------------------------
Quotes == [Assets -> Prices \cup {NoPrice}]

Init ==
  /\ up = FALSE
  /\ positions = {} /\ closed = {}
  /\ \E old \in SUBSET Legacy :
       log = {[act |-> "OPEN", p |-> p] : p \in old}
  /\ torn = FALSE
  /\ clock = 0
  /\ nextId = FirstId
  /\ faulty \in BOOLEAN

OpenSome ==
  \E a \in Assets, x \in Exchanges, d \in Directions, price \in Prices,
     ts \in {t \in 0..clock : t >= clock - MaxLag} : Open(a, x, d, price, ts)

Next ==
  \/ OpenSome
  \/ \E quote \in Quotes : CheckExits(quote)
  \/ \E rated \in SUBSET Assets : AccrueHourly(rated)
  \/ \E a \in Assets, x \in Exchanges : ClosePositionsForAsset(a, x)
  \/ Crash
  \/ Restart
  \/ RestartUnreadable
  \/ PassHour

Spec == Init /\ [][Next]_vars

-----------------------------------------------------------------------------
(* Properties. *)

TypeOK ==
  /\ up \in BOOLEAN /\ torn \in BOOLEAN /\ faulty \in BOOLEAN
  /\ positions \subseteq Position /\ closed \subseteq Position
  /\ log \subseteq LogRecord
  /\ clock \in Nat /\ nextId \in Nat

\* On a disk that does not fail, max_open_positions bounds the open positions
\* in every state, the ones a restart rebuilds included (open_position checks
\* only its own process).
AtMostMaxOpen == ~faulty => Cardinality(positions) <= MaxOpen

\* Two open positions never share asset and exchange, restarts from a disk
\* that does not fail included.
OnePositionPerMarket ==
  ~faulty => \A p, q \in positions : p.asset = q.asset /\ p.exch = q.exch => p = q

\* A position is in one of the two lists, once: lifetime statistics count a
\* trade once, whatever the disk lost (reload splits by CLOSE records).
EachPositionListedOnce ==
  \A p, q \in positions \cup closed : p.id = q.id => p = q

\* Hourly funding covers the holding time once: the hours paid are those from
\* the entry to the last payment, also when a restart has forgotten both.
FundingCoversHolding ==
  \A p \in positions :
    p.hours = IF p.upto = NoTime THEN 0 ELSE p.upto - p.opened

\* The life of each position as the log tells it, and as memory does.
LoggedLife ==
  [i \in 0..MaxId |->
     IF \E p \in Logged("CLOSE") : p.id = i THEN "closed"
     ELSE IF \E p \in Logged("OPEN") : p.id = i THEN "open" ELSE "fresh"]

Belief ==
  [i \in 0..MaxId |->
     IF \E p \in positions : p.id = i THEN "open"
     ELSE IF \E p \in closed : p.id = i THEN "closed" ELSE "fresh"]

\* A disk that fails promises nothing: it is shown as a ledger nobody uses.
Fresh == [i \in 0..MaxId |-> "fresh"]

Ledger ==
  INSTANCE PositionLedger WITH
    Ids     <- 0..MaxId,
    life    <- IF faulty THEN Fresh ELSE LoggedLife,
    running <- up /\ ~faulty,
    belief  <- IF faulty THEN Fresh ELSE Belief

\* With a disk that does not fail, a crash and a restart between any two
\* operations are invisible: no position is dropped, reopened or duplicated
\* ("a process restart doesn't drop state and open duplicate positions").
RestartInvisible == Ledger!Spec

==============================================================================
