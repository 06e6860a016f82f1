------------------------------- MODULE LiveFeed -------------------------------
(***************************************************************************)
(* How a regime change reaches the paper trader: the scanner of the live   *)
(* engine rewrites regime_state.json and appends to its JSONL log; another *)
(* process, the live orchestrator, tails that log, completes the events    *)
(* from the state file as it is when it reads them, and opens and closes   *)
(* paper positions.  Nothing but the two files joins the processes.        *)
(***************************************************************************)
EXTENDS RegimeDetector, Sequences, FiniteSets

CONSTANTS
  Assets,
  NoAsset,           \* top_asset is missing: "UNKNOWN"
  Null,              \* top_asset is there and null: None
  Markets,           \* what a scan may see
  MaxOpen,           \* max_open_positions of the paper trader
  MaxLog,            \* bound: lines of the log
  MaxRotations,      \* bound: truncations of the log
  MaxFaults          \* bound: crashes and failed calls

ASSUME MarketsAssumption ==
  /\ NoAsset \notin Assets /\ Null \notin Assets \cup {NoAsset}
  /\ \A m \in Markets : Consistent(m) /\ m.top \in Assets \cup {NoAsset}
ASSUME FeedBoundsAssumption ==
  MaxOpen \in Nat /\ MaxLog \in Nat /\ MaxRotations \in Nat /\ MaxFaults \in Nat

VARIABLES
  text,      \* regime_state.json: "none", "torn" (being rewritten) or "ok"
  saved,     \* its content: regime and first of top_assets
  stale,     \* it is older than REGIME_STALE_SECONDS
  epc,       \* where run_scanner is
  scan,      \* its result; was: history, the regime it replaced
  log,       \* every line ever logged
  base,      \* lines of it that truncations have removed
  opc,       \* where the orchestrator is
  pos,       \* _file_position
  at, end,   \* lines at..end of log are read but not yet parsed
  cached,    \* _last_regime_status
  queue,     \* events parsed and not yet yielded; idx: their line
  held,      \* assets with an open paper position
  last,      \* history: the last line handled as an event
  lost,      \* history: the lines of polls that raised, since the start
  rotations, faults   \* adversities left

vars == <<text, saved, stale, epc, scan, log, base, opc, pos, at, end, cached,
          queue, held, last, lost, rotations, faults>>
state  == <<text, saved, stale>>
engine == <<epc, scan, log>>
reader == <<pos, at, end, cached, queue, lost>>
world  == <<base, rotations>>

NoRegime == -1
NoStatus == [regime |-> NoRegime, top |-> NoAsset]
NoScan == [regime |-> LOW_FUNDING, raw |-> LOW_FUNDING, prev |-> LOW_FUNDING,
           top |-> NoAsset, was |-> NoRegime]

-----------------------------------------------------------------------------
(* The engine. *)

\* load_regime_state returns None if the file is missing, unreadable or stale;
\* the two callers have different defaults.
Loaded           == text = "ok" /\ ~stale
GetActiveRegime  == IF Loaded THEN saved.regime ELSE HIGH_FUNDING
PreviousRegime   == IF Loaded THEN saved.regime ELSE LOW_FUNDING

\* detect_regime_from_api_response; save_regime_state starts to write.
Detect(m) ==
  /\ epc = "idle" /\ Len(log) + 2 <= MaxLog
  /\ scan' = [regime |-> ApplyHysteresis(PreviousRegime, m),
              raw |-> ClassifyRegime(m), prev |-> GetActiveRegime, top |-> m.top,
              was |-> IF text = "ok" THEN saved.regime ELSE NoRegime]
  /\ text' = "torn" /\ epc' = "write"
  /\ UNCHANGED <<saved, stale, log, world, opc, reader, held, last, faults>>

SaveRegimeState ==
  /\ epc = "write"
  /\ saved' = [regime |-> scan.regime, top |-> scan.top]
  /\ text' = "ok" /\ stale' = FALSE
  /\ epc' = "change"
  /\ UNCHANGED <<scan, log, world, opc, reader, held, last, faults>>

Line(event, regime, prev, top) ==
  [event |-> event, regime |-> regime, prev |-> prev, top |-> top]

\* regime_updated, if the regime is not the one get_active_regime gave.
LogChange ==
  /\ epc = "change"
  /\ log' = IF scan.regime = scan.prev THEN log
            ELSE Append(log, Line("regime_updated", scan.regime, scan.prev, NoAsset))
  /\ epc' = "status"
  /\ UNCHANGED <<state, scan, world, opc, reader, held, last, faults>>

\* regime_status names a top asset only when no signal was found, and then null
\* when no asset pays (which leaves no signal either).
StatusTops == IF scan.top = NoAsset THEN {Null} ELSE {NoAsset, scan.top}
LogStatus ==
  /\ epc = "status"
  /\ \E top \in StatusTops :
       log' = Append(log, Line("regime_status", scan.regime, NoRegime, top))
  /\ epc' = "idle" /\ scan' = NoScan
  /\ UNCHANGED <<state, world, opc, reader, held, last, faults>>

\* A crash or an exception (scan_error) ends the scan where it is.
ScanEnds ==
  /\ epc # "idle" /\ epc' = "idle" /\ scan' = NoScan
  /\ faults > 0 /\ faults' = faults - 1
  /\ UNCHANGED <<state, log, world, opc, reader, held, last>>

\* No scan for four hours.
Expire ==
  /\ epc = "idle" /\ text = "ok" /\ ~stale
  /\ stale' = TRUE
  /\ UNCHANGED <<text, saved, engine, world, opc, reader, held, last, faults>>

\* The log is truncated by whoever rotates it.
Rotate ==
  /\ rotations > 0 /\ rotations' = rotations - 1
  /\ base < Len(log) /\ base' = Len(log)
  /\ UNCHANGED <<state, engine, opc, reader, held, last, faults>>

-----------------------------------------------------------------------------
(* The connector. *)

FileSize == Len(log) - base

\* _resolve_top_asset: the state file, stale or not, then the cached status,
\* whose null passes the test for "UNKNOWN".
ResolveTopAsset ==
  IF text = "ok" /\ saved.top # NoAsset THEN saved.top ELSE cached.top

\* Mutant: a line is read only when another one follows it.
UnreadButLast(p) == FileSize > p + 1
\* Lines to read when reading starts at p.
Unread(p) == FileSize # p

\* Mutant: reading starts again whenever the file has not grown.
StartEager == IF FileSize <= pos THEN 0 ELSE pos
\* The file was truncated if it is shorter than what was read.
StartOfRead == IF FileSize < pos THEN 0 ELSE pos

\* read_new_lines
Poll ==
  /\ opc = "watch" /\ at > end /\ queue = <<>>
  /\ IF Unread(StartOfRead)
     THEN at' = base + StartOfRead + 1 /\ end' = Len(log) /\ pos' = FileSize
     ELSE pos' = StartOfRead /\ UNCHANGED <<at, end>>
  /\ UNCHANGED <<state, engine, world, opc, cached, queue, held, last, lost, faults>>

\* The exit check closes what its rules say, nothing without prices.
CheckPaperExits(open) == \E gone \in SUBSET open : held' = open \ gone

\* A transition the orchestrator acts on: EXTREME has no RegimeTier.
Mapped(regime) == regime \in {LOW_FUNDING, MODERATE, HIGH_FUNDING}
IsTransition(line) ==
  line.event = "regime_updated" /\ Mapped(line.regime) /\ Mapped(line.prev)

\* RegimeTransitionEvent(asset=None) is refused by pydantic.
ParseRaises(line) == IsTransition(line) /\ ResolveTopAsset = Null

ParseStatus(line) ==
  /\ line.event = "regime_status"
  /\ cached' = [regime |-> line.regime, top |-> line.top]
  /\ CheckPaperExits(held)
  /\ at' = at + 1
  /\ UNCHANGED <<queue, lost>>

ParseUpdate(line) ==
  /\ line.event = "regime_updated" /\ ~ParseRaises(line)
  /\ queue' = IF IsTransition(line)
              THEN Append(queue, [idx |-> at, regime |-> line.regime,
                                  asset |-> ResolveTopAsset])
              ELSE queue
  /\ at' = at + 1
  /\ UNCHANGED <<cached, held, lost>>

\* The exception leaves poll_once, which had advanced _file_position over the
\* whole batch; watch goes on with events = [].
PollRaises(line) ==
  /\ ParseRaises(line)
  /\ lost' = lost \cup {queue[i].idx : i \in DOMAIN queue} \cup at..end
  /\ at' = end + 1 /\ queue' = <<>>
  /\ UNCHANGED <<cached, held>>

\* parse_event, one line of poll_once.
ParseEvent ==
  /\ opc = "watch" /\ at <= end
  /\ ParseStatus(log[at]) \/ ParseUpdate(log[at]) \/ PollRaises(log[at])
  /\ UNCHANGED <<state, engine, world, opc, end, pos, last, faults>>

-----------------------------------------------------------------------------
(* The orchestrator. *)

\* handle_event: score, open if actionable and priced, check exits.  The other
\* gates of the scorer and the price are free; an exception skips the check.
HandleEvent(regime, asset) ==
  \/ \E open \in {held, held \cup {asset}} :
       /\ open # held =>
            /\ regime = HIGH_FUNDING /\ asset # NoAsset
            /\ Cardinality(held) < MaxOpen
       /\ CheckPaperExits(open)
       /\ UNCHANGED faults
  \/ faults > 0 /\ faults' = faults - 1 /\ UNCHANGED held

HandleNext ==
  /\ opc = "watch" /\ at > end /\ queue # <<>>
  /\ HandleEvent(Head(queue).regime, Head(queue).asset)
  /\ queue' = Tail(queue)
  /\ last' = Head(queue).idx
  /\ UNCHANGED <<state, engine, world, opc, pos, at, end, cached, lost>>

\* seek_to_end takes the size of the file, and then looks for the last
\* regime_status in all that is there by then.
SeekToEnd ==
  /\ opc = "down" /\ opc' = "seek"
  /\ pos' = FileSize /\ at' = Len(log) + 1 /\ end' = Len(log)
  /\ UNCHANGED <<state, engine, world, cached, queue, held, last, lost, faults>>

SeedRegimeStatus ==
  /\ opc = "seek" /\ opc' = "startup"
  /\ LET seen == {i \in (base + 1)..Len(log) : log[i].event = "regime_status"}
     IN  \/ seen = {} /\ cached' = NoStatus
         \/ \E i \in seen :
              /\ \A j \in seen : j <= i
              /\ cached' = [regime |-> log[i].regime, top |-> log[i].top]
  /\ UNCHANGED <<state, engine, world, pos, at, end, queue, held, last, lost, faults>>

\* Nothing to do without a top asset.  One that is null is not caught here: the
\* event is built outside the try, and the exception ends run().
EvaluateStartupRegime ==
  /\ opc = "startup"
  /\ IF cached.regime = HIGH_FUNDING /\ ResolveTopAsset = Null
     THEN opc' = "down" /\ cached' = NoStatus /\ UNCHANGED <<held, faults>>
     ELSE /\ opc' = "watch" /\ UNCHANGED cached
          /\ IF cached.regime = HIGH_FUNDING /\ ResolveTopAsset # NoAsset
             THEN HandleEvent(HIGH_FUNDING, ResolveTopAsset)
             ELSE UNCHANGED <<held, faults>>
  /\ UNCHANGED <<state, engine, world, pos, at, end, queue, last, lost>>

\* The paper trader reloads its positions from its own log.
CrashOrchestrator ==
  /\ opc # "down" /\ opc' = "down"
  /\ faults > 0 /\ faults' = faults - 1
  /\ cached' = NoStatus /\ queue' = <<>> /\ at' = end + 1 /\ lost' = {}
  /\ UNCHANGED <<state, engine, world, pos, end, held, last>>

-----------------------------------------------------------------------------
Init ==
  /\ text = "none" /\ saved = NoStatus /\ stale = FALSE
  /\ epc = "idle" /\ log = <<>> /\ base = 0
  /\ scan = NoScan
  /\ opc = "down" /\ pos = 0 /\ at = 1 /\ end = 0
  /\ cached = NoStatus /\ queue = <<>>
  /\ held = {} /\ last = 0 /\ lost = {}
  /\ rotations = MaxRotations /\ faults = MaxFaults

OrchestratorStep ==
  \/ Poll
  \/ ParseEvent
  \/ HandleNext
  \/ SeedRegimeStatus
  \/ EvaluateStartupRegime

EngineStep ==
  \/ \E m \in Markets : Detect(m)
  \/ SaveRegimeState
  \/ LogChange
  \/ LogStatus

Next ==
  \/ EngineStep
  \/ ScanEnds
  \/ Expire
  \/ Rotate
  \/ OrchestratorStep
  \/ SeekToEnd
  \/ CrashOrchestrator

Spec == Init /\ [][Next]_vars

\* The watch loop polls for ever (every two seconds) and every callback of it
\* returns: its network calls have timeouts.  Nothing obliges the engine.
FairSpec == Spec /\ WF_vars(OrchestratorStep)

-----------------------------------------------------------------------------
(* Properties. *)

Status == [regime : Regimes \cup {NoRegime}, top : Assets \cup {NoAsset, Null}]

TypeOK ==
  /\ text \in {"none", "torn", "ok"} /\ stale \in BOOLEAN
  /\ saved \in Status /\ cached \in Status
  /\ epc \in {"idle", "write", "change", "status"}
  /\ scan \in [regime : Regimes, raw : Regimes, prev : Regimes,
               top : Assets \cup {NoAsset}, was : Regimes \cup {NoRegime}]
  /\ log \in Seq([event : {"regime_updated", "regime_status"}, regime : Regimes,
                  prev : Regimes \cup {NoRegime}, top : Assets \cup {NoAsset, Null}])
  /\ base \in 0..Len(log)
  /\ opc \in {"down", "seek", "startup", "watch"}
  /\ pos \in Nat /\ at \in Nat /\ end \in 0..Len(log) /\ last \in Nat
  /\ queue \in Seq([idx : Nat, regime : 0..2, asset : Assets \cup {NoAsset}])
  /\ held \subseteq Assets /\ lost \subseteq Nat
  /\ rotations \in 0..MaxRotations /\ faults \in 0..MaxFaults

\* A logged transition is handled at most once, and transitions in the order
\* they were logged, through restarts of either process and rotations of the
\* log: handling one twice would open a second position.
InOrderOnce ==
  /\ last < at
  /\ \A i \in DOMAIN queue : last < queue[i].idx /\ queue[i].idx < at
  /\ \A i, j \in DOMAIN queue : i < j => queue[i].idx < queue[j].idx

\* The regime saved is never below the one the scan sees: hysteresis may hold
\* a regime, never overshoot on the way down.
NeverBelowMarket == scan.regime >= scan.raw

\* A process that watches a log nobody truncates comes to every line of it:
\* each transition is handled, each status runs an exit check, whatever
\* single events failed.  The exception: lines read in one poll with a
\* transition, after a status that names null, may be lost with it.
Served(n) == n < at /\ n \notin lost /\ \A i \in DOMAIN queue : queue[i].idx # n
LostToNull(n) ==
  /\ n \in lost
  /\ \E i \in lost, j \in DOMAIN log : IsTransition(log[i]) /\ log[j].top = Null
EveryLineServed ==
  \A n \in 1..MaxLog :
    (opc = "watch" /\ base = 0 /\ n <= Len(log))
      ~> (Served(n) \/ LostToNull(n) \/ opc = "down" \/ base # 0)

\* "3. Fallback to UNKNOWN" (_resolve_top_asset of ats_connector.py): a poll does
\* not fail for want of a top asset, and so loses no line.
NoPollLost == lost = {}

\* "4. Logs regime changes and sends Telegram alerts" (run_scanner of
\* trading_engine.py): a scan that replaces one regime in regime_state.json by
\* another has logged the change by the time it logs its status.
RegimeChangesLogged ==
  epc = "status" /\ scan.was \notin {NoRegime, scan.regime}
    => log # <<>> /\ log[Len(log)].event = "regime_updated"

===============================================================================
