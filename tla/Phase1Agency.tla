----------------------------- MODULE Phase1Agency -----------------------------
(***************************************************************************)
(* The paper-trading agency (scripts/trading-agency-phase1.py): a process  *)
(* that runs the stages data gate, scanner, safety validation, trader,     *)
(* state update and monitors over files that outlive it.  The stand-alone  *)
(* trader (scripts/phase1-paper-trader.py) runs over the same files.  A    *)
(* process may be killed anywhere; nothing locks the files.                *)
(***************************************************************************)
EXTENDS TradeHistory

CONSTANTS Procs, Assets,
          MaxOpen,            \* MAX_OPEN_POSITIONS
          MaxSignalAge,       \* MAX_SIGNAL_AGE_SECONDS
          DuplicateWindow,    \* duplicate_order_window_seconds
          Timeout,            \* timeout_hours of the adapter
          ShownMax,           \* active incidents the health manager looks at (25)
          Past,               \* positions an earlier day left open
          MaxNow, MaxSignals, MaxTrades, MaxFaults  \* bounds of a run

ASSUME AgencyAssumption ==
  /\ {MaxOpen, ShownMax} \subseteq Nat \ {0}
  /\ {MaxSignalAge, DuplicateWindow, Timeout, MaxNow, MaxSignals, MaxTrades, MaxFaults} \subseteq Nat
  /\ IsFiniteSet(Assets) /\ IsFiniteSet(Past)
  /\ \A bound \in {MaxOpen, MaxSignals, MaxTrades} : Cardinality(Past) <= bound
  /\ \A x \in Past :
       /\ x \in [id: 1..Cardinality(Past), asset: Assets, sig: 1..Cardinality(Past), at: {0}] /\ x.sig = x.id
       /\ \A y \in Past : (x.id = y.id \/ x.asset = y.asset) => x = y

VARIABLES log,        \* phase1-paper-trades.jsonl: the readable records
          lines,      \* lines written to it, damaged ones included
          torn,       \* it ends in a part of a line
          lost,       \* history: records that were written into a damaged line
          book,       \* position-state.json
          bookOk,     \* ... and whether it exists and can be parsed
          signals,    \* phase1-signals.jsonl
          incidents,  \* active CRITICAL incidents, the latest of each type
          dataOk,     \* data-integrity-state.json can be parsed
          safetyOk,   \* execution-safety-state.json can be parsed
          nextId,     \* a trade_id not used yet
          now,        \* the clock
          proc,       \* the local state of each process
          faults      \* history: kills, and damage to the position file

files == <<log, lines, torn, lost, book, bookOk, signals, incidents, dataOk, safetyOk>>
history == <<log, lines, torn, lost>>
position == <<book, bookOk>>
health == <<incidents, dataOk, safetyOk>>
bounds == <<nextId, now, faults>>
vars == <<files, bounds, proc>>

Signal   == [asset: Assets, no: 1..MaxSignals, at: Nat]
Position == [id: 1..MaxTrades, asset: Assets, sig: 1..MaxSignals, at: Nat]
Record   == [status: {"OPEN", "CLOSED"}, pos: Position, pnl: -1..1, at: Nat]
Stages   == {"idle", "gate", "scan", "validate", "plan", "append", "apply", "record", "monitors"}
Verdicts == {"none", "blocked", "warned", "clean"}

\* A process at rest.  todo: records to persist; doing: the one being applied;
\* seen: the length of the history when its candidate was validated.
Idle == [stage |-> "idle", agency |-> FALSE, candidate |-> {}, verdict |-> "none",
         seen |-> 0, todo |-> {}, doing |-> {}]

At(p, s) == proc[p].stage = s
Become(p, r) == proc' = [proc EXCEPT ![p] = r]
\* The stages pass on nothing but a candidate and the records to persist.
GoTo(p, s) == Become(p, [Idle EXCEPT !.stage = s, !.agency = proc[p].agency])
Die(p) == Become(p, Idle)

-----------------------------------------------------------------------------
(* The position file and the selection of an entry.                        *)

Current == IF bookOk THEN book ELSE {}

\* The file is kept when the history has no record but positions are known.
KeepsBook == log = {} /\ Current # {}
\* Mutant: the file is believed as it is.
SynchronizedTrusting == Current
Synchronized == IF KeepsBook THEN Current ELSE Replay(log)
Synchronize ==
  /\ book' = IF KeepsBook THEN book ELSE Synchronized
  /\ bookOk' = TRUE

AssetsOf(positions) == {x.asset : x \in positions}
Fresh(s) == now - s.at <= MaxSignalAge

\* Mutant: a signal is offered again after it has been traded.
CandidatesAgain(positions, ignoreDuplicates) ==
  {s \in signals : Cardinality(positions) < MaxOpen /\ Fresh(s) /\ (s.asset \in AssetsOf(positions) => ignoreDuplicates)}
\* Mutant: a market with an open position is not skipped.
CandidatesDuplicate(positions, ignoreDuplicates) ==
  {s \in signals : Cardinality(positions) < MaxOpen /\ s.no \notin Consumed(log) /\ Fresh(s)}
Candidates(positions, ignoreDuplicates) ==
  {s \in signals :
     /\ Cardinality(positions) < MaxOpen
     /\ s.no \notin Consumed(log)
     /\ Fresh(s)
     /\ s.asset \in AssetsOf(positions) => ignoreDuplicates}

-----------------------------------------------------------------------------
(* Incidents: those a CRITICAL health status rests on.  newer counts the    *)
(* incidents of any kind recorded after one, resolved since or not.         *)

Incident(type) == [type |-> type, trade |-> {}, newer |-> 0]
DataFailure == Incident("data_integrity_failure")
SafetyFailure == Incident("safety_failure")
CriticalTypes == {"data_integrity_failure", "safety_failure"}

\* The incidents after n others were recorded; and after a CRITICAL one was.
Capped(n) == IF n < ShownMax THEN n ELSE ShownMax
Aged(n) == {[i EXCEPT !.newer = Capped(@ + n)] : i \in incidents}
Recorded(incident) == {incident} \cup {i \in Aged(1) : i.type # incident.type}

\* Resolve the incidents of a type; trade: {} for those of any trade.
Resolved(type, trade) ==
  {i \in incidents : i.type # type \/ (trade # {} /\ i.trade # trade)}

\* _active_and_resolved_incidents returns the newest ShownMax: these for certain.
Shown == {i \in incidents : i.newer < ShownMax}

-----------------------------------------------------------------------------
(* The stages.                                                             *)

\* main of the agency, after a bootstrap check that passed: a failing one
\* changes no file but the report.
StartAgency(p) ==
  /\ At(p, "idle")
  /\ Become(p, [Idle EXCEPT !.stage = "gate", !.agency = TRUE])
  /\ UNCHANGED <<files, bounds>>

\* main of the stand-alone trader: it plans without a validated candidate.
StartTrader(p) ==
  /\ At(p, "idle")
  /\ GoTo(p, "plan")
  /\ UNCHANGED <<files, bounds>>

\* The gravest of what several checks find.
Worst(findings) ==
  IF "critical" \in findings THEN "critical" ELSE IF "warning" \in findings THEN "warning" ELSE "ok"

\* check_source_health answers whether the exchange does.
SourceAnswers == BOOLEAN
\* A market of the sample may lack a field; a thin volume or a funding rate that
\* jumps only warns.
FieldFindings == {"ok", "critical"}
VolumeFindings == {"ok", "warning"}
StabilityFindings == {"ok", "warning"}
SampleFindings ==
  {Worst({f, v, s}) : f \in FieldFindings, v \in VolumeFindings, s \in StabilityFindings}
\* Too few markets, or markets that lack fields, make a snapshot incomplete.
SnapshotsOf(reachable) ==
  IF reachable THEN {IF f = "critical" THEN "incomplete" ELSE "complete" : f \in SampleFindings} ELSE {"none"}

\* DataIntegrityLayer().run_pre_scan_gate().
Gate(p, snapshot) ==
  /\ At(p, "gate") /\ dataOk
  /\ incidents' = IF snapshot = "complete" THEN Resolved("data_integrity_failure", {})
                                           ELSE Recorded(DataFailure)
  /\ GoTo(p, IF snapshot = "complete" THEN "scan" ELSE "plan")
  /\ UNCHANGED <<history, position, signals, dataOk, safetyOk, bounds>>

\* The constructor of the layer reads a state file it cannot parse.
GateRaises(p) ==
  /\ At(p, "gate") /\ ~dataOk
  /\ Die(p)
  /\ UNCHANGED <<files, bounds>>

\* validate_signal: a field is missing, the timestamp is old, or the score has
\* decayed to nothing; to repeat a recent signal only warns.
FreshnessFindings == {"ok", "critical"}
DecayFindings == {"ok", "critical"}
RepeatFindings == {"ok", "warning"}
SignalFindings ==
  {Worst({f, t, d, r}) : f \in FieldFindings, t \in FreshnessFindings,
                         d \in DecayFindings, r \in RepeatFindings}
\* What enforce_signal_integrity may leave of the signals of a scan.
Accepted == {{a \in Assets : finding[a] # "critical"} : finding \in [Assets -> SignalFindings]}

\* log_signals: each signal has a timestamp of its own.
Logged(found) ==
  LET stamps == (Cardinality(signals) + 1)..(Cardinality(signals) + Cardinality(found))
      stamp == CHOOSE f \in [found -> stamps] : \A a, b \in found : f[a] = f[b] => a = b
  IN  signals \cup {[asset |-> a, no |-> stamp[a], at |-> now] : a \in found}

\* The scanner; an empty scan succeeds too.  It reads the state file of the
\* data layer.
Scan(p, found) ==
  /\ At(p, "scan") /\ dataOk
  /\ Cardinality(signals) + Cardinality(found) <= MaxSignals
  /\ signals' = Logged(found)
  /\ GoTo(p, "validate")
  /\ UNCHANGED <<history, position, health, bounds>>

\* Mutant: a scanner that fails ends the cycle.
ScanFailsEnds(p) ==
  /\ At(p, "scan")
  /\ Die(p)
  /\ UNCHANGED <<files, bounds>>
ScanFails(p) ==
  /\ At(p, "scan")
  /\ GoTo(p, "plan")
  /\ UNCHANGED <<files, bounds>>

\* The scanner hangs: subprocess.TimeoutExpired is caught nowhere.
ScanHangs(p) ==
  /\ At(p, "scan")
  /\ Die(p)
  /\ UNCHANGED <<files, bounds>>

Duplicate(s) ==
  \E l \in Opens(log) : l.pos.asset = s.asset /\ now - l.at < DuplicateWindow

\* The other checks of validate_trade: an exchange that is slow warns, one that
\* does not answer blocks;
ExchangeFindings == {"ok", "warning", "critical"}
\* a thin market or a failing query warns, an unknown market blocks;
LiquidityFindings == {"ok", "warning", "critical"}
\* a wide or unavailable book warns;
SpreadFindings == {"ok", "warning"}
\* old allocation or registry files warn.
AllocationFindings == {"ok", "warning"}

\* What they find together.
MarketFindings ==
  {Worst({e, l, s, a}) : e \in ExchangeFindings, l \in LiquidityFindings,
                         s \in SpreadFindings, a \in AllocationFindings}

\* validate_trade.  sameSide: an open order of the asset has the direction of
\* the signal.
\* Mutant: the breakers are not among the critical checks.
VerdictWithoutBreakers(s, market, sameSide) ==
  IF (sameSide /\ Duplicate(s)) \/ market = "critical" THEN "blocked"
  ELSE IF market = "warning" THEN "warned" ELSE "clean"
Verdict(s, market, sameSide) ==
  IF Trips(log, now) \/ (sameSide /\ Duplicate(s)) \/ market = "critical" THEN "blocked"
  ELSE IF market = "warning" THEN "warned" ELSE "clean"

\* The incident validate_trade records: CRITICAL only for a breaker, HIGH for any
\* other block, LOW for a warning; none if every check passed.
Validated(verdict, s) ==
  IF verdict = "clean" THEN Resolved("safety_failure", {s.asset})
  ELSE IF verdict = "blocked" /\ Trips(log, now) THEN Recorded(SafetyFailure)
  ELSE Aged(1)

\* run_safety_validation.  Duplicates are left to the safety layer when the
\* position file had to be rebuilt.
Validate(p) ==
  /\ At(p, "validate")
  /\ Synchronize
  /\ LET found == Candidates(Synchronized, ~bookOk) IN
     \/ /\ found = {}
        /\ GoTo(p, "plan") /\ UNCHANGED incidents
     \/ /\ found # {} /\ ~safetyOk
        /\ Die(p) /\ UNCHANGED incidents
     \/ /\ safetyOk
        /\ \E s \in found, market \in MarketFindings, sameSide \in BOOLEAN :
             LET verdict == Verdict(s, market, sameSide) IN
             /\ Become(p, [proc[p] EXCEPT !.stage = "plan", !.candidate = {s}, !.verdict = verdict, !.seen = lines])
             /\ incidents' = Validated(verdict, s)
  /\ UNCHANGED <<history, signals, dataOk, safetyOk, bounds>>

\* trading_response: a CRITICAL incident halts new trades as long as it is among
\* the newest.  held: so do a cooldown, the anti-flapping lock, the operator, and
\* an incident that comes among the newest again when later ones are resolved.
\* Mutant: the answer of the start of the cycle is used.
MayEnterOpening(p, held) ==
  ~proc[p].agency \/ (proc[p].verdict \in {"clean", "warned"} /\ ~held)
MayEnter(p, held) ==
  ~proc[p].agency \/ (proc[p].verdict \in {"clean", "warned"} /\ Shown = {} /\ ~held)

\* The entry the plan may hold: the candidate the safety stage let pass, or,
\* for the stand-alone trader, any signal that can be selected.
Entries(p, positions) ==
  {s \in Candidates(positions, FALSE) : proc[p].agency => s \in proc[p].candidate}

\* Mutant: the result is booked once for each side.
CloseBothSides(x, pnl) == [status |-> "CLOSED", pos |-> x, pnl |-> 2 * pnl, at |-> now]
Close(x, pnl) == [status |-> "CLOSED", pos |-> x, pnl |-> pnl, at |-> now]
Entry(s) == [status |-> "OPEN", pnl |-> 0, at |-> now,
             pos |-> [id |-> nextId, asset |-> s.asset, sig |-> s.no, at |-> now]]

\* run_trader hands over what it planned, after it has saved the safety state;
\* nothing planned ends the trader's part.
Persist(p, todo) ==
  CASE todo = {} -> IF proc[p].agency THEN GoTo(p, "monitors") ELSE Die(p)
    [] todo # {} /\ proc[p].agency /\ ~safetyOk -> Die(p)
    [] OTHER -> Become(p, [proc[p] EXCEPT !.stage = "append", !.todo = todo])

\* build_execution_plan: close what an exit rule fires for at a known price,
\* then choose an entry against the positions that are left.
Plan(p, priced, held) ==
  /\ At(p, "plan")
  /\ Synchronize
  /\ priced \subseteq Synchronized
  /\ \E out \in SUBSET priced, pnl \in [Synchronized -> {-1, 1}] :
       LET closes == {Close(x, pnl[x]) : x \in out}
           left == Synchronized \ out
           offered == IF MayEnter(p, held) /\ nextId <= MaxTrades THEN Entries(p, left) ELSE {}
       IN /\ \A x \in priced : now - x.at >= Timeout => x \in out
          /\ \/ /\ offered = {}
                /\ Persist(p, closes) /\ UNCHANGED nextId
             \/ \E s \in offered :
                  /\ Persist(p, closes \cup {Entry(s)})
                  /\ nextId' = nextId + 1
  /\ UNCHANGED <<history, signals, health, now, faults>>

\* Planning raised: the trader stage fails and nothing is persisted.
PlanFails(p) ==
  /\ At(p, "plan") /\ proc[p].agency
  /\ GoTo(p, "monitors")
  /\ UNCHANGED <<files, bounds>>

\* log_trade, first half: append the line; text joins a damaged last line.
NextRecord(p) ==
  {r \in proc[p].todo : r.status = "OPEN" => \A q \in proc[p].todo : q.status = "OPEN"}

Append(p) ==
  /\ At(p, "append")
  /\ \E r \in NextRecord(p) :
       /\ log' = IF torn THEN log
                 ELSE log \cup {[n |-> lines + 1, status |-> r.status, pos |-> r.pos, pnl |-> r.pnl, at |-> r.at]}
       /\ Become(p, [proc[p] EXCEPT !.stage = "apply", !.todo = @ \ {r}, !.doing = {r}])
  /\ lines' = lines + 1 /\ torn' = FALSE
  /\ lost' = IF torn THEN lost + 1 ELSE lost
  /\ UNCHANGED <<position, signals, health, bounds>>

\* log_trade, second half: apply_trade_to_position_state and the account file.
Apply(p) ==
  /\ At(p, "apply")
  /\ \E r \in proc[p].doing :
       book' = IF r.status = "OPEN" THEN Current \cup {r.pos} ELSE {x \in Current : x.id # r.pos.id}
  /\ bookOk' = TRUE
  /\ CASE proc[p].todo # {} -> Become(p, [proc[p] EXCEPT !.stage = "append", !.doing = {}])
       [] proc[p].todo = {} /\ proc[p].agency -> GoTo(p, "record")
       [] OTHER -> Die(p)
  /\ UNCHANGED <<history, signals, health, bounds>>

\* The end of run_state_update: refresh and save the safety state.
RecordOutcome(p) ==
  /\ At(p, "record")
  /\ IF safetyOk THEN GoTo(p, "monitors") ELSE Die(p)
  /\ UNCHANGED <<files, bounds>>

\* timeout-monitor.py synchronizes the positions before it looks at them; its
\* own history decides nothing.
MonitorTimeouts(ran) == IF ran THEN Synchronize ELSE UNCHANGED position

\* The monitor runs, or it does not in time; the report ends the cycle.  For a
\* position without a price it records two incidents, none of them CRITICAL.
Monitors(p, ran) ==
  /\ At(p, "monitors")
  /\ MonitorTimeouts(ran)
  /\ \E unpriced \in IF ran THEN 0..Cardinality(Synchronized) ELSE {0} :
       incidents' = Aged(2 * unpriced)
  /\ Die(p)
  /\ UNCHANGED <<history, signals, dataOk, safetyOk, bounds>>

-----------------------------------------------------------------------------
(* Faults and time.                                                        *)

\* The stages that save the state of the data layer, and of the safety layer.
SavesData(p) == proc[p].stage \in {"gate", "scan"}
SavesSafety(p) == proc[p].stage \in {"validate", "plan", "record"} /\ proc[p].agency

\* A kill.  The two layers write their state in place, so the file of the
\* layer at work may be left empty; a line of the history may stay a part.
Crash(p) ==
  /\ ~At(p, "idle") /\ faults < MaxFaults
  /\ faults' = faults + 1
  /\ Die(p)
  /\ \/ UNCHANGED <<torn, dataOk, safetyOk>>
     \/ At(p, "append") /\ torn' = TRUE /\ UNCHANGED <<dataOk, safetyOk>>
     \/ SavesData(p) /\ dataOk' = FALSE /\ UNCHANGED <<torn, safetyOk>>
     \/ SavesSafety(p) /\ safetyOk' = FALSE /\ UNCHANGED <<torn, dataOk>>
  /\ UNCHANGED <<log, lines, lost, position, signals, incidents, nextId, now>>

\* The position file is removed or damaged.
Damage ==
  /\ bookOk /\ faults < MaxFaults
  /\ bookOk' = FALSE /\ book' = {} /\ faults' = faults + 1
  /\ UNCHANGED <<history, signals, health, nextId, now, proc>>

\* The operator removes a state file that cannot be parsed.
Repair ==
  /\ ~dataOk \/ ~safetyOk
  /\ dataOk' = TRUE /\ safetyOk' = TRUE
  /\ UNCHANGED <<history, position, signals, incidents, bounds, proc>>

Tick ==
  /\ now < MaxNow
  /\ now' = now + 1
  /\ UNCHANGED <<files, nextId, proc, faults>>

-----------------------------------------------------------------------------
Init ==
  /\ log = {[n |-> x.id, status |-> "OPEN", pos |-> x, pnl |-> 0, at |-> x.at] : x \in Past}
  /\ lines = Cardinality(Past) /\ torn = FALSE /\ lost = 0
  /\ book = Past /\ bookOk = (Past # {})
  /\ signals = {[asset |-> x.asset, no |-> x.sig, at |-> x.at] : x \in Past}
  /\ incidents = {}
  /\ dataOk = TRUE /\ safetyOk = TRUE
  /\ nextId = Cardinality(Past) + 1 /\ now = 0
  /\ proc = [p \in Procs |-> Idle]
  /\ faults = 0

Step(p) ==
  \/ StartAgency(p)
  \/ StartTrader(p)
  \/ \E reachable \in SourceAnswers : \E snapshot \in SnapshotsOf(reachable) : Gate(p, snapshot)
  \/ GateRaises(p)
  \/ \E found \in Accepted : Scan(p, found)
  \/ ScanFails(p)
  \/ ScanHangs(p)
  \/ Validate(p)
  \/ \E priced \in SUBSET Synchronized, held \in BOOLEAN : Plan(p, priced, held)
  \/ PlanFails(p)
  \/ Append(p)
  \/ Apply(p)
  \/ RecordOutcome(p)
  \/ \E ran \in BOOLEAN : Monitors(p, ran)

Next == (\E p \in Procs : Step(p) \/ Crash(p)) \/ Damage \/ Repair \/ Tick

Spec == Init /\ [][Next]_vars

\* Cycles are started again and again and go on; infinitely often the scanner
\* returns and planning finds every price; the operator clears a damaged state
\* file; the clock runs.
FairSpec ==
  /\ Spec /\ WF_vars(Repair) /\ WF_vars(Tick)
  /\ \A p \in Procs :
       /\ WF_vars(Step(p))
       /\ SF_vars((\E found \in Accepted : Scan(p, found)) \/ ScanFails(p))
       /\ SF_vars(\E held \in BOOLEAN : Plan(p, Synchronized, held))

-----------------------------------------------------------------------------
(* Properties.                                                             *)

TypeOK ==
  /\ log \subseteq [n: 1..lines, status: {"OPEN", "CLOSED"}, pos: Position, pnl: -1..1, at: 0..now]
  /\ lines \in Nat /\ lost \in Nat
  /\ {torn, bookOk, dataOk, safetyOk} \subseteq BOOLEAN
  /\ book \subseteq Position /\ signals \subseteq Signal
  /\ incidents \subseteq [type: CriticalTypes, trade: {{}}, newer: 0..ShownMax]
  /\ nextId \in 1..(MaxTrades + 1) /\ now \in 0..MaxNow
  /\ proc \in [Procs -> [stage: Stages, agency: BOOLEAN, candidate: SUBSET Signal, verdict: Verdicts,
                         seen: Nat, todo: SUBSET Record, doing: SUBSET Record]]

\* No trade is booked twice, whatever was killed, torn or damaged: a signal
\* opens one position, and a position is closed, and paid out, once.
EachTradeOnce ==
  \A l, m \in log :
    l.status = m.status /\ (l.pos.id = m.pos.id \/ (l.status = "OPEN" /\ l.pos.sig = m.pos.sig)) => l = m

\* Across kills and rebuilt position files the number of open positions stays
\* within its limit, up to one for each record that went into a damaged line;
\* as long as none did, a market has at most one, also when the duplicate test
\* of the selection was left out for a rebuilt file.
OpenWithinLimits ==
  /\ Cardinality(Replay(log)) <= MaxOpen + lost
  /\ lost = 0 => \A x, y \in Replay(log) : x.asset = y.asset => x = y

NewEntries(p) == {l \in log' \ log : l.status = "OPEN" /\ proc[p].agency /\ At(p, "append")}

\* An entry of the agency is the signal its safety stage let pass, on a history
\* that had tripped no loss breaker, and under no CRITICAL incident except one
\* that as many others followed as the health manager looks at.
EntryIsVetted ==
  [][\A p \in Procs : \A l \in NewEntries(p) :
       /\ Shown = {}
       /\ \E s \in proc[p].candidate : l.pos.sig = s.no
       /\ ConsecutiveLosses({m \in log : m.n <= proc[p].seen}) < LossLimit]_vars

\* The same, on the history the entry joins (docs/EXECUTION_SAFETY_LAYER.md:
\* "kill switch, breaker conditions, or exchange-down state prevents new
\* entries").  Violated: the exits of the cycle are persisted before its entry.
BreakerHoldsAtEntry ==
  [][\A p \in Procs : NewEntries(p) # {} => ConsecutiveLosses(log) < LossLimit]_vars

\* The same without the exception (scripts/trading-agency-phase1.py: "CRITICAL
\* health halt active: new entries blocked").
\* Violated: LOW safety warnings of later cycles, which nothing resolves, push
\* the incident of a tripped breaker out of the newest ShownMax.
NoEntryUnderCritical ==
  [][\A p \in Procs : NewEntries(p) # {} => incidents = {}]_vars

\* A validation in which every check passes resolves the safety failure
\* (scripts/execution-safety-layer.py: "All enforced safety conditions passed
\* again for the candidate trade").  Violated: it looks for an incident of the
\* candidate's asset, and the incident was recorded without one.
CleanValidationResolves ==
  [][\A p \in Procs :
       At(p, "validate") /\ proc'[p].verdict = "clean" => \A i \in incidents' : i.type # "safety_failure"]_vars

DueExits == {x \in Replay(log) : now - x.at >= Timeout}
\* A position past its timeout is closed in the end: a failing data gate, a
\* failing scanner, a blocked entry, a halt and a kill delay the exit only.
ExitsComplete == DueExits # {} ~> DueExits = {}
=============================================================================
