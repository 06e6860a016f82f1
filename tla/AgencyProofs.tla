----------------------------- MODULE AgencyProofs -----------------------------
(***************************************************************************)
(* What the trade history of the paper agency promises when one process    *)
(* works on the files, the agency or the stand-alone trader: for any        *)
(* markets, limits, positions left open and numbers of kills and damages.  *)
(***************************************************************************)
EXTENDS Phase1Agency, FiniteSetTheorems, TLAPS

\* One process uses the files (two plan on the same positions and signals).
OneProcess == \A p, q \in Procs : p = q

-----------------------------------------------------------------------------
(* The inductive invariant.                                                *)

\* What a process holds.
Local == [stage: Stages, agency: BOOLEAN, candidate: SUBSET Signal, verdict: Verdicts,
          seen: Nat, todo: SUBSET Record, doing: SUBSET Record]

Incidents == [type: CriticalTypes, trade: {{}}, newer: 0..ShownMax]

Finite == IsFiniteSet(log) /\ IsFiniteSet(Replay(log)) /\ IsFiniteSet(signals)

\* nextId is new to the history and to the position file, which lists a trade once.
IdsKnown ==
  /\ \A l \in log : l.pos.id < nextId
  /\ \A x \in book : x.id < nextId /\ \A y \in book : x.id = y.id => x = y

\* The records a process still has to persist: one entry at most, one close for
\* each position, none of them in the history yet, the entry not in the position
\* file either.
PlannedOnce(p) ==
  LET todo == proc[p].todo
      doing == proc[p].doing
  IN  /\ todo \cap doing = {}
      /\ proc[p].stage \notin {"append", "apply"} => todo = {} /\ doing = {}
      /\ \A r \in todo \cup doing :
           /\ r.pos.id < nextId /\ r.at <= now
           /\ \A q \in todo \cup doing :
                r.status = q.status /\ (r.status = "OPEN" \/ r.pos.id = q.pos.id) => r = q
           /\ r.status = "OPEN" => \A x \in book : x.id # r.pos.id
      /\ \A r \in todo : \A l \in log :
           l.status = r.status => l.pos.id # r.pos.id /\ (r.status = "OPEN" => l.pos.sig # r.pos.sig)

\* The positions that are left once the planned closes are written.
Remaining(p) == {x \in Replay(log) : \A c \in proc[p].todo : c.status = "CLOSED" => c.pos.id # x.id}

\* They leave room for the planned entry.
RoomPlanned(p) ==
  \A r \in proc[p].todo : r.status = "OPEN" =>
    /\ Cardinality(Remaining(p)) < MaxOpen + lost
    /\ lost = 0 => \A x \in Remaining(p) : x.asset # r.pos.asset

SeenBy(p) == {m \in log : m.n <= proc[p].seen}

\* What the safety stage let pass rests on a part of the history that stays as it is.
Vetted(p) ==
  /\ proc[p].seen <= lines
  /\ proc[p].verdict \in {"clean", "warned"} => ConsecutiveLosses(SeenBy(p)) < LossLimit
  /\ \A r \in proc[p].todo : r.status = "OPEN" /\ proc[p].agency =>
       /\ proc[p].verdict \in {"clean", "warned"} /\ Shown = {}
       /\ \E s \in proc[p].candidate : r.pos.sig = s.no

IInv ==
  /\ TypeOK /\ Finite /\ IdsKnown /\ EachTradeOnce /\ OpenWithinLimits
  /\ \A p \in Procs : PlannedOnce(p) /\ RoomPlanned(p) /\ Vetted(p)

-----------------------------------------------------------------------------
(* Facts about the definitions.                                            *)

LEMMA Bounds ==
  /\ MaxOpen \in Nat \ {0} /\ LossLimit \in Nat \ {0} /\ ShownMax \in Nat \ {0}
  /\ {MaxNow, MaxSignals, MaxTrades, MaxFaults} \subseteq Nat /\ IsFiniteSet(Assets) /\ IsFiniteSet(Past)
BY AgencyAssumption, BreakersAssumption DEF AgencyAssumption, BreakersAssumption

\* Incidents that were recorded, resolved or followed by others are incidents.
LEMMA IncidentsTyped ==
  ASSUME TypeOK
  PROVE  /\ DataFailure \in Incidents /\ SafetyFailure \in Incidents
         /\ \A n \in Nat : Aged(n) \subseteq Incidents
         /\ Recorded(DataFailure) \subseteq Incidents /\ Recorded(SafetyFailure) \subseteq Incidents
         /\ \A type, trade : Resolved(type, trade) \subseteq Incidents
<1>1. incidents \subseteq Incidents BY DEF TypeOK, Incidents
<1>2. DataFailure \in Incidents /\ SafetyFailure \in Incidents
  BY Bounds DEF DataFailure, SafetyFailure, Incident, Incidents, CriticalTypes
<1>3. ASSUME NEW n \in Nat PROVE Aged(n) \subseteq Incidents
  <2>1. ASSUME NEW i \in incidents PROVE [i EXCEPT !.newer = Capped(@ + n)] \in Incidents
    <3>1. i \in Incidents /\ i.newer \in 0..ShownMax BY <1>1 DEF Incidents
    <3>2. Capped(i.newer + n) \in 0..ShownMax BY <1>3, <3>1, Bounds DEF Capped
    <3> QED BY <3>1, <3>2 DEF Incidents
  <2> QED BY <2>1 DEF Aged
<1>4. \A type, trade : Resolved(type, trade) \subseteq Incidents BY <1>1 DEF Resolved
<1> QED BY <1>2, <1>3, <1>4 DEF Recorded

LEMMA RestIsLocal ==
  ASSUME NEW s \in Stages, NEW b \in BOOLEAN
  PROVE  [Idle EXCEPT !.stage = s, !.agency = b] \in Local /\ Idle \in Local
BY DEF Idle, Local, Verdicts, Stages

LEMMA LocalOf == TypeOK => proc \in [Procs -> Local]
BY DEF TypeOK, Local

\* What one process holds after it was given something else to hold.
LEMMA Becomes ==
  ASSUME OneProcess, TypeOK, NEW p \in Procs, NEW r, Become(p, r)
  PROVE  proc'[p] = r /\ (\A q \in Procs : q = p) /\ (r \in Local => proc' \in [Procs -> Local])
<1>1. proc' = [proc EXCEPT ![p] = r] /\ proc \in [Procs -> Local] BY LocalOf DEF Become
<1> QED BY <1>1 DEF OneProcess

LEMMA RecordsTyped ==
  ASSUME TypeOK
  PROVE  /\ \A l \in log : l.pos \in Position /\ l.n \in Nat /\ l.n <= lines /\ l.status \in {"OPEN", "CLOSED"}
         /\ Replay(log) \subseteq Position /\ lines \in Nat /\ lost \in Nat /\ nextId \in Nat /\ now \in Nat
BY Bounds DEF TypeOK, Replay, Opens, Closes

\* Whichever it takes, the positions known to a stage list a trade once.
LEMMA SynchronizedKnown ==
  ASSUME IInv
  PROVE  /\ Synchronized \subseteq Position
         /\ \A x \in Synchronized : x.id < nextId /\ \A y \in Synchronized : x.id = y.id => x = y
<1>1. \A x \in Replay(log) : x.id < nextId /\ \A y \in Replay(log) : x.id = y.id => x = y
  BY DEF IInv, IdsKnown, EachTradeOnce, Replay, Opens
<1>2. Current \subseteq book BY DEF Current
<1> QED BY <1>1, <1>2, RecordsTyped DEF IInv, IdsKnown, TypeOK, Synchronized

\* A file that is kept is one that can be read.
LEMMA SynchronizeIs == Synchronize => book' = Synchronized /\ bookOk' = TRUE
BY DEF Synchronize, Synchronized, KeepsBook, Current

LEMMA OpenAreFinite ==
  ASSUME IInv
  PROVE  /\ IsFiniteSet(Replay(log)) /\ Cardinality(Replay(log)) \in Nat
         /\ \A S \in SUBSET Replay(log) : IsFiniteSet(S) /\ Cardinality(S) \in Nat
                                          /\ Cardinality(S) <= Cardinality(Replay(log))
BY FS_Subset, FS_CardinalityType DEF IInv, Finite

-----------------------------------------------------------------------------
(* Steps that leave a process without records to persist.                  *)

LEMMA Rests ==
  ASSUME OneProcess, IInv, NEW p \in Procs, NEW r, Become(p, r),
         r.todo = {}, r.doing = {}, r.seen = 0, r.verdict = "none",
         UNCHANGED <<log, lines, lost>>, IsFiniteSet(signals)', TypeOK', IdsKnown'
  PROVE  IInv'
<1>1. proc'[p] = r /\ \A q \in Procs : q = p BY Becomes DEF IInv
<1>2. PlannedOnce(p)' BY <1>1 DEF PlannedOnce
<1>3. RoomPlanned(p)' BY <1>1 DEF RoomPlanned
<1>4. Vetted(p)' BY <1>1, RecordsTyped DEF Vetted, IInv, Shown
<1>5. Finite' /\ EachTradeOnce' /\ OpenWithinLimits'
  BY DEF IInv, Finite, EachTradeOnce, OpenWithinLimits, Replay, Opens, Closes
<1> QED BY <1>1, <1>2, <1>3, <1>4, <1>5 DEF IInv

LEMMA GoesTo ==
  ASSUME IInv, NEW p \in Procs, NEW s \in Stages, GoTo(p, s) \/ Die(p)
  PROVE  \E r \in Local : Become(p, r) /\ r.todo = {} /\ r.doing = {} /\ r.seen = 0 /\ r.verdict = "none"
<1>1. proc[p].agency \in BOOLEAN BY DEF IInv, TypeOK
<1>2. CASE GoTo(p, s) BY <1>1, <1>2, RestIsLocal DEF GoTo, Idle
<1>3. CASE Die(p)
  <2>1. Idle \in Local BY RestIsLocal
  <2> QED BY <1>3, <2>1 DEF Die, Idle
<1> QED BY <1>2, <1>3

\* The same for GoTo and Die: they keep what a process is.
LEMMA RestsAt ==
  ASSUME OneProcess, IInv, NEW p \in Procs, NEW s \in Stages, GoTo(p, s) \/ Die(p),
         UNCHANGED <<log, lines, lost, nextId, now>>,
         book' \in {book, Synchronized}, IsFiniteSet(signals)', signals' \subseteq Signal,
         incidents' \subseteq Incidents, ({torn, bookOk, dataOk, safetyOk} \subseteq BOOLEAN)'
  PROVE  IInv'
<1>1. PICK r \in Local : Become(p, r) /\ r.todo = {} /\ r.doing = {} /\ r.seen = 0 /\ r.verdict = "none"
  BY GoesTo
<1>2. proc' \in [Procs -> Local] BY <1>1, Becomes DEF IInv
<1>3. book' \subseteq Position BY SynchronizedKnown DEF IInv, TypeOK
<1>4. TypeOK' BY <1>2, <1>3 DEF IInv, TypeOK, Local, Incidents
<1>5. IdsKnown' BY SynchronizedKnown DEF IInv, IdsKnown
<1> QED BY <1>1, <1>4, <1>5, Rests

\* Each signal of a scan gets a number that is new and small enough.
LEMMA LoggedTyped ==
  ASSUME TypeOK, Finite, NEW found \in SUBSET Assets, Cardinality(signals) + Cardinality(found) <= MaxSignals
  PROVE  Logged(found) \subseteq Signal /\ IsFiniteSet(Logged(found))
<1> DEFINE k == Cardinality(signals)
           m == Cardinality(found)
           stamps == (k + 1)..(k + m)
           stamp == CHOOSE f \in [found -> stamps] : \A a, b \in found : f[a] = f[b] => a = b
           new == {[asset |-> a, no |-> stamp[a], at |-> now] : a \in found}
<1>1. IsFiniteSet(found) /\ m \in Nat /\ k \in Nat
  BY Bounds, FS_Subset, FS_CardinalityType DEF Finite
<1>2. PICK g \in Bijection(1..m, found) : TRUE
  BY <1>1, FS_CardinalityType DEF ExistsBijection
<1>3. g \in [1..m -> found] /\ \A a \in found : \E i \in 1..m : g[i] = a
  BY <1>2 DEF Bijection, Surjection, Injection
<1>4. \E f \in [found -> stamps] : \A a, b \in found : f[a] = f[b] => a = b
  <2> DEFINE h == [a \in found |-> CHOOSE i \in 1..m : g[i] = a]
             f == [a \in found |-> k + h[a]]
  <2>1. \A a \in found : h[a] \in 1..m /\ g[h[a]] = a BY <1>3
  <2> HIDE DEF h
  <2>2. f \in [found -> stamps] BY <1>1, <2>1
  <2>3. \A a, b \in found : f[a] = f[b] => a = b BY <1>1, <2>1
  <2> QED BY <2>2, <2>3
<1>5. stamp \in [found -> stamps] BY <1>4
<1> HIDE DEF stamp
<1>6. stamps \subseteq 1..MaxSignals BY <1>1, Bounds
<1>7. now \in Nat BY Bounds DEF TypeOK
<1>8. new \subseteq Signal BY <1>5, <1>6, <1>7 DEF Signal
<1>9. IsFiniteSet(new)
  <2>1. [a \in found |-> [asset |-> a, no |-> stamp[a], at |-> now]] \in Surjection(found, new)
    BY DEF Surjection
  <2> QED BY <1>1, <2>1, FS_Surjection
<1>10. Logged(found) = signals \cup new BY DEF Logged, stamp
<1>11. IsFiniteSet(signals) /\ signals \subseteq Signal BY DEF Finite, TypeOK
<1> HIDE DEF new
<1> QED BY <1>8, <1>9, <1>10, <1>11, FS_Union

LEMMA StagesRest ==
  ASSUME OneProcess, IInv, NEW p \in Procs,
         \/ StartAgency(p) \/ StartTrader(p) \/ GateRaises(p) \/ ScanFails(p) \/ ScanHangs(p)
         \/ PlanFails(p) \/ RecordOutcome(p) \/ Crash(p)
         \/ \E snapshot : Gate(p, snapshot)
         \/ \E found \in Accepted : Scan(p, found)
         \/ \E ran \in BOOLEAN : Monitors(p, ran)
  PROVE  IInv'
<1> USE DEF files, history, position, health, bounds
<1>1. /\ IsFiniteSet(signals) /\ signals \subseteq Signal /\ incidents \subseteq Incidents
      /\ {torn, bookOk, dataOk, safetyOk} \subseteq BOOLEAN
  BY DEF IInv, Finite, TypeOK, Incidents
<1>2. CASE StartAgency(p)
  <2> DEFINE r == [Idle EXCEPT !.stage = "gate", !.agency = TRUE]
  <2>1. /\ Become(p, r) /\ r \in Local /\ r.todo = {} /\ r.doing = {} /\ r.seen = 0 /\ r.verdict = "none"
        /\ UNCHANGED <<files, bounds>>
    BY <1>2, RestIsLocal DEF StartAgency, Stages, Idle
  <2>2. proc' \in [Procs -> Local] BY <2>1, Becomes DEF IInv
  <2>3. TypeOK' BY <2>1, <2>2 DEF IInv, TypeOK, Local, Incidents
  <2>4. IdsKnown' BY <2>1 DEF IInv, IdsKnown
  <2>5. IsFiniteSet(signals)' /\ UNCHANGED <<log, lines, lost>> BY <1>1, <2>1
  <2> HIDE DEF r
  <2> QED BY <2>1, <2>3, <2>4, <2>5, Rests
<1>3. CASE StartTrader(p) \/ GateRaises(p) \/ ScanFails(p) \/ ScanHangs(p) \/ PlanFails(p) \/ RecordOutcome(p)
  <2>1. \E s \in Stages : GoTo(p, s) \/ Die(p)
    BY <1>3 DEF StartTrader, GateRaises, ScanFails, ScanHangs, PlanFails, RecordOutcome, Stages
  <2>2. UNCHANGED <<files, bounds>>
    BY <1>3 DEF StartTrader, GateRaises, ScanFails, ScanHangs, PlanFails, RecordOutcome
  <2> QED BY <1>1, <2>1, <2>2, RestsAt
<1>4. CASE Crash(p)
  <2>1. Die(p) /\ UNCHANGED <<log, lines, lost, nextId, now, book, bookOk, signals, incidents>> BY <1>4 DEF Crash
  <2>2. ({torn, bookOk, dataOk, safetyOk} \subseteq BOOLEAN)' BY <1>1, <1>4 DEF Crash
  <2> QED BY <1>1, <2>1, <2>2, RestsAt DEF Stages
<1>5. ASSUME NEW snapshot, Gate(p, snapshot) PROVE IInv'
  <2>1. \E s \in Stages : GoTo(p, s) BY <1>5 DEF Gate, Stages
  <2>2. incidents' \subseteq Incidents BY <1>5, IncidentsTyped DEF Gate, IInv
  <2>3. UNCHANGED <<log, lines, lost, torn, nextId, now, book, bookOk, signals, dataOk, safetyOk>> BY <1>5 DEF Gate
  <2> QED BY <1>1, <2>1, <2>2, <2>3, RestsAt
<1>6. ASSUME NEW found \in Accepted, Scan(p, found) PROVE IInv'
  <2>1. found \subseteq Assets BY DEF Accepted
  <2>2. signals' \subseteq Signal /\ IsFiniteSet(signals)' BY <1>6, <2>1, LoggedTyped DEF Scan, IInv
  <2>3. /\ UNCHANGED <<log, lines, lost, torn, nextId, now, book, bookOk, incidents, dataOk, safetyOk>>
        /\ GoTo(p, "validate")
    BY <1>6 DEF Scan
  <2> QED BY <1>1, <2>2, <2>3, RestsAt DEF Stages
<1>7. ASSUME NEW ran \in BOOLEAN, Monitors(p, ran) PROVE IInv'
  <2>1. /\ book' \in {book, Synchronized} /\ bookOk' \in BOOLEAN /\ Die(p)
        /\ UNCHANGED <<log, lines, lost, torn, nextId, now, signals, dataOk, safetyOk>>
    BY <1>1, <1>7 DEF Monitors, MonitorTimeouts, Synchronize, Synchronized
  <2>2. incidents' \subseteq Incidents
    <3>1. PICK unpriced \in IF ran THEN 0..Cardinality(Synchronized) ELSE {0} : incidents' = Aged(2 * unpriced)
      BY <1>7 DEF Monitors
    <3>2. 2 * unpriced \in Nat BY <3>1
    <3> QED BY <3>1, <3>2, IncidentsTyped DEF IInv
  <2> QED BY <1>1, <2>1, <2>2, RestsAt DEF Stages
<1> QED BY <1>2, <1>3, <1>4, <1>5, <1>6, <1>7

-----------------------------------------------------------------------------
(* The safety stage.                                                       *)

\* A candidate that is not blocked was looked at on a history with no row of losses.
LEMMA NotBlocked ==
  ASSUME IInv, NEW s, NEW market, NEW sameSide, Verdict(s, market, sameSide) \in {"clean", "warned"}
  PROVE  ConsecutiveLosses(log) < LossLimit
<1>1. ~Trips(log, now) BY DEF Verdict
<1>2. ~(ConsecutiveLosses(log) >= LossLimit) BY <1>1 DEF Trips, LossesTooMany
<1>3. ConsecutiveLosses(log) \in Nat
  <2>1. {c \in Losses(log) : \A d \in Closes(log) : d.pnl >= 0 => d.n < c.n} \subseteq log
    BY DEF Losses, Closes
  <2>2. IsFiniteSet(log) BY DEF IInv, Finite
  <2>3. IsFiniteSet({c \in Losses(log) : \A d \in Closes(log) : d.pnl >= 0 => d.n < c.n})
    BY <2>1, <2>2, FS_Subset
  <2> QED BY <2>3, FS_CardinalityType DEF ConsecutiveLosses
<1> QED BY <1>2, <1>3, Bounds

LEMMA ValidateKeeps ==
  ASSUME OneProcess, IInv, NEW p \in Procs, Validate(p)
  PROVE  IInv'
<1> USE DEF history, health, bounds
<1>1. /\ UNCHANGED <<log, lines, torn, lost, signals, dataOk, safetyOk, nextId, now>>
      /\ book' = Synchronized /\ bookOk' = TRUE /\ At(p, "validate")
  BY SynchronizeIs DEF Validate
<1>2. /\ IsFiniteSet(signals) /\ signals \subseteq Signal /\ incidents \subseteq Incidents
      /\ {torn, dataOk, safetyOk} \subseteq BOOLEAN
  BY DEF IInv, Finite, TypeOK, Incidents
<1>3. CASE (GoTo(p, "plan") \/ Die(p)) /\ UNCHANGED incidents
  BY <1>1, <1>2, <1>3, RestsAt DEF Stages
<1>4. CASE ~((GoTo(p, "plan") \/ Die(p)) /\ UNCHANGED incidents)
  <2>1. PICK s \in Candidates(Synchronized, ~bookOk), market \in MarketFindings, sameSide \in BOOLEAN :
          LET verdict == Verdict(s, market, sameSide) IN
          /\ Become(p, [proc[p] EXCEPT !.stage = "plan", !.candidate = {s}, !.verdict = verdict, !.seen = lines])
          /\ incidents' = Validated(verdict, s)
    BY <1>4, Zenon DEF Validate
  <2> DEFINE verdict == Verdict(s, market, sameSide)
             r == [proc[p] EXCEPT !.stage = "plan", !.candidate = {s}, !.verdict = verdict, !.seen = lines]
  <2>2. incidents' \in {Recorded(SafetyFailure), Resolved("safety_failure", {s.asset}), Aged(1)}
    BY <2>1 DEF Validated
  <2>3. incidents' \subseteq Incidents BY <2>2, IncidentsTyped DEF IInv
  <2>4. verdict \in Verdicts BY DEF Verdict, Verdicts
  <2>5. verdict \in {"clean", "warned"} => ConsecutiveLosses(log) < LossLimit BY NotBlocked
  <2>6. s \in Signal BY <1>2 DEF Candidates
  <2>7. proc[p] \in Local /\ lines \in Nat BY LocalOf, RecordsTyped DEF IInv
  <2>8. proc[p].todo = {} /\ proc[p].doing = {} BY <1>1 DEF IInv, PlannedOnce, At
  <2> HIDE DEF verdict
  <2>9. /\ r \in Local /\ r.todo = {} /\ r.doing = {} /\ r.seen = lines /\ r.verdict = verdict
    BY <2>4, <2>6, <2>7, <2>8 DEF Local, Stages
  <2>10. Become(p, r) BY <2>1 DEF verdict
  <2> HIDE DEF r
  <2>11. proc'[p] = r /\ proc' \in [Procs -> Local] /\ \A q \in Procs : q = p BY <2>9, <2>10, Becomes DEF IInv
  <2>12. TypeOK' BY <1>1, <1>2, <2>3, <2>11, SynchronizedKnown DEF IInv, TypeOK, Local, Incidents
  <2>13. IdsKnown' BY <1>1, SynchronizedKnown DEF IInv, IdsKnown
  <2>14. Finite' /\ EachTradeOnce' /\ OpenWithinLimits'
    BY <1>1 DEF IInv, Finite, EachTradeOnce, OpenWithinLimits, Replay, Opens, Closes
  <2>15. PlannedOnce(p)' /\ RoomPlanned(p)' BY <2>9, <2>11 DEF PlannedOnce, RoomPlanned
  <2>16. Vetted(p)'
    <3>1. SeenBy(p)' = log BY <1>1, <2>9, <2>11, RecordsTyped DEF SeenBy, IInv
    <3>2. ConsecutiveLosses(SeenBy(p))' = ConsecutiveLosses(log) BY <3>1 DEF ConsecutiveLosses, Losses, Closes
    <3> QED BY <1>1, <2>5, <2>7, <2>9, <2>11, <3>2 DEF Vetted, Shown
  <2> QED BY <2>11, <2>12, <2>13, <2>14, <2>15, <2>16 DEF IInv
<1> QED BY <1>3, <1>4

-----------------------------------------------------------------------------
(* Planning.                                                               *)

\* What is handed over: nothing, or the planned records.
LEMMA PersistIs ==
  ASSUME NEW p \in Procs, NEW todo, Persist(p, todo)
  PROVE  GoTo(p, "monitors") \/ Die(p) \/ Become(p, [proc[p] EXCEPT !.stage = "append", !.todo = todo])
BY Zenon DEF Persist

\* A plan that fits the history and the positions keeps the invariant.
LEMMA PlannedKeeps ==
  ASSUME OneProcess, IInv, NEW p \in Procs, At(p, "plan"),
         UNCHANGED <<log, lines, torn, lost, signals, incidents, dataOk, safetyOk, now>>,
         book' = Synchronized, bookOk' = TRUE, nextId' \in {nextId, nextId + 1}, nextId' \in 1..(MaxTrades + 1),
         NEW todo \in SUBSET Record, Become(p, [proc[p] EXCEPT !.stage = "append", !.todo = todo]),
         \A r \in todo : /\ r.pos.id < nextId' /\ r.at <= now
                         /\ \A q \in todo : r.status = q.status /\ (r.status = "OPEN" \/ r.pos.id = q.pos.id) => r = q
                         /\ r.status = "OPEN" => \A x \in Synchronized : x.id # r.pos.id
                         /\ \A l \in log : l.status = r.status =>
                              l.pos.id # r.pos.id /\ (r.status = "OPEN" => l.pos.sig # r.pos.sig),
         RoomPlanned(p)', Vetted(p)'
  PROVE  IInv'
<1> DEFINE r == [proc[p] EXCEPT !.stage = "append", !.todo = todo]
<1>1. proc[p] \in Local /\ proc[p].doing = {} BY LocalOf DEF IInv, PlannedOnce, At
<1>2. r \in Local /\ r.todo = todo /\ r.doing = {} /\ r.stage = "append" BY <1>1 DEF Local, Stages
<1>3. Become(p, r) OBVIOUS
<1> HIDE DEF r
<1>4. proc'[p] = r /\ proc' \in [Procs -> Local] /\ \A q \in Procs : q = p BY <1>2, <1>3, Becomes DEF IInv
<1>5. TypeOK' BY <1>4, SynchronizedKnown DEF IInv, TypeOK, Local, Incidents
<1>6. IdsKnown' BY SynchronizedKnown, RecordsTyped DEF IInv, IdsKnown, Position, TypeOK
<1>7. Finite' /\ EachTradeOnce' /\ OpenWithinLimits'
  BY DEF IInv, Finite, EachTradeOnce, OpenWithinLimits, Replay, Opens, Closes
<1>8. PlannedOnce(p)' BY <1>2, <1>4 DEF PlannedOnce
<1> QED BY <1>4, <1>5, <1>6, <1>7, <1>8 DEF IInv

LEMMA PlanKeeps ==
  ASSUME OneProcess, IInv, NEW p \in Procs, NEW priced, NEW held \in BOOLEAN, Plan(p, priced, held)
  PROVE  IInv'
<1> USE DEF history, health, bounds
<1>1. PICK out \in SUBSET priced, pnl \in [Synchronized -> {-1, 1}] :
        LET closes == {Close(x, pnl[x]) : x \in out}
            left == Synchronized \ out
            offered == IF MayEnter(p, held) /\ nextId <= MaxTrades THEN Entries(p, left) ELSE {}
        IN  \/ offered = {} /\ Persist(p, closes) /\ UNCHANGED nextId
            \/ \E s \in offered : Persist(p, closes \cup {Entry(s)}) /\ nextId' = nextId + 1
  BY DEF Plan
<1> DEFINE closes == {Close(x, pnl[x]) : x \in out}
           left == Synchronized \ out
<1>2. /\ At(p, "plan") /\ book' = Synchronized /\ bookOk' = TRUE /\ out \subseteq Synchronized
      /\ UNCHANGED <<log, lines, torn, lost, signals, incidents, dataOk, safetyOk, now>>
  BY SynchronizeIs DEF Plan
<1>3. /\ IsFiniteSet(signals) /\ signals \subseteq Signal /\ incidents \subseteq Incidents
      /\ {torn, bookOk, dataOk, safetyOk} \subseteq BOOLEAN /\ nextId \in 1..(MaxTrades + 1) /\ now \in Nat
      /\ MaxTrades \in Nat
  BY Bounds DEF IInv, Finite, TypeOK, Incidents
<1>4. /\ proc[p] \in Local /\ proc[p].todo = {} /\ proc[p].doing = {} /\ Vetted(p) /\ \A q \in Procs : q = p
  BY <1>2, LocalOf DEF IInv, PlannedOnce, At, OneProcess
<1>5. \A c \in closes : /\ c \in Record /\ c.status = "CLOSED" /\ c.pos \in out /\ c.pos.id < nextId /\ c.at = now
                        /\ c = Close(c.pos, pnl[c.pos])
                        /\ \A l \in log : l.status = "CLOSED" => l.pos.id # c.pos.id
  <2> SUFFICES ASSUME NEW x \in out
               PROVE  LET c == Close(x, pnl[x]) IN
                        /\ c \in Record /\ c.status = "CLOSED" /\ c.pos = x /\ x.id < nextId /\ c.at = now
                        /\ \A l \in log : l.status = "CLOSED" => l.pos.id # x.id
    BY DEF closes
  <2>1. x \in Position /\ x.id < nextId /\ pnl[x] \in -1..1 BY <1>2, SynchronizedKnown
  <2>2. Close(x, pnl[x]) \in Record BY <1>3, <2>1 DEF Close, Record
  <2>3. \A l \in log : l.status = "CLOSED" => l.pos.id # x.id
    <3>1. CASE KeepsBook BY <3>1 DEF KeepsBook
    <3>2. CASE ~KeepsBook
      <4>1. x \in Replay(log) BY <1>2, <3>2 DEF Synchronized
      <4> QED BY <4>1 DEF Replay, Closes
    <3> QED BY <3>1, <3>2
  <2> QED BY <2>1, <2>2, <2>3 DEF Close
<1>6. \A c, d \in closes : c.pos.id = d.pos.id => c = d
  BY <1>2, <1>5, SynchronizedKnown
<1> HIDE DEF closes
<1>7. \A todo : Persist(p, todo) =>
        \/ (\E s \in Stages : GoTo(p, s) \/ Die(p))
        \/ Become(p, [proc[p] EXCEPT !.stage = "append", !.todo = todo])
  BY PersistIs DEF Stages
<1>8. CASE Persist(p, closes) /\ UNCHANGED nextId
  <2>1. CASE \E s \in Stages : GoTo(p, s) \/ Die(p)
    BY <1>2, <1>3, <1>8, <2>1, RestsAt
  <2>2. CASE Become(p, [proc[p] EXCEPT !.stage = "append", !.todo = closes])
    <3>1. proc'[p] = [proc[p] EXCEPT !.stage = "append", !.todo = closes] BY <2>2, Becomes DEF IInv
    <3>2. proc'[p].todo = closes /\ proc'[p].verdict = proc[p].verdict /\ proc'[p].seen = proc[p].seen
      BY <1>4, <3>1 DEF Local
    <3>3. RoomPlanned(p)' BY <1>5, <3>2 DEF RoomPlanned
    <3>4. SeenBy(p)' = SeenBy(p) BY <1>2, <3>2 DEF SeenBy
    <3>5. Vetted(p)' BY <1>2, <1>4, <1>5, <3>2, <3>4 DEF Vetted, ConsecutiveLosses, Losses, Closes, Shown
    <3>6. closes \in SUBSET Record /\ nextId' = nextId /\ nextId' \in 1..(MaxTrades + 1) BY <1>3, <1>5, <1>8
    <3>7. \A r \in closes :
             /\ r.pos.id < nextId' /\ r.at <= now
             /\ \A q \in closes : r.status = q.status /\ (r.status = "OPEN" \/ r.pos.id = q.pos.id) => r = q
             /\ r.status = "OPEN" => \A x \in Synchronized : x.id # r.pos.id
             /\ \A l \in log : l.status = r.status =>
                  l.pos.id # r.pos.id /\ (r.status = "OPEN" => l.pos.sig # r.pos.sig)
      BY <1>3, <1>5, <1>6, <3>6
    <3> QED BY <1>2, <2>2, <3>3, <3>5, <3>6, <3>7, PlannedKeeps
  <2> QED BY <1>7, <1>8, <2>1, <2>2
<1>9. ASSUME NEW s, MayEnter(p, held), nextId <= MaxTrades, s \in Entries(p, left),
             Persist(p, closes \cup {Entry(s)}), nextId' = nextId + 1
      PROVE  IInv'
  <2> DEFINE todo == closes \cup {Entry(s)}
             e == Entry(s)
  <2>1. /\ s \in Signal /\ Cardinality(left) < MaxOpen /\ s.no \notin Consumed(log) /\ s.asset \notin AssetsOf(left)
        /\ proc[p].agency => s \in proc[p].candidate
    BY <1>3, <1>9 DEF Entries, Candidates
  <2>2. e \in Record /\ e.status = "OPEN" /\ e.pos.id = nextId /\ e.pos.sig = s.no /\ e.pos.asset = s.asset /\ e.at = now
    BY <1>3, <1>9, <2>1 DEF Entry, Record, Position, Signal
  <2> HIDE DEF e
  <2>3. todo \in SUBSET Record BY <1>5, <2>2 DEF e
  <2>4. nextId' \in 1..(MaxTrades + 1) BY <1>3, <1>9
  <2>5. \A r \in todo :
           /\ r.pos.id < nextId' /\ r.at <= now
           /\ \A q \in todo : r.status = q.status /\ (r.status = "OPEN" \/ r.pos.id = q.pos.id) => r = q
           /\ r.status = "OPEN" => \A x \in Synchronized : x.id # r.pos.id
           /\ \A l \in log : l.status = r.status =>
                l.pos.id # r.pos.id /\ (r.status = "OPEN" => l.pos.sig # r.pos.sig)
    <3>1. todo = closes \cup {e} BY DEF e
    <3>2. \A x \in Synchronized : x.id # nextId
      BY <1>3, SynchronizedKnown DEF Position
    <3>3. \A l \in log : l.pos.id # nextId /\ l.pos.sig # s.no
      BY <1>3, <2>1, RecordsTyped DEF IInv, IdsKnown, Consumed, Position
    <3>4. \A c \in closes : c.pos.id < nextId' 
      BY <1>2, <1>3, <1>5, <1>9, SynchronizedKnown DEF Position
    <3> HIDE DEF todo
    <3> QED BY <1>3, <1>5, <1>6, <1>9, <2>2, <3>1, <3>2, <3>3, <3>4
  <2>6. CASE \E st \in Stages : GoTo(p, st) \/ Die(p)
    <3>1. PICK r \in Local : Become(p, r) /\ r.todo = {} /\ r.doing = {} /\ r.seen = 0 /\ r.verdict = "none"
      BY <2>6, GoesTo
    <3>2. proc' \in [Procs -> Local] BY <3>1, Becomes DEF IInv
    <3>3. TypeOK' BY <1>2, <1>3, <2>4, <3>2, SynchronizedKnown DEF IInv, TypeOK, Local, Incidents
    <3>4. IdsKnown'
      BY <1>2, <1>3, <1>9, SynchronizedKnown, RecordsTyped DEF IInv, IdsKnown, Position
    <3> QED BY <1>2, <1>3, <3>1, <3>3, <3>4, Rests
  <2>7. CASE Become(p, [proc[p] EXCEPT !.stage = "append", !.todo = todo])
    <3>1. proc'[p] = [proc[p] EXCEPT !.stage = "append", !.todo = todo] BY <2>7, Becomes DEF IInv
    <3>2. /\ proc'[p].todo = todo /\ proc'[p].verdict = proc[p].verdict /\ proc'[p].seen = proc[p].seen
          /\ proc'[p].agency = proc[p].agency /\ proc'[p].candidate = proc[p].candidate
      BY <1>4, <3>1 DEF Local
    <3>3. \A r \in todo : r.status = "OPEN" => r = e BY <1>5 DEF e
    <3>4. Remaining(p)' \subseteq Replay(log) /\ (~KeepsBook => Remaining(p)' \subseteq left)
      <4>1. Remaining(p)' = {x \in Replay(log) : \A c \in todo : c.status = "CLOSED" => c.pos.id # x.id}
        BY <1>2, <3>2 DEF Remaining, Replay, Opens, Closes
      <4>2. ASSUME ~KeepsBook, NEW x \in Replay(log), x \notin left PROVE \E c \in todo : c.status = "CLOSED" /\ c.pos.id = x.id
        <5>1. x \in out BY <4>2 DEF Synchronized
        <5>2. Close(x, pnl[x]) \in todo BY <5>1 DEF closes
        <5> QED BY <5>2 DEF Close
      <4> QED BY <4>1, <4>2
    <3>5. KeepsBook => Replay(log) = {} BY DEF KeepsBook, Replay, Opens
    <3>6. Cardinality(Remaining(p)') < MaxOpen /\ \A x \in Remaining(p)' : x.asset # s.asset
      <4>1. CASE KeepsBook
        <5>1. Remaining(p)' = {} BY <3>4, <3>5, <4>1
        <5> QED BY <5>1, FS_EmptySet, Bounds
      <4>2. CASE ~KeepsBook
        <5>1. left \subseteq Replay(log) BY <4>2 DEF Synchronized
        <5>2. IsFiniteSet(left) /\ Cardinality(left) \in Nat BY <5>1, OpenAreFinite
        <5>3. IsFiniteSet(Remaining(p)') /\ Cardinality(Remaining(p)') <= Cardinality(left)
              /\ Cardinality(Remaining(p)') \in Nat
          BY <3>4, <4>2, <5>2, FS_Subset, FS_CardinalityType
        <5>4. Cardinality(Remaining(p)') < MaxOpen BY <2>1, <5>2, <5>3, Bounds
        <5> QED BY <2>1, <3>4, <4>2, <5>4 DEF AssetsOf
      <4> QED BY <4>1, <4>2
    <3>7. RoomPlanned(p)'
      <4>1. IsFiniteSet(Remaining(p)') /\ Cardinality(Remaining(p)') \in Nat
        BY <3>4, OpenAreFinite
      <4>2. Cardinality(Remaining(p))' = Cardinality(Remaining(p)') OBVIOUS
      <4>3. lost' = lost /\ lost \in Nat BY <1>2, RecordsTyped DEF IInv
      <4>4. Cardinality(Remaining(p)') < MaxOpen + lost BY <3>6, <4>1, <4>3, Bounds
      <4> HIDE DEF todo
      <4> QED BY <2>2, <3>2, <3>3, <3>6, <4>2, <4>3, <4>4 DEF RoomPlanned
    <3>8. SeenBy(p)' = SeenBy(p) BY <1>2, <3>2 DEF SeenBy
    <3>9. proc[p].agency => proc[p].verdict \in {"clean", "warned"} /\ Shown = {} BY <1>9 DEF MayEnter
    <3>10. Vetted(p)'
      <4> HIDE DEF todo
      <4> QED BY <1>2, <1>4, <2>1, <2>2, <3>2, <3>3, <3>8, <3>9 DEF Vetted, ConsecutiveLosses, Losses, Closes, Shown
    <3> HIDE DEF todo
    <3> QED BY <1>2, <1>9, <2>3, <2>4, <2>5, <2>7, <3>7, <3>10, PlannedKeeps
  <2> QED BY <1>7, <1>9, <2>6, <2>7
<1> QED BY <1>1, <1>8, <1>9 DEF closes

-----------------------------------------------------------------------------
(* Persisting: the line of a record, then its position.                    *)

\* What a line changes in the positions that are replayed.
LEMMA ReplayAfter ==
  ASSUME NEW h, NEW l, l.status \in {"OPEN", "CLOSED"}
  PROVE  /\ Replay(h \cup {l}) \subseteq Replay(h) \cup {l.pos}
         /\ l.status = "CLOSED" => Replay(h \cup {l}) \subseteq {x \in Replay(h) : x.id # l.pos.id}
BY DEF Replay, Opens, Closes

LEMMA AppendKeeps ==
  ASSUME OneProcess, IInv, NEW p \in Procs, Append(p)
  PROVE  IInv'
<1> USE DEF position, health, bounds
<1> DEFINE todo == proc[p].todo
           Line(r) == [n |-> lines + 1, status |-> r.status, pos |-> r.pos, pnl |-> r.pnl, at |-> r.at]
<1>1. PICK r \in NextRecord(p) :
        /\ log' = IF torn THEN log ELSE log \cup {Line(r)}
        /\ Become(p, [proc[p] EXCEPT !.stage = "apply", !.todo = @ \ {r}, !.doing = {r}])
  BY DEF Append
<1>2. /\ lines' = lines + 1 /\ torn' = FALSE /\ lost' = (IF torn THEN lost + 1 ELSE lost)
      /\ UNCHANGED <<book, bookOk, signals, incidents, dataOk, safetyOk, nextId, now>>
  BY DEF Append
<1>3. /\ proc[p] \in Local /\ PlannedOnce(p) /\ RoomPlanned(p) /\ Vetted(p)
      /\ r \in todo /\ r \in Record /\ r.pos \in Position /\ r.status \in {"OPEN", "CLOSED"}
      /\ r.status = "OPEN" => \A q \in todo : q.status = "OPEN"
  <2>1. proc[p] \in Local BY LocalOf DEF IInv
  <2> QED BY <2>1 DEF IInv, NextRecord, Local, Record
<1>4. PICK next : next = [proc[p] EXCEPT !.stage = "apply", !.todo = @ \ {r}, !.doing = {r}] OBVIOUS
<1>5. /\ next \in Local /\ next.todo = todo \ {r} /\ next.doing = {r} /\ next.stage = "apply"
      /\ next.verdict = proc[p].verdict /\ next.seen = proc[p].seen /\ next.agency = proc[p].agency
      /\ next.candidate = proc[p].candidate
  <2>1. todo \in SUBSET Record BY <1>3 DEF Local
  <2> QED BY <1>3, <1>4, <2>1 DEF Local, Stages
<1>6. proc'[p] = next /\ proc' \in [Procs -> Local] /\ \A q \in Procs : q = p
  BY <1>1, <1>4, <1>5, Becomes DEF IInv
<1>7. PICK l : l = Line(r) OBVIOUS
<1>8. l.n = lines + 1 /\ l.status = r.status /\ l.pos = r.pos BY <1>7
<1>9. /\ lines \in Nat /\ lost \in Nat /\ now \in Nat /\ nextId \in Nat /\ MaxOpen \in Nat \ {0}
      /\ log' \in {log, log \cup {l}} /\ (torn => log' = log) /\ (~torn => log' = log \cup {l}) /\ torn \in BOOLEAN
  BY <1>1, <1>7, RecordsTyped, Bounds DEF IInv, TypeOK
<1>10. r.at \in 0..now BY <1>3, <1>9 DEF PlannedOnce, Record
<1> HIDE DEF todo, Line
<1>11. TypeOK'
  <2>1. log' \subseteq [n: 1..lines', status: {"OPEN", "CLOSED"}, pos: Position, pnl: -1..1, at: 0..now']
    <3>1. l \in [n: 1..lines', status: {"OPEN", "CLOSED"}, pos: Position, pnl: -1..1, at: 0..now']
      BY <1>2, <1>3, <1>7, <1>9, <1>10 DEF Line, Record
    <3>2. \A m \in log : m \in [n: 1..lines', status: {"OPEN", "CLOSED"}, pos: Position, pnl: -1..1, at: 0..now']
      BY <1>2, <1>9 DEF IInv, TypeOK
    <3> QED BY <1>9, <3>1, <3>2
  <2>2. lines' \in Nat /\ lost' \in Nat BY <1>2, <1>9
  <2> QED BY <1>2, <1>6, <2>1, <2>2 DEF IInv, TypeOK, Local, Incidents
<1>12. Replay(log)' \subseteq Replay(log) \cup {r.pos}
       /\ (r.status = "CLOSED" => Replay(log)' \subseteq Replay(log))
       /\ (r.status = "CLOSED" /\ ~torn => \A x \in Replay(log)' : x.id # r.pos.id)
  <2>1. Replay(log)' = Replay(log') BY DEF Replay, Opens, Closes
  <2>2. /\ Replay(log \cup {l}) \subseteq Replay(log) \cup {r.pos}
        /\ r.status = "CLOSED" => Replay(log \cup {l}) \subseteq {x \in Replay(log) : x.id # r.pos.id}
    <3>1. l.status \in {"OPEN", "CLOSED"} BY <1>3, <1>8
    <3>2. /\ Replay(log \cup {l}) \subseteq Replay(log) \cup {l.pos}
          /\ l.status = "CLOSED" => Replay(log \cup {l}) \subseteq {x \in Replay(log) : x.id # l.pos.id}
      BY <3>1, ReplayAfter
    <3> QED BY <1>8, <3>2
  <2>3. CASE torn BY <1>9, <2>1, <2>3
  <2>4. CASE ~torn BY <1>9, <2>1, <2>2, <2>4
  <2> QED BY <2>3, <2>4
<1>13. Finite'
  <2>1. IsFiniteSet(log \cup {l}) /\ IsFiniteSet(Replay(log) \cup {r.pos})
    BY FS_AddElement DEF IInv, Finite
  <2> QED BY <1>2, <1>9, <1>12, <2>1, FS_Subset DEF IInv, Finite
<1>14. IdsKnown'
  BY <1>2, <1>3, <1>8, <1>9 DEF IInv, IdsKnown, PlannedOnce, todo
<1>15. EachTradeOnce'
  BY <1>3, <1>8, <1>9 DEF IInv, EachTradeOnce, PlannedOnce, todo
<1>16. r.status = "OPEN" => Remaining(p) = Replay(log)
  BY <1>3 DEF Remaining, todo
<1>17. OpenWithinLimits'
  <2>1. Cardinality(Replay(log))' = Cardinality(Replay(log)') OBVIOUS
  <2>2. CASE torn
    <3>1. Replay(log)' = Replay(log) /\ lost' = lost + 1 BY <1>2, <1>9, <2>2
    <3> QED BY <1>9, <2>1, <3>1, OpenAreFinite DEF IInv, OpenWithinLimits
  <2>3. CASE ~torn /\ r.status = "CLOSED"
    <3>1. Cardinality(Replay(log)') <= Cardinality(Replay(log)) /\ Cardinality(Replay(log)') \in Nat
      BY <1>12, <2>3, OpenAreFinite
    <3> QED BY <1>2, <1>9, <1>12, <2>1, <2>3, <3>1, OpenAreFinite DEF IInv, OpenWithinLimits
  <2>4. CASE ~torn /\ r.status = "OPEN"
    <3>1. Cardinality(Replay(log)) < MaxOpen + lost /\ (lost = 0 => \A x \in Replay(log) : x.asset # r.pos.asset)
      BY <1>3, <1>16, <2>4 DEF RoomPlanned, todo
    <3>2. IsFiniteSet(Replay(log) \cup {r.pos}) /\ Cardinality(Replay(log) \cup {r.pos}) <= Cardinality(Replay(log)) + 1
      BY OpenAreFinite, FS_AddElement
    <3>3. Cardinality(Replay(log)') <= Cardinality(Replay(log) \cup {r.pos}) /\ Cardinality(Replay(log)') \in Nat
          /\ Cardinality(Replay(log) \cup {r.pos}) \in Nat
      BY <1>12, <3>2, FS_Subset, FS_CardinalityType
    <3>4. Cardinality(Replay(log)') <= MaxOpen + lost BY <1>9, <3>1, <3>2, <3>3, OpenAreFinite
    <3> QED BY <1>2, <1>12, <2>1, <2>4, <3>1, <3>4 DEF IInv, OpenWithinLimits
  <2> QED BY <1>3, <2>2, <2>3, <2>4
<1>18. PlannedOnce(p)'
  <2>1. todo' = todo \ {r} /\ proc'[p].doing = {r} /\ proc'[p].stage = "apply" BY <1>5, <1>6 DEF todo
  <2>2. \A q \in todo \ {r} : \A m \in log' : m.status = q.status =>
           m.pos.id # q.pos.id /\ (q.status = "OPEN" => m.pos.sig # q.pos.sig)
    BY <1>3, <1>8, <1>9 DEF PlannedOnce, todo
  <2>3. todo \cup {r} = todo BY <1>3
  <2> QED BY <1>2, <1>3, <2>1, <2>2, <2>3 DEF PlannedOnce, todo
<1>19. RoomPlanned(p)'
  <2> SUFFICES ASSUME NEW q \in todo \ {r}, q.status = "OPEN"
               PROVE  /\ Cardinality(Remaining(p)') < MaxOpen + lost'
                      /\ lost' = 0 => \A x \in Remaining(p)' : x.asset # q.pos.asset
    <3>1. Cardinality(Remaining(p))' = Cardinality(Remaining(p)') OBVIOUS
    <3>2. proc'[p].todo = todo \ {r} BY <1>5, <1>6
    <3> QED BY <3>1, <3>2 DEF RoomPlanned
  <2>1. r.status = "CLOSED" BY <1>3 DEF PlannedOnce, todo
  <2>2. /\ Cardinality(Remaining(p)) < MaxOpen + lost
        /\ lost = 0 => \A x \in Remaining(p) : x.asset # q.pos.asset
    BY <1>3 DEF RoomPlanned, todo
  <2>3. Remaining(p)' = {x \in Replay(log)' : \A c \in todo \ {r} : c.status = "CLOSED" => c.pos.id # x.id}
    BY <1>5, <1>6 DEF Remaining
  <2>4. Remaining(p) \subseteq Replay(log) BY DEF Remaining
  <2>5. IsFiniteSet(Remaining(p)) /\ Cardinality(Remaining(p)) \in Nat BY <2>4, OpenAreFinite
  <2>6. CASE ~torn
    <3>1. Remaining(p)' \subseteq Remaining(p) BY <1>12, <2>1, <2>3, <2>6 DEF Remaining, todo
    <3>2. Cardinality(Remaining(p)') <= Cardinality(Remaining(p)) /\ Cardinality(Remaining(p)') \in Nat
      BY <2>5, <3>1, FS_Subset, FS_CardinalityType
    <3> QED BY <1>2, <1>9, <2>2, <2>5, <2>6, <3>1, <3>2
  <2>7. CASE torn
    <3>1. PICK y : Remaining(p)' \subseteq Remaining(p) \cup {y}
      <4>1. \A x \in Remaining(p)' : x \in Replay(log) /\ (x \in Remaining(p) \/ x.id = r.pos.id)
        BY <1>12, <2>1, <2>3 DEF Remaining, todo
      <4>2. \A x, y \in Replay(log) : x.id = y.id => x = y
        BY DEF IInv, EachTradeOnce, Replay, Opens
      <4>3. CASE \E y \in Remaining(p)' : y.id = r.pos.id
        <5>1. PICK y \in Remaining(p)' : y.id = r.pos.id BY <4>3
        <5> QED BY <4>1, <4>2, <5>1
      <4>4. CASE ~ \E y \in Remaining(p)' : y.id = r.pos.id BY <4>1, <4>4
      <4> QED BY <4>3, <4>4
    <3>2. IsFiniteSet(Remaining(p) \cup {y}) /\ Cardinality(Remaining(p) \cup {y}) <= Cardinality(Remaining(p)) + 1
      BY <2>5, FS_AddElement
    <3>3. Cardinality(Remaining(p)') <= Cardinality(Remaining(p) \cup {y}) /\ Cardinality(Remaining(p)') \in Nat
          /\ Cardinality(Remaining(p) \cup {y}) \in Nat
      BY <3>1, <3>2, FS_Subset, FS_CardinalityType
    <3> QED BY <1>2, <1>9, <2>2, <2>5, <2>7, <3>2, <3>3
  <2> QED BY <1>9, <2>6, <2>7
<1>20. SeenBy(p)' = SeenBy(p)
  <2>1. proc[p].seen \in Nat /\ proc[p].seen <= lines BY <1>3 DEF Local, Vetted
  <2>2. l \notin {m \in log' : m.n <= proc[p].seen} BY <1>8, <1>9, <2>1
  <2> QED BY <1>5, <1>6, <1>9, <2>2 DEF SeenBy
<1>21. Vetted(p)'
  <2>1. proc[p].seen \in Nat BY <1>3 DEF Local
  <2>2. ConsecutiveLosses(SeenBy(p))' = ConsecutiveLosses(SeenBy(p)) BY <1>20 DEF ConsecutiveLosses, Losses, Closes
  <2>3. proc'[p].seen <= lines' BY <1>2, <1>3, <1>5, <1>6, <1>9, <2>1 DEF Vetted
  <2> QED BY <1>2, <1>3, <1>5, <1>6, <2>2, <2>3 DEF Vetted, todo, Shown
<1> QED BY <1>6, <1>11, <1>13, <1>14, <1>15, <1>17, <1>18, <1>19, <1>21 DEF IInv

\* The second half: the position file follows.
LEMMA ApplyKeeps ==
  ASSUME OneProcess, IInv, NEW p \in Procs, Apply(p)
  PROVE  IInv'
<1> USE DEF history, health, bounds
<1>1. PICK r \in proc[p].doing :
        book' = IF r.status = "OPEN" THEN Current \cup {r.pos} ELSE {x \in Current : x.id # r.pos.id}
  BY DEF Apply
<1>2. /\ bookOk' = TRUE
      /\ UNCHANGED <<log, lines, torn, lost, signals, incidents, dataOk, safetyOk, nextId, now>>
  BY DEF Apply
<1>3. /\ proc[p] \in Local /\ PlannedOnce(p) /\ RoomPlanned(p) /\ Vetted(p)
      /\ r \in Record /\ r.pos \in Position /\ Current \subseteq book
  <2>1. proc[p] \in Local BY LocalOf DEF IInv
  <2>2. r \in Record BY <2>1 DEF Local
  <2> QED BY <2>1, <2>2 DEF IInv, Record, Current
<1>4. book' \subseteq Position
  BY <1>1, <1>3 DEF IInv, TypeOK
<1>5. IdsKnown'
  BY <1>1, <1>2, <1>3 DEF IInv, IdsKnown, PlannedOnce
<1>6. /\ IsFiniteSet(signals) /\ signals \subseteq Signal /\ incidents \subseteq Incidents
      /\ {torn, bookOk, dataOk, safetyOk} \subseteq BOOLEAN
  BY DEF IInv, Finite, TypeOK, Incidents
<1>7. CASE \E s \in Stages : GoTo(p, s) \/ Die(p)
  <2>1. PICK n \in Local : Become(p, n) /\ n.todo = {} /\ n.doing = {} /\ n.seen = 0 /\ n.verdict = "none"
    BY <1>7, GoesTo
  <2>2. proc' \in [Procs -> Local] BY <2>1, Becomes DEF IInv
  <2>3. TypeOK' BY <1>2, <1>4, <1>6, <2>2 DEF IInv, TypeOK, Local, Incidents
  <2> QED BY <1>2, <1>5, <1>6, <2>1, <2>3, Rests
<1>8. CASE Become(p, [proc[p] EXCEPT !.stage = "append", !.doing = {}])
  <2>1. PICK n : n = [proc[p] EXCEPT !.stage = "append", !.doing = {}] OBVIOUS
  <2>2. /\ n \in Local /\ n.todo = proc[p].todo /\ n.doing = {} /\ n.stage = "append"
        /\ n.verdict = proc[p].verdict /\ n.seen = proc[p].seen /\ n.agency = proc[p].agency
        /\ n.candidate = proc[p].candidate
    BY <1>3, <2>1 DEF Local, Stages
  <2>3. proc'[p] = n /\ proc' \in [Procs -> Local] /\ \A q \in Procs : q = p BY <1>8, <2>1, <2>2, Becomes DEF IInv
  <2>4. TypeOK' BY <1>2, <1>4, <1>6, <2>3 DEF IInv, TypeOK, Local, Incidents
  <2>5. Finite' /\ EachTradeOnce' /\ OpenWithinLimits'
    BY <1>2 DEF IInv, Finite, EachTradeOnce, OpenWithinLimits, Replay, Opens, Closes
  <2>6. PlannedOnce(p)'
    <3>1. \A q \in proc[p].todo : q.status = "OPEN" => \A x \in book' : x.id # q.pos.id
      BY <1>1, <1>3 DEF PlannedOnce
    <3> QED BY <1>2, <1>3, <2>2, <2>3, <3>1 DEF PlannedOnce
  <2>7. Remaining(p)' = Remaining(p) BY <1>2, <2>2, <2>3 DEF Remaining, Replay, Opens, Closes
  <2>8. Cardinality(Remaining(p))' = Cardinality(Remaining(p)) BY <2>7
  <2>9. RoomPlanned(p)' BY <1>2, <1>3, <2>2, <2>3, <2>7, <2>8 DEF RoomPlanned
  <2>10. SeenBy(p)' = SeenBy(p) BY <1>2, <2>2, <2>3 DEF SeenBy
  <2>11. ConsecutiveLosses(SeenBy(p))' = ConsecutiveLosses(SeenBy(p)) BY <2>10 DEF ConsecutiveLosses, Losses, Closes
  <2>12. Vetted(p)' BY <1>2, <1>3, <2>2, <2>3, <2>11 DEF Vetted, Shown
  <2> QED BY <1>5, <2>3, <2>4, <2>5, <2>6, <2>9, <2>12 DEF IInv
<1>9. (\E s \in Stages : GoTo(p, s) \/ Die(p)) \/ Become(p, [proc[p] EXCEPT !.stage = "append", !.doing = {}])
  <2>1. "record" \in Stages BY DEF Stages
  <2> QED BY <2>1, Zenon DEF Apply
<1> QED BY <1>7, <1>8, <1>9

-----------------------------------------------------------------------------
(* The rest of the world.                                                  *)

LEMMA WorldKeeps ==
  ASSUME IInv, Damage \/ Repair \/ Tick \/ UNCHANGED vars
  PROVE  IInv'
<1> USE DEF files, history, position, health, bounds
<1>1. /\ UNCHANGED <<log, lines, torn, lost, signals, incidents, nextId, proc>>
      /\ book' \subseteq book /\ ({torn, bookOk, dataOk, safetyOk} \subseteq BOOLEAN)'
      /\ now' \in 0..MaxNow /\ now' >= now /\ now \in Nat
  <2>1. {torn, bookOk, dataOk, safetyOk} \subseteq BOOLEAN /\ now \in 0..MaxNow /\ MaxNow \in Nat
    BY Bounds DEF IInv, TypeOK
  <2>2. CASE Damage
    <3>1. /\ UNCHANGED <<log, lines, torn, lost, signals, incidents, nextId, proc, dataOk, safetyOk, now>>
          /\ book' = {} /\ bookOk' = FALSE
      BY <2>2 DEF Damage
    <3>2. book' \subseteq book /\ ({torn, bookOk, dataOk, safetyOk} \subseteq BOOLEAN)' BY <2>1, <3>1
    <3>3. now' \in 0..MaxNow /\ now' >= now /\ now \in Nat BY <2>1, <3>1
    <3> QED BY <3>1, <3>2, <3>3
  <2>3. CASE Repair
    <3>1. /\ UNCHANGED <<log, lines, torn, lost, signals, incidents, nextId, proc, book, bookOk, now>>
          /\ dataOk' = TRUE /\ safetyOk' = TRUE
      BY <2>3 DEF Repair
    <3> QED BY <2>1, <3>1
  <2>4. CASE Tick
    <3>1. /\ UNCHANGED <<log, lines, torn, lost, signals, incidents, nextId, proc, book, bookOk, dataOk, safetyOk>>
          /\ now' = now + 1 /\ now < MaxNow
      BY <2>4 DEF Tick
    <3> QED BY <2>1, <3>1
  <2>5. CASE UNCHANGED vars BY <2>1, <2>5 DEF vars
  <2> QED BY <2>2, <2>3, <2>4, <2>5
<1>2. TypeOK'
  <2>1. log' \subseteq [n: 1..lines', status: {"OPEN", "CLOSED"}, pos: Position, pnl: -1..1, at: 0..now']
    BY <1>1 DEF IInv, TypeOK
  <2> QED BY <1>1, <2>1 DEF IInv, TypeOK
<1>3. IdsKnown' BY <1>1 DEF IInv, IdsKnown
<1>4. Finite' /\ EachTradeOnce' /\ OpenWithinLimits'
  BY <1>1 DEF IInv, Finite, EachTradeOnce, OpenWithinLimits, Replay, Opens, Closes
<1>5. ASSUME NEW p \in Procs PROVE PlannedOnce(p)' /\ RoomPlanned(p)' /\ Vetted(p)'
  <2>1. PlannedOnce(p) /\ RoomPlanned(p) /\ Vetted(p) /\ proc[p] \in Local BY LocalOf DEF IInv
  <2>2. \A r \in proc[p].todo \cup proc[p].doing : r.at \in Nat BY <2>1 DEF Local, Record
  <2>3. PlannedOnce(p)' BY <1>1, <2>1, <2>2 DEF PlannedOnce
  <2>4. Remaining(p)' = Remaining(p) BY <1>1 DEF Remaining, Replay, Opens, Closes
  <2>5. Cardinality(Remaining(p))' = Cardinality(Remaining(p)) BY <2>4
  <2>6. RoomPlanned(p)' BY <1>1, <2>1, <2>4, <2>5 DEF RoomPlanned
  <2>7. SeenBy(p)' = SeenBy(p) BY <1>1 DEF SeenBy
  <2>8. ConsecutiveLosses(SeenBy(p))' = ConsecutiveLosses(SeenBy(p)) BY <2>7 DEF ConsecutiveLosses, Losses, Closes
  <2>9. Vetted(p)' BY <1>1, <2>1, <2>8 DEF Vetted, Shown
  <2> QED BY <2>3, <2>6, <2>9
<1> QED BY <1>2, <1>3, <1>4, <1>5 DEF IInv

\* A history of entries only, as an earlier day left it.
LEMMA InitHolds == Init => IInv
<1> SUFFICES ASSUME Init PROVE IInv OBVIOUS
<1> DEFINE Line(x) == [n |-> x.id, status |-> "OPEN", pos |-> x, pnl |-> 0, at |-> x.at]
           Sig(x) == [asset |-> x.asset, no |-> x.sig, at |-> x.at]
           k == Cardinality(Past)
<1>1. /\ log = {Line(x) : x \in Past} /\ lines = k /\ lost = 0 /\ torn = FALSE /\ book = Past
      /\ signals = {Sig(x) : x \in Past} /\ incidents = {} /\ dataOk = TRUE /\ safetyOk = TRUE
      /\ bookOk \in BOOLEAN /\ nextId = k + 1 /\ now = 0 /\ proc = [p \in Procs |-> Idle]
  BY DEF Init
<1>2. /\ IsFiniteSet(Past) /\ k \in Nat /\ k <= MaxOpen /\ k <= MaxSignals /\ k <= MaxTrades
      /\ {MaxOpen, MaxSignals, MaxTrades, MaxNow} \subseteq Nat
  BY Bounds, FS_CardinalityType, AgencyAssumption DEF AgencyAssumption
<1>3. \A x \in Past :
        /\ x \in [id: 1..k, asset: Assets, sig: 1..k, at: {0}] /\ x.sig = x.id
        /\ \A y \in Past : (x.id = y.id \/ x.asset = y.asset) => x = y
  BY AgencyAssumption DEF AgencyAssumption
<1> HIDE DEF k
<1>4. \A x \in Past : /\ x.id \in 1..k /\ x.id \in 1..MaxTrades /\ x.sig \in 1..MaxSignals /\ x.asset \in Assets
                      /\ x.at = 0 /\ x = [id |-> x.id, asset |-> x.asset, sig |-> x.sig, at |-> x.at]
  BY <1>2, <1>3
<1>5. \A x \in Past : x \in Position /\ Sig(x) \in Signal
  BY <1>4 DEF Position, Signal
<1>6. (\A p \in Procs : proc[p] = Idle) /\ proc \in [Procs -> Local]
  <2>1. Idle \in Local BY RestIsLocal DEF Stages
  <2> QED BY <1>1, <2>1
<1>7. \A l \in log : \E x \in Past : l = Line(x) BY <1>1
<1>8. TypeOK
  <2>1. \A x \in Past : Line(x) \in [n: 1..lines, status: {"OPEN", "CLOSED"}, pos: Position, pnl: -1..1, at: 0..now]
    <3> SUFFICES ASSUME NEW x \in Past
                 PROVE  Line(x) \in [n: 1..lines, status: {"OPEN", "CLOSED"}, pos: Position, pnl: -1..1, at: 0..now]
      OBVIOUS
    <3>1. 1..lines = 1..k /\ 0..now = 0..0 BY <1>1
    <3>2. x.id \in 1..k /\ x.at \in 0..0 BY <1>4
    <3>3. 0 \in -1..1 /\ "OPEN" \in {"OPEN", "CLOSED"} OBVIOUS
    <3> QED BY <1>5, <3>1, <3>2, <3>3
  <2>2. log \subseteq [n: 1..lines, status: {"OPEN", "CLOSED"}, pos: Position, pnl: -1..1, at: 0..now] BY <1>1, <2>1
  <2>3. signals \subseteq Signal BY <1>1, <1>5
  <2>4. book \subseteq Position BY <1>1, <1>5
  <2>5. {torn, bookOk, dataOk, safetyOk} \subseteq BOOLEAN BY <1>1
  <2>6. lines \in Nat /\ lost \in Nat /\ nextId \in 1..(MaxTrades + 1) /\ now \in 0..MaxNow /\ incidents = {}
    BY <1>1, <1>2
  <2> QED BY <1>6, <2>2, <2>3, <2>4, <2>5, <2>6 DEF TypeOK, Local, Incidents
<1>9. Replay(log) = Past
  <2>1. Opens(log) = log /\ Closes(log) = {}
    <3>1. \A l \in log : l.status = "OPEN" BY <1>7
    <3> QED BY <3>1 DEF Opens, Closes
  <2>2. {o.pos : o \in log} = Past
    <3>1. \A l \in log : l.pos \in Past BY <1>7
    <3>2. \A x \in Past : Line(x) \in log /\ Line(x).pos = x BY <1>1
    <3> QED BY <3>1, <3>2
  <2>3. Replay(log) = {o.pos : o \in log} BY <2>1 DEF Replay
  <2> QED BY <2>2, <2>3
<1>10. Finite
  <2>1. [x \in Past |-> Line(x)] \in Surjection(Past, log) BY <1>1 DEF Surjection
  <2>2. [x \in Past |-> Sig(x)] \in Surjection(Past, signals) BY <1>1 DEF Surjection
  <2>3. IsFiniteSet(log) BY <1>2, <2>1, FS_Surjection
  <2>4. IsFiniteSet(signals) BY <1>2, <2>2, FS_Surjection
  <2> QED BY <1>2, <1>9, <2>3, <2>4 DEF Finite
<1>11. IdsKnown
  <2>1. \A x \in Past : x.id < nextId /\ \A y \in Past : x.id = y.id => x = y BY <1>1, <1>2, <1>3
  <2>2. \A l \in log : l.pos \in Past BY <1>1
  <2> QED BY <1>1, <2>1, <2>2 DEF IdsKnown
<1>12. EachTradeOnce
  <2>1. ASSUME NEW x \in Past, NEW y \in Past, x.id = y.id \/ x.sig = y.sig PROVE Line(x) = Line(y)
    BY <1>3, <2>1
  <2> SUFFICES ASSUME NEW l \in log, NEW m \in log, l.pos.id = m.pos.id \/ l.pos.sig = m.pos.sig PROVE l = m
    BY DEF EachTradeOnce
  <2>2. PICK x \in Past : l = Line(x) BY <1>7
  <2>3. PICK y \in Past : m = Line(y) BY <1>7
  <2>4. l.pos = x /\ m.pos = y BY <2>2, <2>3
  <2> QED BY <2>1, <2>2, <2>3, <2>4
<1>13. OpenWithinLimits
  <2>1. Cardinality(Replay(log)) = k BY <1>9 DEF k
  <2>2. \A x, y \in Replay(log) : x.asset = y.asset => x = y BY <1>3, <1>9
  <2> QED BY <1>1, <1>2, <2>1, <2>2 DEF OpenWithinLimits
<1>14. \A p \in Procs : PlannedOnce(p) /\ RoomPlanned(p) /\ Vetted(p)
  BY <1>1, <1>2, <1>6 DEF Idle, PlannedOnce, RoomPlanned, Vetted
<1> QED BY <1>8, <1>10, <1>11, <1>12, <1>13, <1>14 DEF IInv

LEMMA NextKeeps == OneProcess /\ IInv /\ [Next]_vars => IInv'
<1> SUFFICES ASSUME OneProcess, IInv, [Next]_vars PROVE IInv' OBVIOUS
<1>1. ASSUME NEW p \in Procs, Step(p) \/ Crash(p) PROVE IInv'
  <2>1. CASE \/ StartAgency(p) \/ StartTrader(p) \/ GateRaises(p) \/ ScanFails(p) \/ ScanHangs(p)
             \/ PlanFails(p) \/ RecordOutcome(p) \/ Crash(p)
             \/ \E snapshot : Gate(p, snapshot)
             \/ \E found \in Accepted : Scan(p, found)
             \/ \E ran \in BOOLEAN : Monitors(p, ran)
    BY <2>1, StagesRest
  <2>2. CASE Validate(p) BY <2>2, ValidateKeeps
  <2>3. CASE \E priced \in SUBSET Synchronized, held \in BOOLEAN : Plan(p, priced, held) BY <2>3, PlanKeeps
  <2>4. CASE Append(p) BY <2>4, AppendKeeps
  <2>5. CASE Apply(p) BY <2>5, ApplyKeeps
  <2> QED BY <1>1, <2>1, <2>2, <2>3, <2>4, <2>5 DEF Step
<1>2. CASE Damage \/ Repair \/ Tick \/ UNCHANGED vars BY <1>2, WorldKeeps
<1> QED BY <1>1, <1>2 DEF Next

LEMMA Invariance == OneProcess => (Spec => []IInv)
<1> SUFFICES ASSUME OneProcess PROVE Spec => []IInv OBVIOUS
<1>1. IInv /\ [Next]_vars => IInv' BY NextKeeps
<1>2. Init => IInv BY InitHolds
<1> QED BY <1>1, <1>2, PTL DEF Spec

-----------------------------------------------------------------------------
(* The theorems.                                                           *)

\* The files and the process keep their types: in particular every signal of a
\* scan gets a number, and every record is dated in the past.
THEOREM TypeOKAlways == OneProcess => (Spec => []TypeOK)
<1>1. IInv => TypeOK BY DEF IInv
<1> QED BY <1>1, Invariance, PTL

\* With one process on the files, for any number of kills, torn lines and
\* damages: no signal opens two positions and no position is closed twice,
\* because planning starts from the history and a plan is persisted as it is.
THEOREM EachTradeOnceAlways == OneProcess => (Spec => []EachTradeOnce)
<1>1. IInv => EachTradeOnce BY DEF IInv
<1> QED BY <1>1, Invariance, PTL

\* The number of open positions stays within MAX_OPEN_POSITIONS, up to one for
\* each record that went into a damaged line, and a market has at most one
\* position as long as none did.
THEOREM OpenWithinLimitsAlways == OneProcess => (Spec => []OpenWithinLimits)
<1>1. IInv => OpenWithinLimits BY DEF IInv
<1> QED BY <1>1, Invariance, PTL

\* The history grows by the next planned record only.
LEMMA EntriesAreVetted ==
  ASSUME OneProcess, IInv, Next, NEW p \in Procs, NEW l \in NewEntries(p)
  PROVE  /\ Shown = {}
         /\ \E s \in proc[p].candidate : l.pos.sig = s.no
         /\ ConsecutiveLosses({m \in log : m.n <= proc[p].seen}) < LossLimit
<1>1. l \in log' /\ l \notin log /\ l.status = "OPEN" /\ proc[p].agency BY DEF NewEntries
<1>2. PICK q \in Procs : Append(q)
  <2>1. log' # log BY <1>1
  <2> QED BY <2>1 DEF Next, Step, StartAgency, StartTrader, Gate, GateRaises, Scan, ScanFails, ScanHangs, Validate, Plan,
             PlanFails, Apply, RecordOutcome, Monitors, Crash, Damage, Repair, Tick, files, history
<1>3. q = p BY DEF OneProcess
<1>4. PICK r \in NextRecord(p) :
        log' = IF torn THEN log
               ELSE log \cup {[n |-> lines + 1, status |-> r.status, pos |-> r.pos, pnl |-> r.pnl, at |-> r.at]}
  BY <1>2, <1>3 DEF Append
<1>5. r.status = "OPEN" /\ l.pos = r.pos /\ r \in proc[p].todo
  BY <1>1, <1>4 DEF NextRecord
<1> QED BY <1>1, <1>5 DEF IInv, Vetted, SeenBy

\* Whatever the safety stage resolved or the files lost: an entry the agency
\* writes is its validated candidate, looked at on a history without a row of
\* losses, and no CRITICAL incident that fewer than ShownMax others followed is
\* active when it is written (25 in the code: the health manager sees no more).
THEOREM EntryIsVettedAlways == OneProcess => (Spec => EntryIsVetted)
<1> SUFFICES ASSUME OneProcess PROVE Spec => EntryIsVetted OBVIOUS
<1>1. IInv /\ [Next]_vars =>
        [\A p \in Procs : \A l \in NewEntries(p) :
           /\ Shown = {}
           /\ \E s \in proc[p].candidate : l.pos.sig = s.no
           /\ ConsecutiveLosses({m \in log : m.n <= proc[p].seen}) < LossLimit]_vars
  BY EntriesAreVetted
<1> QED BY <1>1, Invariance, PTL DEF Spec, EntryIsVetted
=============================================================================
