---------------------------- MODULE GuardianProofs ----------------------------
(***************************************************************************)
(* What the halt and the loss count of the guardian promise when one        *)
(* scheduler runs, the cycle or the watchdog: for any coins and limits and   *)
(* any number of kills and lost answers.                                   *)
(***************************************************************************)
EXTENDS Guardian, FiniteSetTheorems, WellFoundedInduction, TLAPS

\* One process uses the account (with two, each writes back a copy of its own).
OneScheduler == \A d \in Deployments : \A p, q \in d : p = q

-----------------------------------------------------------------------------
(* The inductive invariant.                                                *)

\* Places at which a process works with a copy of the state file.
Working == {"read", "evaluate", "closing", "send", "record", "verify"}

Known == IF gfile = Unreadable THEN 0 ELSE gfile.losses
Extra == LossLimit * faults

Types ==
  /\ active \subseteq Procs /\ \A p, q \in active : p = q
  /\ pc \in [Procs -> Places]
  /\ mem \in [Procs -> FileContent] /\ gfile \in {Unreadable} \cup FileContent
  /\ cur \in [Procs -> SUBSET Coins] /\ \A p \in Procs : \A c, d \in cur[p] : c = d
  /\ streak \in Nat /\ faults \in Nat

\* A halt on disk is in the copy of the process at work, no order is under way
\* in a copy that is halted, and none that the gates did not let pass.
HaltingAt(p) ==
  /\ pc[p] \in Working /\ Halted(gfile) => mem[p].halted
  /\ pc[p] \in {"send", "record"} => ~mem[p].halted
  /\ pc[p] \in {"gates", "order"} => cur[p] # {}
  /\ pc[p] = "order" => ~Halted(gfile)

\* The count on disk lags behind the losses by the one being recorded and by
\* what kills and lost answers have hidden.
CountingAt(p) ==
  /\ pc[p] \in Working => mem[p].losses = Known
  /\ pc[p] \in {"send", "record"} => Known < LossLimit
  /\ pc[p] # "record" => streak <= Known + Extra
  /\ pc[p] = "record" =>
       cur[p] # {} /\ \A c \in cur[p] : streak <= (IF Loses(p, c) THEN Known + 1 ELSE 0) + Extra

Halting == \A p \in active : HaltingAt(p)
Counting ==
  /\ Known <= LossLimit
  /\ active = {} => streak <= Known + Extra
  /\ \A p \in active : CountingAt(p)

IInv == Types /\ Halting /\ Counting

LEMMA Limits ==
  /\ LossLimit \in Nat \ {0} /\ CloseCooldown \in Nat /\ StaleAfter \in Nat /\ MaxFaults \in Nat
  /\ \A f \in FileContent : f # Unreadable /\ f.losses \in Nat /\ f.halted \in BOOLEAN
  /\ Fresh \in FileContent /\ ~Fresh.halted /\ Fresh.losses = 0
<1>1. LossLimit \in Nat \ {0} BY GuardianAssumption DEF GuardianAssumption
<1>2. CloseCooldown \in Nat /\ StaleAfter \in Nat /\ MaxFaults \in Nat
  BY GuardianAssumption DEF GuardianAssumption
<1>3. \A f \in FileContent : f.readable = TRUE /\ f.losses \in Nat /\ f.halted \in BOOLEAN
  BY DEF FileContent
<1>4. Unreadable.readable = FALSE BY DEF Unreadable
<1>5. \A f \in FileContent : f # Unreadable BY <1>3, <1>4
<1>6. Fresh \in FileContent /\ ~Fresh.halted /\ Fresh.losses = 0
  BY <1>2 DEF FileContent, Fresh
<1> QED BY <1>1, <1>2, <1>3, <1>5, <1>6

\* More faults excuse more losses.
LEMMA ExtraGrows ==
  ASSUME NEW f \in Nat
  PROVE  /\ LossLimit * f \in Nat /\ LossLimit * (f + 1) = LossLimit * f + LossLimit
         /\ LossLimit * (1 + f) = LossLimit * f + LossLimit
BY Limits

\* What the arithmetic of the steps rests on.
LEMMA Numbers ==
  ASSUME Types
  PROVE  /\ LossLimit \in Nat \ {0} /\ Extra \in Nat /\ Known \in Nat /\ streak \in Nat /\ faults \in Nat
         /\ \A p \in Procs : mem[p] \in FileContent /\ mem[p].losses \in Nat /\ mem[p].halted \in BOOLEAN
         /\ \A p \in Procs : mem[p] # Unreadable
         /\ LossLimit * (1 + faults) = Extra + LossLimit
<1>1. Known \in Nat BY Limits DEF Known, Types
<1>2. \A p \in Procs : mem[p] \in FileContent BY DEF Types
<1> QED BY Limits, ExtraGrows, <1>1, <1>2 DEF Types, Extra

LEMMA StreakIsBounded == IInv => BreakerBoundsLosses
<1> SUFFICES ASSUME IInv PROVE streak <= LossLimit * (1 + faults) BY DEF BreakerBoundsLosses
<1> USE DEF IInv
<1>1. Types /\ Known <= LossLimit BY DEF Counting
<1>2. CASE active = {} BY <1>1, <1>2, Numbers DEF Counting
<1>3. CASE active # {}
  <2>1. PICK p \in active : CountingAt(p) BY <1>3 DEF Counting
  <2>2. CASE pc[p] # "record" BY <1>1, <2>1, <2>2, Numbers DEF CountingAt
  <2>3. CASE pc[p] = "record"
    <3>1. PICK c \in cur[p] : streak <= (IF Loses(p, c) THEN Known + 1 ELSE 0) + Extra
      BY <2>1, <2>3 DEF CountingAt
    <3>2. Known < LossLimit BY <2>1, <2>3 DEF CountingAt
    <3> QED BY <1>1, <3>1, <3>2, Numbers
  <2> QED BY <2>2, <2>3
<1> QED BY <1>2, <1>3

-----------------------------------------------------------------------------
(* Steps.                                                                  *)

\* Only the process at work can disturb the invariant.
LEMMA OneActs ==
  ASSUME IInv, NEW p \in active, active' = active,
         Types', (Known <= LossLimit)', HaltingAt(p)', CountingAt(p)'
  PROVE  IInv'
<1>1. \A q \in active' : q = p BY DEF IInv, Types
<1> QED BY <1>1 DEF IInv, Halting, Counting

\* A step that orders and records nothing, and works with a copy of the state
\* only if it did before; a fault may happen in it.
LEMMA MoveKeeps ==
  ASSUME IInv, NEW p \in active, NEW there \in Places, Go(p, there),
         there \notin {"send", "record", "order"}, pc[p] # "record",
         there \in Working => pc[p] \in Working, there = "gates" => cur'[p] # {},
         UNCHANGED <<active, mem, gfile, streak>>, faults' \in {faults, faults + 1},
         cur' \in [Procs -> SUBSET Coins], \A q \in Procs : \A c, d \in cur'[q] : c = d
  PROVE  IInv'
<1>1. /\ active' = active /\ mem' = mem /\ gfile' = gfile /\ streak' = streak
      /\ pc' = [pc EXCEPT ![p] = there]
  BY DEF Go
<1>2. Types /\ p \in Procs BY DEF IInv, Types
<1>3. pc'[p] = there BY <1>1, <1>2 DEF Types
<1>4. Types' BY <1>1, <1>2 DEF Types
<1>5. Known' = Known /\ Extra' \in Nat /\ Extra' >= Extra
  <2>1. Known' = Known BY <1>1 DEF Known
  <2>2. faults \in Nat /\ LossLimit \in Nat BY <1>2, Limits DEF Types
  <2>3. LossLimit * (faults + 1) = LossLimit * faults + LossLimit BY <2>2, ExtraGrows
  <2>4. Extra \in Nat BY <2>2, ExtraGrows DEF Extra
  <2>5. Extra' \in {Extra, Extra + LossLimit} BY <2>3 DEF Extra
  <2> QED BY <2>1, <2>2, <2>4, <2>5
<1>6. HaltingAt(p)' BY <1>1, <1>3 DEF IInv, Halting, HaltingAt
<1>7. CountingAt(p)' BY <1>1, <1>2, <1>3, <1>5, Numbers DEF IInv, Counting, CountingAt
<1> QED BY <1>1, <1>4, <1>5, <1>6, <1>7, OneActs DEF IInv, Counting

\* The steps of an entry, an order included.
LEMMA EntryKeeps ==
  ASSUME IInv, NEW k \in active, Entry(k)
  PROVE  IInv'
<1> USE DEF Places, Working
<1>0. Types /\ k \in Procs BY DEF IInv, Types
<1>1. CASE StartCycle(k) BY <1>0, <1>1, MoveKeeps DEF StartCycle, history, Types
<1>2. CASE LockCycle(k) BY <1>0, <1>2, MoveKeeps DEF LockCycle, history, Types
<1>3. CASE Scan(k)
  <2>1. PICK c \in Coins : cur' = [cur EXCEPT ![k] = {c}] BY <1>3 DEF Scan
  <2>2. cur' \in [Procs -> SUBSET Coins] /\ \A q \in Procs : \A x, y \in cur'[q] : x = y
    BY <1>0, <2>1 DEF Types
  <2>3. cur'[k] # {} BY <1>0, <2>1 DEF Types
  <2> QED BY <1>3, <2>2, <2>3, MoveKeeps DEF Scan, history
<1>4. CASE PassGates(k)
  <2>1. HaltingAt(k) /\ CountingAt(k) /\ pc[k] = "gates" BY <1>4 DEF PassGates, IInv, Halting, Counting
  <2>2. cur[k] # {} /\ cur[k] \in SUBSET Coins BY <1>0, <2>1 DEF HaltingAt, Types
  <2>3. ~Halted(gfile) BY <1>4, <2>2 DEF PassGates, GatesPass
  <2>4. pc' = [pc EXCEPT ![k] = "order"] /\ UNCHANGED <<active, mem, cur, gfile, streak, faults>>
    BY <1>4 DEF PassGates, Go, history
  <2>5. pc'[k] = "order" BY <1>0, <2>4 DEF Types
  <2>6. Types' BY <1>0, <2>4 DEF Types
  <2>7. HaltingAt(k)' BY <2>2, <2>3, <2>4, <2>5 DEF HaltingAt
  <2>8. Known' = Known /\ Extra' = Extra BY <2>4 DEF Known, Extra
  <2>9. CountingAt(k)' BY <2>1, <2>4, <2>5, <2>8 DEF CountingAt
  <2> QED BY <2>4, <2>6, <2>7, <2>8, <2>9, OneActs DEF IInv, Counting
<1>5. CASE EndEntry(k)
  <2>1. cur' \in [Procs -> SUBSET Coins] /\ \A q \in Procs : \A c, d \in cur'[q] : c = d
    BY <1>0, <1>5 DEF EndEntry, Types
  <2> QED BY <1>5, <2>1, MoveKeeps DEF EndEntry, history
<1>6. CASE Enter(k)
  <2>1. cur' \in [Procs -> SUBSET Coins] /\ \A q \in Procs : \A c, d \in cur'[q] : c = d
    BY <1>0, <1>6 DEF Enter, Types
  <2>2. \E there \in {"entered", "unlock"} : Go(k, there) BY <1>6 DEF Enter
  <2> QED BY <1>6, <2>1, <2>2, MoveKeeps DEF Enter
<1>7. CASE RecordEntry(k)
  <2>1. cur' \in [Procs -> SUBSET Coins] /\ \A q \in Procs : \A c, d \in cur'[q] : c = d
    BY <1>0, <1>7 DEF RecordEntry, Types
  <2> QED BY <1>7, <2>1, MoveKeeps DEF RecordEntry, history
<1>8. CASE RemoveGuardLock(k) BY <1>0, <1>8, MoveKeeps DEF RemoveGuardLock, history, Types
<1> QED BY <1>1, <1>2, <1>3, <1>4, <1>5, <1>6, <1>7, <1>8 DEF Entry

\* A step of a process at work: its copy keeps the losses, a halt stays, and it
\* saves the copy or not.
LEMMA WorkKeeps ==
  ASSUME IInv, NEW p \in active, pc[p] \in {"read", "closing"},
         NEW there \in {"evaluate", "closing", "send", "free"}, pc' = [pc EXCEPT ![p] = there],
         UNCHANGED <<active, streak, faults>>, mem' \in [Procs -> FileContent],
         mem'[p].losses = mem[p].losses, mem[p].halted => mem'[p].halted,
         gfile' \in {gfile, mem'[p]},
         there = "send" => ~mem'[p].halted /\ Known < LossLimit,
         cur' \in [Procs -> SUBSET Coins], \A q \in Procs : \A c, d \in cur'[q] : c = d
  PROVE  IInv'
<1>1. Types /\ p \in Procs /\ HaltingAt(p) /\ CountingAt(p) BY DEF IInv, Types, Halting, Counting
<1>2. pc'[p] = there BY <1>1 DEF Types
<1>3. Types' BY <1>1 DEF Types, Places
<1>4. mem'[p] \in FileContent /\ mem'[p] # Unreadable BY <1>1, Limits
<1>5. Known' = Known BY <1>1, <1>4 DEF Known, CountingAt, Working
<1>6. Extra' = Extra BY DEF Extra
<1>7. HaltingAt(p)' BY <1>1, <1>2 DEF HaltingAt, Working, Halted
<1>8. CountingAt(p)' BY <1>1, <1>2, <1>5, <1>6 DEF CountingAt, Working
<1> QED BY <1>3, <1>5, <1>7, <1>8, OneActs DEF IInv, Counting

\* A step to a place outside, whatever becomes of the copy.
LEMMA RestKeeps ==
  ASSUME IInv, NEW p \in active, NEW there \in {"idle", "leave"}, Go(p, there),
         active' = active, streak' = streak, faults' \in Nat, mem' \in [Procs -> FileContent],
         gfile' \in {Unreadable, gfile}, streak <= (Known + Extra)', (Known <= LossLimit)',
         cur' = [cur EXCEPT ![p] = {}]
  PROVE  IInv'
<1>1. Types /\ p \in Procs BY DEF IInv, Types
<1>2. pc'[p] = there /\ cur'[p] = {} BY <1>1 DEF Types, Go
<1>3. Types'
  <2>1. pc' \in [Procs -> Places] BY <1>1 DEF Types, Go, Places
  <2>2. cur' \in [Procs -> SUBSET Coins] /\ \A q \in Procs : \A c, d \in cur'[q] : c = d
    BY <1>1 DEF Types
  <2> QED BY <1>1, <2>1, <2>2 DEF Types
<1>4. HaltingAt(p)' BY <1>2 DEF HaltingAt, Working
<1>5. CountingAt(p)' BY <1>2 DEF CountingAt, Working
<1> QED BY <1>3, <1>4, <1>5, OneActs

LEMMA LoadKeeps ==
  ASSUME IInv, NEW p \in active, LoadState(p)
  PROVE  IInv'
<1>1. Types /\ p \in Procs /\ CountingAt(p) /\ pc[p] = "load" BY DEF IInv, Types, Counting, LoadState
<1>2. /\ mem' = [mem EXCEPT ![p] = Loaded] /\ pc' = [pc EXCEPT ![p] = "read"]
      /\ UNCHANGED <<active, cur, gfile, streak, faults>>
  BY DEF LoadState, Go, history
<1>3. Loaded \in FileContent /\ Loaded.losses = Known /\ (Halted(gfile) => Loaded.halted)
  <2>1. CASE gfile = Unreadable BY <2>1, Limits DEF Loaded, Known, Halted
  <2>2. CASE gfile # Unreadable
    <3>1. gfile \in FileContent /\ 0 \in 0..StaleAfter BY <1>1, <2>2, Limits DEF Types
    <3>2. Loaded = [gfile EXCEPT !.age = 0] BY <2>2 DEF Loaded
    <3> QED BY <2>2, <3>1, <3>2 DEF FileContent, Known, Halted
  <2> QED BY <2>1, <2>2
<1>4. pc'[p] = "read" /\ mem'[p] = Loaded BY <1>1, <1>2 DEF Types
<1>5. Types'
  <2>1. pc' \in [Procs -> Places] BY <1>1, <1>2 DEF Types, Places
  <2>2. mem' \in [Procs -> FileContent] BY <1>1, <1>2, <1>3 DEF Types
  <2> QED BY <1>1, <1>2, <2>1, <2>2 DEF Types
<1>6. HaltingAt(p)' BY <1>2, <1>3, <1>4 DEF HaltingAt
<1>7. Known' = Known /\ Extra' = Extra BY <1>2 DEF Known, Extra
<1>8. CountingAt(p)' BY <1>1, <1>2, <1>3, <1>4, <1>7 DEF CountingAt
<1> QED BY <1>2, <1>5, <1>6, <1>7, <1>8, OneActs DEF IInv, Counting

LEMMA CheckKeeps ==
  ASSUME IInv, NEW p \in active, NEW c \in Coins, CheckClose(p, c)
  PROVE  IInv'
<1>1. /\ Types /\ p \in Procs /\ CountingAt(p) /\ pc[p] = "closing"
      /\ pc = [pc EXCEPT ![p] = "closing"]
  BY DEF IInv, Types, Counting, CheckClose
<1>2. UNCHANGED <<active, streak, faults>> BY DEF CheckClose, history
<1>3. mem[p].losses = Known BY <1>1 DEF CountingAt, Working
<1>4. CASE UNCHANGED <<pc, cur, mem, gfile>>
  BY <1>1, <1>2, <1>4, WorkKeeps DEF Types
<1>5. CASE /\ UNCHANGED <<pc, cur>> /\ mem' = [mem EXCEPT ![p].halted = TRUE]
           /\ gfile' \in {gfile, mem'[p]}
  <2>1. mem[p] \in FileContent BY <1>1 DEF Types
  <2>2. mem'[p] = [mem[p] EXCEPT !.halted = TRUE] BY <1>1, <1>5 DEF Types
  <2>3. mem'[p] \in FileContent /\ mem'[p].losses = mem[p].losses /\ mem'[p].halted
    BY <2>1, <2>2 DEF FileContent
  <2>4. mem' \in [Procs -> FileContent] BY <1>1, <1>5, <2>2, <2>3 DEF Types
  <2> QED BY <1>1, <1>2, <1>5, <2>3, <2>4, WorkKeeps DEF Types
<1>6. CASE /\ ~mem[p].halted /\ ~Breaks(p, FALSE) /\ mem' = mem /\ gfile' \in {gfile, mem'[p]}
           /\ UNCHANGED <<pc, cur>> \/ (Go(p, "send") /\ cur' = [cur EXCEPT ![p] = {c}])
  <2>1. Known < LossLimit BY <1>1, <1>3, <1>6, Numbers DEF Breaks
  <2>2. cur' \in [Procs -> SUBSET Coins] /\ \A q \in Procs : \A x, y \in cur'[q] : x = y
    BY <1>1, <1>6 DEF Types
  <2>3. PICK there \in {"closing", "send"} : pc' = [pc EXCEPT ![p] = there] BY <1>1, <1>6 DEF Go
  <2>4. mem' \in [Procs -> FileContent] BY <1>1, <1>6 DEF Types
  <2> QED BY <1>1, <1>2, <1>6, <2>1, <2>2, <2>3, <2>4, WorkKeeps
<1> QED BY <1>4, <1>5, <1>6 DEF CheckClose, Save

LEMMA SendKeeps ==
  ASSUME IInv, NEW p \in active, pc[p] = "send",
         \/ Refuse(p)
         \/ \E c \in Coins : Fill(p, c) \/ LoseAnswer(p, c)
  PROVE  IInv'
<1>1. /\ Types /\ p \in Procs /\ HaltingAt(p) /\ CountingAt(p)
      /\ pc = [pc EXCEPT ![p] = "send"]
  BY DEF IInv, Types, Halting, Counting
<1>2. /\ Known < LossLimit /\ mem[p].losses = Known /\ streak <= Known + Extra /\ ~mem[p].halted
      /\ Known \in Nat /\ Extra \in Nat /\ LossLimit \in Nat /\ streak \in Nat /\ faults \in Nat
  BY <1>1, Numbers DEF CountingAt, HaltingAt, Working
<1>3. UNCHANGED <<active, mem, gfile>> /\ Known' = Known BY DEF Refuse, Fill, LoseAnswer, Known
<1>4. CASE /\ Retry(p) \/ (Go(p, "closing") /\ cur' = [cur EXCEPT ![p] = {}])
           /\ streak' \in {0, streak, streak + 1}
           /\ UNCHANGED <<streak, faults>> \/ faults' = faults + 1
  <2>1. PICK there \in {"send", "closing"} : pc' = [pc EXCEPT ![p] = there]
    BY <1>1, <1>4 DEF Retry, Go
  <2>2. pc'[p] = there BY <1>1, <2>1 DEF Types
  <2>3. cur' \in [Procs -> SUBSET Coins] /\ \A q \in Procs : \A x, y \in cur'[q] : x = y
    BY <1>1, <1>4 DEF Types, Retry
  <2>4. Types'
    <3>1. pc' \in [Procs -> Places] BY <1>1, <2>1 DEF Types, Places
    <3>2. streak' \in Nat /\ faults' \in Nat BY <1>2, <1>4
    <3>3. active' = active /\ mem' = mem /\ gfile' = gfile BY <1>3
    <3> QED BY <1>1, <2>3, <3>1, <3>2, <3>3 DEF Types
  <2>5. HaltingAt(p)' BY <1>1, <1>3, <2>2 DEF HaltingAt, Working
  <2>6. Extra' \in Nat /\ streak' <= Known + Extra'
    <3>1. CASE UNCHANGED <<streak, faults>> BY <1>2, <3>1 DEF Extra
    <3>2. CASE faults' = faults + 1
      <4>1. Extra' = Extra + LossLimit BY <1>2, <3>2, ExtraGrows DEF Extra
      <4> QED BY <1>2, <1>4, <4>1
    <3> QED BY <1>4, <3>1, <3>2
  <2>7. CountingAt(p)' BY <1>2, <1>3, <2>2, <2>6 DEF CountingAt, Working
  <2> QED BY <1>2, <1>3, <2>4, <2>5, <2>7, OneActs
<1>5. CASE Refuse(p) BY <1>4, <1>5, <1>2 DEF Refuse, history
<1>6. ASSUME NEW c \in Coins, LoseAnswer(p, c) PROVE IInv'
  BY <1>2, <1>4, <1>6 DEF LoseAnswer, Streak, Retry
<1>7. ASSUME NEW c \in Coins, Fill(p, c) PROVE IInv'
  <2>1. /\ pc' = [pc EXCEPT ![p] = "record"] /\ UNCHANGED <<cur, faults, seen>> /\ c \in cur[p]
        /\ streak' = Streak(p, c)
    BY <1>7 DEF Fill, Go
  <2>2. pc'[p] = "record" BY <1>1, <2>1 DEF Types
  <2>3. streak' \in Nat BY <1>2, <2>1 DEF Streak
  <2>4. Types' BY <1>1, <1>3, <2>1, <2>3 DEF Types, Places
  <2>5. HaltingAt(p)' BY <1>1, <1>3, <2>2 DEF HaltingAt, Working
  <2>6. Extra' = Extra BY <2>1 DEF Extra
  <2>7. cur'[p] = {c} BY <1>1, <2>1 DEF Types
  <2>8. streak' <= (IF Loses(p, c)' THEN Known' + 1 ELSE 0) + Extra'
    BY <1>2, <1>3, <2>1, <2>6 DEF Streak, Loses
  <2>9. CountingAt(p)' BY <1>2, <1>3, <2>2, <2>7, <2>8 DEF CountingAt, Working
  <2> QED BY <1>2, <1>3, <2>4, <2>5, <2>9, OneActs
<1> QED BY <1>5, <1>6, <1>7

LEMMA RecordKeeps ==
  ASSUME IInv, NEW p \in active, NEW c \in Coins, RecordClose(p, c)
  PROVE  IInv'
<1>1. Types /\ p \in Procs /\ HaltingAt(p) /\ CountingAt(p) /\ pc[p] = "record" /\ c \in cur[p]
  BY DEF IInv, Types, Halting, Counting, RecordClose
<1>2. /\ Known < LossLimit /\ mem[p].losses = Known /\ ~mem[p].halted /\ mem[p] \in FileContent
      /\ streak <= (IF Loses(p, c) THEN Known + 1 ELSE 0) + Extra
      /\ Known \in Nat /\ Extra \in Nat /\ LossLimit \in Nat
  BY <1>1, Numbers DEF CountingAt, HaltingAt, Working
<1>3. /\ pc' = [pc EXCEPT ![p] = "verify"] /\ gfile' = mem'[p]
      /\ UNCHANGED <<active, cur, streak, faults>>
  BY DEF RecordClose, Go, Save, history
<1>4. DEFINE losses == IF Loses(p, c) THEN Known + 1 ELSE 0
<1>5. losses \in Nat /\ losses <= LossLimit BY <1>2
<1>6. mem'[p] = [mem[p] EXCEPT !.losses = losses, !.sinceClose[c] = 0]
  <2> DEFINE copy == [mem[p] EXCEPT !.losses = IF Loses(p, c) THEN mem[p].losses + 1 ELSE 0,
                                    !.sinceClose[c] = 0]
  <2>1. mem' = [mem EXCEPT ![p] = copy] BY DEF RecordClose
  <2>2. copy = [mem[p] EXCEPT !.losses = losses, !.sinceClose[c] = 0] BY <1>2
  <2> HIDE DEF copy
  <2>3. mem'[p] = copy BY <1>1, <2>1 DEF Types
  <2> QED BY <2>2, <2>3
<1>7. mem'[p] \in FileContent /\ mem'[p].losses = losses /\ ~mem'[p].halted
  <2> HIDE DEF losses
  <2>1. 0 \in 0..CloseCooldown BY Limits
  <2>2. [mem[p].sinceClose EXCEPT ![c] = 0] \in [Coins -> 0..CloseCooldown]
    BY <1>2, <2>1 DEF FileContent
  <2>3. mem[p] = [readable |-> TRUE, halted |-> FALSE, losses |-> Known,
                  sinceClose |-> mem[p].sinceClose, age |-> mem[p].age]
    BY <1>2 DEF FileContent
  <2>4. mem'[p] = [readable |-> TRUE, halted |-> FALSE, losses |-> losses,
                   sinceClose |-> [mem[p].sinceClose EXCEPT ![c] = 0], age |-> mem[p].age]
    <3> DEFINE m == [readable |-> TRUE, halted |-> FALSE, losses |-> Known,
                     sinceClose |-> mem[p].sinceClose, age |-> mem[p].age]
    <3>1. mem'[p] = [m EXCEPT !.losses = losses, !.sinceClose[c] = 0] BY <1>6, <2>3
    <3> QED BY <3>1
  <2>5. mem[p].age \in 0..StaleAfter BY <1>2 DEF FileContent
  <2> QED BY <1>5, <2>2, <2>4, <2>5 DEF FileContent
<1>8. mem' \in [Procs -> FileContent]
  <2>1. mem' = [mem EXCEPT ![p] = mem'[p]] BY <1>1 DEF RecordClose, Types
  <2> QED BY <1>1, <1>7, <2>1 DEF Types
<1>9. Types' BY <1>1, <1>3, <1>7, <1>8 DEF Types, Places
<1>10. Known' = losses /\ Extra' = Extra BY <1>3, <1>7, Limits DEF Known, Extra
<1>11. pc'[p] = "verify" BY <1>1, <1>3 DEF Types
<1>12. HaltingAt(p)' BY <1>3, <1>7, <1>11 DEF HaltingAt, Halted
<1>13. CountingAt(p)' BY <1>2, <1>3, <1>7, <1>10, <1>11 DEF CountingAt
<1> QED BY <1>3, <1>5, <1>9, <1>10, <1>12, <1>13, OneActs

\* The steps of a guardian.
LEMMA GuardKeeps ==
  ASSUME IInv, NEW p \in active, Guard(p)
  PROVE  IInv'
<1>0. Types /\ p \in Procs BY DEF IInv, Types
<1>1. CASE StartGuardian(p)
  <2>1. \E there \in {"leave", "take"} : Go(p, there) BY <1>1 DEF StartGuardian
  <2> QED BY <1>0, <1>1, <2>1, MoveKeeps DEF StartGuardian, history, Types, Places, Working
<1>2. CASE TakeGuardLock(p)
  BY <1>0, <1>2, MoveKeeps DEF TakeGuardLock, history, Types, Places, Working
<1>3. CASE LoadState(p) BY <1>3, LoadKeeps
<1>4. CASE ReadAccount(p)
  BY <1>0, <1>4, WorkKeeps DEF ReadAccount, Save, Go, history, Types
<1>5. CASE AccountFails(p)
  BY <1>0, <1>5, MoveKeeps DEF AccountFails, history, Types, Places, Working
<1>6. CASE Evaluate(p)
  BY <1>0, <1>6, MoveKeeps DEF Evaluate, history, Types, Places, Working
<1>7. CASE Refuse(p) BY <1>7, SendKeeps DEF Refuse
<1>8. CASE Verify(p)
  <2>1. cur' \in [Procs -> SUBSET Coins] /\ \A q \in Procs : \A c, d \in cur'[q] : c = d
    BY <1>0, <1>8 DEF Verify, Types
  <2> QED BY <1>8, <2>1, MoveKeeps DEF Verify, history, Places, Working
<1>9. CASE Finish(p) BY <1>0, <1>9, WorkKeeps DEF Finish, Save, Go, history, Types
<1>10. CASE FreeGuardLock(p)
  <2>1. mem' \in [Procs -> FileContent] BY <1>0, <1>10, Limits DEF FreeGuardLock, Types
  <2>2. /\ Known' = Known /\ Extra' = Extra /\ UNCHANGED <<active, gfile, streak, faults>>
        /\ pc[p] = "free"
    BY <1>10 DEF FreeGuardLock, Known, Extra, history
  <2>3. streak <= Known + Extra /\ Known <= LossLimit BY <2>2 DEF IInv, Counting, CountingAt
  <2> QED BY <1>0, <1>10, <2>1, <2>2, <2>3, RestKeeps DEF FreeGuardLock, Types
<1>11. CASE Leave(p)
  BY <1>0, <1>11, MoveKeeps DEF Leave, history, Types, Places, Working
<1>12. ASSUME NEW c \in Coins, CheckClose(p, c) PROVE IInv' BY <1>12, CheckKeeps
<1>13. ASSUME NEW c \in Coins, Fill(p, c) \/ LoseAnswer(p, c) PROVE IInv'
  BY <1>13, SendKeeps DEF Fill, LoseAnswer
<1>14. ASSUME NEW c \in Coins, RecordClose(p, c) PROVE IInv' BY <1>14, RecordKeeps
<1> QED BY <1>1, <1>2, <1>3, <1>4, <1>5, <1>6, <1>7, <1>8, <1>9, <1>10, <1>11, <1>12, <1>13, <1>14
     DEF Guard

\* A kill hides at most one row of losses, even when it empties the file.
LEMMA KillKeeps ==
  ASSUME IInv, NEW p \in active, Kill(p)
  PROVE  IInv'
<1>1. Types /\ p \in Procs /\ Known <= LossLimit BY DEF IInv, Types, Counting
<1>2. /\ gfile' \in {Unreadable, gfile} /\ faults' = faults + 1 /\ Go(p, "idle")
      /\ cur' = [cur EXCEPT ![p] = {}] /\ UNCHANGED <<active, streak>>
  BY DEF Kill
<1>3. mem' \in [Procs -> FileContent] BY <1>1, Limits DEF Kill, Types
<1>4. Known' \in {0, Known} BY <1>2 DEF Known
<1>5. Extra' = Extra + LossLimit BY <1>1, <1>2, Numbers, ExtraGrows DEF Extra
<1>6. streak <= Extra + LossLimit BY <1>1, StreakIsBounded, Numbers DEF BreakerBoundsLosses
<1>7. streak <= (Known + Extra)' /\ (Known <= LossLimit)'
  BY <1>1, <1>4, <1>5, <1>6, Numbers
<1>8. faults' \in Nat BY <1>1, <1>2, Numbers
<1> QED BY <1>2, <1>3, <1>7, <1>8, RestKeeps

\* What ages in a state file is neither its halt nor its count.
LEMMA AgedIs ==
  ASSUME NEW f \in FileContent
  PROVE  /\ Later(f) \in FileContent /\ Later(f).halted = f.halted /\ Later(f).losses = f.losses
         /\ Aged(f) \in FileContent /\ Aged(f).halted = f.halted /\ Aged(f).losses = f.losses
<1>1. \A n \in Nat : \A a \in 0..n : Older(a, n) \in 0..n BY DEF Older
<1>2. \A c \in Coins : Older(f.sinceClose[c], CloseCooldown) \in 0..CloseCooldown
  BY <1>1, Limits DEF FileContent
<1>3. Later(f) = [f EXCEPT !.sinceClose = [c \in Coins |-> Older(f.sinceClose[c], CloseCooldown)]]
  BY DEF Later, FileContent
<1>4. Later(f) \in FileContent /\ Later(f).halted = f.halted /\ Later(f).losses = f.losses
  BY <1>2, <1>3 DEF FileContent
<1>5. f # Unreadable /\ Later(f).age \in 0..StaleAfter BY <1>4, Limits DEF FileContent
<1>6. Older(Later(f).age, StaleAfter) \in 0..StaleAfter BY <1>1, <1>5, Limits
<1>7. Aged(f) = [Later(f) EXCEPT !.age = Older(Later(f).age, StaleAfter)]
  BY <1>4, <1>5 DEF Aged, FileContent
<1> QED BY <1>4, <1>6, <1>7 DEF FileContent

\* Time and the market leave every copy, the file and the places as they are, but for ages.
LEMMA RestOfWorldKeeps ==
  ASSUME IInv, Tick \/ (\E c \in Coins : Market(c)) \/ UNCHANGED vars
  PROVE  IInv'
<1>1. UNCHANGED <<active, pc, cur, seen, streak, faults>> BY DEF Tick, Market, vars, local, history
<1>2. Types BY DEF IInv
<1>3. gfile' \in {gfile, Aged(gfile)} /\ (mem' = mem \/ mem' = [p \in Procs |-> Later(mem[p])])
  BY DEF Tick, Market, vars, local
<1>4. /\ gfile' \in {Unreadable} \cup FileContent /\ Known' = Known
      /\ Halted(gfile') = Halted(gfile)
  <2>1. CASE gfile = Unreadable BY <1>3, <2>1 DEF Aged, Known
  <2>2. CASE gfile # Unreadable
    <3>1. gfile \in FileContent /\ gfile' \in FileContent BY <1>2, <1>3, <2>2, AgedIs DEF Types
    <3>2. gfile'.halted = gfile.halted /\ gfile'.losses = gfile.losses BY <1>3, <3>1, AgedIs
    <3> QED BY <3>1, <3>2, Limits DEF Known, Halted
  <2> QED BY <2>1, <2>2
<1>5. /\ mem' \in [Procs -> FileContent]
      /\ \A p \in Procs : mem'[p].halted = mem[p].halted /\ mem'[p].losses = mem[p].losses
  <2>1. \A p \in Procs : mem[p] \in FileContent BY <1>2 DEF Types
  <2>2. CASE mem' = mem BY <1>2, <2>2 DEF Types
  <2>3. CASE mem' = [p \in Procs |-> Later(mem[p])] BY <2>1, <2>3, AgedIs
  <2> QED BY <1>3, <2>2, <2>3
<1>6. Types' BY <1>1, <1>2, <1>4, <1>5 DEF Types
<1>7. Extra' = Extra BY <1>1 DEF Extra
<1>8. \A p \in active : HaltingAt(p)' /\ CountingAt(p)'
  <2> SUFFICES ASSUME NEW p \in active PROVE HaltingAt(p)' /\ CountingAt(p)' OBVIOUS
  <2>1. p \in Procs /\ HaltingAt(p) /\ CountingAt(p) BY DEF IInv, Types, Halting, Counting
  <2>2. mem'[p].halted = mem[p].halted /\ mem'[p].losses = mem[p].losses BY <1>5, <2>1
  <2>3. HaltingAt(p)' BY <1>1, <1>4, <2>1, <2>2 DEF HaltingAt
  <2>4. CountingAt(p)' BY <1>1, <1>4, <1>7, <2>1, <2>2 DEF CountingAt, Loses
  <2> QED BY <2>3, <2>4
<1>9. Counting' BY <1>1, <1>4, <1>7, <1>8 DEF IInv, Counting
<1> QED BY <1>1, <1>6, <1>8, <1>9 DEF IInv, Halting

\* With one process in each deployment the invariant holds from the start.
LEMMA InitHolds == OneScheduler /\ Init => IInv
<1> SUFFICES ASSUME OneScheduler, Init PROVE IInv OBVIOUS
<1>1. active \subseteq Procs /\ \A p, q \in active : p = q
  BY GuardianAssumption DEF GuardianAssumption, Init, OneScheduler
<1>2. gfile = Unreadable /\ Known = 0 /\ faults = 0 /\ streak = 0 /\ cur = [p \in Procs |-> {}]
      /\ pc = [p \in Procs |-> "idle"] /\ mem = [p \in Procs |-> Fresh]
  BY DEF Init, Known
<1>3. Types BY <1>1, <1>2, Limits DEF Types, Places
<1>4. \A p \in active : pc[p] = "idle" BY <1>1, <1>2
<1>5. Extra = 0 BY <1>2, Limits DEF Extra
<1>6. Halting BY <1>4 DEF Halting, HaltingAt, Working
<1>7. Counting BY <1>2, <1>4, <1>5, Limits DEF Counting, CountingAt, Working
<1> QED BY <1>3, <1>6, <1>7 DEF IInv

LEMMA NextKeeps == IInv /\ [Next]_vars => IInv'
<1> SUFFICES ASSUME IInv, [Next]_vars PROVE IInv' OBVIOUS
<1>1. ASSUME NEW p \in active, Guard(p) PROVE IInv' BY <1>1, GuardKeeps
<1>2. ASSUME NEW p \in active, Kill(p) PROVE IInv' BY <1>2, KillKeeps
<1>3. ASSUME NEW k \in active, Entry(k) PROVE IInv' BY <1>3, EntryKeeps
<1>4. ASSUME NEW g \in active, Watch(g) PROVE IInv'
  <2>1. cur' = cur /\ UNCHANGED <<active, mem, gfile, streak, faults>> /\ Go(g, "start") /\ pc[g] = "idle"
    BY <1>4 DEF Watch, history
  <2> QED BY <2>1, MoveKeeps DEF IInv, Types, Places, Working
<1>5. CASE Tick \/ (\E c \in Coins : Market(c)) \/ UNCHANGED vars BY <1>5, RestOfWorldKeeps
<1> QED BY <1>1, <1>2, <1>3, <1>4, <1>5 DEF Next

LEMMA Invariance == OneScheduler => (Spec => []IInv)
<1>1. OneScheduler /\ Init => IInv BY InitHolds
<1>2. IInv /\ [Next]_vars => IInv' BY NextKeeps
<1> QED BY <1>1, <1>2, PTL DEF Spec

-----------------------------------------------------------------------------
(* The theorems.                                                           *)

\* With one process on the account, for any limit and any number of kills and
\* lost answers, losses in a row stop at CIRCUIT_BREAKER_LOSSES, or at as many
\* more for each kill or lost answer: the count the guardian loads, increments
\* and saves (risk-guardian.py) is never behind by more.
THEOREM BreakerBoundsLossesAlways == OneScheduler => (Spec => []BreakerBoundsLosses)
<1>1. IInv => BreakerBoundsLosses BY StreakIsBounded
<1> QED BY <1>1, Invariance, PTL

\* A copy that is at work when the file is halted is halted itself: it sends
\* nothing and saves the halt.
LEMMA HaltStays ==
  ASSUME IInv, Next, Halted(gfile)
  PROVE  ~OrderSent /\ (gfile' = Unreadable \/ Halted(gfile'))
<1>1. \A p \in active : p \in Procs /\ HaltingAt(p) BY DEF IInv, Types, Halting
<1>2. \A p \in active : pc[p] \notin {"order", "send", "record"}
  BY <1>1 DEF HaltingAt, Working
<1>3. ~OrderSent BY <1>2 DEF OrderSent
<1>4. \A p \in active : mem[p] \in FileContent /\ mem[p] # Unreadable /\ (pc[p] \in Working => Halted(mem[p]))
  <2>1. \A p \in active : mem[p] \in FileContent BY <1>1 DEF IInv, Types
  <2> QED BY <1>1, <2>1, Limits DEF HaltingAt, Halted
<1>5. ASSUME NEW p \in active, Guard(p) PROVE gfile' = gfile \/ Halted(gfile')
  <2>1. CASE ReadAccount(p) \/ Finish(p)
    BY <1>4, <2>1 DEF ReadAccount, Finish, Save, Working
  <2>2. ASSUME NEW c \in Coins, CheckClose(p, c) PROVE gfile' = gfile \/ Halted(gfile')
    <3>1. Halted(mem[p]) /\ mem[p].halted /\ mem[p] \in FileContent
      BY <1>4, <2>2 DEF CheckClose, Working, Halted
    <3> QED BY <2>2, <3>1 DEF CheckClose
  <2>3. ASSUME NEW c \in Coins, RecordClose(p, c) PROVE FALSE
    BY <1>2, <2>3 DEF RecordClose
  <2>4. CASE \/ StartGuardian(p) \/ TakeGuardLock(p) \/ LoadState(p) \/ AccountFails(p)
             \/ Evaluate(p) \/ Refuse(p) \/ Verify(p) \/ FreeGuardLock(p) \/ Leave(p)
             \/ \E c \in Coins : Fill(p, c) \/ LoseAnswer(p, c)
    BY <2>4 DEF StartGuardian, TakeGuardLock, LoadState, AccountFails, Evaluate, Refuse, Verify,
                FreeGuardLock, Leave, Fill, LoseAnswer
  <2> QED BY <1>5, <2>1, <2>2, <2>3, <2>4 DEF Guard
<1>6. ASSUME NEW p \in active, Kill(p) PROVE gfile' \in {gfile, Unreadable} BY <1>6 DEF Kill
<1>7. ASSUME NEW k \in active, Entry(k) PROVE gfile' = gfile
  BY <1>7 DEF Entry, StartCycle, LockCycle, Scan, PassGates, EndEntry, Enter, RecordEntry, RemoveGuardLock
<1>8. ASSUME NEW g \in active, Watch(g) PROVE gfile' = gfile BY <1>8 DEF Watch
<1>9. ASSUME Tick PROVE Halted(gfile')
  <2>1. gfile \in FileContent BY DEF IInv, Types, Halted
  <2>2. gfile' \in FileContent /\ gfile'.halted = gfile.halted BY <1>9, <2>1, AgedIs DEF Tick
  <2> QED BY <2>2, Limits DEF Halted
<1>10. ASSUME NEW c \in Coins, Market(c) PROVE gfile' = gfile BY <1>10 DEF Market
<1> QED BY <1>3, <1>5, <1>6, <1>7, <1>8, <1>9, <1>10 DEF Next

\* With one process on the account a halt on disk is final: no entry and no
\* close is sent after it (the gates of hl_entry.py and execute_close of
\* risk-guardian.py look at it), and every save keeps it; only a kill in the
\* middle of a write forgets it.
THEOREM HaltIsFinalAlways == OneScheduler => (Spec => HaltIsFinal)
<1>1. IInv /\ [Next]_vars =>
        [Halted(gfile) => ~OrderSent /\ (gfile' = Unreadable \/ Halted(gfile'))]_vars
  BY HaltStays
<1> QED BY <1>1, Invariance, PTL DEF HaltIsFinal, Spec

-----------------------------------------------------------------------------
(* What the account holds.                                                 *)

\* A position is made by one order, and an order under way has room: the coin is
\* not held and one position fewer than allowed is open.
Holdings ==
  /\ position = [c \in Coins |-> position[c]]
  /\ \A c \in Coins : Held(c) => position[c] = [held |-> TRUE, units |-> 1, roe |-> position[c].roe]
Room(p) == pc[p] = "order" => cur[p] \cap Open = {} /\ Cardinality(Open) < MaxConcurrent
Exposure == Holdings /\ Cardinality(Open) <= MaxConcurrent /\ \A p \in active : Room(p)

LEMMA OpenIsFinite ==
  /\ IsFiniteSet(Open) /\ Cardinality(Open) \in Nat /\ MaxConcurrent \in Nat
  /\ \A S \in SUBSET Open : IsFiniteSet(S) /\ Cardinality(S) \in Nat /\ Cardinality(S) <= Cardinality(Open)
<1>1. IsFiniteSet(Coins) /\ Open \subseteq Coins /\ MaxConcurrent \in Nat
  BY GuardianAssumption DEF GuardianAssumption, Open
<1>2. IsFiniteSet(Open) BY <1>1, FS_Subset
<1> QED BY <1>1, <1>2, FS_Subset, FS_CardinalityType

\* A step in which no order is executed opens nothing.
LEMMA NothingOpened ==
  ASSUME Exposure, IInv, active' = active, Open' \subseteq Open, Holdings',
         \A p \in active : pc'[p] = "order" => pc[p] = "order" /\ cur'[p] = cur[p]
  PROVE  Exposure'
<1>1. Cardinality(Open') <= Cardinality(Open) /\ Cardinality(Open') \in Nat
  BY OpenIsFinite
<1>2. Cardinality(Open)' = Cardinality(Open') OBVIOUS
<1>3. \A p \in active : Room(p)'
  BY <1>1, <1>2, OpenIsFinite DEF Exposure, Room
<1> QED BY <1>1, <1>2, <1>3, OpenIsFinite DEF Exposure

\* No place but the order of an entry is entered with an order under way.
LEMMA PlacesAfter ==
  ASSUME IInv, NEW p \in active, NEW there \in Places, Go(p, there), there # "order"
  PROVE  \A q \in active : pc'[q] # "order"
BY DEF IInv, Types, Go

LEMMA PassKeepsExposure ==
  ASSUME IInv, Exposure, NEW k \in active, PassGates(k)
  PROVE  Exposure'
<1>1. /\ UNCHANGED <<active, cur, position>> /\ k \in Procs /\ \A p \in active : p = k
      /\ cur[k] # {} /\ \A c \in cur[k] : GatesPass(c)
  BY DEF PassGates, IInv, Types, Halting, HaltingAt
<1>2. cur[k] \cap Open = {} /\ Cardinality(Open) < MaxConcurrent
  BY <1>1 DEF GatesPass, Open
<1>3. Open' = Open BY <1>1 DEF Open, Held
<1>4. Cardinality(Open)' = Cardinality(Open) BY <1>3
<1> QED BY <1>1, <1>2, <1>3, <1>4 DEF Exposure, Holdings, Held, Room

LEMMA EnterKeepsExposure ==
  ASSUME IInv, Exposure, NEW k \in active, Enter(k)
  PROVE  Exposure'
<1>1. /\ k \in Procs /\ pc[k] = "order" /\ cur[k] \subseteq Coins /\ cur[k] # {}
      /\ \A c, d \in cur[k] : c = d
  BY DEF Enter, IInv, Types, Halting, HaltingAt
<1>2. PICK b \in Coins : cur[k] = {b} BY <1>1
<1>3. ~Held(b) /\ b \notin Open /\ Cardinality(Open) < MaxConcurrent
  BY <1>1, <1>2 DEF Exposure, Room, Open
<1>4. position' = [c \in Coins |-> IF c = b THEN Bought(b) ELSE position[c]]
  BY <1>2 DEF Enter
<1>5. Bought(b) = [held |-> TRUE, units |-> 1, roe |-> Bought(b).roe] /\ Bought(b) # None
  <2>1. Bought(b) = [held |-> TRUE, units |-> 1, roe |-> Max({r \in Roe : r < 0})] BY <1>3 DEF Bought
  <2>2. None.held = FALSE BY DEF None
  <2> QED BY <2>1, <2>2
<1>6. Open' = Open \cup {b} BY <1>4, <1>5 DEF Open, Held
<1>7. Holdings'
  <2>1. \A c \in Coins : position'[c] = IF c = b THEN Bought(b) ELSE position[c] BY <1>4
  <2>2. \A c \in Coins : position'[c] # None => position'[c] = [held |-> TRUE, units |-> 1, roe |-> position'[c].roe]
    BY <1>5, <2>1 DEF Exposure, Holdings, Held
  <2>3. position' = [c \in Coins |-> position'[c]] BY <1>4
  <2> QED BY <2>2, <2>3 DEF Holdings, Held
<1>8. Cardinality(Open') = Cardinality(Open) + 1 BY <1>3, <1>6, OpenIsFinite, FS_AddElement
<1>9. Cardinality(Open)' <= MaxConcurrent BY <1>3, <1>8, OpenIsFinite
<1>10. active' = active /\ \A p \in active : Room(p)'
  <2>1. active' = active /\ \E there \in {"entered", "unlock"} : Go(k, there) BY DEF Enter
  <2> QED BY <2>1, PlacesAfter DEF Places, Room
<1> QED BY <1>7, <1>9, <1>10 DEF Exposure

\* What a guardian, a kill, the clock or the market does to a position only shrinks it.
LEMMA PositionsShrink ==
  ASSUME Exposure, position' = position \/ \E c \in Coins : Held(c) /\
           (position' = [position EXCEPT ![c] = None] \/ \E r \in Roe : position' = [position EXCEPT ![c].roe = r])
  PROVE  Open' \subseteq Open /\ Holdings'
<1> USE DEF Exposure, Holdings, Open, Held
<1>1. CASE position' = position BY <1>1
<1>2. ASSUME NEW c \in Coins, position' = [position EXCEPT ![c] = None] PROVE Open' \subseteq Open /\ Holdings'
  BY <1>2
<1>3. ASSUME NEW c \in Coins, Held(c), NEW r \in Roe, position' = [position EXCEPT ![c].roe = r]
      PROVE  Open' \subseteq Open /\ Holdings'
  <2>1. position[c] = [held |-> TRUE, units |-> 1, roe |-> position[c].roe] BY <1>3
  <2>2. /\ position' = [d \in Coins |-> position'[d]]
        /\ \A d \in Coins : position'[d] = IF d = c THEN [position[c] EXCEPT !.roe = r] ELSE position[d]
    BY <1>3
  <2>3. position'[c] = [held |-> TRUE, units |-> 1, roe |-> r] BY <2>1, <2>2
  <2>4. \A d \in Coins : position'[d] # None => position'[d] = [held |-> TRUE, units |-> 1, roe |-> position'[d].roe]
    BY <2>2, <2>3
  <2> QED BY <1>3, <2>2, <2>4
<1> QED BY <1>1, <1>2, <1>3

LEMMA GuardKeepsExposure ==
  ASSUME IInv, Exposure, NEW p \in active, Guard(p) \/ Kill(p)
  PROVE  Exposure'
<1>1. active' = active
  BY DEF Guard, Kill, StartGuardian, TakeGuardLock, LoadState, ReadAccount, AccountFails, Evaluate, CheckClose, Fill,
         LoseAnswer, Refuse, RecordClose, Verify, Finish, FreeGuardLock, Leave
<1>2. position' = position \/ \E c \in Coins : Held(c) /\ position' = [position EXCEPT ![c] = None]
  <2>1. ASSUME NEW c \in Coins, Fill(p, c)
        PROVE  position' = position \/ (Held(c) /\ position' = [position EXCEPT ![c] = None])
    <3>1. position = [d \in Coins |-> position[d]] BY DEF Exposure, Holdings
    <3>2. [position EXCEPT ![c] = position[c]] = position BY <3>1
    <3> QED BY <2>1, <3>2 DEF Fill
  <2>2. ASSUME NEW c \in Coins, LoseAnswer(p, c)
        PROVE  Held(c) /\ position' = [position EXCEPT ![c] = None]
    BY <2>2 DEF LoseAnswer
  <2> QED BY <2>1, <2>2 DEF Guard, Kill, StartGuardian, TakeGuardLock, LoadState, ReadAccount, AccountFails, Evaluate,
             CheckClose, Refuse, RecordClose, Verify, Finish, FreeGuardLock, Leave
<1>3. pc' = pc \/ \E there \in Places \ {"order"} : Go(p, there)
  BY DEF Guard, Kill, StartGuardian, TakeGuardLock, LoadState, ReadAccount, AccountFails, Evaluate, CheckClose, Fill,
         LoseAnswer, Refuse, Retry, RecordClose, Verify, Finish, FreeGuardLock, Leave, Places
<1>4. pc[p] # "order" \/ pc'[p] # "order"
  <2>1. Guard(p) => pc[p] # "order"
    BY DEF Guard, StartGuardian, TakeGuardLock, LoadState, ReadAccount, AccountFails, Evaluate, CheckClose, Fill,
           LoseAnswer, Refuse, RecordClose, Verify, Finish, FreeGuardLock, Leave
  <2>2. Kill(p) => pc'[p] # "order" BY PlacesAfter DEF Kill, Places
  <2> QED BY <2>1, <2>2
<1>5. \A q \in active : pc'[q] = "order" => pc[q] = "order" /\ cur'[q] = cur[q]
  BY <1>3, <1>4, PlacesAfter DEF IInv, Types
<1> QED BY <1>1, <1>2, <1>5, PositionsShrink, NothingOpened

LEMMA ExposureKept == IInv /\ Exposure /\ [Next]_vars => Exposure'
<1> SUFFICES ASSUME IInv, Exposure, [Next]_vars PROVE Exposure' OBVIOUS
<1>1. ASSUME NEW p \in active, Guard(p) \/ Kill(p) PROVE Exposure' BY <1>1, GuardKeepsExposure
<1>2. ASSUME NEW k \in active, PassGates(k) PROVE Exposure' BY <1>2, PassKeepsExposure
<1>3. ASSUME NEW k \in active, Enter(k) PROVE Exposure' BY <1>3, EnterKeepsExposure
<1>4. ASSUME NEW k \in active,
             StartCycle(k) \/ LockCycle(k) \/ Scan(k) \/ EndEntry(k) \/ RecordEntry(k) \/ RemoveGuardLock(k) \/ Watch(k)
      PROVE  Exposure'
  <2>1. /\ active' = active /\ position' = position
        /\ \E there \in {"lock", "scan", "gates", "unlock", "start"} : Go(k, there)
    BY <1>4 DEF StartCycle, LockCycle, Scan, EndEntry, RecordEntry, RemoveGuardLock, Watch
  <2>2. \A q \in active : pc'[q] # "order" BY <2>1, PlacesAfter DEF Places
  <2> QED BY <2>1, <2>2, PositionsShrink, NothingOpened
<1>5. CASE Tick \/ (\E c \in Coins : Market(c)) \/ UNCHANGED vars
  <2>1. UNCHANGED <<active, pc, cur>> BY <1>5 DEF Tick, Market, vars, local
  <2>2. position' = position \/ \E c \in Coins : Held(c) /\
           (position' = [position EXCEPT ![c] = None] \/ \E r \in Roe : position' = [position EXCEPT ![c].roe = r])
    BY <1>5 DEF Tick, Market, vars
  <2> QED BY <2>1, <2>2, PositionsShrink, NothingOpened
<1> QED BY <1>1, <1>2, <1>3, <1>4, <1>5 DEF Next, Entry

LEMMA ExposureInitially == Init => Exposure
<1> SUFFICES ASSUME Init PROVE Exposure OBVIOUS
<1>1. position \in [Coins -> {None} \cup [held: {TRUE}, units: {1}, roe: Roe]] /\ Cardinality(Open) <= MaxConcurrent
      /\ \A p \in active : pc[p] = "idle"
  <2>1. active \subseteq Procs BY GuardianAssumption DEF GuardianAssumption, Init
  <2> QED BY <2>1 DEF Init
<1>2. Holdings BY <1>1 DEF Holdings, Held
<1> QED BY <1>1, <1>2 DEF Exposure, Room

\* With one process on the account, for any set of coins and any MAX_CONCURRENT,
\* and whatever answers are lost and entries not recorded: no more than
\* MAX_CONCURRENT positions are open, and no position is added to. The gates of
\* hl_entry.py read the account itself, and nothing opens between them and the
\* order.
THEOREM ExposureBoundedAlways == OneScheduler => (Spec => []ExposureBounded)
<1>1. Exposure => ExposureBounded BY DEF Exposure, Holdings, ExposureBounded, Open
<1>2. OneScheduler => (Spec => []Exposure)
  BY ExposureInitially, ExposureKept, Invariance, PTL DEF Spec
<1> QED BY <1>1, <1>2, PTL

-----------------------------------------------------------------------------
(* Types, in every deployment: cycle and watchdog together too.            *)

\* What a process has read of the positions it means to close.
Read(p) == {c \in Coins : seen[p][c] # None}

Shapes ==
  /\ active \in Deployments /\ pc \in [Procs -> Places]
  /\ mem \in [Procs -> FileContent] /\ gfile \in {Unreadable} \cup FileContent
  /\ seen \in [Procs -> [Coins -> Holding]] /\ position \in [Coins -> Holding]
  /\ todo \in [Procs -> SUBSET Coins] /\ cur \in [Procs -> SUBSET Coins] /\ tries \in [Procs -> 0..MaxRetries]
  /\ peaks \in [Coins -> {0} \cup Roe] /\ sinceEntry \in 0..EntryCooldown
  /\ {cycleLock, guardLock} \subseteq {Free} \cup 0..LockTTL
  /\ streak \in Nat /\ faults \in 0..MaxFaults

\* A close is planned, and under way, only for a position that was read.
Closing == {"closing", "send", "record", "verify"}
Planned ==
  \A p \in Procs :
    /\ pc[p] \in Closing => todo[p] \subseteq Read(p)
    /\ pc[p] \in Closing \ {"closing"} => cur[p] \subseteq Read(p)

Sound == Shapes /\ Planned

LEMMA SoundIsTyped == Sound => TypeOK
BY DEF Sound, Shapes, Planned, TypeOK, Closing, Read

LEMMA Bounds ==
  /\ {MaxRetries, LockTTL, StaleAfter, EntryCooldown, CloseCooldown, MaxFaults} \subseteq Nat
  /\ Free = -1 /\ Roe \subseteq Int
  /\ \A d \in Deployments : d \subseteq Procs
BY GuardianAssumption DEF GuardianAssumption, Free

LEMMA HoldingIs ==
  /\ None \in Holding
  /\ \A h \in Holding : h # None => h.held = TRUE /\ h.units \in Nat \ {0} /\ h.roe \in Roe
  /\ \A n \in Nat \ {0}, r \in Roe : [held |-> TRUE, units |-> n, roe |-> r] \in Holding
  /\ \A h \in Holding, r \in Roe : h # None => [h EXCEPT !.roe = r] \in Holding
<1>1. /\ None \in Holding
      /\ \A n \in Nat \ {0}, r \in Roe : [held |-> TRUE, units |-> n, roe |-> r] \in Holding
  BY DEF Holding
<1>2. \A h \in Holding : h # None => h \in [held: {TRUE}, units: Nat \ {0}, roe: Roe] BY DEF Holding
<1> QED BY <1>1, <1>2 DEF Holding

\* An entry starts at the least of the losses.
LEMMA EntryRoe == Max({r \in Roe : r < 0}) \in Roe
<1> DEFINE S == {r \in Roe : r < 0}
           T == {n \in Nat : -n \in S}
           R == {ss \in Nat \X Nat : ss[1] < ss[2]}
<1>1. S # {} /\ \A r \in S : r \in Int /\ r < 0 BY GuardianAssumption DEF GuardianAssumption
<1>2. \A r \in S : -r \in T BY <1>1
<1>3. IsWellFoundedOn(OpToRel(<, Nat), Nat) BY NatLessThanWellFounded
<1>4. IsWellFoundedOn(R, Nat) BY <1>3 DEF OpToRel
<1> HIDE DEF S
<1>5. T # {} /\ T \subseteq Nat BY <1>1, <1>2
<1> HIDE DEF T
<1>6. PICK n \in T : \A m \in T : ~(<<m, n>> \in R) BY <1>4, <1>5, WFMin
<1>7. \A m \in T : n <= m
  <2> SUFFICES ASSUME NEW m \in T, m < n PROVE FALSE BY <1>5
  <2>1. <<m, n>> \in R BY <1>5
  <2> QED BY <1>6, <2>1
<1>8. -n \in S BY DEF T
<1>9. \A r \in S : -n >= r BY <1>1, <1>2, <1>5, <1>7
<1>10. Max(S) \in S BY <1>8, <1>9 DEF Max
<1> QED BY <1>10 DEF S

LEMMA PeakIs == \A a, b \in {0} \cup Roe : Max({a, b}) \in {0} \cup Roe
<1> SUFFICES ASSUME NEW a \in {0} \cup Roe, NEW b \in {0} \cup Roe PROVE Max({a, b}) \in {a, b} OBVIOUS
<1>1. a \in Int /\ b \in Int BY Bounds
<1>2. \E x \in {a, b} : \A y \in {a, b} : x >= y BY <1>1
<1> QED BY <1>2 DEF Max

\* A step of one process to a place where nothing is being closed.
LEMMA AwayTyped ==
  ASSUME Sound, Shapes', NEW p \in Procs, NEW there \in Places \ Closing, Go(p, there),
         \A q \in Procs \ {p} : seen'[q] = seen[q] /\ todo'[q] = todo[q] /\ cur'[q] = cur[q]
  PROVE  Sound'
<1>1. \A q \in Procs \ {p} : pc'[q] = pc[q] BY DEF Go, Sound, Shapes
<1>2. pc'[p] = there BY DEF Go, Sound, Shapes
<1>3. \A q \in Procs \ {p} : Read(q)' = Read(q) BY DEF Read
<1> QED BY <1>1, <1>2, <1>3 DEF Sound, Planned

\* A step among the closes, in what was planned.
LEMMA CloseTyped ==
  ASSUME Sound, Shapes', NEW p \in Procs, NEW there \in Closing, Go(p, there), seen' = seen,
         todo'[p] \subseteq Read(p), there # "closing" => cur'[p] \subseteq Read(p),
         \A q \in Procs \ {p} : todo'[q] = todo[q] /\ cur'[q] = cur[q]
  PROVE  Sound'
<1>1. \A q \in Procs \ {p} : pc'[q] = pc[q] BY DEF Go, Sound, Shapes
<1>2. pc'[p] = there BY DEF Go, Sound, Shapes
<1>3. \A q \in Procs : Read(q)' = Read(q) BY DEF Read
<1> QED BY <1>1, <1>2, <1>3 DEF Sound, Planned

LEMMA EntryTyped ==
  ASSUME Sound, NEW k \in Procs, Entry(k)
  PROVE  Sound'
<1> USE DEF Sound
<1>0. "lock" \in Places /\ "scan" \in Places /\ "gates" \in Places /\ "order" \in Places /\ "entered" \in Places
      /\ "unlock" \in Places /\ "start" \in Places BY DEF Places
<1>1. CASE StartCycle(k)
  <2>1. Shapes' BY <1>0, <1>1 DEF StartCycle, Shapes, Go, locks, history
  <2> QED BY <1>0, <1>1, <2>1, AwayTyped DEF StartCycle, Closing
<1>2. CASE LockCycle(k)
  <2>1. Shapes' BY <1>0, <1>2, Bounds DEF LockCycle, Shapes, Go, history
  <2> QED BY <1>0, <1>2, <2>1, AwayTyped DEF LockCycle, Closing
<1>3. CASE Scan(k)
  <2>1. PICK c \in Coins : cur' = [cur EXCEPT ![k] = {c}] BY <1>3 DEF Scan
  <2>2. Shapes' BY <1>0, <1>3, <2>1 DEF Scan, Shapes, Go, locks, history
  <2>3. \A q \in Procs \ {k} : cur'[q] = cur[q] BY <2>1 DEF Shapes
  <2> QED BY <1>0, <1>3, <2>2, <2>3, AwayTyped DEF Scan, Closing
<1>4. CASE PassGates(k)
  <2>1. Shapes' BY <1>0, <1>4 DEF PassGates, Shapes, Go, locks, history
  <2> QED BY <1>0, <1>4, <2>1, AwayTyped DEF PassGates, Closing
<1>5. CASE EndEntry(k)
  <2>1. Shapes' BY <1>0, <1>5 DEF EndEntry, Shapes, Go, locks, history
  <2>2. \A q \in Procs \ {k} : cur'[q] = cur[q] BY <1>5 DEF EndEntry, Shapes
  <2> QED BY <1>0, <1>5, <2>1, <2>2, AwayTyped DEF EndEntry, Closing
<1>6. CASE Enter(k)
  <2>1. PICK there \in {"entered", "unlock"} : Go(k, there) BY <1>6 DEF Enter
  <2>2. position' \in [Coins -> Holding]
    <3>1. position' = [c \in Coins |-> IF c \in cur[k] THEN Bought(c) ELSE position[c]] BY <1>6 DEF Enter
    <3>2. ASSUME NEW c \in Coins PROVE Bought(c) \in Holding
      <4>1. position[c] \in Holding BY DEF Shapes
      <4>2. CASE Held(c)
        <5>1. position[c].units \in Nat \ {0} /\ position[c].roe \in Roe BY <4>1, <4>2, HoldingIs DEF Held
        <5> QED BY <4>2, <5>1, HoldingIs DEF Bought
      <4>3. CASE ~Held(c) BY <4>3, HoldingIs, EntryRoe DEF Bought
      <4> QED BY <4>2, <4>3
    <3> QED BY <3>1, <3>2 DEF Shapes
  <2>3. cur' \in [Procs -> SUBSET Coins] /\ \A q \in Procs \ {k} : cur'[q] = cur[q] BY <1>6 DEF Enter, Shapes
  <2>4. faults' \in 0..MaxFaults BY <1>6, Bounds DEF Enter, Shapes
  <2>5. Shapes' BY <1>0, <1>6, <2>1, <2>2, <2>3, <2>4 DEF Enter, Shapes, Go, locks
  <2> QED BY <1>0, <1>6, <2>1, <2>3, <2>5, AwayTyped DEF Enter, Closing
<1>7. CASE RecordEntry(k)
  <2>1. Shapes' BY <1>0, <1>7, Bounds DEF RecordEntry, Shapes, Go, locks, history
  <2>2. \A q \in Procs \ {k} : cur'[q] = cur[q] BY <1>7 DEF RecordEntry, Shapes
  <2> QED BY <1>0, <1>7, <2>1, <2>2, AwayTyped DEF RecordEntry, Closing
<1>8. CASE RemoveGuardLock(k)
  <2>1. Shapes' BY <1>0, <1>8 DEF RemoveGuardLock, Shapes, Go, history
  <2> QED BY <1>0, <1>8, <2>1, AwayTyped DEF RemoveGuardLock, Closing
<1> QED BY <1>1, <1>2, <1>3, <1>4, <1>5, <1>6, <1>7, <1>8 DEF Entry

\* A guardian takes its lock, loads, reads and evaluates.
LEMMA OpeningTyped ==
  ASSUME Sound, NEW p \in Procs,
         StartGuardian(p) \/ TakeGuardLock(p) \/ LoadState(p) \/ ReadAccount(p) \/ Evaluate(p)
  PROVE  Sound'
<1> USE DEF Sound
<1>0. "leave" \in Places /\ "take" \in Places /\ "load" \in Places /\ "read" \in Places /\ "evaluate" \in Places
      /\ "closing" \in Places BY DEF Places
<1>1. CASE StartGuardian(p)
  <2>1. PICK there \in {"leave", "take"} : Go(p, there) BY <1>1 DEF StartGuardian
  <2>2. Shapes' BY <1>0, <1>1, <2>1 DEF StartGuardian, Shapes, Go, locks, history
  <2> QED BY <1>0, <1>1, <2>1, <2>2, AwayTyped DEF StartGuardian, Closing
<1>2. CASE TakeGuardLock(p)
  <2>1. Shapes' BY <1>0, <1>2, Bounds DEF TakeGuardLock, Shapes, Go, history
  <2> QED BY <1>0, <1>2, <2>1, AwayTyped DEF TakeGuardLock, Closing
<1>3. CASE LoadState(p)
  <2>1. Loaded \in FileContent
    <3>1. CASE gfile = Unreadable BY <3>1, Limits DEF Loaded
    <3>2. CASE gfile # Unreadable
      <4>1. gfile \in FileContent /\ 0 \in 0..StaleAfter BY <3>2, Bounds DEF Shapes
      <4> QED BY <3>2, <4>1 DEF Loaded, FileContent
    <3> QED BY <3>1, <3>2
  <2>2. Shapes' BY <1>0, <1>3, <2>1 DEF LoadState, Shapes, Go, locks, history
  <2> QED BY <1>0, <1>3, <2>2, AwayTyped DEF LoadState, Closing
<1>4. CASE ReadAccount(p)
  <2>1. gfile' \in {Unreadable} \cup FileContent BY <1>4 DEF ReadAccount, Save, Shapes
  <2>2. Shapes' BY <1>0, <1>4, <2>1 DEF ReadAccount, Shapes, Go, locks, history
  <2>3. \A q \in Procs \ {p} : seen'[q] = seen[q] BY <1>4 DEF ReadAccount, Shapes
  <2> QED BY <1>0, <1>4, <2>2, <2>3, AwayTyped DEF ReadAccount, Closing
<1>5. CASE Evaluate(p)
  <2> DEFINE Has(c) == seen[p][c] # None
             roe(c) == seen[p][c].roe
             Due(decayed) == {c \in Coins : Has(c) /\ Triggered(c, roe(c), decayed)}
  <2>1. PICK decayed \in SUBSET Coins :
          /\ todo' = [todo EXCEPT ![p] = Due(decayed)]
          /\ peaks' = [c \in Coins |-> IF ~Has(c) THEN peaks[c]
                                       ELSE IF c \in Due(decayed) THEN 0 ELSE Peak(c, roe(c))]
          /\ Go(p, "closing")
          /\ UNCHANGED <<active, mem, seen, cur, tries, position, gfile, sinceEntry, locks, history>>
    BY <1>5 DEF Evaluate
  <2>2. Due(decayed) \subseteq Read(p) BY DEF Read
  <2>3. \A c \in Coins : Has(c) => Peak(c, roe(c)) \in {0} \cup Roe
    <3> SUFFICES ASSUME NEW c \in Coins, Has(c) PROVE Peak(c, roe(c)) \in {0} \cup Roe OBVIOUS
    <3>1. roe(c) \in Roe /\ peaks[c] \in {0} \cup Roe BY HoldingIs DEF Shapes
    <3> QED BY <3>1, PeakIs DEF Peak
  <2>4. peaks' \in [Coins -> {0} \cup Roe] BY <2>1, <2>3 DEF Shapes
  <2> HIDE DEF Due
  <2>5. Due(decayed) \subseteq Coins BY <2>2 DEF Read
  <2>6. Shapes' BY <1>0, <2>1, <2>4, <2>5 DEF Shapes, Go, locks, history
  <2>7. todo'[p] = Due(decayed) /\ \A q \in Procs \ {p} : todo'[q] = todo[q] BY <2>1 DEF Shapes
  <2>8. UNCHANGED <<seen, cur>> BY <2>1
  <2> QED BY <2>1, <2>2, <2>6, <2>7, <2>8, CloseTyped DEF Closing
<1> QED BY <1>1, <1>2, <1>3, <1>4, <1>5

\* The checks before a close, in a copy of the state that may be halted and saved.
LEMMA CheckTyped ==
  ASSUME Sound, NEW p \in Procs, NEW c \in Coins, CheckClose(p, c)
  PROVE  Sound'
<1> USE DEF Sound
<1>1. /\ pc[p] = "closing" /\ c \in todo[p] /\ todo' = [todo EXCEPT ![p] = @ \ {c}]
      /\ UNCHANGED <<active, seen, position, peaks, sinceEntry, cycleLock, guardLock, streak, faults>>
  BY DEF CheckClose, locks, history
<1>2. todo[p] \subseteq Read(p) BY <1>1 DEF Planned, Closing
<1>3. /\ todo' \in [Procs -> SUBSET Coins] /\ todo'[p] \subseteq Read(p) /\ c \in Read(p)
      /\ \A q \in Procs \ {p} : todo'[q] = todo[q]
  BY <1>1, <1>2 DEF Shapes
<1>4. \/ UNCHANGED <<pc, cur, tries>>
      \/ Go(p, "send") /\ cur' = [cur EXCEPT ![p] = {c}] /\ tries' = [tries EXCEPT ![p] = 0]
  BY DEF CheckClose
<1>5. mem' \in {mem, [mem EXCEPT ![p].halted = TRUE]} /\ gfile' \in {gfile, mem'[p]}
  BY DEF CheckClose, Save
<1>6. mem' \in [Procs -> FileContent] /\ gfile' \in {Unreadable} \cup FileContent
  <2>1. mem[p] \in FileContent BY DEF Shapes
  <2>2. [mem[p] EXCEPT !.halted = TRUE] \in FileContent BY <2>1 DEF FileContent
  <2>3. [mem EXCEPT ![p].halted = TRUE] \in [Procs -> FileContent] BY <2>2 DEF Shapes
  <2>4. mem' \in [Procs -> FileContent] BY <1>5, <2>3 DEF Shapes
  <2> QED BY <1>5, <2>4 DEF Shapes
<1>7. CASE UNCHANGED <<pc, cur, tries>>
  <2>1. Shapes' BY <1>1, <1>3, <1>6, <1>7 DEF Shapes
  <2>2. Go(p, "closing") BY <1>1, <1>7 DEF Go, Shapes
  <2> QED BY <1>1, <1>3, <1>7, <2>1, <2>2, CloseTyped DEF Closing
<1>8. CASE Go(p, "send") /\ cur' = [cur EXCEPT ![p] = {c}] /\ tries' = [tries EXCEPT ![p] = 0]
  <2>1. "send" \in Places /\ 0 \in 0..MaxRetries BY Bounds DEF Places
  <2>2. Shapes' BY <1>1, <1>3, <1>6, <1>8, <2>1 DEF Shapes, Go
  <2>3. cur'[p] = {c} /\ \A q \in Procs \ {p} : cur'[q] = cur[q] BY <1>8 DEF Shapes
  <2> QED BY <1>1, <1>3, <1>8, <2>2, <2>3, CloseTyped DEF Closing
<1> QED BY <1>4, <1>7, <1>8

\* One more attempt, or none left: in both cases on the way of a close.
LEMMA RetryIs ==
  ASSUME Sound, NEW p \in Procs, pc[p] = "send", Retry(p) \/ (Go(p, "closing") /\ cur' = [cur EXCEPT ![p] = {}] /\ UNCHANGED tries)
  PROVE  /\ \E there \in {"send", "closing"} : Go(p, there)
         /\ tries' \in [Procs -> 0..MaxRetries] /\ cur' \in [Procs -> SUBSET Coins]
         /\ cur'[p] \subseteq cur[p] /\ \A q \in Procs \ {p} : cur'[q] = cur[q]
<1> USE DEF Sound
<1>1. CASE tries[p] < MaxRetries /\ tries' = [tries EXCEPT ![p] = @ + 1] /\ UNCHANGED <<pc, cur>>
  <2>1. Go(p, "send") BY <1>1 DEF Go, Shapes
  <2>2. tries[p] + 1 \in 0..MaxRetries BY <1>1, Bounds DEF Shapes
  <2> QED BY <1>1, <2>1, <2>2 DEF Shapes
<1>2. CASE Go(p, "closing") /\ cur' = [cur EXCEPT ![p] = {}] /\ UNCHANGED tries
  BY <1>2 DEF Shapes
<1> QED BY <1>1, <1>2 DEF Retry

\* An order to close, with an answer, without one, or refused.
LEMMA SendTyped ==
  ASSUME Sound, NEW p \in Procs, Refuse(p) \/ \E c \in Coins : Fill(p, c) \/ LoseAnswer(p, c)
  PROVE  Sound'
<1> USE DEF Sound
<1>0. "send" \in Places /\ "closing" \in Places /\ "record" \in Places BY DEF Places
<1>1. pc[p] = "send" BY DEF Fill, LoseAnswer, Refuse
<1>2. todo[p] \subseteq Read(p) /\ cur[p] \subseteq Read(p) BY <1>1 DEF Planned, Closing
<1>3. ASSUME NEW c \in Coins PROVE Streak(p, c) \in Nat BY DEF Streak, Shapes
<1>4. ASSUME NEW c \in Coins PROVE [position EXCEPT ![c] = None] \in [Coins -> Holding]
  BY HoldingIs DEF Shapes
<1>5. ASSUME NEW c \in Coins, Fill(p, c) PROVE Sound'
  <2>1. position' \in [Coins -> Holding] BY <1>4, <1>5 DEF Fill, Shapes
  <2>2. Shapes' BY <1>0, <1>3, <1>5, <2>1 DEF Fill, Shapes, Go, locks
  <2> QED BY <1>2, <1>5, <2>2, CloseTyped DEF Fill, Closing
<1>6. ASSUME NEW c \in Coins, LoseAnswer(p, c) PROVE Sound'
  <2>1. position' \in [Coins -> Holding] /\ Retry(p) BY <1>4, <1>6 DEF LoseAnswer
  <2>2. faults' \in 0..MaxFaults BY <1>6, Bounds DEF LoseAnswer, Shapes
  <2>3. PICK there \in {"send", "closing"} : Go(p, there) BY <1>1, <2>1, RetryIs
  <2>4. /\ tries' \in [Procs -> 0..MaxRetries] /\ cur' \in [Procs -> SUBSET Coins]
        /\ cur'[p] \subseteq cur[p] /\ \A q \in Procs \ {p} : cur'[q] = cur[q]
    BY <1>1, <2>1, RetryIs
  <2>5. Shapes' BY <1>0, <1>3, <1>6, <2>1, <2>2, <2>3, <2>4 DEF LoseAnswer, Shapes, Go, locks
  <2> QED BY <1>2, <1>6, <2>3, <2>4, <2>5, CloseTyped DEF LoseAnswer, Closing
<1>7. CASE Refuse(p)
  <2>1. PICK there \in {"send", "closing"} : Go(p, there) BY <1>1, <1>7, RetryIs DEF Refuse
  <2>2. /\ tries' \in [Procs -> 0..MaxRetries] /\ cur' \in [Procs -> SUBSET Coins]
        /\ cur'[p] \subseteq cur[p] /\ \A q \in Procs \ {p} : cur'[q] = cur[q]
    BY <1>1, <1>7, RetryIs DEF Refuse
  <2>3. Shapes' BY <1>0, <1>7, <2>1, <2>2 DEF Refuse, Shapes, Go, locks, history
  <2> QED BY <1>2, <1>7, <2>1, <2>2, <2>3, CloseTyped DEF Refuse, Closing
<1> QED BY <1>5, <1>6, <1>7

\* What follows a close, and the end of a run.
LEMMA ClosedTyped ==
  ASSUME Sound, NEW p \in Procs,
         Verify(p) \/ Finish(p) \/ AccountFails(p) \/ FreeGuardLock(p) \/ Leave(p) \/ \E c \in Coins : RecordClose(p, c)
  PROVE  Sound'
<1> USE DEF Sound
<1>0. "verify" \in Places /\ "closing" \in Places /\ "free" \in Places /\ "leave" \in Places /\ "idle" \in Places
  BY DEF Places
<1>1. ASSUME NEW c \in Coins, RecordClose(p, c) PROVE Sound'
  <2>1. mem[p] \in FileContent BY DEF Shapes
  <2> DEFINE rec == [mem[p] EXCEPT !.losses = IF Loses(p, c) THEN @ + 1 ELSE 0, !.sinceClose[c] = 0]
  <2>2. rec \in FileContent
    <3> DEFINE n == IF Loses(p, c) THEN mem[p].losses + 1 ELSE 0
               t == [mem[p].sinceClose EXCEPT ![c] = 0]
    <3>1. n \in Nat BY <2>1, Limits
    <3>2. 0 \in 0..CloseCooldown BY Bounds
    <3>3. t \in [Coins -> 0..CloseCooldown] BY <2>1, <3>2 DEF FileContent
    <3>4. rec = [mem[p] EXCEPT !.losses = n, !.sinceClose = t] BY <2>1 DEF FileContent
    <3> HIDE DEF n, t, rec
    <3> QED BY <2>1, <3>1, <3>3, <3>4 DEF FileContent
  <2>3. mem' = [mem EXCEPT ![p] = rec] BY <1>1 DEF RecordClose
  <2> HIDE DEF rec
  <2>4. mem' \in [Procs -> FileContent] /\ mem'[p] = rec BY <2>2, <2>3 DEF Shapes
  <2>5. gfile' \in FileContent BY <1>1, <2>2, <2>4 DEF RecordClose, Save
  <2>6. Go(p, "verify") /\ pc[p] = "record"
        /\ UNCHANGED <<active, seen, todo, cur, tries, position, peaks, sinceEntry, locks, history>>
    BY <1>1 DEF RecordClose
  <2>7. Shapes' BY <1>0, <2>4, <2>5, <2>6 DEF Shapes, Go, locks, history
  <2>8. todo[p] \subseteq Read(p) /\ cur[p] \subseteq Read(p) BY <2>6 DEF Planned, Closing
  <2> QED BY <2>6, <2>7, <2>8, CloseTyped DEF Closing
<1>2. CASE Verify(p)
  <2>1. Shapes' BY <1>0, <1>2 DEF Verify, Shapes, Go, locks, history
  <2>2. todo[p] \subseteq Read(p) BY <1>2 DEF Verify, Planned, Closing
  <2>3. \A q \in Procs \ {p} : cur'[q] = cur[q] BY <1>2 DEF Verify, Shapes
  <2> QED BY <1>2, <2>1, <2>2, <2>3, CloseTyped DEF Verify, Closing
<1>3. CASE Finish(p)
  <2>1. gfile' \in FileContent BY <1>3 DEF Finish, Save, Shapes
  <2>2. Shapes' BY <1>0, <1>3, <2>1 DEF Finish, Shapes, Go, locks, history
  <2> QED BY <1>0, <1>3, <2>2, AwayTyped DEF Finish, Closing
<1>4. CASE AccountFails(p)
  <2>1. Shapes' BY <1>0, <1>4 DEF AccountFails, Shapes, Go, locks, history
  <2> QED BY <1>0, <1>4, <2>1, AwayTyped DEF AccountFails, Closing
<1>5. CASE FreeGuardLock(p)
  <2>1. Shapes' BY <1>0, <1>5, Limits, Bounds, HoldingIs DEF FreeGuardLock, Shapes, Go, history
  <2>2. \A q \in Procs \ {p} : seen'[q] = seen[q] /\ todo'[q] = todo[q] /\ cur'[q] = cur[q]
    BY <1>5 DEF FreeGuardLock, Shapes
  <2> QED BY <1>0, <1>5, <2>1, <2>2, AwayTyped DEF FreeGuardLock, Closing
<1>6. CASE Leave(p)
  <2>1. Shapes' BY <1>0, <1>6 DEF Leave, Shapes, Go, history
  <2> QED BY <1>0, <1>6, <2>1, AwayTyped DEF Leave, Closing
<1> QED BY <1>1, <1>2, <1>3, <1>4, <1>5, <1>6

LEMMA KillTyped ==
  ASSUME Sound, NEW p \in Procs, Kill(p) \/ Watch(p)
  PROVE  Sound'
<1> USE DEF Sound
<1>0. "idle" \in Places /\ "start" \in Places BY DEF Places
<1>1. CASE Watch(p)
  <2>1. Shapes' BY <1>0, <1>1 DEF Watch, Shapes, Go, locks, history
  <2> QED BY <1>0, <1>1, <2>1, AwayTyped DEF Watch, Closing
<1>2. CASE Kill(p)
  <2>1. faults' \in 0..MaxFaults /\ gfile' \in {Unreadable} \cup FileContent BY <1>2, Bounds DEF Kill, Shapes
  <2>2. Shapes' BY <1>0, <1>2, <2>1, Limits, Bounds, HoldingIs DEF Kill, Shapes, Go, locks
  <2>3. \A q \in Procs \ {p} : seen'[q] = seen[q] /\ todo'[q] = todo[q] /\ cur'[q] = cur[q]
    BY <1>2 DEF Kill, Shapes
  <2> QED BY <1>0, <1>2, <2>2, <2>3, AwayTyped DEF Kill, Closing
<1> QED BY <1>1, <1>2

LEMMA WorldTyped ==
  ASSUME Sound, Tick \/ (\E c \in Coins : Market(c)) \/ UNCHANGED vars
  PROVE  Sound'
<1> USE DEF Sound
<1>1. UNCHANGED <<active, pc, seen, todo, cur>> BY DEF Tick, Market, vars, local
<1>2. Planned' BY <1>1 DEF Planned, Read
<1>3. CASE Tick
  <2>1. \A n \in Nat : \A a \in 0..n : Older(a, n) \in 0..n BY DEF Older
  <2>2. sinceEntry' \in 0..EntryCooldown BY <1>3, <2>1, Bounds DEF Tick, Shapes
  <2>3. \A lock \in {Free} \cup 0..LockTTL : AgedLock(lock) \in {Free} \cup 0..LockTTL BY <2>1, Bounds DEF AgedLock
  <2>4. {cycleLock', guardLock'} \subseteq {Free} \cup 0..LockTTL BY <1>3, <2>3 DEF Tick, Shapes
  <2>5. mem' \in [Procs -> FileContent] BY <1>3, AgedIs DEF Tick, Shapes
  <2>6. gfile' \in {Unreadable} \cup FileContent
    <3>1. CASE gfile = Unreadable BY <1>3, <3>1 DEF Tick, Aged
    <3>2. CASE gfile # Unreadable BY <1>3, <3>2, AgedIs DEF Tick, Shapes
    <3> QED BY <3>1, <3>2
  <2>7. Shapes' BY <1>1, <1>3, <2>2, <2>4, <2>5, <2>6 DEF Tick, Shapes, history
  <2> QED BY <1>2, <2>7
<1>4. ASSUME NEW c \in Coins, Market(c) PROVE Sound'
  <2>1. position[c] \in Holding /\ position[c] # None BY <1>4 DEF Market, Held, Shapes
  <2>2. \A r \in Roe : [position EXCEPT ![c].roe = r] \in [Coins -> Holding]
    <3> SUFFICES ASSUME NEW r \in Roe PROVE [position EXCEPT ![c].roe = r] \in [Coins -> Holding] OBVIOUS
    <3>1. [position[c] EXCEPT !.roe = r] \in Holding BY <2>1, HoldingIs
    <3> QED BY <3>1 DEF Shapes
  <2>3. [position EXCEPT ![c] = None] \in [Coins -> Holding] BY HoldingIs DEF Shapes
  <2>4. position' \in [Coins -> Holding] BY <1>4, <2>2, <2>3 DEF Market
  <2>5. Shapes' BY <1>4, <2>4 DEF Market, Shapes, local, locks, history
  <2> QED BY <1>2, <2>5
<1>5. CASE UNCHANGED vars BY <1>2, <1>5 DEF vars, local, locks, history, Shapes
<1> QED BY <1>3, <1>4, <1>5

LEMMA SoundInitially == Init => Sound
<1> SUFFICES ASSUME Init PROVE Sound OBVIOUS
<1>1. position \in [Coins -> Holding]
  <2>1. \A h \in [held: {TRUE}, units: {1}, roe: Roe] : h \in Holding
    <3> TAKE h \in [held: {TRUE}, units: {1}, roe: Roe]
    <3>1. h = [held |-> TRUE, units |-> 1, roe |-> h.roe] /\ h.roe \in Roe OBVIOUS
    <3>2. 1 \in Nat \ {0} OBVIOUS
    <3> QED BY <3>1, <3>2, HoldingIs
  <2>2. position \in [Coins -> {None} \cup [held: {TRUE}, units: {1}, roe: Roe]] BY DEF Init
  <2> QED BY <2>1, <2>2, HoldingIs
<1>2. seen \in [Procs -> [Coins -> Holding]] BY HoldingIs DEF Init
<1>3. Shapes BY <1>1, <1>2, Limits, Bounds DEF Init, Shapes, Places
<1>4. Planned BY DEF Init, Planned, Closing
<1> QED BY <1>3, <1>4 DEF Sound

LEMMA SoundKept == Sound /\ [Next]_vars => Sound'
<1> SUFFICES ASSUME Sound, [Next]_vars PROVE Sound' OBVIOUS
<1>1. active \subseteq Procs BY Bounds DEF Sound, Shapes
<1>2. ASSUME NEW p \in active, Guard(p) PROVE Sound'
  BY <1>1, <1>2, OpeningTyped, CheckTyped, SendTyped, ClosedTyped DEF Guard
<1>3. ASSUME NEW p \in active, Kill(p) \/ Watch(p) PROVE Sound' BY <1>1, <1>3, KillTyped
<1>4. ASSUME NEW k \in active, Entry(k) PROVE Sound' BY <1>1, <1>4, EntryTyped
<1>5. CASE Tick \/ (\E c \in Coins : Market(c)) \/ UNCHANGED vars BY <1>5, WorldTyped
<1> QED BY <1>2, <1>3, <1>4, <1>5 DEF Next

\* In every deployment, with cycle and watchdog at once too: the state files and
\* the account stay well formed, and a close is sent and recorded only for a
\* position that was read.
THEOREM GuardianTypes == Spec => []TypeOK
BY SoundInitially, SoundKept, SoundIsTyped, PTL DEF Spec
=============================================================================
