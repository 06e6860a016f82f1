------------------------------- MODULE Guardian -------------------------------
(***************************************************************************)
(* The live-cycle scripts that trade one Hyperliquid account through files: *)
(* scripts/ats-cycle.py (entry, then protection, under a lock file), the    *)
(* entry module scripts/hl_entry.py it loads, scripts/risk-guardian.py,     *)
(* which closes positions, and scripts/watchdog.py, which runs a guardian   *)
(* of its own.  A returned-on-equity (ROE) is a level of Roe.               *)
(***************************************************************************)
EXTENDS Integers, FiniteSets, FiniteSetsExt

CONSTANTS Cycles,           \* processes of ats-cycle.py
          Watched,          \* guardians that watchdog.py starts
          Deployments,      \* the sets of processes that may be in use together
          Coins,
          MaxConcurrent,    \* MAX_CONCURRENT of hl_entry.py
          LossLimit,        \* CIRCUIT_BREAKER_LOSSES
          MaxRetries,       \* MAX_RETRIES
          LockTTL,          \* the 300 s after which a lock file is stale
          StaleAfter,       \* the 120 s after which the guardian has not run
          EntryCooldown, CloseCooldown,
          Roe, StopLoss, TakeProfit, TrailActivate, TrailDistance,
          SlippageRoe,      \* the ROE at which the price has moved MAX_SLIPPAGE
          MaxFaults         \* bound of a run

Procs == Cycles \cup Watched

ASSUME GuardianAssumption ==
  /\ Cycles \cap Watched = {}
  /\ Deployments \subseteq SUBSET Procs
  /\ {MaxConcurrent, LossLimit} \subseteq Nat \ {0}
  /\ {MaxRetries, LockTTL, StaleAfter, EntryCooldown, CloseCooldown, TrailDistance, MaxFaults} \subseteq Nat
  /\ IsFiniteSet(Coins) /\ Roe \subseteq Int /\ (\E r \in Roe : r < 0) /\ StopLoss < 0 /\ TakeProfit > 0 /\ TrailActivate > 0

VARIABLES active,     \* the deployment: the processes launchd runs
          pc, mem, seen, todo, cur, tries,  \* the local state of each process
          position,   \* the exchange: the position held in each coin
          gfile,      \* risk-guardian-state.json
          peaks,      \* peak-roe-tracker.json
          sinceEntry, \* age of last_entry_at in hl-entry-state.json
          cycleLock, guardLock,  \* ages of ats-cycle.lock and risk-guardian.lock
          streak,     \* history: losing closes since the last winning one
          faults      \* history: kills and lost answers

local == <<pc, mem, seen, todo, cur, tries>>
locks == <<cycleLock, guardLock>>
history == <<streak, faults>>
vars == <<active, local, position, gfile, peaks, sinceEntry, locks, history>>

None == [held |-> FALSE]
Held(c) == position[c] # None
Open == {c \in Coins : Held(c)}

Unreadable == [readable |-> FALSE]     \* absent, or torn by a kill in a write
Fresh == [readable |-> TRUE, halted |-> FALSE, losses |-> 0,
          sinceClose |-> [c \in Coins |-> CloseCooldown], age |-> 0]
Halted(f) == f # Unreadable /\ f.halted

Free == -1     \* no lock file
\* Mutant: a lock file never gets stale.
TakenForEver(lock) == lock # Free
Taken(lock) == lock # Free /\ lock < LockTTL

Go(p, there) == pc' = [pc EXCEPT ![p] = there]

Init ==
  /\ active \in Deployments
  /\ pc = [p \in Procs |-> "idle"] /\ mem = [p \in Procs |-> Fresh]
  /\ seen = [p \in Procs |-> [c \in Coins |-> None]]
  /\ todo = [p \in Procs |-> {}] /\ cur = [p \in Procs |-> {}] /\ tries = [p \in Procs |-> 0]
  /\ position \in [Coins -> {None} \cup [held: {TRUE}, units: {1}, roe: Roe]]
  /\ Cardinality(Open) <= MaxConcurrent
  /\ gfile = Unreadable /\ peaks = [c \in Coins |-> 0] /\ sinceEntry = EntryCooldown
  /\ cycleLock = Free /\ guardLock = Free /\ streak = 0 /\ faults = 0

-----------------------------------------------------------------------------
(* The cycle: its lock and the entry module.                               *)

StartCycle(k) ==
  /\ pc[k] = "idle" /\ ~Taken(cycleLock)
  /\ Go(k, "lock")
  /\ UNCHANGED <<active, mem, seen, todo, cur, tries, position, gfile, peaks, sinceEntry, locks, history>>

LockCycle(k) ==
  /\ pc[k] = "lock" /\ cycleLock' = 0
  /\ Go(k, "scan")
  /\ UNCHANGED <<active, mem, seen, todo, cur, tries, position, gfile, peaks, sinceEntry, guardLock, history>>

\* run_entry picks the best signal of a coin that is not held.
Scan(k) ==
  /\ pc[k] = "scan"
  /\ \E c \in Coins \ Open : cur' = [cur EXCEPT ![k] = {c}]
  /\ Go(k, "gates")
  /\ UNCHANGED <<active, mem, seen, todo, tries, position, gfile, peaks, sinceEntry, locks, history>>

\* Mutant: the number of positions is not counted.
GatesPassUncounted(c) == sinceEntry = EntryCooldown /\ ~Halted(gfile) /\ ~Held(c)

\* The safety gates whose outcome depends on this system's own state.
GatesPass(c) ==
  /\ sinceEntry = EntryCooldown
  /\ ~Halted(gfile)
  /\ ~Held(c)
  /\ Cardinality(Open) < MaxConcurrent

PassGates(k) ==
  /\ pc[k] = "gates" /\ \A c \in cur[k] : GatesPass(c)
  /\ Go(k, "order")
  /\ UNCHANGED <<active, mem, seen, todo, cur, tries, position, gfile, peaks, sinceEntry, locks, history>>

\* No signal, a gate that blocks, a failed read or transfer, a rejected order.
EndEntry(k) ==
  /\ pc[k] \in {"scan", "gates", "order"}
  /\ Go(k, "unlock") /\ cur' = [cur EXCEPT ![k] = {}]
  /\ UNCHANGED <<active, mem, seen, todo, tries, position, gfile, peaks, sinceEntry, locks, history>>

Bought(c) == [held |-> TRUE, units |-> IF Held(c) THEN position[c].units + 1 ELSE 1,
              roe |-> IF Held(c) THEN position[c].roe ELSE Max({r \in Roe : r < 0})]

\* The order is executed; its answer may be lost, and then nothing is recorded.
Enter(k) ==
  /\ pc[k] = "order"
  /\ position' = [c \in Coins |-> IF c \in cur[k] THEN Bought(c) ELSE position[c]]
  /\ \/ Go(k, "entered") /\ UNCHANGED <<cur, faults>>
     \/ faults < MaxFaults /\ faults' = faults + 1 /\ Go(k, "unlock") /\ cur' = [cur EXCEPT ![k] = {}]
  /\ UNCHANGED <<active, mem, seen, todo, tries, gfile, peaks, sinceEntry, locks, streak>>

RecordEntry(k) ==
  /\ pc[k] = "entered" /\ sinceEntry' = 0
  /\ Go(k, "unlock") /\ cur' = [cur EXCEPT ![k] = {}]
  /\ UNCHANGED <<active, mem, seen, todo, tries, position, gfile, peaks, locks, history>>

\* "Remove guardian's own lock since we hold the cycle lock".
RemoveGuardLock(k) ==
  /\ pc[k] = "unlock" /\ guardLock' = Free
  /\ Go(k, "start")
  /\ UNCHANGED <<active, mem, seen, todo, cur, tries, position, gfile, peaks, sinceEntry, cycleLock, history>>

Leave(k) ==
  /\ pc[k] = "leave" /\ Go(k, "idle")
  /\ cycleLock' = IF k \in Cycles THEN Free ELSE cycleLock
  /\ UNCHANGED <<active, mem, seen, todo, cur, tries, position, gfile, peaks, sinceEntry, guardLock, history>>

-----------------------------------------------------------------------------
(* The watchdog starts a guardian when positions are held and the guardian  *)
(* is halted, has no state or has not saved it for a while.                 *)

WatchdogRuns ==
  /\ Open # {}
  /\ gfile # Unreadable => gfile.halted \/ gfile.age >= StaleAfter

Watch(g) ==
  /\ pc[g] = "idle" /\ WatchdogRuns
  /\ Go(g, "start")
  /\ UNCHANGED <<active, mem, seen, todo, cur, tries, position, gfile, peaks, sinceEntry, locks, history>>

-----------------------------------------------------------------------------
(* The guardian.                                                           *)

StartGuardian(p) ==
  /\ pc[p] = "start"
  /\ Go(p, IF Taken(guardLock) THEN "leave" ELSE "take")
  /\ UNCHANGED <<active, mem, seen, todo, cur, tries, position, gfile, peaks, sinceEntry, locks, history>>

TakeGuardLock(p) ==
  /\ pc[p] = "take" /\ guardLock' = 0
  /\ Go(p, "load")
  /\ UNCHANGED <<active, mem, seen, todo, cur, tries, position, gfile, peaks, sinceEntry, cycleLock, history>>

\* Mutants: the loss count, the halt of the file is not taken over.
LoadedWithoutLosses == IF gfile = Unreadable THEN Fresh ELSE [gfile EXCEPT !.losses = 0, !.age = 0]
LoadedRunning == IF gfile = Unreadable THEN Fresh ELSE [gfile EXCEPT !.halted = FALSE, !.age = 0]
Loaded == IF gfile = Unreadable THEN Fresh ELSE [gfile EXCEPT !.age = 0]

LoadState(p) ==
  /\ pc[p] = "load" /\ mem' = [mem EXCEPT ![p] = Loaded]
  /\ Go(p, "read")
  /\ UNCHANGED <<active, seen, todo, cur, tries, position, gfile, peaks, sinceEntry, locks, history>>

\* GuardianState.save writes the whole of the process's own copy.
Save(p) == gfile' = mem'[p]

\* get_state, then update_peak, which saves when the wallet has a new high.
ReadAccount(p) ==
  /\ pc[p] = "read" /\ seen' = [seen EXCEPT ![p] = position]
  /\ Go(p, "evaluate")
  /\ UNCHANGED mem /\ (Save(p) \/ UNCHANGED gfile)
  /\ UNCHANGED <<active, todo, cur, tries, position, peaks, sinceEntry, locks, history>>

\* A failing get_state ends the run, before, between or after its closes.
AccountFails(p) ==
  /\ pc[p] \in {"read", "verify"} \/ (pc[p] = "closing" /\ todo[p] # {})
  /\ Go(p, "free")
  /\ UNCHANGED <<active, mem, seen, todo, cur, tries, position, gfile, peaks, sinceEntry, locks, history>>

Peak(c, roe) == Max({peaks[c], roe})

\* evaluate_position; decayed: the coins whose funding fell since the entry.
\* Its timeout rule is void: get_state returns no opened_at.
Triggered(c, roe, decayed) ==
  \/ roe <= StopLoss
  \/ roe >= TakeProfit
  \/ Peak(c, roe) >= TrailActivate /\ roe <= Peak(c, roe) - TrailDistance
  \/ c \in decayed /\ roe < 0

\* Every position that was read is evaluated; the peak of one to close is deleted.
Evaluate(p) ==
  LET Has(c) == seen[p][c] # None
      roe(c) == seen[p][c].roe
      Due(decayed) == {c \in Coins : Has(c) /\ Triggered(c, roe(c), decayed)}
  IN  \E decayed \in SUBSET Coins :
        /\ pc[p] = "evaluate" /\ todo' = [todo EXCEPT ![p] = Due(decayed)]
        /\ peaks' = [c \in Coins |-> IF ~Has(c) THEN peaks[c]
                                     ELSE IF c \in Due(decayed) THEN 0 ELSE Peak(c, roe(c))]
        /\ Go(p, "closing")
        /\ UNCHANGED <<active, mem, seen, cur, tries, position, gfile, sinceEntry, locks, history>>

Cooling(p, c) == mem[p].sinceClose[c] < CloseCooldown
Stopped(roe) == roe <= StopLoss
\* The mid price is compared with the entry price; without one the test is skipped.
Slipped(c) == Held(c) /\ (position[c].roe > SlippageRoe \/ position[c].roe < -SlippageRoe)

\* fell: the wallet is DRAWDOWN_PCT below its peak.
Breaks(p, fell) == mem[p].losses >= LossLimit \/ fell

\* Cooldown, circuit breaker and slippage test before a close; priced: a mid
\* price is at hand.
CheckClose(p, c) ==
  /\ pc[p] = "closing" /\ c \in todo[p]
  /\ todo' = [todo EXCEPT ![p] = @ \ {c}]
  /\ \/ Cooling(p, c) /\ UNCHANGED <<pc, cur, tries, mem, gfile>>
     \/ /\ ~Cooling(p, c)
        /\ \E fell \in BOOLEAN :
             /\ mem[p].halted \/ Breaks(p, fell)
             /\ mem' = [mem EXCEPT ![p].halted = TRUE]
             /\ IF mem[p].halted THEN UNCHANGED gfile ELSE Save(p)
        /\ UNCHANGED <<pc, cur, tries>>
     \/ /\ ~Cooling(p, c) /\ ~mem[p].halted /\ ~Breaks(p, FALSE)
        /\ UNCHANGED mem /\ (Save(p) \/ UNCHANGED gfile)
        /\ \E priced \in BOOLEAN :
             IF priced /\ Slipped(c) /\ ~Stopped(seen[p][c].roe)
             THEN UNCHANGED <<pc, cur, tries>>
             ELSE Go(p, "send") /\ cur' = [cur EXCEPT ![p] = {c}] /\ tries' = [tries EXCEPT ![p] = 0]
  /\ UNCHANGED <<active, seen, position, peaks, sinceEntry, locks, history>>

Loses(p, c) == seen[p][c].roe < 0
Streak(p, c) == IF Loses(p, c) THEN streak + 1 ELSE 0

\* market_close is filled, in full or in part, and the answer arrives.
Fill(p, c) ==
  /\ pc[p] = "send" /\ c \in cur[p] /\ Held(c)
  /\ \E left \in {None, position[c]} : position' = [position EXCEPT ![c] = left]
  /\ streak' = Streak(p, c) /\ Go(p, "record")
  /\ UNCHANGED <<active, mem, seen, todo, cur, tries, gfile, peaks, sinceEntry, locks, faults>>

Retry(p) ==
  IF tries[p] < MaxRetries THEN tries' = [tries EXCEPT ![p] = @ + 1] /\ UNCHANGED <<pc, cur>>
  ELSE Go(p, "closing") /\ cur' = [cur EXCEPT ![p] = {}] /\ UNCHANGED tries

\* The position is closed and the answer lost: the attempt counts as an error.
LoseAnswer(p, c) ==
  /\ pc[p] = "send" /\ c \in cur[p] /\ Held(c) /\ faults < MaxFaults
  /\ position' = [position EXCEPT ![c] = None]
  /\ streak' = Streak(p, c) /\ faults' = faults + 1 /\ Retry(p)
  /\ UNCHANGED <<active, mem, seen, todo, gfile, peaks, sinceEntry, locks>>

\* Rejected, unreachable, or nothing held; an unknown response is not retried.
Refuse(p) ==
  /\ pc[p] = "send"
  /\ \/ Retry(p)
     \/ Go(p, "closing") /\ cur' = [cur EXCEPT ![p] = {}] /\ UNCHANGED tries
  /\ UNCHANGED <<active, mem, seen, todo, position, gfile, peaks, sinceEntry, locks, history>>

RecordClose(p, c) ==
  /\ pc[p] = "record" /\ c \in cur[p]
  /\ mem' = [mem EXCEPT ![p] = [mem[p] EXCEPT !.losses = IF Loses(p, c) THEN @ + 1 ELSE 0,
                                              !.sinceClose[c] = 0]]
  /\ Save(p) /\ Go(p, "verify")
  /\ UNCHANGED <<active, seen, todo, cur, tries, position, peaks, sinceEntry, locks, history>>

\* The position is read again; one that is still open is logged.
Verify(p) ==
  /\ pc[p] = "verify" /\ cur' = [cur EXCEPT ![p] = {}]
  /\ Go(p, "closing")
  /\ UNCHANGED <<active, mem, seen, todo, tries, position, gfile, peaks, sinceEntry, locks, history>>

Finish(p) ==
  /\ pc[p] = "closing" /\ todo[p] = {}
  /\ UNCHANGED mem /\ Save(p)
  /\ Go(p, "free")
  /\ UNCHANGED <<active, seen, todo, cur, tries, position, peaks, sinceEntry, locks, history>>

FreeGuardLock(p) ==
  /\ pc[p] = "free" /\ guardLock' = Free
  /\ Go(p, "leave") /\ todo' = [todo EXCEPT ![p] = {}] /\ cur' = [cur EXCEPT ![p] = {}]
  /\ seen' = [seen EXCEPT ![p] = [c \in Coins |-> None]] /\ tries' = [tries EXCEPT ![p] = 0]
  /\ mem' = [mem EXCEPT ![p] = Fresh]
  /\ UNCHANGED <<active, position, gfile, peaks, sinceEntry, cycleLock, history>>

-----------------------------------------------------------------------------
(* The environment.                                                        *)

Saving == {"read", "closing", "record"}

\* A process is killed (the watchdog kills a guardian after 60 s): its locks
\* stay; a kill in write_text leaves the state file empty.
Kill(p) ==
  /\ pc[p] # "idle" /\ faults < MaxFaults /\ faults' = faults + 1
  /\ UNCHANGED gfile \/ (pc[p] \in Saving /\ gfile' = Unreadable)
  /\ Go(p, "idle") /\ todo' = [todo EXCEPT ![p] = {}] /\ cur' = [cur EXCEPT ![p] = {}]
  /\ seen' = [seen EXCEPT ![p] = [c \in Coins |-> None]] /\ tries' = [tries EXCEPT ![p] = 0]
  /\ mem' = [mem EXCEPT ![p] = Fresh]
  /\ UNCHANGED <<active, position, peaks, sinceEntry, locks, streak>>

Older(age, bound) == IF age < bound THEN age + 1 ELSE age
Later(f) == [f EXCEPT !.sinceClose = [c \in Coins |-> Older(@[c], CloseCooldown)]]
Aged(f) == IF f = Unreadable THEN f ELSE [Later(f) EXCEPT !.age = Older(@, StaleAfter)]
AgedLock(lock) == IF lock = Free THEN Free ELSE Older(lock, LockTTL)

Tick ==
  /\ gfile' = Aged(gfile) /\ mem' = [p \in Procs |-> Later(mem[p])]
  /\ sinceEntry' = Older(sinceEntry, EntryCooldown)
  /\ cycleLock' = AgedLock(cycleLock) /\ guardLock' = AgedLock(guardLock)
  /\ UNCHANGED <<active, pc, seen, todo, cur, tries, position, peaks, history>>

\* The market moves a position, or takes it away (liquidation, a manual close).
Market(c) ==
  /\ Held(c)
  /\ \/ \E r \in Roe : position' = [position EXCEPT ![c].roe = r]
     \/ position' = [position EXCEPT ![c] = None]
  /\ UNCHANGED <<active, local, gfile, peaks, sinceEntry, locks, history>>

Guard(p) ==
  \/ StartGuardian(p) \/ TakeGuardLock(p) \/ LoadState(p) \/ ReadAccount(p) \/ AccountFails(p)
  \/ Evaluate(p) \/ Refuse(p) \/ Verify(p) \/ Finish(p) \/ FreeGuardLock(p) \/ Leave(p)
  \/ \E c \in Coins : CheckClose(p, c) \/ Fill(p, c) \/ LoseAnswer(p, c) \/ RecordClose(p, c)
Entry(k) ==
  \/ StartCycle(k) \/ LockCycle(k) \/ Scan(k) \/ PassGates(k) \/ EndEntry(k) \/ Enter(k)
  \/ RecordEntry(k) \/ RemoveGuardLock(k)

Next ==
  \/ \E p \in active : Guard(p) \/ Kill(p)
  \/ \E k \in active \cap Cycles : Entry(k)
  \/ \E g \in active \cap Watched : Watch(g)
  \/ Tick
  \/ \E c \in Coins : Market(c)

Spec == Init /\ [][Next]_vars

\* launchd starts the cycle again and again, the watchdog looks every 30 s;
\* the exchange is not down for ever, nor does it refuse the same close for ever.
FairSpec ==
  /\ Spec /\ WF_vars(Tick)
  /\ WF_vars(\E p \in active : Guard(p)) /\ WF_vars(\E k \in active \cap Cycles : Entry(k))
  /\ SF_vars(\E g \in active \cap Watched : Watch(g))
  /\ SF_vars(\E p \in active : ReadAccount(p))
  /\ SF_vars(\E p \in active, c \in Coins : CheckClose(p, c))
  /\ SF_vars(\E p \in active, c \in Coins : Fill(p, c) /\ ~Held(c)')

-----------------------------------------------------------------------------
(* Properties.                                                             *)

Places == {"idle", "lock", "scan", "gates", "order", "entered", "unlock", "start", "take", "load",
           "read", "evaluate", "closing", "send", "record", "verify", "free", "leave"}
FileContent == [readable: {TRUE}, halted: BOOLEAN, losses: Nat,
                sinceClose: [Coins -> 0..CloseCooldown], age: 0..StaleAfter]
Holding == {None} \cup [held: {TRUE}, units: Nat \ {0}, roe: Roe]

TypeOK ==
  /\ active \in Deployments /\ pc \in [Procs -> Places]
  /\ \A p \in Procs : mem[p] \in FileContent /\ gfile \in {Unreadable} \cup FileContent
  /\ \A p \in Procs, c \in Coins : seen[p][c] \in Holding /\ position[c] \in Holding
  /\ todo \in [Procs -> SUBSET Coins] /\ cur \in [Procs -> SUBSET Coins] /\ tries \in [Procs -> 0..MaxRetries]
  /\ \A p \in Procs : \A c \in cur[p] : pc[p] \in {"send", "record", "verify"} => seen[p][c] # None
  /\ peaks \in [Coins -> {0} \cup Roe] /\ sinceEntry \in 0..EntryCooldown
  /\ {cycleLock, guardLock} \subseteq {Free} \cup 0..LockTTL
  /\ streak \in Nat /\ faults \in 0..MaxFaults

\* However an entry ends (lost answer, kill before it is recorded), the account
\* never holds more than MAX_CONCURRENT positions, and none that two orders made.
ExposureBounded == Cardinality(Open) <= MaxConcurrent /\ \A c \in Open : position[c].units = 1

\* The breaker stops the closes after LossLimit losses in a row; each kill or
\* lost answer can hide at most one more such row from it.
BreakerBoundsLosses == streak <= LossLimit * (1 + faults)

\* Orders of the scripts, seen on the exchange.
OrderSent == \E p \in active : pc[p] \in {"order", "send"} /\ position' # position /\ pc'[p] # pc[p]

\* A halt on disk is final (reset_halt has no caller): no order follows it, no
\* later save undoes it; only a kill in the middle of a write forgets it.
HaltIsFinal ==
  [][Halted(gfile) => ~OrderSent /\ (gfile' = Unreadable \/ Halted(gfile'))]_vars

PastStop(c) == Held(c) /\ Stopped(position[c].roe)

\* A position past its stop is closed in the end, whatever was killed with a
\* lock held, unless the breaker halted the system.
StopIsActedOn == (\E c \in Coins : PastStop(c)) ~> (Halted(gfile) \/ \A c \in Coins : ~PastStop(c))

\* The same without the exception (scripts/watchdog.py: "Never allows
\* unprotected capital").  Violated: the breaker blocks protective closes too.
StopAlwaysActedOn == (\E c \in Coins : PastStop(c)) ~> (\A c \in Coins : ~PastStop(c))

Inside(p) == pc[p] \in {"load", "read", "evaluate", "closing", "send", "record", "verify", "free"}
\* One guardian at a time (scripts/risk-guardian.py: "Prevent overlapping
\* runs").  Violated when a cycle and a watchdog share the account: the cycle
\* removes the lock of the other guardian.
OneGuardianInside == \A p, q \in Procs : Inside(p) /\ Inside(q) => p = q

\* The peak of a position that stays open is kept (scripts/risk-guardian.py:
\* "Clean up peak tracker on close").  Violated: it is deleted when the close
\* is decided, and the close may be blocked, refused or cut off.
PeakIsKept == [][\A c \in Coins : Held(c) /\ Held(c)' => peaks'[c] >= peaks[c]]_vars
=============================================================================
