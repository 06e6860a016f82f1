----------------------------- MODULE TradingEngine -----------------------------
(***************************************************************************)
(* The control loop of the live engine: its state in memory and in the     *)
(* state file, the healer that rewrites the file behind the engine's back, *)
(* reconciliation with the exchange, the circuit breaker, and an entry with *)
(* its validations.  Exits are one step here (see ExitCoordination).       *)
(*                                                                         *)
(* A position is a number, its life: new for each order that fills.        *)
(***************************************************************************)
EXTENDS Integers, Sequences, FiniteSets

CONSTANTS
  Coins,
  MaxConcurrent,     \* MAX_CONCURRENT
  LossLimit,         \* CIRCUIT_BREAKER_LOSSES
  ManyLosses, MaxLoss,   \* the healer's sanity limits: 10 losses, -1000 USD
  ScanEvery, StaleAfter, \* both 120 s; reconciliation is due each tick
  OrphanAge,         \* 300 s: a younger entry is no orphan
  LedgerTail,        \* records of the ledger the validators look at: 5
  MaxLives,          \* bound: positions of a run
  MaxFaults          \* bound: crashes and failed or lost calls

ASSUME LimitsAssumption ==
  /\ IsFiniteSet(Coins)
  /\ MaxConcurrent \in Nat \ {0} /\ LossLimit \in Nat \ {0}
  /\ ManyLosses \in Nat /\ MaxLoss \in Nat
  /\ ScanEvery \in Nat \ {0} /\ StaleAfter \in Nat \ {0}
  /\ OrphanAge \in Nat /\ LedgerTail \in Nat
  /\ MaxLives \in Nat \ {0} /\ MaxFaults \in Nat

VARIABLES
  held,       \* [Coins -> life of the position at the exchange, 0 for none]
  mem,        \* EngineState.data
  disk,       \* the state file
  diskOk,     \* it is valid JSON
  pc,         \* where the loop is
  todo,       \* positions protect_capital has still to look at
  coin,       \* the coin being booked or entered
  sinceScan, sinceRec,   \* ticks since last_scan and last_reconcile
  ledger,     \* trade-ledger.jsonl, its last LedgerTail records
  lives,      \* lives used so far
  fills,      \* history: [Coins -> orders that filled into the position]
  streak,     \* history: losses booked in a row by this process
  faults      \* adversities left

vars == <<held, mem, disk, diskOk, pc, todo, coin, sinceScan, sinceRec, ledger,
          lives, fills, streak, faults>>
file   == <<disk, diskOk>>
timers == <<sinceScan, sinceRec>>
orders == <<lives, fills>>

Live == {c \in Coins : held[c] # 0}

-----------------------------------------------------------------------------
(* The engine's state.  open: whether the entry time kept is the one of the *)
(* entry or of a later discovery.  peak: the life the peak ROE was seen on. *)

NoPeak == -1
Default ==
  [open |-> [c \in Coins |-> "no"], peak |-> [c \in Coins |-> NoPeak],
   losses |-> 0, halted |-> FALSE, why |-> "none", pnl |-> 0]

Tracked(st) == {c \in Coins : st.open[c] # "no"}

Track(st, S, how) ==
  [st EXCEPT !.open = [c \in Coins |-> IF c \in S THEN how ELSE @[c]],
             !.peak = [c \in Coins |-> IF c \in S THEN 0 ELSE @[c]]]
Untrack(st, S) ==
  [st EXCEPT !.open = [c \in Coins |-> IF c \in S THEN "no" ELSE @[c]],
             !.peak = [c \in Coins |-> IF c \in S THEN NoPeak ELSE @[c]]]

Halt(st, why) == [st EXCEPT !.halted = TRUE, !.why = why]

IsHealthy(st) == ~st.halted /\ st.losses < LossLimit

RecordClose(st, c, loss) ==
  LET n      == IF loss THEN st.losses + 1 ELSE 0
      booked == [Untrack(st, {c}) EXCEPT !.losses = n,
                                         !.pnl = IF loss THEN @ - 1 ELSE @ + 1]
  IN  IF n >= LossLimit THEN Halt(booked, "losses") ELSE booked

-----------------------------------------------------------------------------
(* The self-healing validator.  It works on the file. *)

ReadState == IF diskOk THEN disk ELSE Default

\* _reconcile_positions; it adds no peak for what it discovers.
Reconciled(st) ==
  LET kept == Untrack(st, Tracked(st) \ Live)
  IN  [kept EXCEPT !.open = [c \in Coins |->
         IF c \in Live \ Tracked(st) THEN "found" ELSE @[c]]]

Resettable(st, old) == st.halted /\ (Live = {} \/ (st.why = "validation" /\ old))
Reset(st, old) ==
  IF Resettable(st, old)
  THEN [st EXCEPT !.halted = FALSE, !.why = "none", !.losses = 0] ELSE st

Broken(st) == st.pnl < -MaxLoss \/ st.losses > ManyLosses
Rebuilt(st) ==
  [Default EXCEPT !.pnl = st.pnl,
     !.open = [c \in Coins |-> IF c \in Live THEN "found" ELSE "no"]]

\* validate_and_heal; old: the heartbeat is older than five minutes.
Heal(old) ==
  LET st   == Reset(Reconciled(ReadState), old)
      last == IF Broken(st) THEN Rebuilt(st) ELSE st
  IN  /\ disk' = last
      /\ diskOk' = (diskOk \/ last # Default)

-----------------------------------------------------------------------------
(* Start and end of the process. *)

Save == disk' = mem' /\ diskOk' = TRUE

\* main heals the file, then EngineState loads it; the healer does nothing
\* when the exchange does not answer.
Boot ==
  /\ pc = "down"
  /\ \/ \E old \in BOOLEAN : Heal(old)
        /\ UNCHANGED faults
     \/ /\ faults > 0 /\ faults' = faults - 1
        /\ UNCHANGED file
  /\ mem' = IF diskOk' THEN disk' ELSE Default
  /\ pc' = "boot"
  /\ sinceScan' = ScanEvery /\ sinceRec' = StaleAfter + 1
  /\ streak' = 0
  /\ UNCHANGED <<held, todo, coin, ledger, orders>>

\* startup_reconciliation, which leaves the peaks of what it removes;
\* update_peak_capital may save as well.
StartupReconciliation ==
  /\ pc = "boot"
  /\ mem' = [Track(mem, Live \ Tracked(mem), "found") EXCEPT
               !.open = [c \in Coins |-> IF c \in Live THEN @[c] ELSE "no"]]
  /\ Save \/ (mem' = mem /\ UNCHANGED file)
  /\ pc' = "heal"
  /\ UNCHANGED <<held, todo, coin, timers, ledger, orders, streak, faults>>

Dies ==
  /\ pc' = "down" /\ todo' = {}
  /\ mem' = Default
  /\ UNCHANGED <<held, coin, timers, ledger, orders, streak>>

\* get_state raises in startup_reconciliation: nothing catches it.
StartupFails ==
  /\ pc = "boot"
  /\ faults > 0 /\ faults' = faults - 1
  /\ Dies
  /\ UNCHANGED file

\* Killed, maybe while the state file is being rewritten in place.
Crash ==
  /\ pc # "down"
  /\ faults > 0 /\ faults' = faults - 1
  /\ Dies
  /\ diskOk' \in IF pc = "heal" THEN {diskOk} ELSE {diskOk, FALSE}
  /\ UNCHANGED disk

-----------------------------------------------------------------------------
(* One cycle: heal, protect, reconcile, scan, heartbeat. *)

\* Mutant: the loop loads the file the healer has reset.
Adopted == mem' = disk'
\* The loop goes on with its own memory.
AfterHeal == mem' = mem

\* The loop calls the healer.  When the healer has rebuilt the state,
\* EngineState(STATE_FILE) raises a TypeError.
AutoHeal ==
  /\ pc = "heal"
  /\ \/ /\ Heal(FALSE)
        /\ UNCHANGED faults
        /\ IF Broken(Reset(Reconciled(ReadState), FALSE)) THEN Dies
           ELSE /\ AfterHeal /\ pc' = "protect"
                /\ UNCHANGED <<held, todo, coin, timers, ledger, orders, streak>>
     \/ /\ faults > 0 /\ faults' = faults - 1
        /\ pc' = "protect"
        /\ UNCHANGED <<held, mem, file, todo, coin, timers, ledger, orders, streak>>

\* protect_capital: the snapshot, with the peaks evaluate_triggers raises.  A
\* first peak is not saved.
BeginProtect ==
  /\ pc = "protect" /\ todo = {}
  /\ \/ \E up \in SUBSET Live :
          LET first == {c \in Live : mem.peak[c] = NoPeak}
          IN /\ mem' = [mem EXCEPT !.peak = [c \in Coins |->
                          IF c \in up \cup first THEN held[c] ELSE @[c]]]
             /\ IF up \subseteq first THEN UNCHANGED file ELSE Save
             /\ todo' = Live
             /\ UNCHANGED faults
     \/ /\ faults > 0 /\ faults' = faults - 1     \* skip_cycle
        /\ UNCHANGED <<mem, file, todo>>
  /\ pc' = IF todo' = {} THEN "reconcile" ELSE "exits"
  /\ UNCHANGED <<held, coin, timers, ledger, orders, streak>>

\* One position of the snapshot: no exit, or none that succeeds; an unforced
\* exit blocked by a drawdown halts the engine.
PassPosition(c) ==
  /\ pc = "exits" /\ c \in todo
  /\ \/ UNCHANGED <<mem, file>>
     \/ mem' = Halt(mem, "drawdown") /\ Save
  /\ todo' = todo \ {c}
  /\ pc' = IF todo' = {} THEN "reconcile" ELSE "exits"
  /\ UNCHANGED <<held, coin, timers, ledger, orders, streak, faults>>

\* The position is closed, or was already when the exit loop asked.
ExitPosition(c) ==
  /\ pc = "exits" /\ c \in todo
  /\ held' = [held EXCEPT ![c] = 0]
  /\ coin' = c /\ todo' = todo \ {c}
  /\ pc' = "book"
  /\ UNCHANGED <<mem, file, timers, ledger, orders, streak, faults>>

Keep(recs) ==
  IF Len(recs) <= LedgerTail THEN recs
  ELSE SubSeq(recs, Len(recs) - LedgerTail + 1, Len(recs))
Record(act, c) == [act |-> act, coin |-> c, age |-> 0]

BookExit(loss) ==
  /\ pc = "book"
  /\ mem' = RecordClose(mem, coin, loss) /\ Save
  /\ streak' = IF loss THEN streak + 1 ELSE 0
  /\ \/ ledger' = Keep(Append(ledger, Record("exit", coin))) /\ UNCHANGED faults
     \/ faults > 0 /\ faults' = faults - 1 /\ UNCHANGED ledger
  /\ pc' = IF todo = {} THEN "reconcile" ELSE "exits"
  /\ UNCHANGED <<held, todo, coin, timers, orders>>

\* Mutant: positions the engine does not know stay untracked.
ForgetStrays(st) == Untrack(st, Tracked(st) \ Live)
Reconcile(st) == Track(Untrack(st, Tracked(st) \ Live), Live \ Tracked(st), "found")

\* periodic_reconciliation, when due; a failed query advances its timer too.
PeriodicReconciliation ==
  /\ pc = "reconcile"
  /\ \/ sinceRec < 1 /\ UNCHANGED <<mem, file, sinceRec, faults>>
     \/ /\ sinceRec >= 1 /\ sinceRec' = 0
        /\ mem' = Reconcile(mem)
        /\ IF mem' = mem THEN UNCHANGED file ELSE Save
        /\ UNCHANGED faults
     \/ /\ sinceRec >= 1 /\ sinceRec' = 0
        /\ faults > 0 /\ faults' = faults - 1
        /\ UNCHANGED <<mem, file>>
  /\ pc' = "scan"
  /\ UNCHANGED <<held, todo, coin, sinceScan, ledger, orders, streak>>

Heartbeat ==
  /\ pc = "beat"
  /\ UNCHANGED mem /\ Save
  /\ pc' = "heal"
  /\ UNCHANGED <<held, todo, coin, timers, ledger, orders, streak, faults>>

-----------------------------------------------------------------------------
(* Scanning and entering. *)

\* scan_opportunities returns early, without touching its timer.
SkipScan ==
  /\ pc = "scan" /\ (sinceScan < ScanEvery \/ ~IsHealthy(mem))
  /\ pc' = "beat"
  /\ UNCHANGED <<held, mem, file, todo, coin, timers, ledger, orders, streak, faults>>

EndScan == pc' = "beat" /\ sinceScan' = 0

ScanFindsNothing ==
  /\ pc = "scan" /\ sinceScan >= ScanEvery /\ IsHealthy(mem)
  /\ EndScan
  /\ UNCHANGED <<held, mem, file, todo, coin, sinceRec, ledger, orders, streak, faults>>

ScanFinds(c) ==
  /\ pc = "scan" /\ sinceScan >= ScanEvery /\ IsHealthy(mem)
  /\ lives < MaxLives
  /\ coin' = c /\ pc' = "sync"
  /\ UNCHANGED <<held, mem, file, todo, timers, ledger, orders, streak, faults>>

\* The entry ends here without an order (or a failed one).
GiveUp ==
  /\ EndScan
  /\ UNCHANGED <<held, mem, file, todo, coin, sinceRec, ledger, orders, streak>>

HaltEntry(why) ==
  /\ mem' = Halt(mem, why) /\ Save
  /\ EndScan
  /\ UNCHANGED <<held, todo, coin, sinceRec, ledger, orders, streak, faults>>

\* An entry's trade id ends in a date and time, an exit's in the date of the
\* entry: they are never equal.
SameTrade(e, x) == FALSE
Orphan(i) ==
  /\ ledger[i].act = "entry" /\ ledger[i].age >= OrphanAge
  /\ ~\E j \in DOMAIN ledger :
        ledger[j].act = "exit" /\ SameTrade(ledger[i], ledger[j])
HasOrphan == \E i \in DOMAIN ledger : Orphan(i)

\* _check_state_sync; it passes when its query fails.
CheckStateSync ==
  /\ pc = "sync"
  /\ \/ Tracked(mem) # Live /\ HaltEntry("validation")
     \/ /\ Tracked(mem) = Live /\ UNCHANGED faults
        /\ pc' = "gates"
        /\ UNCHANGED <<held, mem, file, todo, coin, timers, ledger, orders, streak>>
     \/ /\ faults > 0 /\ faults' = faults - 1
        /\ pc' = "gates"
        /\ UNCHANGED <<held, mem, file, todo, coin, timers, ledger, orders, streak>>

\* Mutant: only the coin itself is looked up, the limit is forgotten.
MayEnterAnyCount ==
  /\ sinceRec <= StaleAfter
  /\ IsHealthy(mem)
  /\ coin \notin Tracked(mem)
MayEnter ==
  /\ sinceRec <= StaleAfter
  /\ IsHealthy(mem)
  /\ coin \notin Tracked(mem)
  /\ Cardinality(Tracked(mem)) < MaxConcurrent

\* _check_capital and _check_size may refuse any entry.
Refusals == {"CAPITAL", "SIZE"}

\* What validate_entry may answer once the state is in sync; its own limit of
\* five positions is above MAX_CONCURRENT.
Validated ==
  Refusals \cup IF HasOrphan THEN {"LEDGER"} ELSE IF coin \in Tracked(mem) THEN {"LIMITS"} ELSE {"OK"}

\* Only the ledger halts the engine; then the older checks, which, like
\* get_state raising, end the entry.
CheckGates ==
  /\ pc = "gates"
  /\ \/ "LEDGER" \in Validated /\ HaltEntry("validation")
     \/ GiveUp /\ UNCHANGED faults
     \/ /\ "OK" \in Validated /\ MayEnter
        /\ pc' = "order"
        /\ UNCHANGED <<held, mem, file, todo, coin, timers, ledger, orders, streak,
                       faults>>

\* market_open: filled and reported, or, for one fault, an exception whatever
\* the exchange did; a rejected order is a GiveUp of CheckGates.
MarketOpen ==
  /\ pc = "order"
  /\ \/ /\ held' = [held EXCEPT ![coin] = IF @ = 0 THEN lives + 1 ELSE @]
        /\ lives' = lives + 1
        /\ fills' = [fills EXCEPT ![coin] = IF coin \in Live THEN @ + 1 ELSE 1]
        /\ \/ pc' = "verify" /\ UNCHANGED <<sinceScan, faults>>
           \/ faults > 0 /\ faults' = faults - 1 /\ EndScan
        /\ UNCHANGED <<mem, file, todo, coin, sinceRec, ledger, streak>>
     \/ /\ faults > 0 /\ faults' = faults - 1
        /\ GiveUp

\* Two seconds later: tracked only if the exchange shows it; an exception is
\* caught and ends the entry.
VerifyFill ==
  /\ pc = "verify"
  /\ \/ /\ coin \in Live
        /\ mem' = Track(mem, {coin}, "entry") /\ Save
        /\ pc' = "ledger"
        /\ UNCHANGED <<held, todo, coin, timers, ledger, orders, streak, faults>>
     \/ coin \notin Live /\ GiveUp /\ UNCHANGED faults
     \/ faults > 0 /\ faults' = faults - 1 /\ GiveUp

\* log_to_ledger swallows its errors.
LogEntry ==
  /\ pc = "ledger"
  /\ \/ ledger' = Keep(Append(ledger, Record("entry", coin))) /\ UNCHANGED faults
     \/ faults > 0 /\ faults' = faults - 1 /\ UNCHANGED ledger
  /\ pc' = "prove"
  /\ UNCHANGED <<held, mem, file, todo, coin, timers, orders, streak>>

LedgerHasEntry ==
  \E i \in DOMAIN ledger : ledger[i].act = "entry" /\ ledger[i].coin = coin
Proved == coin \in Live /\ LedgerHasEntry /\ coin \in Tracked(mem)

\* Post-trade validation; the rollback's own close may fail.
PostTradeValidation ==
  /\ pc = "prove"
  /\ \/ Proved /\ GiveUp /\ UNCHANGED faults
     \/ faults > 0 /\ faults' = faults - 1 /\ GiveUp   \* get_state raises
     \/ /\ ~Proved
        /\ \/ held' = [held EXCEPT ![coin] = 0] /\ UNCHANGED faults
           \/ UNCHANGED held /\ faults > 0 /\ faults' = faults - 1
        /\ mem' = Halt(Untrack(mem, {coin}), "validation") /\ Save
        /\ EndScan
        /\ UNCHANGED <<todo, coin, sinceRec, ledger, orders, streak>>

-----------------------------------------------------------------------------
(* The world: positions closed by others (fallback, liquidation), and time. *)

ClosedOutside(c) ==
  /\ c \in Live
  /\ held' = [held EXCEPT ![c] = 0]
  /\ UNCHANGED <<mem, file, pc, todo, coin, timers, ledger, orders, streak, faults>>

Older(n, limit) == IF n < limit THEN n + 1 ELSE n

\* A tick is a minute: it passes while the loop sleeps, an exit is retried or
\* the process is down; the rest of a cycle takes less.
Tick ==
  /\ pc \in {"heal", "exits", "down"}
  /\ sinceScan' = Older(sinceScan, ScanEvery)
  /\ sinceRec' = Older(sinceRec, StaleAfter + 1)
  /\ ledger' = [i \in DOMAIN ledger |->
                  [ledger[i] EXCEPT !.age = Older(@, OrphanAge)]]
  /\ UNCHANGED <<held, mem, file, pc, todo, coin, orders, streak, faults>>

\* The account may hold positions from before the engine's first start.
Init ==
  /\ \E S \in SUBSET Coins : held = [c \in Coins |-> IF c \in S THEN 1 ELSE 0]
  /\ mem = Default /\ disk = Default /\ diskOk = FALSE
  /\ pc = "down" /\ todo = {} /\ coin \in Coins
  /\ sinceScan = ScanEvery /\ sinceRec = StaleAfter + 1
  /\ ledger = <<>> /\ lives = 1 /\ fills = [c \in Coins |-> 0] /\ streak = 0
  /\ faults = MaxFaults

EngineStep ==
  \/ StartupReconciliation
  \/ AutoHeal
  \/ BeginProtect
  \/ \E c \in Coins : PassPosition(c) \/ ExitPosition(c)
  \/ \E loss \in BOOLEAN : BookExit(loss)
  \/ PeriodicReconciliation
  \/ SkipScan
  \/ ScanFindsNothing
  \/ \E c \in Coins : ScanFinds(c)
  \/ CheckStateSync
  \/ CheckGates
  \/ MarketOpen
  \/ VerifyFill
  \/ LogEntry
  \/ PostTradeValidation
  \/ Heartbeat

Next ==
  \/ EngineStep
  \/ Boot
  \/ StartupFails
  \/ Crash
  \/ \E c \in Coins : ClosedOutside(c)
  \/ Tick

Spec == Init /\ [][Next]_vars

\* The loop never waits for ever, and time passes in its sleeps: strong
\* fairness, for Tick is enabled only now and then.
FairSpec == Spec /\ WF_vars(EngineStep) /\ SF_vars(Tick)

-----------------------------------------------------------------------------
(* Properties. *)

States ==
  [open : [Coins -> {"no", "entry", "found"}], peak : [Coins -> -1..MaxLives],
   losses : Nat, halted : BOOLEAN,
   why : {"none", "losses", "drawdown", "validation"}, pnl : Int]

TypeOK ==
  /\ held \in [Coins -> 0..MaxLives] /\ fills \in [Coins -> 0..MaxLives]
  /\ mem \in States /\ disk \in States /\ diskOk \in BOOLEAN
  /\ pc \in {"down", "boot", "heal", "protect", "exits", "book", "reconcile",
             "scan", "sync", "gates", "order", "verify", "ledger", "prove", "beat"}
  /\ todo \subseteq Coins /\ coin \in Coins
  /\ sinceScan \in 0..ScanEvery /\ sinceRec \in 0..(StaleAfter + 1)
  /\ ledger \in Seq([act : {"entry", "exit"}, coin : Coins, age : 0..OrphanAge])
  /\ Len(ledger) <= LedgerTail
  /\ lives \in 0..MaxLives /\ streak \in Nat /\ faults \in 0..MaxFaults

\* No order goes out after LossLimit losses in a row booked by this process,
\* although the healer resets the breaker in the file each cycle.
BreakerHolds == pc \in {"order", "verify"} => streak < LossLimit

\* If the process stays up, what it tracks becomes what the exchange holds,
\* for good, whatever calls failed before.
TrackingConverges ==
  <>[](pc # "down") => <>[](Tracked(mem) = Live)

\* MAX_CONCURRENT: "Max simultaneous positions - backtest validated 1-at-a-time
\* model" (risk_params.py), orders of unknown outcome included.
AtMostMaxConcurrent ==
  LET own == {c \in Live : fills[c] > 0}
  IN  Cardinality(own) <= MaxConcurrent /\ \A c \in own : fills[c] = 1

\* "Trail 2% behind peak ROE" (risk_params.py:20): the peak of this position,
\* never of an earlier one in the same coin.
TrailingUsesOwnPeak ==
  pc = "exits" => \A c \in todo \cap Live : mem.peak[c] \in {0, held[c]}

\* "This is OK if entry is recent" (pre_trade_validator.py:166): an entry is an
\* orphan when no later exit of its coin was logged, and only then a halt.
NoFalseOrphan ==
  \A i \in DOMAIN ledger :
    Orphan(i) => ~\E j \in DOMAIN ledger :
      j > i /\ ledger[j].act = "exit" /\ ledger[j].coin = ledger[i].coin

\* "If halted but no positions open, safe to reset": a reset of the breaker in
\* the file is not undone by the engine's next save.
ResetSticks ==
  [][pc = "beat" => (diskOk /\ ~disk.halted => ~disk'.halted)]_vars

\* "Run continuous validation and auto-heal instead of crashing"
\* (trading_engine.py:1190): only a fault ends the process.
HealingKeepsRunning ==
  [][pc # "down" /\ pc' = "down" => faults' < faults]_vars

\* "Max hold time" (risk_params.py, TIMEOUT_HOURS): while a position is open,
\* the entry time its timeout counts from is not replaced by a later one.
EntryTimeKept ==
  [][\A c \in Coins :
       disk.open[c] = "entry" /\ held[c] # 0 /\ held'[c] = held[c]
         => disk'.open[c] = "entry"]_vars

==============================================================================
