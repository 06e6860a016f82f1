-------------------------- MODULE TradingEngineProofs --------------------------
(***************************************************************************)
(* No entry after a losing streak, for any number of coins, any limits and  *)
(* any number of faults.                                                   *)
(*                                                                         *)
(* What carries the argument: while the process runs, its memory counts at *)
(* least the losses it booked in a row.  Nothing lowers that count but a    *)
(* close without a loss: the healer resets it in the file only, and what   *)
(* the file says is read at a start, when no loss is booked yet.            *)
(***************************************************************************)
EXTENDS TradingEngine, FiniteSetTheorems, TLAPS

-----------------------------------------------------------------------------
(* What the operators on the engine's state keep. *)

LEMMA TrackType ==
  ASSUME NEW st \in States, NEW S, NEW how \in {"entry", "found"}
  PROVE  Track(st, S, how) \in States /\ Track(st, S, how).losses = st.losses
<1> DEFINE o == [c \in Coins |-> IF c \in S THEN how ELSE st.open[c]]
           p == [c \in Coins |-> IF c \in S THEN 0 ELSE st.peak[c]]
<1>1. o \in [Coins -> {"no", "entry", "found"}]
  BY DEF States
<1>2. p \in [Coins -> -1..MaxLives]
  BY LimitsAssumption DEF States
<1>3. Track(st, S, how) = [st EXCEPT !.open = o, !.peak = p]
  BY DEF Track, States
<1> HIDE DEF o, p
<1>. QED BY <1>1, <1>2, <1>3 DEF States

LEMMA UntrackType ==
  ASSUME NEW st \in States, NEW S
  PROVE  Untrack(st, S) \in States /\ Untrack(st, S).losses = st.losses
<1> DEFINE o == [c \in Coins |-> IF c \in S THEN "no" ELSE st.open[c]]
           p == [c \in Coins |-> IF c \in S THEN NoPeak ELSE st.peak[c]]
<1>1. o \in [Coins -> {"no", "entry", "found"}]
  BY DEF States
<1>2. p \in [Coins -> -1..MaxLives]
  BY LimitsAssumption DEF States, NoPeak
<1>3. Untrack(st, S) = [st EXCEPT !.open = o, !.peak = p]
  BY DEF Untrack, States
<1> HIDE DEF o, p
<1>. QED BY <1>1, <1>2, <1>3 DEF States

LEMMA HaltType ==
  ASSUME NEW st \in States, NEW why \in {"losses", "drawdown", "validation"}
  PROVE  Halt(st, why) \in States /\ Halt(st, why).losses = st.losses
BY DEF Halt, States

LEMMA DefaultType == Default \in States /\ Default.losses = 0
BY LimitsAssumption DEF Default, States, NoPeak

\* record_close counts a loss and starts again after any other close.
LEMMA RecordCloseType ==
  ASSUME NEW st \in States, NEW c \in Coins, NEW loss \in BOOLEAN
  PROVE  /\ RecordClose(st, c, loss) \in States
         /\ RecordClose(st, c, loss).losses = IF loss THEN st.losses + 1 ELSE 0
<1> DEFINE n == IF loss THEN st.losses + 1 ELSE 0
           u == Untrack(st, {c})
           b == [u EXCEPT !.losses = n, !.pnl = IF loss THEN @ - 1 ELSE @ + 1]
<1>1. n \in Nat
  BY DEF States
<1>2. u \in States
  BY UntrackType
<1>3. b \in States /\ b.losses = n
  <2> DEFINE q == IF loss THEN u.pnl - 1 ELSE u.pnl + 1
  <2>1. q \in Int
    BY <1>2 DEF States
  <2>2. b = [u EXCEPT !.losses = n, !.pnl = q]
    BY <1>2 DEF States
  <2> HIDE DEF n, u, q, b
  <2>. QED BY <1>1, <1>2, <2>1, <2>2 DEF States
<1>4. Halt(b, "losses") \in States /\ Halt(b, "losses").losses = n
  BY <1>3, HaltType
<1>. QED BY <1>3, <1>4 DEF RecordClose

LEMMA ReconcileType ==
  ASSUME NEW st \in States
  PROVE  Reconcile(st) \in States /\ Reconcile(st).losses = st.losses
BY TrackType, UntrackType DEF Reconcile

LEMMA ReconciledType ==
  ASSUME NEW st \in States
  PROVE  Reconciled(st) \in States
<1>1. Untrack(st, Tracked(st) \ Live) \in States
  BY UntrackType
<1>. QED BY <1>1 DEF Reconciled, States

\* Whatever the healer finds, the file it leaves is well formed.
LEMMA HealType ==
  ASSUME disk \in States, diskOk \in BOOLEAN, NEW old, Heal(old)
  PROVE  disk' \in States /\ diskOk' \in BOOLEAN
<1>1. ReadState \in States
  BY DefaultType DEF ReadState
<1>2. Reconciled(ReadState) \in States
  BY <1>1, ReconciledType
<1> DEFINE st == Reset(Reconciled(ReadState), old)
<1>3. st \in States
  BY <1>2 DEF Reset, States
<1>4. Rebuilt(st) \in States
  BY <1>3, DefaultType DEF Rebuilt, States
<1>. QED BY <1>3, <1>4 DEF Heal

-----------------------------------------------------------------------------
(* The ledger's tail. *)

Records == [act : {"entry", "exit"}, coin : Coins, age : 0..OrphanAge]

LEMMA KeepType ==
  ASSUME NEW recs \in Seq(Records)
  PROVE  Keep(recs) \in Seq(Records) /\ Len(Keep(recs)) <= LedgerTail
<1>1. CASE Len(recs) <= LedgerTail
  BY <1>1 DEF Keep
<1>2. CASE ~(Len(recs) <= LedgerTail)
  <2>1. Keep(recs) = SubSeq(recs, Len(recs) - LedgerTail + 1, Len(recs))
    BY <1>2 DEF Keep
  <2>2. Len(recs) \in Nat /\ LedgerTail \in Nat
    BY LimitsAssumption
  <2>3. Len(recs) - LedgerTail + 1 \in 1..(Len(recs) + 1)
    BY <1>2, <2>2
  <2>. QED BY <2>1, <2>2, <2>3, <1>2
<1>. QED BY <1>1, <1>2

LEMMA LoggedType ==
  ASSUME ledger \in Seq(Records), NEW act \in {"entry", "exit"}, coin \in Coins
  PROVE  /\ Keep(Append(ledger, Record(act, coin))) \in Seq(Records)
         /\ Len(Keep(Append(ledger, Record(act, coin)))) <= LedgerTail
<1>1. Record(act, coin) \in Records
  BY LimitsAssumption DEF Record, Records
<1>2. Append(ledger, Record(act, coin)) \in Seq(Records)
  BY <1>1
<1>. QED BY <1>2, KeepType

-----------------------------------------------------------------------------
(* The inductive invariant. *)

Remembered == pc # "down" => streak <= mem.losses
Gated      == pc \in {"order", "verify"} => mem.losses < LossLimit
LivesLeft  == /\ pc \in {"sync", "gates", "order"} => lives < MaxLives
              /\ \A c \in Coins : fills[c] <= lives
IInv == TypeOK /\ Remembered /\ Gated /\ LivesLeft

LEMMA InitIInv == Init => IInv
<1> SUFFICES ASSUME Init PROVE IInv
  OBVIOUS
<1>1. 1 \in 0..MaxLives /\ 0 \in 0..MaxLives
  BY LimitsAssumption
<1>2. held \in [Coins -> 0..MaxLives] /\ fills \in [Coins -> 0..MaxLives]
  BY <1>1 DEF Init
<1>3. ledger \in Seq([act : {"entry", "exit"}, coin : Coins, age : 0..OrphanAge])
      /\ Len(ledger) <= LedgerTail
  BY LimitsAssumption DEF Init
<1>4. sinceScan \in 0..ScanEvery /\ sinceRec \in 0..(StaleAfter + 1)
      /\ faults \in 0..MaxFaults
  BY LimitsAssumption DEF Init
<1>5. \A c \in Coins : fills[c] <= lives
  BY DEF Init
<1>. QED BY <1>1, <1>2, <1>3, <1>4, <1>5, DefaultType
         DEF Init, IInv, TypeOK, Remembered, Gated, LivesLeft

-----------------------------------------------------------------------------
(* Every step keeps it. *)

\* A fault is taken from those left.
LEMMA FaultType ==
  ASSUME faults \in 0..MaxFaults, faults > 0, faults' = faults - 1
  PROVE  faults' \in 0..MaxFaults
BY LimitsAssumption

LEMMA BootKeeps == IInv /\ Boot => IInv'
<1> SUFFICES ASSUME IInv, Boot PROVE IInv'
  OBVIOUS
<1>1. disk' \in States /\ diskOk' \in BOOLEAN /\ faults' \in 0..MaxFaults
  <2>1. CASE \E old \in BOOLEAN : Heal(old) /\ UNCHANGED faults
    BY <2>1, HealType DEF IInv, TypeOK
  <2>2. CASE faults > 0 /\ faults' = faults - 1 /\ UNCHANGED file
    BY <2>2, FaultType DEF IInv, TypeOK, file
  <2>. QED BY <2>1, <2>2 DEF Boot
<1>2. mem' \in States
  BY <1>1, DefaultType DEF Boot
<1>3. sinceScan' \in 0..ScanEvery /\ sinceRec' \in 0..(StaleAfter + 1)
  BY LimitsAssumption DEF Boot
<1>4. mem'.losses >= 0
  BY <1>2 DEF States
<1>. QED BY <1>1, <1>2, <1>3, <1>4
         DEF Boot, IInv, TypeOK, Remembered, Gated, LivesLeft, orders

LEMMA DiesKeeps ==
  ASSUME IInv, Dies, disk' \in States, diskOk' \in BOOLEAN, faults' \in 0..MaxFaults
  PROVE  IInv'
BY DefaultType DEF Dies, IInv, TypeOK, Remembered, Gated, LivesLeft, timers, orders

LEMMA StartupReconciliationKeeps == IInv /\ StartupReconciliation => IInv'
<1> SUFFICES ASSUME IInv, StartupReconciliation PROVE IInv'
  OBVIOUS
<1> DEFINE t == Track(mem, Live \ Tracked(mem), "found")
           o == [c \in Coins |-> IF c \in Live THEN t.open[c] ELSE "no"]
<1>1. t \in States /\ t.losses = mem.losses
  BY TrackType DEF IInv, TypeOK
<1>2. o \in [Coins -> {"no", "entry", "found"}]
  BY <1>1 DEF States
<1>3. mem' = [t EXCEPT !.open = o]
  BY <1>1 DEF StartupReconciliation, States
<1>4. mem' \in States /\ mem'.losses = mem.losses
  <2> HIDE DEF t, o
  <2>. QED BY <1>1, <1>2, <1>3 DEF States
<1>. QED BY <1>4 DEF StartupReconciliation, Save, IInv, TypeOK, Remembered, Gated,
                     LivesLeft, timers, orders, file

LEMMA AutoHealKeeps == IInv /\ AutoHeal => IInv'
<1> SUFFICES ASSUME IInv, AutoHeal PROVE IInv'
  OBVIOUS
<1>1. CASE Heal(FALSE) /\ UNCHANGED faults
           /\ IF Broken(Reset(Reconciled(ReadState), FALSE)) THEN Dies
              ELSE /\ AfterHeal /\ pc' = "protect"
                   /\ UNCHANGED <<held, todo, coin, timers, ledger, orders, streak>>
  <2>1. disk' \in States /\ diskOk' \in BOOLEAN
    BY <1>1, HealType DEF IInv, TypeOK
  <2>2. CASE Dies
    BY <1>1, <2>1, <2>2, DiesKeeps DEF IInv, TypeOK
  <2>3. CASE /\ AfterHeal /\ pc' = "protect"
             /\ UNCHANGED <<held, todo, coin, timers, ledger, orders, streak>>
    BY <1>1, <2>1, <2>3 DEF AutoHeal, AfterHeal, IInv, TypeOK, Remembered, Gated,
                            LivesLeft, timers, orders
  <2>. QED BY <1>1, <2>2, <2>3
<1>2. CASE /\ faults > 0 /\ faults' = faults - 1
           /\ pc' = "protect"
           /\ UNCHANGED <<held, mem, file, todo, coin, timers, ledger, orders, streak>>
  BY <1>2, FaultType DEF AutoHeal, IInv, TypeOK, Remembered, Gated, LivesLeft, timers,
                         orders, file
<1>. QED BY <1>1, <1>2 DEF AutoHeal

LEMMA BeginProtectKeeps == IInv /\ BeginProtect => IInv'
<1> SUFFICES ASSUME IInv, BeginProtect PROVE IInv'
  OBVIOUS
<1> DEFINE Good == /\ mem' \in States /\ mem'.losses = mem.losses
                   /\ disk' \in States /\ diskOk' \in BOOLEAN
                   /\ todo' \subseteq Coins /\ faults' \in 0..MaxFaults
<1>1. Good
  <2>1. ASSUME NEW up \in SUBSET Live, NEW first,
               mem' = [mem EXCEPT !.peak = [c \in Coins |->
                         IF c \in up \cup first THEN held[c] ELSE @[c]]],
               UNCHANGED file \/ Save, todo' = Live, UNCHANGED faults
        PROVE  Good
    <3> DEFINE p == [c \in Coins |->
                       IF c \in up \cup first THEN held[c] ELSE mem.peak[c]]
    <3>1. p \in [Coins -> -1..MaxLives]
      BY LimitsAssumption DEF IInv, TypeOK, States
    <3>2. mem' = [mem EXCEPT !.peak = p]
      BY <2>1 DEF IInv, TypeOK, States
    <3>3. mem' \in States /\ mem'.losses = mem.losses
      <4> HIDE DEF p
      <4>. QED BY <3>1, <3>2 DEF IInv, TypeOK, States
    <3>. QED BY <2>1, <3>3 DEF IInv, TypeOK, Save, file, Live
  <2>2. CASE faults > 0 /\ faults' = faults - 1 /\ UNCHANGED <<mem, file, todo>>
    BY <2>2, FaultType DEF IInv, TypeOK, file
  <2>. QED BY <2>1, <2>2 DEF BeginProtect
<1>2. pc' \in {"reconcile", "exits"}
  BY DEF BeginProtect
<1>. QED BY <1>1, <1>2 DEF BeginProtect, IInv, TypeOK, Remembered, Gated, LivesLeft,
                           timers, orders

LEMMA PassPositionKeeps ==
  ASSUME NEW c \in Coins
  PROVE  IInv /\ PassPosition(c) => IInv'
<1> SUFFICES ASSUME IInv, PassPosition(c) PROVE IInv'
  OBVIOUS
<1>1. mem' \in States /\ mem'.losses = mem.losses
  BY HaltType DEF PassPosition, IInv, TypeOK
<1>2. disk' \in States /\ diskOk' \in BOOLEAN
  BY <1>1 DEF PassPosition, IInv, TypeOK, file, Save
<1>. QED BY <1>1, <1>2 DEF PassPosition, IInv, TypeOK, Remembered, Gated, LivesLeft,
                           timers, orders

LEMMA ExitPositionKeeps ==
  ASSUME NEW c \in Coins
  PROVE  IInv /\ ExitPosition(c) => IInv'
<1> SUFFICES ASSUME IInv, ExitPosition(c) PROVE IInv'
  OBVIOUS
<1>1. held' \in [Coins -> 0..MaxLives]
  BY LimitsAssumption DEF ExitPosition, IInv, TypeOK
<1>. QED BY <1>1 DEF ExitPosition, IInv, TypeOK, Remembered, Gated, LivesLeft,
                     timers, orders, file

LEMMA BookExitKeeps ==
  ASSUME NEW loss \in BOOLEAN
  PROVE  IInv /\ BookExit(loss) => IInv'
<1> SUFFICES ASSUME IInv, BookExit(loss) PROVE IInv'
  OBVIOUS
<1>1. /\ mem' \in States
      /\ mem'.losses = IF loss THEN mem.losses + 1 ELSE 0
  BY RecordCloseType DEF BookExit, IInv, TypeOK
<1>2. streak' \in Nat /\ streak' <= mem'.losses
  BY <1>1 DEF BookExit, IInv, TypeOK, Remembered, States
<1>3. /\ ledger' \in Seq(Records) /\ Len(ledger') <= LedgerTail
      /\ faults' \in 0..MaxFaults
  BY LoggedType, FaultType DEF BookExit, IInv, TypeOK, Records
<1>4. pc' \in {"reconcile", "exits"}
  BY DEF BookExit
<1>. QED BY <1>1, <1>2, <1>3, <1>4
         DEF BookExit, Save, IInv, TypeOK, Remembered, Gated, LivesLeft, timers, orders,
             Records

LEMMA PeriodicReconciliationKeeps == IInv /\ PeriodicReconciliation => IInv'
<1> SUFFICES ASSUME IInv, PeriodicReconciliation PROVE IInv'
  OBVIOUS
<1>1. mem' \in States /\ mem'.losses = mem.losses
  BY ReconcileType DEF PeriodicReconciliation, IInv, TypeOK
<1>2. disk' \in States /\ diskOk' \in BOOLEAN
  BY <1>1 DEF PeriodicReconciliation, IInv, TypeOK, file, Save
<1>3. sinceRec' \in 0..(StaleAfter + 1) /\ faults' \in 0..MaxFaults
  BY LimitsAssumption, FaultType DEF PeriodicReconciliation, IInv, TypeOK
<1>. QED BY <1>1, <1>2, <1>3 DEF PeriodicReconciliation, IInv, TypeOK, Remembered, Gated,
                                 LivesLeft, orders

LEMMA HeartbeatKeeps == IInv /\ Heartbeat => IInv'
BY DEF Heartbeat, Save, IInv, TypeOK, Remembered, Gated, LivesLeft, timers, orders

\* Ends of a scan: the timer starts again, nothing else of IInv moves.
LEMMA GiveUpKeeps ==
  ASSUME IInv, pc # "down", GiveUp, faults' \in 0..MaxFaults
  PROVE  IInv'
<1>1. sinceScan' \in 0..ScanEvery
  BY LimitsAssumption DEF GiveUp, EndScan
<1>. QED BY <1>1 DEF GiveUp, EndScan, IInv, TypeOK, Remembered, Gated, LivesLeft, orders,
                     file

LEMMA HaltEntryKeeps ==
  ASSUME IInv, pc # "down", HaltEntry("validation")
  PROVE  IInv'
<1>1. mem' \in States /\ mem'.losses = mem.losses
  BY HaltType DEF HaltEntry, IInv, TypeOK
<1>2. sinceScan' \in 0..ScanEvery
  BY LimitsAssumption DEF HaltEntry, EndScan
<1>. QED BY <1>1, <1>2 DEF HaltEntry, EndScan, Save, IInv, TypeOK, Remembered, Gated,
                           LivesLeft, orders

LEMMA ScanKeeps ==
  ASSUME IInv, \/ SkipScan
               \/ ScanFindsNothing
               \/ \E c \in Coins : ScanFinds(c)
  PROVE  IInv'
<1>1. CASE SkipScan
  BY <1>1 DEF SkipScan, IInv, TypeOK, Remembered, Gated, LivesLeft, timers, orders, file
<1>2. CASE ScanFindsNothing
  BY <1>2, LimitsAssumption
     DEF ScanFindsNothing, EndScan, IInv, TypeOK, Remembered, Gated, LivesLeft, orders,
         file
<1>3. ASSUME NEW c \in Coins, ScanFinds(c) PROVE IInv'
  BY <1>3 DEF ScanFinds, IInv, TypeOK, Remembered, Gated, LivesLeft, timers, orders, file
<1>. QED BY <1>1, <1>2, <1>3

LEMMA CheckStateSyncKeeps == IInv /\ CheckStateSync => IInv'
<1> SUFFICES ASSUME IInv, CheckStateSync PROVE IInv'
  OBVIOUS
<1>1. CASE HaltEntry("validation")
  BY <1>1, HaltEntryKeeps DEF CheckStateSync
<1>2. CASE /\ pc = "sync" /\ pc' = "gates" /\ faults' \in 0..MaxFaults
           /\ UNCHANGED <<held, mem, file, todo, coin, timers, ledger, orders, streak>>
  BY <1>2 DEF IInv, TypeOK, Remembered, Gated, LivesLeft, timers, orders, file
<1>3. UNCHANGED faults => faults' \in 0..MaxFaults
  BY DEF IInv, TypeOK
<1>4. faults > 0 /\ faults' = faults - 1 => faults' \in 0..MaxFaults
  BY FaultType DEF IInv, TypeOK
<1>. QED BY <1>1, <1>2, <1>3, <1>4 DEF CheckStateSync

LEMMA CheckGatesKeeps == IInv /\ CheckGates => IInv'
<1> SUFFICES ASSUME IInv, CheckGates PROVE IInv'
  OBVIOUS
<1>1. CASE HaltEntry("validation")
  BY <1>1, HaltEntryKeeps DEF CheckGates
<1>2. CASE GiveUp /\ UNCHANGED faults
  BY <1>2, GiveUpKeeps DEF CheckGates, IInv, TypeOK
<1>3. CASE /\ MayEnter /\ pc = "gates" /\ pc' = "order"
           /\ UNCHANGED <<held, mem, file, todo, coin, timers, ledger, orders, streak,
                          faults>>
  BY <1>3 DEF MayEnter, IsHealthy, IInv, TypeOK, Remembered, Gated, LivesLeft, timers,
              orders, file
<1>. QED BY <1>1, <1>2, <1>3 DEF CheckGates

LEMMA MarketOpenKeeps == IInv /\ MarketOpen => IInv'
<1> SUFFICES ASSUME IInv, MarketOpen PROVE IInv'
  OBVIOUS
<1>1. CASE /\ faults > 0 /\ faults' = faults - 1
           /\ GiveUp
  BY <1>1, FaultType, GiveUpKeeps DEF MarketOpen, IInv, TypeOK
<1>2. CASE /\ held' = [held EXCEPT ![coin] = IF @ = 0 THEN lives + 1 ELSE @]
           /\ lives' = lives + 1
           /\ fills' = [fills EXCEPT ![coin] = IF coin \in Live THEN @ + 1 ELSE 1]
           /\ \/ pc' = "verify" /\ UNCHANGED <<sinceScan, faults>>
              \/ faults > 0 /\ faults' = faults - 1 /\ EndScan
           /\ UNCHANGED <<mem, file, todo, coin, sinceRec, ledger, streak>>
  <2>1. lives + 1 \in 0..MaxLives /\ 1 \in 0..MaxLives
    BY LimitsAssumption DEF MarketOpen, IInv, TypeOK, LivesLeft
  <2>2. held' \in [Coins -> 0..MaxLives] /\ lives' \in 0..MaxLives
    BY <1>2, <2>1 DEF IInv, TypeOK
  <2>3. fills' \in [Coins -> 0..MaxLives] /\ \A c \in Coins : fills'[c] <= lives'
    <3>1. lives \in Nat /\ coin \in Coins /\ fills[coin] \in Nat /\ MaxLives \in Nat
      BY LimitsAssumption DEF IInv, TypeOK
    <3>2. fills[coin] <= lives /\ lives < MaxLives
      BY <3>1 DEF MarketOpen, IInv, LivesLeft
    <3>3. fills[coin] + 1 \in 0..MaxLives
      BY <3>1, <3>2
    <3>. QED BY <3>3, <1>2, <2>1, <3>1 DEF IInv, TypeOK, LivesLeft
  <2>4. sinceScan' \in 0..ScanEvery /\ faults' \in 0..MaxFaults
    BY <1>2, LimitsAssumption, FaultType DEF IInv, TypeOK, EndScan
  <2>5. pc' \in {"verify", "beat"}
    BY <1>2 DEF EndScan
  <2>. QED BY <1>2, <2>2, <2>3, <2>4, <2>5
           DEF MarketOpen, IInv, TypeOK, Remembered, Gated, LivesLeft, file
<1>. QED BY <1>1, <1>2 DEF MarketOpen

LEMMA VerifyFillKeeps == IInv /\ VerifyFill => IInv'
<1> SUFFICES ASSUME IInv, VerifyFill PROVE IInv'
  OBVIOUS
<1>1. CASE /\ mem' = Track(mem, {coin}, "entry") /\ Save
           /\ pc' = "ledger"
           /\ UNCHANGED <<held, todo, coin, timers, ledger, orders, streak, faults>>
  <2>1. mem' \in States /\ mem'.losses = mem.losses
    BY <1>1, TrackType DEF IInv, TypeOK
  <2>. QED BY <1>1, <2>1 DEF VerifyFill, Save, IInv, TypeOK, Remembered, Gated, LivesLeft,
                             timers, orders
<1>2. CASE GiveUp /\ UNCHANGED faults
  BY <1>2, GiveUpKeeps DEF VerifyFill, IInv, TypeOK
<1>3. CASE faults > 0 /\ faults' = faults - 1 /\ GiveUp
  BY <1>3, FaultType, GiveUpKeeps DEF VerifyFill, IInv, TypeOK
<1>. QED BY <1>1, <1>2, <1>3 DEF VerifyFill

LEMMA LogEntryKeeps == IInv /\ LogEntry => IInv'
<1> SUFFICES ASSUME IInv, LogEntry PROVE IInv'
  OBVIOUS
<1>1. /\ ledger' \in Seq(Records) /\ Len(ledger') <= LedgerTail
      /\ faults' \in 0..MaxFaults
  BY LoggedType, FaultType DEF LogEntry, IInv, TypeOK, Records
<1>. QED BY <1>1 DEF LogEntry, IInv, TypeOK, Remembered, Gated, LivesLeft, timers, orders,
                     file, Records

LEMMA PostTradeValidationKeeps == IInv /\ PostTradeValidation => IInv'
<1> SUFFICES ASSUME IInv, PostTradeValidation PROVE IInv'
  OBVIOUS
<1>1. CASE GiveUp /\ UNCHANGED faults
  BY <1>1, GiveUpKeeps DEF PostTradeValidation, IInv, TypeOK
<1>2. CASE faults > 0 /\ faults' = faults - 1 /\ GiveUp
  BY <1>2, FaultType, GiveUpKeeps DEF PostTradeValidation, IInv, TypeOK
<1>3. CASE /\ \/ held' = [held EXCEPT ![coin] = 0] /\ UNCHANGED faults
              \/ UNCHANGED held /\ faults > 0 /\ faults' = faults - 1
           /\ mem' = Halt(Untrack(mem, {coin}), "validation") /\ Save
           /\ EndScan
           /\ UNCHANGED <<todo, coin, sinceRec, ledger, orders, streak>>
  <2>1. Untrack(mem, {coin}) \in States /\ Untrack(mem, {coin}).losses = mem.losses
    BY UntrackType DEF IInv, TypeOK
  <2>2. mem' \in States /\ mem'.losses = mem.losses
    BY <1>3, <2>1, HaltType
  <2>3. held' \in [Coins -> 0..MaxLives]
    <3>1. 0 \in 0..MaxLives /\ held \in [Coins -> 0..MaxLives]
      BY LimitsAssumption DEF IInv, TypeOK
    <3>2. held' = [held EXCEPT ![coin] = 0] \/ held' = held
      BY <1>3
    <3>. QED BY <3>1, <3>2
  <2>5. faults' \in 0..MaxFaults
    BY <1>3, FaultType DEF IInv, TypeOK
  <2>4. sinceScan' \in 0..ScanEvery
    BY <1>3, LimitsAssumption DEF EndScan
  <2>. QED BY <1>3, <2>2, <2>3, <2>4, <2>5
           DEF PostTradeValidation, EndScan, Save, IInv, TypeOK, Remembered, Gated,
               LivesLeft, orders
<1>. QED BY <1>1, <1>2, <1>3 DEF PostTradeValidation

LEMMA OlderType ==
  ASSUME NEW limit \in Nat, NEW n \in 0..limit
  PROVE  Older(n, limit) \in 0..limit
BY DEF Older

LEMMA WorldKeeps ==
  ASSUME IInv, (\E c \in Coins : ClosedOutside(c)) \/ Tick
  PROVE  IInv'
<1>1. ASSUME NEW c \in Coins, ClosedOutside(c) PROVE IInv'
  <2>1. held' \in [Coins -> 0..MaxLives]
    BY <1>1, LimitsAssumption DEF ClosedOutside, IInv, TypeOK
  <2>. QED BY <1>1, <2>1 DEF ClosedOutside, IInv, TypeOK, Remembered, Gated, LivesLeft,
                             timers, orders, file
<1>2. CASE Tick
  <2>1. sinceScan' \in 0..ScanEvery /\ sinceRec' \in 0..(StaleAfter + 1)
    <3>1. ScanEvery \in Nat /\ StaleAfter + 1 \in Nat
      BY LimitsAssumption
    <3>2. sinceScan \in 0..ScanEvery /\ sinceRec \in 0..(StaleAfter + 1)
      BY DEF IInv, TypeOK
    <3>3. Older(sinceScan, ScanEvery) \in 0..ScanEvery
      BY <3>1, <3>2, OlderType
    <3>4. Older(sinceRec, StaleAfter + 1) \in 0..(StaleAfter + 1)
      BY <3>1, <3>2, OlderType
    <3>. QED BY <1>2, <3>3, <3>4 DEF Tick
  <2>2. ledger' \in Seq(Records) /\ Len(ledger') = Len(ledger)
    <3>1. ledger \in Seq(Records)
      BY DEF IInv, TypeOK, Records
    <3>2. \A i \in DOMAIN ledger :
            [ledger[i] EXCEPT !.age = Older(@, OrphanAge)] \in Records
      <4>1. ASSUME NEW i \in DOMAIN ledger
            PROVE  [ledger[i] EXCEPT !.age = Older(@, OrphanAge)] \in Records
        <5>1. ledger[i] \in Records
          BY <3>1
        <5>2. Older(ledger[i].age, OrphanAge) \in 0..OrphanAge
          BY <5>1, LimitsAssumption, OlderType DEF Records
        <5>. QED BY <5>1, <5>2 DEF Records
      <4>. QED BY <4>1
    <3>3. DOMAIN ledger = 1..Len(ledger) /\ Len(ledger) \in Nat
      BY <3>1
    <3>. QED BY <1>2, <3>2, <3>3 DEF Tick
  <2>. QED BY <1>2, <2>1, <2>2 DEF Tick, IInv, TypeOK, Remembered, Gated, LivesLeft,
                                   orders, file, Records
<1>. QED BY <1>1, <1>2

LEMMA FailuresKeep == IInv /\ (StartupFails \/ Crash) => IInv'
<1> SUFFICES ASSUME IInv, StartupFails \/ Crash PROVE IInv'
  OBVIOUS
<1>1. disk' \in States /\ diskOk' \in BOOLEAN
  BY DEF StartupFails, Crash, file, IInv, TypeOK
<1>2. faults' \in 0..MaxFaults /\ Dies
  BY FaultType DEF StartupFails, Crash, IInv, TypeOK
<1>. QED BY <1>1, <1>2, DiesKeeps

LEMMA NextKeeps == IInv /\ [Next]_vars => IInv'
<1> SUFFICES ASSUME IInv, [Next]_vars PROVE IInv'
  OBVIOUS
<1>1. CASE UNCHANGED vars
  BY <1>1 DEF vars, IInv, TypeOK, Remembered, Gated, LivesLeft
<1>2. CASE EngineStep
  BY <1>2, StartupReconciliationKeeps, AutoHealKeeps, BeginProtectKeeps,
     PassPositionKeeps, ExitPositionKeeps, BookExitKeeps, PeriodicReconciliationKeeps,
     ScanKeeps, CheckStateSyncKeeps, CheckGatesKeeps, MarketOpenKeeps, VerifyFillKeeps,
     LogEntryKeeps, PostTradeValidationKeeps, HeartbeatKeeps
     DEF EngineStep
<1>. QED BY <1>1, <1>2, BootKeeps, FailuresKeep, WorldKeeps DEF Next

-----------------------------------------------------------------------------
(* MAX_CONCURRENT.  Two failures never suffice to exceed it: the failure that *)
(* leaves a position untracked is followed by a reconciliation and by the    *)
(* state-sync check before the next order, and each has to fail as well.     *)

Own == {c \in Live : fills[c] > 0}
OwnTracked == Own \subseteq Tracked(mem)
Used == MaxFaults - faults

BookedIsClosed == pc = "book" => held[coin] = 0

\* Where the engine may not know a position of its own, and after how many
\* failures: a tick passes before the next scan, which makes the
\* reconciliation due.
UnknownWhere ==
  /\ pc \in {"gates", "order", "ledger", "prove"} => OwnTracked
  /\ pc = "order" => coin \notin Tracked(mem) /\ Cardinality(Tracked(mem)) < MaxConcurrent
  /\ pc = "verify" => Own \ {coin} \subseteq Tracked(mem)
  /\ pc = "sync" => OwnTracked \/ Used >= 2
  /\ pc = "scan" => OwnTracked \/ Used >= 2 \/ (Used >= 1 /\ sinceScan = 0)
  /\ pc \in {"beat", "heal", "protect", "exits", "book", "reconcile"} =>
       OwnTracked \/ Used >= 2 \/ (Used >= 1 /\ (sinceScan = 0 \/ sinceRec >= 1))

Room == Used < 3 => AtMostMaxConcurrent /\ BookedIsClosed /\ UnknownWhere

LEMMA TrackedAfter ==
  ASSUME NEW st \in States, NEW S
  PROVE  /\ Tracked(Untrack(st, S)) = Tracked(st) \ S
         /\ \A how \in {"entry", "found"} : Tracked(Track(st, S, how)) = Tracked(st) \cup (S \cap Coins)
         /\ \A why : Tracked(Halt(st, why)) = Tracked(st)
<1>1. \A c \in Coins : Untrack(st, S).open[c] = IF c \in S THEN "no" ELSE st.open[c]
  BY DEF Untrack, States
<1>2. \A how : \A c \in Coins : Track(st, S, how).open[c] = IF c \in S THEN how ELSE st.open[c]
  BY DEF Track, States
<1>3. \A why : Halt(st, why).open = st.open
  BY DEF Halt, States
<1>. QED BY <1>1, <1>2, <1>3 DEF Tracked

\* The faults left are counted down by those used.
LEMMA UsedIs ==
  ASSUME IInv, faults' = faults \/ (faults > 0 /\ faults' = faults - 1)
  PROVE  /\ Used \in Nat /\ Used' \in Nat /\ Used' >= Used
         /\ faults' # faults => Used' = Used + 1
BY LimitsAssumption DEF IInv, TypeOK, Used

LEMMA NothingOpens ==
  ASSUME IInv, AtMostMaxConcurrent, \A c \in Coins : held'[c] \in {held[c], 0}, fills' = fills
  PROVE  AtMostMaxConcurrent' /\ Own' \subseteq Own
<1>1. Own' \subseteq Own
  BY DEF Own, Live
<1>2. IsFiniteSet(Own)
  BY LimitsAssumption, FS_Subset DEF Own, Live
<1>3. Cardinality(Own') <= Cardinality(Own) /\ Cardinality(Own') \in Nat /\ Cardinality(Own) \in Nat
  BY <1>1, <1>2, FS_Subset, FS_CardinalityType
<1>4. Cardinality(Own) <= MaxConcurrent /\ \A c \in Own : fills[c] = 1
  BY DEF AtMostMaxConcurrent, Own
<1>5. Cardinality(Own') <= MaxConcurrent /\ \A c \in Own' : fills'[c] = 1
  BY <1>1, <1>3, <1>4, LimitsAssumption
<1>. QED BY <1>1, <1>5 DEF AtMostMaxConcurrent, Own

LEMMA RoomInit == Init => Room
<1> SUFFICES ASSUME Init PROVE Room
  OBVIOUS
<1>1. Own = {}
  BY DEF Init, Own, Live
<1>2. AtMostMaxConcurrent
  BY <1>1, FS_EmptySet, LimitsAssumption DEF AtMostMaxConcurrent, Own
<1>. QED BY <1>2 DEF Init, Room, BookedIsClosed, UnknownWhere

\* A step that leaves what is held and tracked alone, within a part of the loop.
LEMMA NothingMoves ==
  ASSUME IInv, Room, Used' >= Used, Used \in Nat, Used' \in Nat,
         held' = held, fills' = fills, Tracked(mem') = Tracked(mem)
  PROVE  Used' < 3 => AtMostMaxConcurrent' /\ (OwnTracked <=> OwnTracked') /\ Own' = Own
                      /\ BookedIsClosed /\ UnknownWhere
<1>1. Used < 3 => AtMostMaxConcurrent' /\ BookedIsClosed /\ UnknownWhere
  BY NothingOpens DEF Room
<1>2. Own' = Own
  BY DEF Own, Live
<1>. QED BY <1>1, <1>2 DEF OwnTracked, Tracked

LEMMA GiveUpRoom ==
  ASSUME IInv, Room, GiveUp, faults' = faults \/ (faults > 0 /\ faults' = faults - 1),
         Used' < 3 => OwnTracked \/ Used' >= 1
  PROVE  Room'
<1>1. held' = held /\ fills' = fills /\ mem' = mem /\ pc' = "beat" /\ sinceScan' = 0
  BY DEF GiveUp, EndScan, orders
<1>2. Used \in Nat /\ Used' \in Nat /\ Used' >= Used
  BY UsedIs
<1>3. Used' < 3 => AtMostMaxConcurrent' /\ (OwnTracked <=> OwnTracked')
  BY <1>1, <1>2, NothingMoves
<1>. QED BY <1>1, <1>2, <1>3 DEF Room, BookedIsClosed, UnknownWhere

LEMMA HaltEntryRoom ==
  ASSUME IInv, Room, HaltEntry("validation"), pc \in {"sync", "gates"}
  PROVE  Room'
<1>1. held' = held /\ fills' = fills /\ Tracked(mem') = Tracked(mem) /\ pc' = "beat"
      /\ sinceScan' = 0 /\ faults' = faults
  BY TrackedAfter DEF HaltEntry, EndScan, orders, IInv, TypeOK
<1>2. Used \in Nat /\ Used' \in Nat /\ Used' >= Used /\ Used' = Used
  BY <1>1, UsedIs DEF Used
<1>3. Used' < 3 => AtMostMaxConcurrent' /\ (OwnTracked <=> OwnTracked') /\ UnknownWhere
  BY <1>1, <1>2, NothingMoves
<1>. QED BY <1>1, <1>2, <1>3 DEF Room, BookedIsClosed, UnknownWhere

LEMMA DiesRoom ==
  ASSUME IInv, Room, Dies, faults' = faults \/ (faults > 0 /\ faults' = faults - 1)
  PROVE  Room'
<1>1. held' = held /\ fills' = fills /\ pc' = "down"
  BY DEF Dies, orders
<1>2. Used \in Nat /\ Used' \in Nat /\ Used' >= Used
  BY UsedIs
<1>3. Used' < 3 => AtMostMaxConcurrent'
  BY <1>1, <1>2, NothingOpens DEF Room
<1>. QED BY <1>1, <1>3 DEF Room, BookedIsClosed, UnknownWhere

LEMMA StartRoom == IInv /\ Room /\ (Boot \/ StartupReconciliation) => Room'
<1> SUFFICES ASSUME IInv, Room, Boot \/ StartupReconciliation PROVE Room'
  OBVIOUS
<1>1. held' = held /\ fills' = fills /\ (faults' = faults \/ (faults > 0 /\ faults' = faults - 1))
  BY DEF Boot, StartupReconciliation, orders
<1>2. Used \in Nat /\ Used' \in Nat /\ Used' >= Used
  BY <1>1, UsedIs
<1>3. Used' < 3 => AtMostMaxConcurrent'
  BY <1>1, <1>2, NothingOpens DEF Room
<1>4. CASE Boot
  BY <1>3, <1>4 DEF Boot, Room, BookedIsClosed, UnknownWhere
<1>5. CASE StartupReconciliation
  <2> DEFINE t == Track(mem, Live \ Tracked(mem), "found")
             o == [c \in Coins |-> IF c \in Live THEN t.open[c] ELSE "no"]
  <2>1. t \in States /\ Tracked(t) = Tracked(mem) \cup ((Live \ Tracked(mem)) \cap Coins)
    BY TrackType, TrackedAfter DEF IInv, TypeOK
  <2>2. mem' = [t EXCEPT !.open = o]
    BY <1>5, <2>1 DEF StartupReconciliation, States
  <2>3. \A c \in Live : mem'.open[c] = t.open[c] /\ c \in Tracked(t)
    BY <2>1, <2>2 DEF States, Live
  <2>4. Live \subseteq Tracked(mem')
    BY <2>3 DEF Tracked, Live
  <2>5. OwnTracked'
    BY <1>1, <2>4 DEF OwnTracked, Own, Live, Tracked
  <2>. QED BY <1>3, <1>5, <2>5 DEF StartupReconciliation, Room, BookedIsClosed, UnknownWhere
<1>. QED BY <1>4, <1>5

\* The steps of the loop that neither open nor close nor book a position.
LEMMA LoopRoom ==
  ASSUME IInv, Room,
         \/ AutoHeal \/ BeginProtect \/ Heartbeat \/ LogEntry
         \/ \E c \in Coins : PassPosition(c)
         \/ SkipScan \/ ScanFindsNothing \/ \E c \in Coins : ScanFinds(c)
  PROVE  Room'
<1>1. CASE AutoHeal /\ Dies
  BY <1>1, DiesRoom DEF AutoHeal
<1>2. CASE ~(AutoHeal /\ Dies)
  <2>1. /\ held' = held /\ fills' = fills
        /\ faults' = faults \/ (faults > 0 /\ faults' = faults - 1)
    BY <1>2 DEF AutoHeal, BeginProtect, Heartbeat, LogEntry, PassPosition, SkipScan, ScanFindsNothing, ScanFinds,
                orders
  <2>2. mem' = mem \/ Tracked(mem') = Tracked(mem)
    <3>1. CASE BeginProtect
      BY <3>1 DEF BeginProtect, IInv, TypeOK, States, Tracked
    <3>2. CASE \E c \in Coins : PassPosition(c)
      <4>1. Tracked(Halt(mem, "drawdown")) = Tracked(mem)
        BY TrackedAfter DEF IInv, TypeOK
      <4>2. mem' = mem \/ mem' = Halt(mem, "drawdown")
        BY <3>2 DEF PassPosition
      <4>. QED BY <4>1, <4>2
    <3>. QED BY <1>2, <3>1, <3>2 DEF AutoHeal, AfterHeal, Heartbeat, LogEntry, SkipScan, ScanFindsNothing, ScanFinds
  <2>3. Used \in Nat /\ Used' \in Nat /\ Used' >= Used /\ (faults' # faults => Used' = Used + 1)
    BY <2>1, UsedIs
  <2>4. Used' < 3 => AtMostMaxConcurrent' /\ (OwnTracked <=> OwnTracked') /\ BookedIsClosed /\ UnknownWhere
    BY <2>1, <2>2, <2>3, NothingMoves
  <2>5. CASE AutoHeal
    <3>1. pc = "heal" /\ pc' = "protect" /\ sinceScan' = sinceScan /\ sinceRec' = sinceRec
      BY <1>2, <2>5 DEF AutoHeal, timers
    <3>. QED BY <2>3, <2>4, <3>1 DEF Room, BookedIsClosed, UnknownWhere
  <2>6. CASE BeginProtect
    <3>1. pc = "protect" /\ pc' \in {"reconcile", "exits"} /\ sinceScan' = sinceScan /\ sinceRec' = sinceRec
      BY <2>6 DEF BeginProtect, timers
    <3>. QED BY <2>3, <2>4, <3>1 DEF Room, BookedIsClosed, UnknownWhere
  <2>7. CASE Heartbeat
    <3>1. pc = "beat" /\ pc' = "heal" /\ sinceScan' = sinceScan /\ sinceRec' = sinceRec
      BY <2>7 DEF Heartbeat, timers
    <3>. QED BY <2>3, <2>4, <3>1 DEF Room, BookedIsClosed, UnknownWhere
  <2>8. CASE LogEntry
    <3>1. pc = "ledger" /\ pc' = "prove"
      BY <2>8 DEF LogEntry
    <3>. QED BY <2>3, <2>4, <3>1 DEF Room, BookedIsClosed, UnknownWhere
  <2>9. CASE \E c \in Coins : PassPosition(c)
    <3>1. pc = "exits" /\ pc' \in {"reconcile", "exits"} /\ sinceScan' = sinceScan /\ sinceRec' = sinceRec
      BY <2>9 DEF PassPosition, timers
    <3>. QED BY <2>3, <2>4, <3>1 DEF Room, BookedIsClosed, UnknownWhere
  <2>10. CASE SkipScan
    <3>1. pc = "scan" /\ pc' = "beat" /\ sinceScan' = sinceScan /\ sinceRec' = sinceRec
      BY <2>10 DEF SkipScan, timers
    <3>. QED BY <2>3, <2>4, <3>1 DEF Room, BookedIsClosed, UnknownWhere
  <2>11. CASE ScanFindsNothing
    <3>1. pc = "scan" /\ pc' = "beat" /\ sinceScan' = 0
      BY <2>11 DEF ScanFindsNothing, EndScan
    <3>. QED BY <2>3, <2>4, <3>1 DEF Room, BookedIsClosed, UnknownWhere
  <2>12. CASE \E c \in Coins : ScanFinds(c)
    <3>1. pc = "scan" /\ pc' = "sync" /\ sinceScan >= ScanEvery /\ ScanEvery \in Nat \ {0}
      BY <2>12, LimitsAssumption DEF ScanFinds
    <3>2. sinceScan # 0
      BY <3>1
    <3>. QED BY <2>3, <2>4, <3>1, <3>2 DEF Room, BookedIsClosed, UnknownWhere
  <2>. QED BY <2>5, <2>6, <2>7, <2>8, <2>9, <2>10, <2>11, <2>12
<1>. QED BY <1>1, <1>2

\* The reconciliation makes every position known, unless it fails or is not due.
LEMMA PeriodicReconciliationRoom == IInv /\ Room /\ PeriodicReconciliation => Room'
<1> SUFFICES ASSUME IInv, Room, PeriodicReconciliation PROVE Room'
  OBVIOUS
<1>1. /\ held' = held /\ fills' = fills /\ pc = "reconcile" /\ pc' = "scan" /\ sinceScan' = sinceScan
      /\ faults' = faults \/ (faults > 0 /\ faults' = faults - 1)
  BY DEF PeriodicReconciliation, orders
<1>2. Used \in Nat /\ Used' \in Nat /\ Used' >= Used /\ (faults' # faults => Used' = Used + 1)
  BY <1>1, UsedIs
<1>3. Used' < 3 => AtMostMaxConcurrent' /\ UnknownWhere
  BY <1>1, <1>2, NothingOpens DEF Room
<1>4. CASE mem' = Reconcile(mem)
  <2>1. Tracked(mem') = (Tracked(mem) \ (Tracked(mem) \ Live)) \cup ((Live \ Tracked(mem)) \cap Coins)
    <3> DEFINE u == Untrack(mem, Tracked(mem) \ Live)
    <3>1. u \in States /\ Tracked(u) = Tracked(mem) \ (Tracked(mem) \ Live)
      BY UntrackType, TrackedAfter DEF IInv, TypeOK
    <3>2. Tracked(Track(u, Live \ Tracked(mem), "found")) = Tracked(u) \cup ((Live \ Tracked(mem)) \cap Coins)
      BY <3>1, TrackedAfter
    <3>. QED BY <1>4, <3>1, <3>2 DEF Reconcile
  <2>2. OwnTracked'
    BY <1>1, <2>1 DEF OwnTracked, Own, Live, Tracked
  <2>. QED BY <1>1, <1>3, <2>2 DEF Room, BookedIsClosed, UnknownWhere
<1>5. CASE mem' # Reconcile(mem)
  <2>1. mem' = mem /\ (faults' = faults => sinceRec < 1 /\ sinceRec' = sinceRec)
        /\ (faults' # faults => sinceRec >= 1)
    BY <1>5 DEF PeriodicReconciliation, IInv, TypeOK
  <2>2. sinceRec \in Nat
    BY LimitsAssumption DEF IInv, TypeOK
  <2>3. Used' < 3 => (OwnTracked <=> OwnTracked')
    BY <1>1, <1>2, <2>1, NothingMoves
  <2>. QED BY <1>1, <1>2, <1>3, <2>1, <2>2, <2>3 DEF Room, BookedIsClosed, UnknownWhere
<1>. QED BY <1>4, <1>5

\* Closes, and the bookings of closes.
LEMMA CloseRoom ==
  ASSUME IInv, Room, (\E c \in Coins : ExitPosition(c) \/ ClosedOutside(c)) \/ \E loss \in BOOLEAN : BookExit(loss)
  PROVE  Room'
<1>1. /\ \A c \in Coins : held'[c] \in {held[c], 0}
      /\ fills' = fills /\ sinceScan' = sinceScan /\ sinceRec' = sinceRec
      /\ faults' = faults \/ (faults > 0 /\ faults' = faults - 1)
  BY DEF ExitPosition, ClosedOutside, BookExit, orders, timers, IInv, TypeOK
<1>2. Used \in Nat /\ Used' \in Nat /\ Used' >= Used
  BY <1>1, UsedIs
<1>3. Used' < 3 => AtMostMaxConcurrent' /\ Own' \subseteq Own /\ BookedIsClosed /\ UnknownWhere
  BY <1>1, <1>2, NothingOpens DEF Room
<1>4. ASSUME NEW c \in Coins, ExitPosition(c) PROVE Room'
  <2>1. pc = "exits" /\ pc' = "book" /\ mem' = mem /\ coin' = c /\ held'[c] = 0
    BY <1>4 DEF ExitPosition, IInv, TypeOK
  <2>2. Used' < 3 => (OwnTracked => OwnTracked')
    BY <1>3, <2>1 DEF OwnTracked
  <2>. QED BY <1>1, <1>2, <1>3, <2>1, <2>2 DEF Room, BookedIsClosed, UnknownWhere
<1>5. ASSUME NEW c \in Coins, ClosedOutside(c) PROVE Room'
  <2>1. pc' = pc /\ mem' = mem /\ coin' = coin /\ coin \in Coins /\ faults' = faults
    BY <1>5 DEF ClosedOutside, IInv, TypeOK
  <2>2. Used' < 3 => (OwnTracked => OwnTracked') /\ (Own \ {coin} \subseteq Tracked(mem) => (Own \ {coin} \subseteq Tracked(mem))')
    BY <1>3, <2>1 DEF OwnTracked
  <2>3. Used' = Used
    BY <2>1 DEF Used
  <2>. QED BY <1>1, <1>2, <1>3, <2>1, <2>2, <2>3 DEF Room, BookedIsClosed, UnknownWhere
<1>6. ASSUME NEW loss \in BOOLEAN, BookExit(loss) PROVE Room'
  <2>1. pc = "book" /\ pc' \in {"reconcile", "exits"} /\ held' = held /\ mem' = RecordClose(mem, coin, loss)
    BY <1>6 DEF BookExit
  <2>2. Tracked(mem') = Tracked(mem) \ {coin}
    <3> DEFINE n == IF loss THEN mem.losses + 1 ELSE 0
               u == Untrack(mem, {coin})
               b == [u EXCEPT !.losses = n, !.pnl = IF loss THEN @ - 1 ELSE @ + 1]
    <3>1. u \in States /\ Tracked(u) = Tracked(mem) \ {coin}
      BY UntrackType, TrackedAfter DEF IInv, TypeOK
    <3>2. b.open = u.open /\ \A why : Halt(b, why).open = b.open
      <4> HIDE DEF u
      <4>. QED BY <3>1 DEF Halt, States
    <3>3. mem' = b \/ mem' = Halt(b, "losses")
      BY <2>1 DEF RecordClose
    <3>4. mem'.open = u.open
      <4> HIDE DEF b, u
      <4>. QED BY <3>2, <3>3
    <3>. QED BY <3>1, <3>4 DEF Tracked
  <2>3. Used' < 3 => coin \notin Own
    BY <1>3, <2>1 DEF Own, Live, BookedIsClosed
  <2>4. Used' < 3 => (OwnTracked => OwnTracked')
    BY <1>3, <2>2, <2>3 DEF OwnTracked, Tracked
  <2>. QED BY <1>1, <1>2, <1>3, <2>1, <2>4 DEF Room, BookedIsClosed, UnknownWhere
<1>. QED BY <1>4, <1>5, <1>6

LEMMA ChecksRoom == IInv /\ Room /\ (CheckStateSync \/ CheckGates) => Room'
<1> SUFFICES ASSUME IInv, Room, CheckStateSync \/ CheckGates PROVE Room'
  OBVIOUS
<1>1. CASE HaltEntry("validation")
  BY <1>1, HaltEntryRoom DEF CheckStateSync, CheckGates
<1>2. CASE GiveUp /\ CheckGates
  <2>1. pc = "gates" /\ pc' = "beat" /\ faults' = faults
    BY <1>2 DEF CheckGates, HaltEntry, MayEnter, GiveUp, EndScan
  <2>2. Used' = Used
    BY <2>1 DEF Used
  <2>. QED BY <1>2, <2>1, <2>2, GiveUpRoom DEF Room, UnknownWhere
<1>3. CASE /\ ~HaltEntry("validation") /\ ~(GiveUp /\ CheckGates)
  <2>1. /\ held' = held /\ fills' = fills /\ mem' = mem /\ coin' = coin
        /\ faults' = faults \/ (faults > 0 /\ faults' = faults - 1)
    BY <1>3 DEF CheckStateSync, CheckGates, orders
  <2>2. Used \in Nat /\ Used' \in Nat /\ Used' >= Used /\ (faults' # faults => Used' = Used + 1)
    BY <2>1, UsedIs
  <2>3. Used' < 3 => AtMostMaxConcurrent' /\ (OwnTracked <=> OwnTracked') /\ Own' = Own /\ UnknownWhere
    BY <2>1, <2>2, NothingMoves
  <2>4. CASE CheckStateSync
    <3>1. pc = "sync" /\ pc' = "gates" /\ (faults' # faults \/ Tracked(mem) = Live)
      BY <1>3, <2>4 DEF CheckStateSync, IInv, TypeOK
    <3>2. Tracked(mem) = Live => OwnTracked
      BY DEF OwnTracked, Own
    <3>. QED BY <2>2, <2>3, <3>1, <3>2 DEF Room, BookedIsClosed, UnknownWhere
  <2>5. CASE CheckGates
    <3>1. pc = "gates" /\ pc' = "order" /\ MayEnter
      BY <1>3, <2>5 DEF CheckGates
    <3>. QED BY <2>1, <2>2, <2>3, <3>1 DEF Room, BookedIsClosed, UnknownWhere, MayEnter, Tracked
  <2>. QED BY <2>4, <2>5
<1>. QED BY <1>1, <1>2, <1>3

\* The order goes out while every position of the engine is known and fewer than
\* MAX_CONCURRENT are.
LEMMA MarketOpenRoom == IInv /\ Room /\ MarketOpen => Room'
<1> SUFFICES ASSUME IInv, Room, MarketOpen PROVE Room'
  OBVIOUS
<1>1. pc = "order" /\ (faults' = faults \/ (faults > 0 /\ faults' = faults - 1)) /\ coin \in Coins
  BY DEF MarketOpen, IInv, TypeOK
<1>2. Used \in Nat /\ Used' \in Nat /\ Used' >= Used /\ (faults' # faults => Used' = Used + 1)
  BY <1>1, UsedIs
<1>3. Used < 3 => /\ AtMostMaxConcurrent /\ OwnTracked
                  /\ coin \notin Tracked(mem) /\ Cardinality(Tracked(mem)) < MaxConcurrent
  BY <1>1 DEF Room, UnknownWhere
<1>4. CASE GiveUp
  BY <1>1, <1>2, <1>3, <1>4, GiveUpRoom
<1>5. CASE ~GiveUp
  <2>1. /\ held' = [held EXCEPT ![coin] = IF @ = 0 THEN lives + 1 ELSE @]
        /\ fills' = [fills EXCEPT ![coin] = IF coin \in Live THEN @ + 1 ELSE 1]
        /\ mem' = mem /\ coin' = coin
        /\ pc' = "verify" \/ (faults' # faults /\ pc' = "beat" /\ sinceScan' = 0)
    BY <1>5 DEF MarketOpen, EndScan, IInv, TypeOK
  <2> SUFFICES ASSUME Used' < 3 PROVE Room'
    BY DEF Room
  <2>2. coin \notin Own /\ IsFiniteSet(Tracked(mem)) /\ Own \subseteq Tracked(mem)
    BY <1>2, <1>3, LimitsAssumption, FS_Subset DEF OwnTracked, Tracked
  <2>3. Own' = Own \cup {coin} /\ \A c \in Own' : fills'[c] = 1
    <3>1. \A c \in Coins : c # coin => held'[c] = held[c] /\ fills'[c] = fills[c]
      BY <2>1 DEF IInv, TypeOK
    <3>2. held'[coin] # 0
      BY <1>1, <2>1 DEF IInv, TypeOK
    <3>3. fills'[coin] = 1
      BY <1>1, <2>1, <2>2 DEF IInv, TypeOK, Own, Live
    <3>4. \A c \in Own : fills[c] = 1
      BY <1>2, <1>3 DEF AtMostMaxConcurrent, Own
    <3>. QED BY <1>1, <3>1, <3>2, <3>3, <3>4 DEF Own, Live
  <2>4. IsFiniteSet(Own) /\ Cardinality(Own) <= Cardinality(Tracked(mem))
        /\ Cardinality(Own) \in Nat /\ Cardinality(Tracked(mem)) \in Nat
    BY <2>2, FS_Subset, FS_CardinalityType
  <2>5. Cardinality(Own') = Cardinality(Own) + 1
    BY <2>2, <2>3, <2>4, FS_AddElement
  <2>6. AtMostMaxConcurrent'
    <3>1. Cardinality(Own') <= MaxConcurrent
      BY <1>2, <1>3, <2>4, <2>5, LimitsAssumption
    <3>. QED BY <2>3, <3>1 DEF AtMostMaxConcurrent, Own
  <2>7. (Own \ {coin} \subseteq Tracked(mem))'
    BY <2>1, <2>2, <2>3 DEF Tracked
  <2>. QED BY <1>2, <2>1, <2>6, <2>7 DEF Room, BookedIsClosed, UnknownWhere
<1>. QED BY <1>4, <1>5

LEMMA VerifyFillRoom == IInv /\ Room /\ VerifyFill => Room'
<1> SUFFICES ASSUME IInv, Room, VerifyFill PROVE Room'
  OBVIOUS
<1>1. pc = "verify" /\ (faults' = faults \/ (faults > 0 /\ faults' = faults - 1))
  BY DEF VerifyFill
<1>2. Used \in Nat /\ Used' \in Nat /\ Used' >= Used /\ (faults' # faults => Used' = Used + 1)
  BY <1>1, UsedIs
<1>3. Used < 3 => Own \ {coin} \subseteq Tracked(mem)
  BY <1>1 DEF Room, UnknownWhere
<1>4. CASE GiveUp
  <2>1. faults' # faults \/ coin \notin Live
    BY <1>4 DEF VerifyFill, GiveUp, EndScan, IInv, TypeOK
  <2>2. Used < 3 /\ coin \notin Live => OwnTracked
    BY <1>3 DEF OwnTracked, Own
  <2>. QED BY <1>1, <1>2, <1>4, <2>1, <2>2, GiveUpRoom
<1>5. CASE ~GiveUp
  <2>1. held' = held /\ fills' = fills /\ mem' = Track(mem, {coin}, "entry") /\ pc' = "ledger" /\ coin' = coin
    BY <1>5 DEF VerifyFill, orders
  <2>2. Tracked(mem') = Tracked(mem) \cup ({coin} \cap Coins)
    BY <2>1, TrackedAfter DEF IInv, TypeOK
  <2>3. Used' < 3 => AtMostMaxConcurrent' /\ Own' \subseteq Own
    BY <1>2, <2>1, NothingOpens DEF Room
  <2>4. Used' < 3 => OwnTracked'
    BY <1>2, <1>3, <2>2, <2>3 DEF OwnTracked, Tracked, IInv, TypeOK
  <2>. QED BY <2>1, <2>3, <2>4 DEF Room, BookedIsClosed, UnknownWhere
<1>. QED BY <1>4, <1>5

\* A rollback that fails leaves a position untracked: one failure.
LEMMA PostTradeValidationRoom == IInv /\ Room /\ PostTradeValidation => Room'
<1> SUFFICES ASSUME IInv, Room, PostTradeValidation PROVE Room'
  OBVIOUS
<1>1. pc = "prove" /\ (faults' = faults \/ (faults > 0 /\ faults' = faults - 1))
  BY DEF PostTradeValidation
<1>2. Used \in Nat /\ Used' \in Nat /\ Used' >= Used /\ (faults' # faults => Used' = Used + 1)
  BY <1>1, UsedIs
<1>3. Used < 3 => OwnTracked
  BY <1>1 DEF Room, UnknownWhere
<1>4. CASE GiveUp
  BY <1>1, <1>2, <1>3, <1>4, GiveUpRoom
<1>5. CASE ~GiveUp
  <2>1. /\ \A c \in Coins : held'[c] \in {held[c], 0}
        /\ fills' = fills /\ mem' = Halt(Untrack(mem, {coin}), "validation") /\ pc' = "beat" /\ sinceScan' = 0
        /\ faults' # faults \/ held'[coin] = 0
    BY <1>5 DEF PostTradeValidation, orders, EndScan, IInv, TypeOK
  <2>2. Tracked(mem') = Tracked(mem) \ {coin}
    <3>1. Untrack(mem, {coin}) \in States /\ Tracked(Untrack(mem, {coin})) = Tracked(mem) \ {coin}
      BY UntrackType, TrackedAfter DEF IInv, TypeOK
    <3>. QED BY <2>1, <3>1, TrackedAfter
  <2>3. Used' < 3 => AtMostMaxConcurrent' /\ Own' \subseteq Own
    BY <1>2, <2>1, NothingOpens DEF Room
  <2>4. Used' < 3 => OwnTracked' \/ Used' >= 1
    <3>1. CASE faults' # faults
      BY <1>2, <3>1
    <3>2. CASE held'[coin] = 0
      <4>1. coin \notin Own'
        BY <3>2 DEF Own, Live
      <4>. QED BY <1>2, <1>3, <2>2, <2>3, <4>1 DEF OwnTracked, Tracked
    <3>. QED BY <2>1, <3>1, <3>2
  <2>. QED BY <2>1, <2>3, <2>4 DEF Room, BookedIsClosed, UnknownWhere
<1>. QED BY <1>4, <1>5

\* A tick makes the reconciliation due.
LEMMA TickRoom == IInv /\ Room /\ Tick => Room'
<1> SUFFICES ASSUME IInv, Room, Tick PROVE Room'
  OBVIOUS
<1>1. held' = held /\ fills' = fills /\ mem' = mem /\ pc' = pc /\ pc \in {"heal", "exits", "down"} /\ faults' = faults
  BY DEF Tick, orders
<1>2. Used \in Nat /\ Used' \in Nat /\ Used' >= Used /\ Used' = Used
  BY <1>1, UsedIs DEF Used
<1>3. Used' < 3 => AtMostMaxConcurrent' /\ (OwnTracked <=> OwnTracked') /\ UnknownWhere
  BY <1>1, <1>2, NothingMoves
<1>4. sinceRec' >= 1
  BY LimitsAssumption DEF Tick, Older, IInv, TypeOK
<1>. QED BY <1>1, <1>2, <1>3, <1>4 DEF Room, BookedIsClosed, UnknownWhere

LEMMA RoomNext == IInv /\ Room /\ [Next]_vars => Room'
<1> SUFFICES ASSUME IInv, Room, [Next]_vars PROVE Room'
  OBVIOUS
<1>1. CASE UNCHANGED vars
  BY <1>1 DEF vars, Room, Used, AtMostMaxConcurrent, BookedIsClosed, UnknownWhere, OwnTracked, Own, Live, Tracked
<1>2. CASE EngineStep
  BY <1>2, StartRoom, LoopRoom, PeriodicReconciliationRoom, CloseRoom, ChecksRoom, MarketOpenRoom, VerifyFillRoom,
     PostTradeValidationRoom
     DEF EngineStep
<1>3. CASE StartupFails \/ Crash
  BY <1>3, DiesRoom DEF StartupFails, Crash
<1>. QED BY <1>1, <1>2, <1>3, StartRoom, CloseRoom, TickRoom DEF Next

-----------------------------------------------------------------------------
\* Every state of the engine is well typed: the healer's file, the memory
\* rebuilt from it and the ledger's tail included.
THEOREM EngineTypes == Spec => []TypeOK
<1>1. IInv => TypeOK
  BY DEF IInv
<1>. QED BY <1>1, InitIInv, NextKeeps, PTL DEF Spec

\* However often the healer resets the breaker in the file, and whatever calls
\* fail, no order goes out after LossLimit losses in a row booked by this
\* process (is_healthy before market_open).
THEOREM BreakerHoldsAlways == Spec => []BreakerHolds
<1>1. IInv => BreakerHolds
  BY LimitsAssumption DEF IInv, TypeOK, States, Remembered, Gated, BreakerHolds
<1>. QED BY <1>1, InitIInv, NextKeeps, PTL DEF Spec

\* For any coins and limits: until a third call has failed, no more than
\* MAX_CONCURRENT positions of the engine are open and none was entered twice,
\* whatever the order's outcome, the reconciliation and the state-sync check.
THEOREM AtMostMaxConcurrentAlways == Spec => [](MaxFaults - faults < 3 => AtMostMaxConcurrent)
<1>1. Room => (MaxFaults - faults < 3 => AtMostMaxConcurrent)
  BY DEF Room, Used
<1>. QED BY <1>1, InitIInv, NextKeeps, RoomInit, RoomNext, PTL DEF Spec
================================================================================
