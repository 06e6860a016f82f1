-------------------------- MODULE PermissionProofs ---------------------------
(***************************************************************************)
(* May the system trade?  The gates of the executor hold for any coins,    *)
(* limits, midnights, failed queries and restarts; the operator control of *)
(* the health manager for any incidents, orders and controls on file.      *)
(***************************************************************************)
EXTENDS Executor, SystemHealth, FiniteSetTheorems, WellFoundedInduction, TLAPS

(* Executor: the gates read counters that are reset only when next used.   *)

\* The counters agree with the day's loss, once they are brought up to date.
LossCounted ==
  /\ mem.today <= day
  /\ mem.today = day => mem.loss = lost
  /\ mem.today # day => lost = 0
  /\ mem.halted <=> mem.loss >= DailyLossLimit

\* The streak in memory is the streak of results, and nothing is recorded
\* between gate 8 and the order.
StreakCounted ==
  /\ mem.losses = inRow
  /\ pc \in {"size", "order"} => inRow < LossLimit

\* From gate 7 to the order there is room for one more, failed queries apart.
RoomCounted ==
  /\ Cardinality(own) <= MaxConcurrent + blind
  /\ pc \in {"balance", "size", "order"} => Cardinality(own) < MaxConcurrent + blind

IInv == TypeOK /\ LossCounted /\ StreakCounted /\ RoomCounted

-----------------------------------------------------------------------------

LEMMA OwnIsFinite ==
  ASSUME TypeOK
  PROVE  /\ IsFiniteSet(held) /\ Cardinality(held) \in Nat
         /\ IsFiniteSet(own) /\ Cardinality(own) \in Nat
         /\ Cardinality(own) <= Cardinality(held)
<1>1. IsFiniteSet(Coins) /\ held \in SUBSET Coins /\ own \in SUBSET held
  BY ExecutorAssumption DEF TypeOK
<1>2. IsFiniteSet(held)
  BY <1>1, FS_Subset
<1>3. IsFiniteSet(own) /\ Cardinality(own) <= Cardinality(held)
  BY <1>1, <1>2, FS_Subset
<1>. QED BY <1>2, <1>3, FS_CardinalityType

\* A position gone is one less or none.
LEMMA FewerOwn ==
  ASSUME TypeOK, NEW c
  PROVE  /\ Cardinality(own \ {c}) \in Nat
         /\ Cardinality(own \ {c}) <= Cardinality(own)
<1>1. IsFiniteSet(own)
  BY OwnIsFinite
<1>2. IsFiniteSet(own \ {c}) /\ Cardinality(own \ {c}) <= Cardinality(own)
  BY <1>1, FS_Subset
<1>. QED BY <1>2, FS_CardinalityType

\* The counters that are up to date: reset on a new day, else as they were.
LEMMA ResetCounts ==
  ASSUME TypeOK, LossCounted
  PROVE  LET r == ResetDaily(mem)
         IN  /\ r \in [today : 0..MaxDay, loss : Nat, halted : BOOLEAN, losses : Nat]
             /\ r.today = day /\ r.loss = lost /\ r.losses = mem.losses
             /\ r.halted <=> lost >= DailyLossLimit
<1>1. CASE mem.today = day
  BY <1>1 DEF TypeOK, LossCounted, ResetDaily
<1>2. CASE mem.today # day
  <2>1. /\ mem \in [today : 0..MaxDay, loss : Nat, halted : BOOLEAN, losses : Nat]
        /\ day \in 0..MaxDay
    BY DEF TypeOK
  <2>2. ResetDaily(mem) = [mem EXCEPT !.today = day, !.loss = 0, !.halted = FALSE]
    BY <1>2 DEF ResetDaily
  <2>3. lost = 0
    BY <1>2 DEF LossCounted
  <2>4. ~ (0 >= DailyLossLimit)
    BY ExecutorAssumption
  <2>. DEFINE r == ResetDaily(mem)
  <2>. HIDE DEF r
  <2>5. r = [mem EXCEPT !.today = day, !.loss = 0, !.halted = FALSE]
    BY <2>2 DEF r
  <2>6. r \in [today : 0..MaxDay, loss : Nat, halted : BOOLEAN, losses : Nat]
    BY <2>1, <2>5
  <2>7. r.today = day /\ r.loss = 0 /\ r.losses = mem.losses /\ r.halted = FALSE
    BY <2>1, <2>5
  <2>8. r.halted <=> lost >= DailyLossLimit
    BY <2>3, <2>4, <2>7
  <2>. QED BY <2>3, <2>6, <2>7, <2>8 DEF r
<1>. QED BY <1>1, <1>2

LEMMA BookedCounts ==
  ASSUME TypeOK, LossCounted, NEW usd \in Losses
  PROVE  LET b == Booked(mem, usd)
         IN  /\ b \in [today : 0..MaxDay, loss : Nat, halted : BOOLEAN, losses : Nat]
             /\ b.today = day /\ b.loss = lost + usd /\ b.losses = mem.losses + 1
             /\ b.halted <=> lost + usd >= DailyLossLimit
<1>. DEFINE r == ResetDaily(mem)
            b == Booked(mem, usd)
            over == r.halted \/ r.loss + usd >= DailyLossLimit
<1>1. /\ r \in [today : 0..MaxDay, loss : Nat, halted : BOOLEAN, losses : Nat]
      /\ r.today = day /\ r.loss = lost /\ r.losses = mem.losses
      /\ r.halted <=> lost >= DailyLossLimit
  BY ResetCounts
<1>2. usd \in Nat /\ lost \in Nat /\ DailyLossLimit \in Nat
  BY ExecutorAssumption DEF TypeOK
<1>3. b = [r EXCEPT !.loss = @ + usd, !.losses = @ + 1, !.halted = @ \/ r.loss + usd >= DailyLossLimit]
  BY DEF Booked
<1>4. over \in BOOLEAN
  OBVIOUS
<1>5. over <=> lost + usd >= DailyLossLimit
  BY <1>1, <1>2
<1>. HIDE DEF r, b, over
<1>6. b = [r EXCEPT !.loss = r.loss + usd, !.losses = r.losses + 1, !.halted = over]
  BY <1>3 DEF over
<1>7. r.loss + usd \in Nat /\ r.losses + 1 \in Nat
  BY <1>1, <1>2
<1>8. b = [today |-> r.today, loss |-> r.loss + usd, halted |-> over, losses |-> r.losses + 1]
  BY <1>1, <1>6
<1>9. b \in [today : 0..MaxDay, loss : Nat, halted : BOOLEAN, losses : Nat]
  BY <1>1, <1>4, <1>7, <1>8
<1>10. b.today = day /\ b.loss = lost + usd /\ b.losses = mem.losses + 1
  BY <1>1, <1>8
<1>11. b.halted <=> lost + usd >= DailyLossLimit
  BY <1>5, <1>8
<1>. QED BY <1>9, <1>10, <1>11 DEF b

-----------------------------------------------------------------------------

LEMMA InvInit == Init => IInv
<1>. SUFFICES ASSUME Init PROVE IInv
  OBVIOUS
<1>. USE ExecutorAssumption DEF Init, Fresh
<1>1. TypeOK
  BY DEF TypeOK
<1>2. LossCounted
  BY DEF LossCounted
<1>3. StreakCounted
  BY DEF StreakCounted
<1>4. RoomCounted
  BY FS_EmptySet DEF RoomCounted
<1>. QED BY <1>1, <1>2, <1>3, <1>4 DEF IInv

LEMMA InvNext == IInv /\ [Next]_vars => IInv'
<1>. SUFFICES ASSUME IInv, [Next]_vars PROVE IInv'
  OBVIOUS
<1>. USE ExecutorAssumption
<1>0. /\ TypeOK /\ LossCounted /\ StreakCounted /\ RoomCounted
  BY DEF IInv
<1>1. ASSUME NEW c \in Coins, Execute(c) PROVE IInv'
  <2>. DEFINE r == ResetDaily(mem)
  <2>1. /\ r \in [today : 0..MaxDay, loss : Nat, halted : BOOLEAN, losses : Nat]
        /\ r.today = day /\ r.loss = lost /\ r.losses = mem.losses
        /\ r.halted <=> lost >= DailyLossLimit
    BY <1>0, ResetCounts
  <2>2. mem' = r /\ pc' \in {"idle", "positions"} /\ coin' = c
    BY <1>1 DEF Execute, Reject
  <2>3. UNCHANGED <<outside, held, own, history, trades, faults>>
    BY <1>1 DEF Execute
  <2>. HIDE DEF r
  <2>4. TypeOK'
    BY <1>0, <2>1, <2>2, <2>3 DEF TypeOK, outside, history
  <2>5. LossCounted'
    BY <1>0, <2>1, <2>2, <2>3 DEF TypeOK, LossCounted, outside, history
  <2>6. StreakCounted'
    BY <1>0, <2>1, <2>2, <2>3 DEF StreakCounted, history
  <2>7. RoomCounted'
    BY <1>0, <2>2, <2>3 DEF RoomCounted, history
  <2>. QED BY <2>4, <2>5, <2>6, <2>7 DEF IInv
<1>2. CASE CheckPositions
  <2>0. /\ UNCHANGED <<outside, held, own, mem, coin, lost, inRow, trades>>
        /\ pc' \in {"idle", "balance"}
    BY <1>2 DEF CheckPositions, Reject
  <2>1. TypeOK'
    BY <1>0, <1>2, <2>0 DEF CheckPositions, TypeOK, outside
  <2>2. LossCounted'
    BY <1>0, <2>0 DEF LossCounted, outside
  <2>3. StreakCounted'
    BY <1>0, <2>0 DEF StreakCounted
  <2>4. RoomCounted'
    <3>1. Cardinality(own) \in Nat /\ Cardinality(held) \in Nat /\ blind \in Nat
          /\ Cardinality(own) <= Cardinality(held)
      BY <1>0, OwnIsFinite DEF TypeOK
    <3>2. CASE blind' = blind + 1
      BY <1>0, <2>0, <3>1, <3>2 DEF RoomCounted
    <3>3. CASE blind' = blind /\ IF Room(held) THEN pc' = "balance" ELSE Reject
      <4>1. CASE pc' = "idle"
        BY <1>0, <2>0, <3>3, <4>1 DEF RoomCounted
      <4>2. CASE pc' = "balance"
        <5>1. Cardinality(held) < MaxConcurrent
          BY <3>3, <4>2 DEF Room, Reject
        <5>. QED BY <1>0, <2>0, <3>1, <3>3, <5>1 DEF RoomCounted
      <4>. QED BY <2>0, <4>1, <4>2
    <3>. QED BY <1>2, <3>2, <3>3 DEF CheckPositions
  <2>. QED BY <2>1, <2>2, <2>3, <2>4 DEF IInv
<1>3. CASE CheckBreakerAndBalance
  <2>1. TypeOK'
    BY <1>0, <1>3 DEF CheckBreakerAndBalance, Reject, TypeOK, outside, history
  <2>2. LossCounted'
    BY <1>0, <1>3 DEF CheckBreakerAndBalance, LossCounted, outside, history
  <2>3. StreakCounted'
    BY <1>0, <1>3 DEF CheckBreakerAndBalance, Reject, BreakerClosed, StreakCounted, history
  <2>4. RoomCounted'
    BY <1>0, <1>3 DEF CheckBreakerAndBalance, Reject, RoomCounted, history
  <2>. QED BY <2>1, <2>2, <2>3, <2>4 DEF IInv
<1>4. CASE PrepareOrder
  <2>1. TypeOK'
    BY <1>0, <1>4 DEF PrepareOrder, Reject, TypeOK, outside, history
  <2>2. LossCounted'
    BY <1>0, <1>4 DEF PrepareOrder, LossCounted, outside, history
  <2>3. StreakCounted'
    BY <1>0, <1>4 DEF PrepareOrder, Reject, StreakCounted, history
  <2>4. RoomCounted'
    BY <1>0, <1>4 DEF PrepareOrder, Reject, RoomCounted, history
  <2>. QED BY <2>1, <2>2, <2>3, <2>4 DEF IInv
<1>5. CASE MarketOpen
  <2>0. /\ UNCHANGED <<outside, mem, coin, history, trades, faults>>
        /\ pc = "order" /\ pc' = "idle"
        /\ own' = own \/ own' = own \cup {coin}
    BY <1>5 DEF MarketOpen, Reject
  <2>1. TypeOK'
    BY <1>0, <1>5 DEF MarketOpen, Reject, TypeOK, outside, history
  <2>2. LossCounted'
    BY <1>0, <2>0 DEF LossCounted, outside, history
  <2>3. StreakCounted'
    BY <1>0, <2>0 DEF StreakCounted, history
  <2>4. RoomCounted'
    <3>1. IsFiniteSet(own) /\ Cardinality(own) \in Nat /\ blind \in Nat
      BY <1>0, OwnIsFinite DEF TypeOK
    <3>2. Cardinality(own \cup {coin}) = IF coin \in own THEN Cardinality(own)
                                                         ELSE Cardinality(own) + 1
      BY <3>1, FS_AddElement
    <3>. QED BY <1>0, <2>0, <3>1, <3>2 DEF RoomCounted, history
  <2>. QED BY <2>1, <2>2, <2>3, <2>4 DEF IInv
<1>6. ASSUME NEW c \in Coins, NEW usd \in Losses, RecordLoss(c, usd) PROVE IInv'
  <2>. DEFINE b == Booked(mem, usd)
  <2>1. /\ b \in [today : 0..MaxDay, loss : Nat, halted : BOOLEAN, losses : Nat]
        /\ b.today = day /\ b.loss = lost + usd /\ b.losses = mem.losses + 1
        /\ b.halted <=> lost + usd >= DailyLossLimit
    BY <1>0, BookedCounts
  <2>2. /\ pc = "idle" /\ pc' = pc /\ coin' = coin /\ mem' = b /\ blind' = blind
        /\ held' = held \ {c} /\ own' = own \ {c} /\ faults' = faults
        /\ lost' = lost + usd /\ inRow' = inRow + 1
        /\ trades > 0 /\ trades' = trades - 1 /\ UNCHANGED outside
    BY <1>6 DEF RecordLoss
  <2>. HIDE DEF b
  <2>3. usd \in Nat
    OBVIOUS
  <2>4. TypeOK'
    BY <1>0, <2>1, <2>2, <2>3 DEF TypeOK, outside
  <2>5. LossCounted'
    BY <1>0, <2>1, <2>2, <2>3 DEF TypeOK, LossCounted, outside
  <2>6. StreakCounted'
    BY <1>0, <2>1, <2>2 DEF StreakCounted
  <2>7. RoomCounted'
    BY <1>0, <2>2, FewerOwn, OwnIsFinite DEF TypeOK, RoomCounted
  <2>. QED BY <2>4, <2>5, <2>6, <2>7 DEF IInv
<1>7. ASSUME NEW c \in Coins, RecordWin(c) PROVE IInv'
  <2>1. TypeOK'
    BY <1>0, <1>7 DEF RecordWin, TypeOK, outside
  <2>2. LossCounted'
    BY <1>0, <1>7 DEF RecordWin, TypeOK, LossCounted, outside
  <2>3. StreakCounted'
    BY <1>0, <1>7 DEF RecordWin, TypeOK, StreakCounted
  <2>4. RoomCounted'
    <3>1. pc' = "idle" /\ own' = own \ {c} /\ blind' = blind
      BY <1>7 DEF RecordWin
    <3>. QED BY <1>0, <3>1, FewerOwn, OwnIsFinite DEF TypeOK, RoomCounted
  <2>. QED BY <2>1, <2>2, <2>3, <2>4 DEF IInv
<1>8. CASE SwitchHalt
  <2>1. TypeOK'
    BY <1>0, <1>8 DEF SwitchHalt, TypeOK, history
  <2>2. LossCounted' /\ StreakCounted' /\ RoomCounted'
    BY <1>0, <1>8 DEF SwitchHalt, LossCounted, StreakCounted, RoomCounted, history
  <2>. QED BY <2>1, <2>2 DEF IInv
<1>9. CASE Midnight
  <2>1. TypeOK'
    BY <1>0, <1>9 DEF Midnight, TypeOK
  <2>2. LossCounted'
    BY <1>0, <1>9 DEF Midnight, TypeOK, LossCounted
  <2>3. StreakCounted' /\ RoomCounted'
    BY <1>0, <1>9 DEF Midnight, StreakCounted, RoomCounted
  <2>. QED BY <2>1, <2>2, <2>3 DEF IInv
<1>10. ASSUME NEW c \in Coins, EngineTrades(c) PROVE IInv'
  <2>1. TypeOK'
    BY <1>0, <1>10 DEF EngineTrades, TypeOK, outside, history
  <2>2. LossCounted' /\ StreakCounted'
    BY <1>0, <1>10 DEF EngineTrades, LossCounted, StreakCounted, outside, history
  <2>3. RoomCounted'
    <3>1. pc' = pc /\ own' = own \ {c} /\ blind' = blind
      BY <1>10 DEF EngineTrades, history
    <3>. QED BY <1>0, <3>1, FewerOwn, OwnIsFinite DEF TypeOK, RoomCounted
  <2>. QED BY <2>1, <2>2, <2>3 DEF IInv
<1>11. CASE Restart
  <2>1. TypeOK'
    BY <1>0, <1>11 DEF Restart, Fresh, TypeOK, outside
  <2>2. LossCounted'
    BY <1>0, <1>11 DEF Restart, Fresh, TypeOK, LossCounted, outside
  <2>3. StreakCounted' /\ RoomCounted'
    BY <1>0, <1>11 DEF Restart, Fresh, StreakCounted, RoomCounted
  <2>. QED BY <2>1, <2>2, <2>3 DEF IInv
<1>12. CASE UNCHANGED vars
  BY <1>0, <1>12 DEF vars, outside, history, IInv, TypeOK, LossCounted,
                     StreakCounted, RoomCounted
<1>. QED
  BY <1>1, <1>2, <1>3, <1>4, <1>5, <1>6, <1>7, <1>8, <1>9, <1>10, <1>11, <1>12
  DEF Next, ExecutorStep

LEMMA InvHolds == Spec => []IInv
BY InvInit, InvNext, PTL DEF Spec

\* The executor's counters keep their types.
THEOREM ExecutorTypes == Spec => []TypeOK
<1>1. IInv => TypeOK
  BY DEF IInv
<1>. QED BY <1>1, InvHolds, PTL

\* The bridge's own positions exceed MAX_CONCURRENT by at most the number of
\* position queries that failed.
THEOREM OwnWithinLimitAlways == Spec => []OwnWithinLimit
<1>1. IInv => OwnWithinLimit
  BY DEF IInv, RoomCounted, OwnWithinLimit
<1>. QED BY <1>1, InvHolds, PTL

\* No order after CIRCUIT_BREAKER_LOSSES recorded losses in a row.
THEOREM BreakerStopsOrdersAlways == Spec => []BreakerStopsOrders
<1>1. IInv => BreakerStopsOrders
  BY DEF IInv, StreakCounted, BreakerStopsOrders
<1>. QED BY <1>1, InvHolds, PTL

\* The daily limit stops every execution of its day and none of the next.
THEOREM DailyLimitAlways == Spec => DailyLimitHolds
<1>. DEFINE Held == (\E c \in Coins : Execute(c))
                      => /\ pc' = "positions" => lost < DailyLossLimit
                         /\ mem'.halted => lost >= DailyLossLimit
<1>1. ASSUME IInv PROVE [Held]_vars
  <2>1. SUFFICES ASSUME NEW c \in Coins, Execute(c) 
        PROVE  /\ pc' = "positions" => lost < DailyLossLimit
               /\ mem'.halted => lost >= DailyLossLimit
    OBVIOUS
  <2>2. mem' = ResetDaily(mem) /\ (pc' = "positions" => ~mem'.halted)
    BY <2>1 DEF Execute, Reject
  <2>3. mem'.halted <=> lost >= DailyLossLimit
    BY <1>1, <2>2, ResetCounts DEF IInv
  <2>4. lost \in Nat /\ DailyLossLimit \in Nat
    BY <1>1, ExecutorAssumption DEF IInv, TypeOK
  <2>. QED BY <2>2, <2>3, <2>4
<1>. QED BY <1>1, InvHolds, PTL DEF DailyLimitHolds

-----------------------------------------------------------------------------
-----------------------------------------------------------------------------
(* SystemHealth: the status, its cooldowns and its audit trail.            *)

\* What the ages and counters of the health file are.
HealthTypes ==
  /\ health.overall \in Statuses /\ health.observed \in Statuses
  /\ health.stable \in Nat \cup {Never} /\ health.lock \in Nat
  /\ health = [overall |-> health.overall, observed |-> health.observed, stable |-> health.stable,
               lock |-> health.lock, history |-> health.history]
  /\ since \in [critical: 0..CriticalCooldown, incident: 0..DegradedCooldown, locked: BOOLEAN]
  /\ {loaded, audit, replayed} \subseteq OperatorControl

\* A status that never changed is the initial one.
NeverObserved ==
  health.stable = Never =>
    /\ health.overall = HEALTHY /\ health.observed = HEALTHY /\ health.lock = 0
    /\ since.critical = CriticalCooldown /\ since.incident = DegradedCooldown

\* The observed status has been stable for no longer than nothing worse was seen.
StableAgrees ==
  health.stable # Never =>
    /\ health.observed # CRITICAL => AtMost(health.stable, CriticalCooldown) <= since.critical
    /\ health.observed = HEALTHY => AtMost(health.stable, DegradedCooldown) <= since.incident

\* What was CRITICAL is held for the cooldown, or the lock took over.
CriticalHeld == health.overall # CRITICAL => since.critical >= CriticalCooldown \/ since.locked

\* Between the log of the operator's actions and the audit file the log is ahead.
AuditAhead == step = "audit" /\ ~torn => replayed = loaded

HealthIInv == HealthTypes /\ NeverObserved /\ StableAgrees /\ CriticalHeld /\ AuditAhead /\ AuditReplays

-----------------------------------------------------------------------------
LEMMA Cooldowns ==
  /\ CriticalCooldown \in Nat /\ DegradedCooldown \in Nat /\ AntiFlapLock \in Nat
  /\ StableCap \in Nat /\ StableCap >= CriticalCooldown /\ StableCap >= DegradedCooldown
BY HealthAssumption DEF HealthAssumption, StableCap

LEMMA NormalizedIsControl == \A c : Normalized(c) \in OperatorControl
BY DEF Normalized, OperatorControl, ManualModes, TradingOverrides, RecoveryOverrides

LEMMA DefaultsAreControl == OperatorDefaults \in OperatorControl
BY DEF OperatorDefaults, OperatorControl, ManualModes, TradingOverrides, RecoveryOverrides

\* Nothing that leaves health and since alone disturbs what they say together.
LEMMA HealthUntouched ==
  ASSUME HealthIInv, UNCHANGED <<health, since>>, ({loaded, audit, replayed} \subseteq OperatorControl)',
         AuditAhead', AuditReplays'
  PROVE  HealthIInv'
BY DEF HealthIInv, HealthTypes, NeverObserved, StableAgrees, CriticalHeld

LEMMA HealthInitSafe == HealthInit => HealthIInv
<1> SUFFICES ASSUME HealthInit PROVE HealthIInv OBVIOUS
<1>1. HealthTypes
  BY Cooldowns, DefaultsAreControl DEF HealthInit, HealthTypes, Statuses, HEALTHY, DEGRADED, CRITICAL, Never
<1> QED
  BY <1>1, Cooldowns DEF HealthInit, HealthIInv, NeverObserved, StableAgrees, CriticalHeld, AuditAhead, AuditReplays, HEALTHY

\* A refresh never leaves CRITICAL or becomes HEALTHY before its time.
LEMMA RefreshSafe ==
  ASSUME HealthIInv, RefreshState
  PROVE  HealthIInv' /\ (health.overall # HEALTHY /\ health'.overall = HEALTHY => since.incident >= DegradedCooldown)
<1> DEFINE observed == BaseStatus(Shown)
           stable == StableSince(health, observed)
           lock == LockUntil(health, observed)
           effective == EffectiveStatus(health, observed)
<1>1. /\ health' = [overall |-> effective, observed |-> observed, stable |-> stable, lock |-> lock,
                    history |-> AppendTransition(health.history, effective)]
      /\ since' = [critical |-> IF observed = CRITICAL THEN 0 ELSE since.critical,
                   incident |-> IF Shown # {} THEN 0 ELSE since.incident,
                   locked |-> observed # CRITICAL /\ (since.locked \/ health'.lock > 0)]
      /\ step \in {"refresh", "status"} /\ step' \in {"status", "govern"}
      /\ UNCHANGED <<loaded, audit, replayed, torn>>
  BY DEF RefreshState, ApplyRecoveryControls, operatorVars
<1>2. /\ health'.overall = effective /\ health'.observed = observed /\ health'.stable = stable /\ health'.lock = lock
      /\ since'.critical = (IF observed = CRITICAL THEN 0 ELSE since.critical)
      /\ since'.incident = (IF Shown # {} THEN 0 ELSE since.incident)
      /\ since'.locked = (observed # CRITICAL /\ (since.locked \/ lock > 0))
  BY <1>1
<1>3. HEALTHY # DEGRADED /\ HEALTHY # CRITICAL /\ DEGRADED # CRITICAL /\ Statuses = {HEALTHY, DEGRADED, CRITICAL}
  BY DEF HEALTHY, DEGRADED, CRITICAL, Statuses
<1>4. observed \in Statuses /\ (observed = HEALTHY <=> Shown = {} /\ observed # CRITICAL)
  BY <1>3 DEF BaseStatus
<1>5. stable \in Nat \cup {Never} /\ lock \in Nat
  BY Cooldowns DEF HealthIInv, HealthTypes, StableSince, LockUntil
<1>6. effective \in Statuses
  BY <1>3, <1>4 DEF EffectiveStatus
<1> HIDE DEF observed, stable, lock, effective
<1>7. HealthTypes'
  <2>1. since' \in [critical: 0..CriticalCooldown, incident: 0..DegradedCooldown, locked: BOOLEAN]
    BY <1>1, Cooldowns DEF HealthIInv, HealthTypes
  <2> QED BY <1>1, <1>2, <1>4, <1>5, <1>6, <2>1 DEF HealthIInv, HealthTypes
<1>8. observed # CRITICAL /\ lock = 0 => effective =
        (IF health.overall = CRITICAL THEN IF Cooling(stable, CriticalCooldown) THEN CRITICAL ELSE DEGRADED
         ELSE IF observed = HEALTHY /\ health.overall = DEGRADED
              THEN IF Cooling(stable, DegradedCooldown) THEN DEGRADED ELSE HEALTHY
              ELSE observed)
  BY <1>3, <1>5 DEF EffectiveStatus, observed, stable, lock, effective
<1>9. /\ observed = CRITICAL => effective = CRITICAL
      /\ observed # CRITICAL /\ lock > 0 => effective = DEGRADED
  BY <1>3 DEF EffectiveStatus, observed, stable, lock, effective
<1>10. stable = Never => health.stable = Never /\ observed = health.observed /\ lock = health.lock
  BY DEF stable, lock, StableSince, LockUntil, Never
<1>11. stable = 0 \/ (stable = health.stable /\ observed = health.observed)
  BY DEF stable, StableSince
<1>12. /\ CriticalCooldown \in Nat /\ DegradedCooldown \in Nat /\ lock \in Nat /\ Never \notin Nat
       /\ since.critical \in 0..CriticalCooldown /\ since.incident \in 0..DegradedCooldown
  BY <1>5, Cooldowns DEF HealthIInv, HealthTypes, Never
<1>13. observed # CRITICAL => AtMost(stable, CriticalCooldown) <= since.critical \/ stable = Never
  BY <1>11, <1>12 DEF HealthIInv, StableAgrees, AtMost
<1>14. observed = HEALTHY => AtMost(stable, DegradedCooldown) <= since.incident \/ stable = Never
  BY <1>11, <1>12 DEF HealthIInv, StableAgrees, AtMost
<1>15. CriticalHeld'
  <2> SUFFICES ASSUME effective # CRITICAL PROVE since'.critical >= CriticalCooldown \/ since'.locked
    BY <1>2 DEF CriticalHeld
  <2>1. observed # CRITICAL BY <1>9
  <2>2. CASE lock > 0 BY <1>2, <2>1, <2>2
  <2>3. CASE lock = 0 /\ health.overall = CRITICAL
    <3>1. ~Cooling(stable, CriticalCooldown) BY <1>8, <2>1, <2>3
    <3>2. stable # Never BY <1>3, <1>10, <2>3 DEF HealthIInv, NeverObserved
    <3>3. stable \in Nat /\ stable >= CriticalCooldown BY <1>5, <1>12, <3>1, <3>2 DEF Cooling
    <3> QED BY <1>2, <1>12, <1>13, <2>1, <3>2, <3>3 DEF AtMost
  <2>4. CASE lock = 0 /\ health.overall # CRITICAL
    BY <1>2, <2>1, <2>4 DEF HealthIInv, CriticalHeld
  <2> QED BY <1>12, <2>2, <2>3, <2>4
<1>16. NeverObserved'
  <2> SUFFICES ASSUME stable = Never PROVE NeverObserved' BY <1>2 DEF NeverObserved
  <2>1. /\ health.overall = HEALTHY /\ observed = HEALTHY /\ lock = 0
        /\ since.critical = CriticalCooldown /\ since.incident = DegradedCooldown
    BY <1>10 DEF HealthIInv, NeverObserved
  <2>2. effective = HEALTHY BY <1>3, <1>8, <2>1
  <2> QED BY <1>2, <1>3, <1>4, <2>1, <2>2 DEF NeverObserved
<1>17. StableAgrees'
  BY <1>2, <1>3, <1>4, <1>13, <1>14 DEF StableAgrees
<1>18. health.overall # HEALTHY /\ effective = HEALTHY => since.incident >= DegradedCooldown
  <2> SUFFICES ASSUME health.overall # HEALTHY, effective = HEALTHY PROVE since.incident >= DegradedCooldown
    OBVIOUS
  <2>1. observed # CRITICAL /\ lock = 0 BY <1>3, <1>9, <1>12
  <2>2. health.overall = DEGRADED /\ observed = HEALTHY /\ ~Cooling(stable, DegradedCooldown)
    BY <1>3, <1>8, <2>1 DEF HealthIInv, HealthTypes
  <2>3. stable # Never BY <1>10, <2>2, <1>3 DEF HealthIInv, NeverObserved
  <2>4. stable \in Nat /\ stable >= DegradedCooldown BY <1>5, <1>12, <2>2, <2>3 DEF Cooling
  <2> QED BY <1>12, <1>14, <2>2, <2>3, <2>4 DEF AtMost
<1>19. AuditAhead' /\ AuditReplays'
  BY <1>1 DEF HealthIInv, AuditAhead, AuditReplays
<1> QED BY <1>2, <1>7, <1>15, <1>16, <1>17, <1>18, <1>19 DEF HealthIInv

\* Time passes for the status and for what was seen alike.
LEMMA HealthTickSafe == HealthIInv /\ Tick => HealthIInv'
<1> SUFFICES ASSUME HealthIInv, Tick PROVE HealthIInv' OBVIOUS
<1>1. /\ health'.overall = health.overall /\ health'.observed = health.observed
      /\ health'.stable = Older(health.stable, StableCap)
      /\ health'.lock = (IF health.lock = 0 THEN 0 ELSE health.lock - 1)
      /\ health' = [overall |-> health'.overall, observed |-> health'.observed, stable |-> health'.stable,
                    lock |-> health'.lock, history |-> health'.history]
  BY DEF Tick, HealthIInv, HealthTypes
<1>2. /\ since'.critical = AtMost(since.critical + 1, CriticalCooldown)
      /\ since'.incident = AtMost(since.incident + 1, DegradedCooldown)
      /\ since'.locked = since.locked
      /\ since' \in [critical: 0..CriticalCooldown, incident: 0..DegradedCooldown, locked: BOOLEAN]
  <2>1. since \in [critical: 0..CriticalCooldown, incident: 0..DegradedCooldown, locked: BOOLEAN]
    BY DEF HealthIInv, HealthTypes
  <2>2. since' = [critical |-> AtMost(since.critical + 1, CriticalCooldown),
                  incident |-> AtMost(since.incident + 1, DegradedCooldown), locked |-> since.locked]
    BY <2>1 DEF Tick
  <2>3. /\ AtMost(since.critical + 1, CriticalCooldown) \in 0..CriticalCooldown
        /\ AtMost(since.incident + 1, DegradedCooldown) \in 0..DegradedCooldown
    BY <2>1, Cooldowns DEF AtMost
  <2> QED BY <2>1, <2>2, <2>3
<1>3. /\ since.critical \in 0..CriticalCooldown /\ since.incident \in 0..DegradedCooldown
      /\ health.lock \in Nat /\ health.stable \in Nat \cup {Never} /\ Never = -1
  BY DEF HealthIInv, HealthTypes, Never
<1>4. HealthTypes'
  <2>1. health'.stable \in Nat \cup {Never} BY <1>1, <1>3, Cooldowns DEF Older, AtMost
  <2>2. health'.lock \in Nat BY <1>1, <1>3
  <2>3. UNCHANGED <<loaded, audit, replayed>> BY DEF Tick
  <2> QED BY <1>1, <1>2, <2>1, <2>2, <2>3 DEF HealthIInv, HealthTypes
<1>5. health'.stable = Never <=> health.stable = Never
  BY <1>1, <1>3, Cooldowns DEF Older, AtMost
<1>6. NeverObserved'
  BY <1>1, <1>2, <1>3, <1>5, Cooldowns DEF HealthIInv, NeverObserved, AtMost
<1>7. StableAgrees'
  BY <1>1, <1>2, <1>3, <1>5, Cooldowns DEF HealthIInv, StableAgrees, Older, AtMost
<1>8. CriticalHeld'
  BY <1>1, <1>2, <1>3, Cooldowns DEF HealthIInv, CriticalHeld, AtMost
<1>9. AuditAhead' /\ AuditReplays'
  BY DEF Tick, HealthIInv, AuditAhead, AuditReplays
<1> QED BY <1>4, <1>6, <1>7, <1>8, <1>9 DEF HealthIInv

\* The log of the operator's actions is brought up to the control first, the
\* audit file afterwards.
LEMMA LoadSafe == HealthIInv /\ LoadOperatorControl => HealthIInv'
<1> SUFFICES ASSUME HealthIInv, LoadOperatorControl PROVE HealthIInv' OBVIOUS
<1>1. /\ loaded' = Normalized(control) /\ audit' = audit /\ step' = "audit" /\ step = "govern" /\ torn' = torn
      /\ replayed' = IF Normalized(control) = audit THEN replayed
                     ELSE [f \in DOMAIN audit |-> IF loaded'[f] # audit[f] THEN loaded'[f] ELSE replayed[f]]
      /\ UNCHANGED <<health, since>>
  BY DEF LoadOperatorControl
<1>2. loaded' \in OperatorControl /\ audit \in OperatorControl /\ replayed \in OperatorControl
  BY <1>1, NormalizedIsControl DEF HealthIInv, HealthTypes
<1>3. /\ DOMAIN audit = {"manual_mode", "trading_override", "recovery_override"}
      /\ DOMAIN loaded' = DOMAIN audit
  BY <1>2 DEF OperatorControl
<1>4. replayed' \in OperatorControl
  BY <1>1, <1>2, <1>3 DEF OperatorControl
<1>5. replayed = audit => replayed' = loaded'
  <2> SUFFICES ASSUME replayed = audit, loaded' # audit
               PROVE  [f \in DOMAIN audit |-> IF loaded'[f] # audit[f] THEN loaded'[f] ELSE replayed[f]] = loaded'
    BY <1>1
  <2>1. loaded' = [f \in DOMAIN audit |-> loaded'[f]] BY <1>2, <1>3 DEF OperatorControl
  <2> QED BY <2>1
<1>6. AuditAhead' /\ AuditReplays'
  BY <1>1, <1>5 DEF HealthIInv, AuditAhead, AuditReplays
<1> QED BY <1>1, <1>2, <1>4, <1>6, HealthUntouched DEF HealthIInv, HealthTypes

\* An operation begins, answers or is killed, the operator edits: the statuses
\* stay; a kill between log and audit file that leaves them apart is remembered.
LEMMA OtherStepsSafe ==
  ASSUME HealthIInv,
         \/ \E k \in Kinds, s \in Severities : RecordIncident(k, s)
         \/ \E k \in Kinds : ResolveIncident(k)
         \/ AskTradingResponse \/ Reply \/ Crash
         \/ \E c \in Controls : Edit(c)
         \/ UNCHANGED healthVars
  PROVE  HealthIInv'
<1>1. UNCHANGED <<health, since, loaded, replayed>>
  BY DEF RecordIncident, ResolveIncident, AskTradingResponse, Reply, Crash, Edit, healthVars, operatorVars
<1>2. audit' \in {audit, loaded}
  BY DEF RecordIncident, ResolveIncident, AskTradingResponse, Reply, Crash, Edit, healthVars, operatorVars
<1>3. ({loaded, audit, replayed} \subseteq OperatorControl)'
  BY <1>1, <1>2 DEF HealthIInv, HealthTypes
<1>4. AuditAhead' /\ AuditReplays'
  <2> USE DEF HealthIInv, AuditAhead, AuditReplays
  <2>1. CASE Reply BY <2>1 DEF Reply
  <2>2. CASE Crash
    <3>1. /\ UNCHANGED <<loaded, audit, replayed>> /\ step' = "idle" /\ step # "idle"
          /\ ~torn' => ~torn /\ ~(step = "audit" /\ audit # loaded)
      BY <2>2 DEF Crash
    <3> QED BY <3>1
  <2>3. CASE UNCHANGED <<audit, torn>> /\ (step' = step \/ (step = "idle" /\ step' # "audit"))
    BY <1>1, <2>3
  <2>4. \/ Reply \/ Crash
        \/ UNCHANGED <<audit, torn>> /\ (step' = step \/ (step = "idle" /\ step' # "audit"))
    BY DEF RecordIncident, ResolveIncident, AskTradingResponse, Edit, healthVars, operatorVars
  <2> QED BY <2>1, <2>2, <2>3, <2>4
<1> QED BY <1>1, <1>3, <1>4, HealthUntouched

LEMMA HealthStepSafe == HealthIInv /\ [HealthNext]_healthVars => HealthIInv'
BY RefreshSafe, HealthTickSafe, LoadSafe, OtherStepsSafe DEF HealthNext, Serve

LEMMA HealthInductive == HealthSpec => []HealthIInv
BY HealthInitSafe, HealthStepSafe, PTL DEF HealthSpec

\* The audit trail adds up after any edits and kills that did not cut an audit
\* itself: what the action log says is what the audit file says.
THEOREM AuditReplaysAlways == HealthSpec => []AuditReplays
<1>1. HealthIInv => AuditReplays BY DEF HealthIInv
<1> QED BY <1>1, HealthInductive, PTL

\* A status held CRITICAL halts new trades, whatever the operator allows.
LEMMA CriticalHalts ==
  ASSUME NEW overall, NEW c, HeldStatus(overall, c) = CRITICAL
  PROVE  ActionFor(overall, c) = "HALT_NEW_TRADES"
<1>1. CRITICAL # HEALTHY BY DEF CRITICAL, HEALTHY
<1> QED BY <1>1, Zenon DEF ActionFor

\* For any cooldowns, windows and numbers of incidents: trading resumes after a
\* CRITICAL only when its cooldown is over or the anti-flapping lock took over.
THEOREM CriticalCoolsDownAlways == HealthSpec => CriticalCoolsDown
<1>1. HealthIInv /\ Reply /\ response'.allow => since.critical >= CriticalCooldown \/ since.locked
  <2> SUFFICES ASSUME HealthIInv, Reply, response'.allow PROVE since.critical >= CriticalCooldown \/ since.locked
    OBVIOUS
  <2>1. ActionFor(health.overall, loaded) # "HALT_NEW_TRADES"
    BY DEF Reply, TradingResponse
  <2>2. health.overall # CRITICAL
    <3> SUFFICES ASSUME health.overall = CRITICAL PROVE FALSE OBVIOUS
    <3>1. HeldStatus(health.overall, loaded) = CRITICAL
      BY DEF HeldStatus, CRITICAL, HEALTHY
    <3> QED BY <2>1, <3>1, CriticalHalts
  <2> QED BY <2>2 DEF HealthIInv, CriticalHeld
<1>2. HealthIInv /\ [HealthNext]_healthVars =>
        [Reply /\ response'.allow => since.critical >= CriticalCooldown \/ since.locked]_healthVars
  BY <1>1
<1> QED BY <1>2, HealthInductive, PTL DEF HealthSpec, CriticalCoolsDown

\* For any cooldowns and locks the system is HEALTHY again only when no refresh
\* saw an incident for the whole cooldown.
THEOREM HealthyIsEarnedAlways == HealthSpec => HealthyIsEarned
<1>1. HealthIInv /\ [HealthNext]_healthVars =>
        (health.overall # HEALTHY /\ health'.overall = HEALTHY => since.incident >= DegradedCooldown)
  <2> SUFFICES ASSUME HealthIInv, [HealthNext]_healthVars, health.overall # HEALTHY, health'.overall = HEALTHY
               PROVE  since.incident >= DegradedCooldown
    OBVIOUS
  <2>1. CASE RefreshState BY <2>1, RefreshSafe
  <2>2. CASE ~RefreshState
    <3>1. health'.overall = health.overall
      BY <2>2 DEF HealthNext, Serve, RecordIncident, ResolveIncident, AskTradingResponse, LoadOperatorControl, Reply,
                  Edit, Crash, Tick, healthVars, HealthIInv, HealthTypes
    <3> QED BY <3>1
  <2> QED BY <2>1, <2>2
<1>2. HealthIInv /\ [HealthNext]_healthVars =>
        [health.overall # HEALTHY /\ health'.overall = HEALTHY => since.incident >= DegradedCooldown]_healthVars
  BY <1>1
<1> QED BY <1>2, HealthInductive, PTL DEF HealthSpec, HealthyIsEarned

-----------------------------------------------------------------------------
(* The history of the statuses: the entries inside the anti-flapping window, *)
(* by induction over the numbers, with a set for what is shown.              *)

\* A set of numbers has a least one.
LEMMA NatHasMin ==
  ASSUME NEW S \in SUBSET Nat, S # {}
  PROVE  \E m \in S : \A x \in S : m <= x
<1> DEFINE R == {ss \in Nat \X Nat : ss[1] < ss[2]}
<1>1. IsWellFoundedOn(OpToRel(<, Nat), Nat) BY NatLessThanWellFounded
<1>2. IsWellFoundedOn(R, Nat) BY <1>1 DEF OpToRel
<1>3. PICK m \in S : \A y \in S : ~(<<y, m>> \in R) BY <1>2, WFMin
<1>4. \A y \in S : ~(y < m) BY <1>3
<1> QED BY <1>4

\* What holds of 0 and of the successor of each number it holds of.
LEMMA NatSteps ==
  ASSUME NEW G, 0 \in G, \A n \in Nat : n \in G => n + 1 \in G
  PROVE  Nat \subseteq G
<1> SUFFICES ASSUME Nat \ G # {} PROVE FALSE OBVIOUS
<1>1. PICK m \in Nat \ G : \A x \in Nat \ G : m <= x BY NatHasMin, Zenon
<1>2. m # 0 /\ m - 1 \in Nat BY <1>1
<1>3. m - 1 \in G BY <1>1, <1>2
<1> QED BY <1>1, <1>2, <1>3

\* An entry of the history, of any age and inside the window.
Entry == [status: Statuses, age: Nat]
RecentEntry == [status: Statuses, age: 0..AntiFlapWindow]

\* g[i] is what the window keeps of the first i entries of h, for i up to n.
Keeps(g, h, n) ==
  g = [i \in 0..n |-> CASE i = 0 -> <<>>
                         [] i > 0 /\ h[i].age <= AntiFlapWindow -> Append(g[i - 1], h[i])
                         [] OTHER -> g[i - 1]]

LEMMA InWindowIs ==
  ASSUME NEW h
  PROVE  InWindow(h) = (CHOOSE g : Keeps(g, h, Len(h)))[Len(h)]
BY DEF InWindow, Keeps

LEMMA KeepsExists ==
  ASSUME NEW h, NEW n \in Nat
  PROVE  \E g : Keeps(g, h, n)
<1> DEFINE N == {m \in Nat : \E g : Keeps(g, h, m)}
<1>1. 0 \in N
  <2>1. Keeps([i \in 0..0 |-> <<>>], h, 0) BY DEF Keeps
  <2> QED BY <2>1
<1>2. ASSUME NEW m \in Nat, m \in N PROVE m + 1 \in N
  <2>1. PICK g : Keeps(g, h, m) BY <1>2
  <2> DEFINE last == IF h[m + 1].age <= AntiFlapWindow THEN Append(g[m], h[m + 1]) ELSE g[m]
             k == [i \in 0..m + 1 |-> IF i = m + 1 THEN last ELSE g[i]]
  <2>2. \A i \in 0..m : k[i] = g[i] OBVIOUS
  <2>3. k[m + 1] = last OBVIOUS
  <2>4. \A i \in 0..m + 1 :
          k[i] = CASE i = 0 -> <<>>
                   [] i > 0 /\ h[i].age <= AntiFlapWindow -> Append(k[i - 1], h[i])
                   [] OTHER -> k[i - 1]
    <3> TAKE i \in 0..m + 1
    <3>1. CASE i = m + 1
      <4>1. i > 0 /\ i # 0 /\ i - 1 = m /\ k[i - 1] = g[m] BY <2>2, <3>1
      <4> HIDE DEF k
      <4> QED BY <2>3, <3>1, <4>1
    <3>2. CASE i \in 0..m
      <4>1. k[i] = g[i] /\ (i # 0 => k[i - 1] = g[i - 1]) BY <2>2, <3>2
      <4>2. g[i] = CASE i = 0 -> <<>>
                     [] i > 0 /\ h[i].age <= AntiFlapWindow -> Append(g[i - 1], h[i])
                     [] OTHER -> g[i - 1]
        BY <2>1, <3>2 DEF Keeps
      <4> HIDE DEF k
      <4> QED BY <4>1, <4>2
    <3> QED BY <3>1, <3>2
  <2>5. Keeps(k, h, m + 1) BY <2>4 DEF Keeps
  <2> QED BY <2>5
<1> HIDE DEF N
<1>3. n \in N BY <1>1, <1>2, NatSteps
<1> QED BY <1>3 DEF N

\* Of a history only entries inside the window remain, no more than there were.
LEMMA InWindowIsRecent ==
  ASSUME NEW h \in Seq(Entry)
  PROVE  InWindow(h) \in Seq(RecentEntry) /\ Len(InWindow(h)) <= Len(h)
<1>1. Len(h) \in Nat OBVIOUS
<1>2. PICK g : Keeps(g, h, Len(h)) /\ InWindow(h) = g[Len(h)]
  BY <1>1, KeepsExists, InWindowIs
<1> DEFINE N == {m \in Nat : m <= Len(h) => g[m] \in Seq(RecentEntry) /\ Len(g[m]) <= m}
<1>3. 0 \in N
  <2>1. g[0] = <<>> BY <1>1, <1>2 DEF Keeps
  <2>2. <<>> \in Seq(RecentEntry) /\ Len(<<>>) = 0 OBVIOUS
  <2>3. g[0] \in Seq(RecentEntry) /\ Len(g[0]) <= 0 BY <2>1, <2>2
  <2> QED BY <2>3
<1>4. ASSUME NEW m \in Nat, m \in N PROVE m + 1 \in N
  <2> SUFFICES ASSUME m + 1 <= Len(h) PROVE g[m + 1] \in Seq(RecentEntry) /\ Len(g[m + 1]) <= m + 1
    OBVIOUS
  <2>1. g[m] \in Seq(RecentEntry) /\ Len(g[m]) <= m BY <1>1, <1>4
  <2>2. h[m + 1] \in Entry BY <1>1
  <2>3. g[m + 1] = IF h[m + 1].age <= AntiFlapWindow THEN Append(g[m], h[m + 1]) ELSE g[m]
    <3> DEFINE i == m + 1
               value(j) == CASE j = 0 -> <<>>
                             [] j > 0 /\ h[j].age <= AntiFlapWindow -> Append(g[j - 1], h[j])
                             [] OTHER -> g[j - 1]
    <3>1. g = [j \in 0..Len(h) |-> value(j)] BY <1>2 DEF Keeps
    <3>2. i \in 0..Len(h) /\ i # 0 /\ i > 0 /\ i - 1 = m BY <1>1
    <3> HIDE DEF i
    <3>3. g[i] = value(i)
      <4> HIDE DEF value
      <4> QED BY <3>1, <3>2, Zenon
    <3>4. value(i) = IF h[i].age <= AntiFlapWindow THEN Append(g[m], h[i]) ELSE g[m]
      BY <3>2
    <3> QED BY <3>3, <3>4 DEF i
  <2>4. h[m + 1].age <= AntiFlapWindow => h[m + 1] \in RecentEntry
    BY <2>2, HealthAssumption DEF Entry, RecentEntry, HealthAssumption
  <2> QED BY <2>1, <2>3, <2>4
<1> HIDE DEF N
<1>5. Len(h) \in N BY <1>1, <1>3, <1>4, NatSteps
<1> QED BY <1>1, <1>2, <1>5 DEF N

\* The health file keeps at most HistoryMax entries.
LEMMA AppendTransitionIsRecent ==
  ASSUME NEW h \in Seq(Entry), NEW status \in Statuses
  PROVE  AppendTransition(h, status) \in Seq(RecentEntry) /\ Len(AppendTransition(h, status)) <= HistoryMax
<1> DEFINE kept == InWindow(h)
           new == IF Len(kept) > 0 /\ kept[Len(kept)].status = status
                  THEN kept ELSE Append(kept, [status |-> status, age |-> 0])
           from == IF Len(new) > HistoryMax THEN Len(new) - HistoryMax + 1 ELSE 1
<1>1. AppendTransition(h, status) = SubSeq(new, from, Len(new)) BY DEF AppendTransition
<1>2. HistoryMax \in Nat \ {0} /\ AntiFlapWindow \in Nat BY HealthAssumption DEF HealthAssumption
<1>3. kept \in Seq(RecentEntry) BY InWindowIsRecent
<1>4. [status |-> status, age |-> 0] \in RecentEntry BY <1>2 DEF RecentEntry
<1> HIDE DEF kept
<1>5. new \in Seq(RecentEntry) BY <1>3, <1>4
<1> HIDE DEF new
<1>6. Len(new) \in Nat /\ from \in 1..Len(new) + 1 /\ Len(new) - from + 1 <= HistoryMax BY <1>2, <1>5
<1> HIDE DEF from
<1>7. SubSeq(new, from, Len(new)) \in Seq(RecentEntry) /\ Len(SubSeq(new, from, Len(new))) = Len(new) - from + 1
  BY <1>5, <1>6
<1> QED BY <1>1, <1>6, <1>7

\* The parts of the type invariant that different steps may disturb.
Incident == [kind: Kinds, severity: Severities, active: BOOLEAN, age: 0..EscalationWindow + 1]
IncidentsTyped == incidents \in Seq(Incident)
StatusTyped ==
  /\ health \in [overall: Statuses, observed: Statuses, stable: {Never} \cup 0..StableCap,
                 lock: 0..AntiFlapLock, history: Seq(RecentEntry)]
  /\ Len(health.history) <= HistoryMax
Responses ==
  [allow: BOOLEAN, action: {"none", "NORMAL_OPERATION", "ALLOW_WITH_WARNINGS", "HALT_NEW_TRADES"},
   level: {"INFO", "WARNING", "CRITICAL"}]

LEMMA HealthTypeOKParts ==
  HealthTypeOK <=> /\ IncidentsTyped /\ StatusTyped /\ {loaded, audit, replayed} \subseteq OperatorControl
                   /\ step \in {"idle", "refresh", "status", "govern", "audit"} /\ response \in Responses
BY DEF HealthTypeOK, IncidentsTyped, Incident, StatusTyped, Responses, RecentEntry

LEMMA ResponsesTyped == Unanswered \in Responses /\ TradingResponse \in Responses
<1>1. Unanswered \in Responses BY DEF Unanswered, Responses
<1>2. \A overall, c : ActionFor(overall, c) \in {"NORMAL_OPERATION", "ALLOW_WITH_WARNINGS", "HALT_NEW_TRADES"}
  BY DEF ActionFor
<1>3. \A action, status : AlertLevel(action, status) \in {"INFO", "WARNING", "CRITICAL"}
  BY DEF AlertLevel
<1>4. TradingResponse \in Responses BY <1>2, <1>3 DEF TradingResponse, Responses
<1> QED BY <1>1, <1>4

\* A change of every element keeps the length.
LEMMA MappedSeq ==
  ASSUME NEW T, NEW U, NEW h \in Seq(T), NEW f, f = [i \in DOMAIN h |-> f[i]], \A i \in DOMAIN h : f[i] \in U
  PROVE  f \in Seq(U) /\ Len(f) = Len(h)
<1>1. Len(h) \in Nat /\ DOMAIN h = 1..Len(h) OBVIOUS
<1>2. f \in [1..Len(h) -> U] BY <1>1
<1> QED BY <1>1, <1>2

LEMMA HistoryIsEntries == Seq(RecentEntry) \subseteq Seq(Entry)
<1>1. RecentEntry \subseteq Entry BY HealthAssumption DEF HealthAssumption, RecentEntry, Entry
<1> QED BY <1>1

\* A refresh keeps the ages, the lock and the length of the history bounded.
LEMMA RefreshTyped == StatusTyped /\ RefreshState => StatusTyped'
<1> SUFFICES ASSUME StatusTyped, RefreshState PROVE StatusTyped' OBVIOUS
<1> DEFINE observed == BaseStatus(Shown)
           effective == EffectiveStatus(health, observed)
<1>1. health' = [overall |-> effective, observed |-> observed, stable |-> StableSince(health, observed),
                 lock |-> LockUntil(health, observed), history |-> AppendTransition(health.history, effective)]
  BY DEF RefreshState, ApplyRecoveryControls
<1>2. observed \in Statuses BY DEF BaseStatus, Statuses
<1>3. effective \in Statuses BY <1>2 DEF EffectiveStatus, Statuses
<1> HIDE DEF observed, effective
<1>4. StableSince(health, observed) \in {Never} \cup 0..StableCap
  BY Cooldowns DEF StableSince, StatusTyped
<1>5. LockUntil(health, observed) \in 0..AntiFlapLock
  BY Cooldowns DEF LockUntil, StatusTyped
<1>6. /\ AppendTransition(health.history, effective) \in Seq(RecentEntry)
      /\ Len(AppendTransition(health.history, effective)) <= HistoryMax
  BY <1>3, AppendTransitionIsRecent, HistoryIsEntries DEF StatusTyped
<1> QED BY <1>1, <1>2, <1>3, <1>4, <1>5, <1>6 DEF StatusTyped

\* Time adds to the ages and drops what leaves the window.
LEMMA TickTyped == StatusTyped /\ IncidentsTyped /\ Tick => StatusTyped' /\ IncidentsTyped'
<1> SUFFICES ASSUME StatusTyped, IncidentsTyped, Tick PROVE StatusTyped' /\ IncidentsTyped' OBVIOUS
<1> DEFINE aged == [i \in DOMAIN health.history |-> [health.history[i] EXCEPT !.age = @ + 1]]
<1>1. health' = [health EXCEPT !.stable = Older(@, StableCap), !.lock = IF @ = 0 THEN 0 ELSE @ - 1,
                               !.history = InWindow(aged)]
  BY DEF Tick
<1>2. health.history \in Seq(RecentEntry) /\ Len(health.history) <= HistoryMax BY DEF StatusTyped
<1>3. \A i \in DOMAIN health.history : health.history[i] \in RecentEntry BY <1>2
<1>4. \A e \in RecentEntry : [e EXCEPT !.age = @ + 1] \in Entry BY HealthAssumption DEF HealthAssumption, RecentEntry, Entry
<1>5. aged \in Seq(Entry) /\ Len(aged) = Len(health.history)
  <2>1. \A i \in DOMAIN health.history : aged[i] = [health.history[i] EXCEPT !.age = @ + 1] OBVIOUS
  <2>2. \A i \in DOMAIN health.history : aged[i] \in Entry BY <1>3, <1>4, <2>1
  <2>3. aged = [i \in DOMAIN health.history |-> aged[i]] OBVIOUS
  <2> DEFINE h == health.history
  <2>4. h \in Seq(RecentEntry) /\ aged = [i \in DOMAIN h |-> aged[i]] /\ \A i \in DOMAIN h : aged[i] \in Entry
    BY <1>2, <2>2, <2>3
  <2> HIDE DEF aged, h
  <2>5. aged \in Seq(Entry) /\ Len(aged) = Len(h) BY <2>4, MappedSeq
  <2> QED BY <2>5 DEF h
<1>6. HistoryMax \in Nat BY HealthAssumption DEF HealthAssumption
<1>7. InWindow(aged) \in Seq(RecentEntry) /\ Len(InWindow(aged)) <= HistoryMax
  <2> HIDE DEF aged
  <2>1. InWindow(aged) \in Seq(RecentEntry) /\ Len(InWindow(aged)) <= Len(aged) BY <1>5, InWindowIsRecent
  <2> QED BY <1>2, <1>5, <1>6, <2>1
<1>8. Older(health.stable, StableCap) \in {Never} \cup 0..StableCap
  BY Cooldowns DEF StatusTyped, Older, AtMost, Never
<1>9. (IF health.lock = 0 THEN 0 ELSE health.lock - 1) \in 0..AntiFlapLock
  BY Cooldowns DEF StatusTyped
<1> HIDE DEF aged
<1>10. StatusTyped' BY <1>1, <1>7, <1>8, <1>9 DEF StatusTyped
<1>11. IncidentsTyped'
  <2>1. incidents' = [i \in DOMAIN incidents |-> [incidents[i] EXCEPT !.age = AtMost(@ + 1, EscalationWindow + 1)]]
    BY DEF Tick
  <2>2. \A a \in 0..EscalationWindow + 1 : AtMost(a + 1, EscalationWindow + 1) \in 0..EscalationWindow + 1
    BY HealthAssumption DEF HealthAssumption, AtMost
  <2>3. \A i \in DOMAIN incidents : incidents[i] \in Incident BY DEF IncidentsTyped
  <2>4. \A e \in Incident : [e EXCEPT !.age = AtMost(@ + 1, EscalationWindow + 1)] \in Incident
    BY <2>2 DEF Incident
  <2>5. /\ incidents' = [i \in DOMAIN incidents |-> incidents'[i]]
        /\ \A i \in DOMAIN incidents : incidents'[i] \in Incident
    BY <2>1, <2>3, <2>4
  <2> QED BY <2>5, MappedSeq DEF IncidentsTyped
<1> QED BY <1>10, <1>11

LEMMA IncidentsKeptTyped ==
  ASSUME IncidentsTyped,
         \/ \E k \in Kinds, s \in Severities : RecordIncident(k, s)
         \/ \E k \in Kinds : ResolveIncident(k)
  PROVE  IncidentsTyped'
<1>1. CASE \E k \in Kinds, s \in Severities : RecordIncident(k, s)
  <2>1. PICK k \in Kinds, s \in Severities :
          incidents' = Append(incidents, [kind |-> k, severity |-> Escalated(s, k), active |-> TRUE, age |-> 0])
    BY <1>1 DEF RecordIncident
  <2>2. Escalated(s, k) \in Severities BY DEF Escalated, Severities
  <2>3. 0 \in 0..EscalationWindow + 1 BY HealthAssumption DEF HealthAssumption
  <2> QED BY <2>1, <2>2, <2>3 DEF IncidentsTyped, Incident
<1>2. CASE \E k \in Kinds : ResolveIncident(k)
  <2>1. PICK k \in Kinds : incidents' = [i \in DOMAIN incidents |->
                                          [incidents[i] EXCEPT !.active = @ /\ incidents[i].kind # k]]
    BY <1>2 DEF ResolveIncident
  <2>2. \A i \in DOMAIN incidents : incidents[i] \in Incident BY DEF IncidentsTyped
  <2>3. \A e \in Incident : [e EXCEPT !.active = @ /\ e.kind # k] \in Incident BY DEF Incident
  <2>4. /\ incidents' = [i \in DOMAIN incidents |-> incidents'[i]]
        /\ \A i \in DOMAIN incidents : incidents'[i] \in Incident
    BY <2>1, <2>2, <2>3
  <2> QED BY <2>4, MappedSeq DEF IncidentsTyped
<1> QED BY <1>1, <1>2

LEMMA HealthTypeKept == HealthIInv /\ HealthTypeOK /\ [HealthNext]_healthVars => HealthTypeOK'
<1> SUFFICES ASSUME HealthIInv, HealthTypeOK, [HealthNext]_healthVars PROVE HealthTypeOK' OBVIOUS
<1>1. /\ IncidentsTyped /\ StatusTyped
      /\ step \in {"idle", "refresh", "status", "govern", "audit"} /\ response \in Responses
  BY HealthTypeOKParts
<1>2. ({loaded, audit, replayed} \subseteq OperatorControl)'
  BY HealthStepSafe DEF HealthIInv, HealthTypes
<1>3. /\ step' \in {"idle", "refresh", "status", "govern", "audit"}
      /\ response' \in {response, Unanswered, TradingResponse}
  BY <1>1 DEF HealthNext, Serve, RecordIncident, ResolveIncident, AskTradingResponse, RefreshState,
              LoadOperatorControl, Reply, Edit, Crash, Tick, healthVars
<1>4. response' \in Responses BY <1>1, <1>3, ResponsesTyped
<1>5. StatusTyped'
  <2>1. CASE RefreshState BY <1>1, <2>1, RefreshTyped
  <2>2. CASE Tick BY <1>1, <2>2, TickTyped
  <2>3. CASE UNCHANGED health BY <1>1, <2>3 DEF StatusTyped
  <2> QED
    BY <2>1, <2>2, <2>3 DEF HealthNext, Serve, RecordIncident, ResolveIncident, AskTradingResponse,
                            LoadOperatorControl, Reply, Edit, Crash, healthVars
<1>6. IncidentsTyped'
  <2>1. CASE Tick BY <1>1, <2>1, TickTyped
  <2>2. CASE \/ \E k \in Kinds, s \in Severities : RecordIncident(k, s)
             \/ \E k \in Kinds : ResolveIncident(k)
    BY <1>1, <2>2, IncidentsKeptTyped
  <2>3. CASE UNCHANGED incidents BY <1>1, <2>3 DEF IncidentsTyped
  <2> QED
    BY <2>1, <2>2, <2>3 DEF HealthNext, Serve, AskTradingResponse, RefreshState, LoadOperatorControl, Reply, Edit, Crash, healthVars
<1> QED BY <1>2, <1>3, <1>4, <1>5, <1>6 DEF HealthTypeOK, IncidentsTyped, Incident, StatusTyped, Responses, RecentEntry

LEMMA HealthTypeInit == HealthInit => HealthTypeOK
<1> SUFFICES ASSUME HealthInit PROVE HealthTypeOK OBVIOUS
<1>1. IncidentsTyped BY DEF HealthInit, IncidentsTyped
<1>2. StatusTyped
  BY Cooldowns, HealthAssumption DEF HealthInit, StatusTyped, Statuses, HealthAssumption
<1>3. response \in Responses BY ResponsesTyped DEF HealthInit
<1> QED BY <1>1, <1>2, <1>3, DefaultsAreControl, HealthTypeOKParts DEF HealthInit

\* For any cooldowns, windows and bounds of the history: the files of the health
\* manager stay well typed, no entry of the history is older than the window and
\* there are never more than HistoryMax, whatever incidents, edits and kills.
THEOREM HealthTypesAlways == HealthSpec => []HealthTypeOK
BY HealthTypeInit, HealthTypeKept, HealthInductive, PTL DEF HealthSpec

-----------------------------------------------------------------------------
(* What the answer about trading rests on.                                 *)

\* Between a refresh and the answer the health file speaks of the incidents as
\* they are; what was observed CRITICAL is called CRITICAL.
Judged ==
  /\ step \in {"govern", "audit"} => health.observed = BaseStatus(Shown)
  /\ health.observed = CRITICAL => health.overall = CRITICAL

LEMMA JudgedKept == HealthIInv /\ Judged /\ [HealthNext]_healthVars => Judged'
<1> SUFFICES ASSUME HealthIInv, Judged, [HealthNext]_healthVars PROVE Judged' OBVIOUS
<1>1. CASE RefreshState
  <2>1. health'.observed = BaseStatus(Shown) /\ health'.overall = EffectiveStatus(health, BaseStatus(Shown))
        /\ incidents' = incidents
    BY <1>1 DEF RefreshState, ApplyRecoveryControls
  <2>2. BaseStatus(Shown)' = BaseStatus(Shown) BY <2>1 DEF BaseStatus, Shown, Active
  <2>3. EffectiveStatus(health, CRITICAL) = CRITICAL BY DEF EffectiveStatus, CRITICAL, HEALTHY, DEGRADED
  <2> QED BY <2>1, <2>2, <2>3 DEF Judged
<1>2. CASE Tick
  <2>1. step' = "idle" /\ health'.observed = health.observed /\ health'.overall = health.overall
    BY <1>2 DEF Tick, HealthIInv, HealthTypes
  <2> QED BY <2>1 DEF Judged
<1>3. CASE UNCHANGED health /\ step' \notin {"govern", "audit"} BY <1>3 DEF Judged
<1>4. CASE UNCHANGED <<health, incidents>> /\ (step' = step \/ (step = "govern" /\ step' = "audit"))
  <2>1. BaseStatus(Shown)' = BaseStatus(Shown) BY <1>4 DEF BaseStatus, Shown, Active
  <2> QED BY <1>4, <2>1 DEF Judged
<1>5. \/ RefreshState \/ Tick
      \/ UNCHANGED health /\ step' \notin {"govern", "audit"}
      \/ UNCHANGED <<health, incidents>> /\ (step' = step \/ (step = "govern" /\ step' = "audit"))
  BY DEF HealthNext, Serve, RecordIncident, ResolveIncident, AskTradingResponse, LoadOperatorControl, Reply, Edit, Crash,
         healthVars
<1> QED BY <1>1, <1>2, <1>3, <1>4, <1>5

\* No more than ShownMax active incidents are all shown.
LEMMA AllAreShown == HealthTypeOK /\ Cardinality(Active) <= ShownMax => Shown = Active
<1> SUFFICES ASSUME HealthTypeOK, Cardinality(Active) <= ShownMax, NEW i \in Active
             PROVE  Cardinality({j \in Active : j > i}) < ShownMax
  BY DEF Shown
<1>1. IsFiniteSet(Active)
  <2>1. DOMAIN incidents = 1..Len(incidents) /\ Len(incidents) \in Nat BY DEF HealthTypeOK
  <2>2. IsFiniteSet(1..Len(incidents)) BY <2>1, FS_Interval
  <2>3. Active \subseteq 1..Len(incidents) BY <2>1 DEF Active
  <2> QED BY <2>2, <2>3, FS_Subset
<1> DEFINE later == {j \in Active : j > i}
<1>2. later \subseteq Active \ {i}
  <2>1. i \in Nat BY DEF Active, HealthTypeOK
  <2> QED BY <2>1
<1> HIDE DEF later
<1>3. IsFiniteSet(Active \ {i}) /\ Cardinality(Active \ {i}) = Cardinality(Active) - 1 BY <1>1, FS_RemoveElement
<1>4. Cardinality(later) <= Cardinality(Active \ {i}) /\ Cardinality(later) \in Nat
  BY <1>2, <1>3, FS_Subset, FS_CardinalityType
<1>5. Cardinality(Active) \in Nat /\ ShownMax \in Nat BY <1>1, FS_CardinalityType, HealthAssumption DEF HealthAssumption
<1> QED BY <1>3, <1>4, <1>5 DEF later

\* The cut of the incident list is the only way a CRITICAL incident is missed:
\* while no more than ShownMax are active, an active CRITICAL incident halts new
\* trades, whatever the operator, the cooldowns and the kills.
THEOREM CriticalStopsWhileShownAlways == HealthSpec => CriticalStopsWhileShown
<1> DEFINE P == Reply /\ response'.allow /\ Cardinality(Active) <= ShownMax
                  => \A i \in Active : incidents[i].severity # "CRITICAL"
<1>1. HealthInit => Judged BY DEF HealthInit, Judged, HEALTHY, CRITICAL
<1>2. HealthTypeOK /\ Judged => P
  <2> SUFFICES ASSUME HealthTypeOK, Judged, Reply, response'.allow, Cardinality(Active) <= ShownMax
               PROVE  \A i \in Active : incidents[i].severity # "CRITICAL"
    OBVIOUS
  <2>1. ActionFor(health.overall, loaded) # "HALT_NEW_TRADES" /\ step = "audit" BY DEF Reply, TradingResponse
  <2>2. health.overall # CRITICAL
    <3> SUFFICES ASSUME health.overall = CRITICAL PROVE FALSE OBVIOUS
    <3>1. HeldStatus(health.overall, loaded) = CRITICAL BY DEF HeldStatus, CRITICAL, HEALTHY
    <3> QED BY <2>1, <3>1, CriticalHalts
  <2>3. BaseStatus(Shown) # CRITICAL BY <2>1, <2>2 DEF Judged
  <2>4. \A i \in Shown : incidents[i].severity # "CRITICAL" BY <2>3 DEF BaseStatus
  <2> QED BY <2>4, AllAreShown
<1>3. HealthTypeOK /\ Judged /\ [HealthNext]_healthVars => [P]_healthVars BY <1>2
<1> HIDE DEF P
<1>4. HealthSpec => [][P]_healthVars
  BY <1>1, <1>3, JudgedKept, HealthInductive, HealthTypesAlways, PTL DEF HealthSpec
<1> QED BY <1>4 DEF P, CriticalStopsWhileShown
=============================================================================
