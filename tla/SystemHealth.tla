----------------------------- MODULE SystemHealth -----------------------------
(***************************************************************************)
(* The health manager of the paper stack (utils/system_health.py): an      *)
(* append-only incident log, a health file recomputed from it with         *)
(* cooldowns and an anti-flapping lock, and an operator's control file     *)
(* with an audit trail.  A timestamp is kept as its age in ticks, up to    *)
(* the largest window anyone compares it with.                             *)
(***************************************************************************)
EXTENDS Integers, Sequences, FiniteSets

CONSTANTS Kinds,               \* (type, source) pairs of incidents
          CoreKinds,           \* those of the integrity and the execution layer
          Controls,            \* what the operator may write into the control file
          LowToMedium, MediumToHigh, EscalationWindow,
          ShownMax,            \* active incidents kept in the health file (25)
          CriticalCooldown, DegradedCooldown,
          AntiFlapWindow, AntiFlapLock, AntiFlapTransitions, HistoryMax,
          RepeatCount,         \* recent incidents that raise the alert level (3)
          MaxIncidents, MaxEdits, MaxCrashes   \* bounds of a run

ASSUME HealthAssumption ==
  /\ CoreKinds \subseteq Kinds
  /\ {LowToMedium, MediumToHigh, ShownMax, AntiFlapTransitions, HistoryMax, RepeatCount} \subseteq Nat \ {0}
  /\ {EscalationWindow, CriticalCooldown, DegradedCooldown, AntiFlapWindow, AntiFlapLock} \subseteq Nat
  /\ {MaxIncidents, MaxEdits, MaxCrashes} \subseteq Nat

VARIABLES incidents,   \* every incident recorded, in order, with its latest status
          health,      \* system_health.json
          control,     \* operator_control.json
          loaded,      \* the control the running operation works with
          audit,       \* last_control of the audit state file
          replayed,    \* what the operator action log adds up to
          step,          \* where the running operation stands
          response,    \* the last answer about trading
          since,       \* history: ticks since a refresh saw a CRITICAL, any incident; whether the
                       \* anti-flapping lock was in force at one after the last CRITICAL
          edits, crashes, torn   \* history: edits, kills, and a kill inside an audit

healthVars == <<incidents, health, control, loaded, audit, replayed, step, response, since, edits, crashes, torn>>

HEALTHY == "HEALTHY"
DEGRADED == "DEGRADED"
CRITICAL == "CRITICAL"
Statuses == {HEALTHY, DEGRADED, CRITICAL}
Severities == {"LOW", "MEDIUM", "HIGH", "CRITICAL"}
Never == -1

AtMost(a, b) == IF a < b THEN a ELSE b
Older(age, cap) == IF age = Never THEN Never ELSE AtMost(age + 1, cap)
StableCap == IF CriticalCooldown < DegradedCooldown THEN DegradedCooldown ELSE CriticalCooldown

-----------------------------------------------------------------------------
(* The operator's control file.                                            *)

ManualModes == {"ON", "OFF"}
TradingOverrides == {"ALLOW", "RESTRICT", "HALT_NEW_TRADES"}
RecoveryOverrides == {"AUTO", "HOLD_DEGRADED", "HOLD_CRITICAL"}
OperatorControl == [manual_mode: ManualModes, trading_override: TradingOverrides, recovery_override: RecoveryOverrides]
OperatorDefaults == [manual_mode |-> "OFF", trading_override |-> "ALLOW", recovery_override |-> "AUTO"]

\* An unknown value becomes the default of its field.
Normalized(c) ==
  [manual_mode |-> IF c.manual_mode \in ManualModes THEN c.manual_mode ELSE "OFF",
   trading_override |-> IF c.trading_override \in TradingOverrides THEN c.trading_override ELSE "ALLOW",
   recovery_override |-> IF c.recovery_override \in RecoveryOverrides THEN c.recovery_override ELSE "AUTO"]

-----------------------------------------------------------------------------
(* Incidents.                                                              *)

Recent(k, s) == {i \in DOMAIN incidents : /\ incidents[i].kind = k
                                          /\ incidents[i].severity = s
                                          /\ incidents[i].age <= EscalationWindow}

\* The record of an incident stays ACTIVE in the log after a later record resolves it, so both count.
Escalated(s, k) ==
  CASE s = "LOW" /\ Cardinality(Recent(k, "LOW")) >= LowToMedium - 1 -> "MEDIUM"
    [] s = "MEDIUM" /\ Cardinality(Recent(k, "MEDIUM")) >= MediumToHigh - 1 -> "HIGH"
    [] OTHER -> s

Active == {i \in DOMAIN incidents : incidents[i].active}

\* Only the newest ShownMax active incidents are looked at.
Shown == {i \in Active : Cardinality({j \in Active : j > i}) < ShownMax}

BaseStatus(shown) ==
  IF \E i \in shown : incidents[i].severity = "CRITICAL" THEN CRITICAL
  ELSE IF shown # {} THEN DEGRADED
  ELSE HEALTHY

-----------------------------------------------------------------------------
(* Recovery: cooldowns and the anti-flapping lock.                         *)

\* The entries of the history inside the window, in order, as a recursive function.
InWindow(history) ==
  LET kept[i \in 0..Len(history)] ==
        CASE i = 0 -> <<>>
          [] i > 0 /\ history[i].age <= AntiFlapWindow -> Append(kept[i - 1], history[i])
          [] OTHER -> kept[i - 1]
  IN  kept[Len(history)]

AppendTransition(history, status) ==
  LET kept == InWindow(history)
      new == IF Len(kept) > 0 /\ kept[Len(kept)].status = status
             THEN kept ELSE Append(kept, [status |-> status, age |-> 0])
  IN  SubSeq(new, IF Len(new) > HistoryMax THEN Len(new) - HistoryMax + 1 ELSE 1, Len(new))

\* Mutant: stability is not measured anew when the observed status changes.
StableSinceKept(prev, observed) == IF prev.stable = Never THEN 0 ELSE prev.stable
\* Mutant: the observed status is compared with the effective one.
StableSinceOverall(prev, observed) == IF prev.overall # observed THEN 0 ELSE prev.stable
StableSince(prev, observed) == IF prev.observed # observed THEN 0 ELSE prev.stable

LockUntil(prev, observed) ==
  IF observed # prev.observed /\ Len(InWindow(prev.history)) >= AntiFlapTransitions - 1
  THEN AntiFlapLock ELSE prev.lock

\* Mutant: the cooldown ends one tick early.
CoolingShort(stable, cooldown) == IF stable = Never THEN cooldown > 0 ELSE stable + 1 < cooldown
Cooling(stable, cooldown) == IF stable = Never THEN cooldown > 0 ELSE stable < cooldown

\* Mutant: after the cooldown of a CRITICAL status the observed one is taken over.
EffectiveStatusDirect(prev, observed) ==
  CASE observed # CRITICAL /\ LockUntil(prev, observed) > 0 -> DEGRADED
    [] observed # CRITICAL /\ LockUntil(prev, observed) = 0 /\ prev.overall = CRITICAL ->
         IF Cooling(StableSince(prev, observed), CriticalCooldown) THEN CRITICAL ELSE observed
    [] observed = HEALTHY /\ LockUntil(prev, observed) = 0 /\ prev.overall = DEGRADED ->
         IF Cooling(StableSince(prev, observed), DegradedCooldown) THEN DEGRADED ELSE HEALTHY
    [] OTHER -> observed

\* Mutant: the lock comes first and hides a CRITICAL status too.
EffectiveStatusLockFirst(prev, observed) ==
  CASE LockUntil(prev, observed) > 0 -> DEGRADED
    [] observed # CRITICAL /\ LockUntil(prev, observed) = 0 /\ prev.overall = CRITICAL ->
         IF Cooling(StableSince(prev, observed), CriticalCooldown) THEN CRITICAL ELSE DEGRADED
    [] observed = HEALTHY /\ LockUntil(prev, observed) = 0 /\ prev.overall = DEGRADED ->
         IF Cooling(StableSince(prev, observed), DegradedCooldown) THEN DEGRADED ELSE HEALTHY
    [] OTHER -> observed

EffectiveStatus(prev, observed) ==
  LET stable == StableSince(prev, observed) IN
  CASE observed = CRITICAL -> CRITICAL
    [] observed # CRITICAL /\ LockUntil(prev, observed) > 0 -> DEGRADED
    [] observed # CRITICAL /\ LockUntil(prev, observed) = 0 /\ prev.overall = CRITICAL ->
         IF Cooling(stable, CriticalCooldown) THEN CRITICAL ELSE DEGRADED
    [] observed = HEALTHY /\ LockUntil(prev, observed) = 0 /\ prev.overall = DEGRADED ->
         IF Cooling(stable, DegradedCooldown) THEN DEGRADED ELSE HEALTHY
    [] OTHER -> observed

ApplyRecoveryControls(prev, observed) ==
  LET effective == EffectiveStatus(prev, observed)
  IN  [overall |-> effective, observed |-> observed, stable |-> StableSince(prev, observed),
       lock |-> LockUntil(prev, observed), history |-> AppendTransition(prev.history, effective)]

-----------------------------------------------------------------------------
(* The answer about trading.                                               *)

\* The status after the operator's hold, which can only make it worse.
HeldStatus(overall, c) ==
  CASE c.manual_mode = "ON" /\ c.recovery_override = "HOLD_CRITICAL" -> CRITICAL
    [] c.manual_mode = "ON" /\ c.recovery_override = "HOLD_DEGRADED" /\ overall = HEALTHY -> DEGRADED
    [] OTHER -> overall

ActionFor(overall, c) ==
  IF HeldStatus(overall, c) = CRITICAL \/ (c.manual_mode = "ON" /\ c.trading_override = "HALT_NEW_TRADES")
  THEN "HALT_NEW_TRADES"
  ELSE IF HeldStatus(overall, c) = HEALTHY /\ ~(c.manual_mode = "ON" /\ c.trading_override = "RESTRICT")
  THEN "NORMAL_OPERATION"
  ELSE "ALLOW_WITH_WARNINGS"

\* Enough of the incidents numbered in some are recent.
Repeated(some) ==
  Cardinality({i \in some : incidents[i].age <= EscalationWindow}) >= RepeatCount

AlertLevel(action, held) ==
  IF \/ action = "HALT_NEW_TRADES"
     \/ BaseStatus(Shown) = CRITICAL
     \/ Repeated({i \in DOMAIN incidents : incidents[i].kind \in CoreKinds})
  THEN "CRITICAL"
  ELSE IF \/ held = DEGRADED
          \/ Shown # {}
          \/ Repeated({i \in DOMAIN incidents : incidents[i].severity \in {"LOW", "MEDIUM"}})
  THEN "WARNING"
  ELSE "INFO"

TradingResponse ==
  LET action == ActionFor(health.overall, loaded)
  IN  [allow |-> action # "HALT_NEW_TRADES", action |-> action,
       level |-> AlertLevel(action, HeldStatus(health.overall, loaded))]

Unanswered == [allow |-> FALSE, action |-> "none", level |-> "INFO"]

-----------------------------------------------------------------------------
HealthInit ==
  /\ incidents = <<>>
  /\ health = [overall |-> HEALTHY, observed |-> HEALTHY, stable |-> Never, lock |-> 0, history |-> <<>>]
  /\ control = OperatorDefaults
  /\ loaded = OperatorDefaults
  /\ audit = OperatorDefaults
  /\ replayed = OperatorDefaults
  /\ step = "idle"
  /\ response = Unanswered
  /\ since = [critical |-> CriticalCooldown, incident |-> DegradedCooldown, locked |-> FALSE]
  /\ edits = 0
  /\ crashes = 0
  /\ torn = FALSE

operatorVars == <<control, loaded, audit, replayed, edits, torn>>

\* record_incident: append, refresh, then write the status, which refreshes again.
RecordIncident(k, s) ==
  /\ step = "idle"
  /\ Len(incidents) < MaxIncidents
  /\ incidents' = Append(incidents, [kind |-> k, severity |-> Escalated(s, k), active |-> TRUE, age |-> 0])
  /\ step' = "refresh"
  /\ response' = Unanswered
  /\ UNCHANGED <<health, since, crashes>>
  /\ UNCHANGED operatorVars

\* resolve_incident: every active incident of the kind, then the same two refreshes.
ResolveIncident(k) ==
  /\ step = "idle"
  /\ incidents' = [i \in DOMAIN incidents |->
                     [incidents[i] EXCEPT !.active = @ /\ incidents[i].kind # k]]
  /\ step' = "refresh"
  /\ response' = Unanswered
  /\ UNCHANGED <<health, since, crashes>>
  /\ UNCHANGED operatorVars

\* trading_response and write_system_status start with one refresh.
AskTradingResponse ==
  /\ step = "idle"
  /\ step' = "status"
  /\ response' = Unanswered
  /\ UNCHANGED <<incidents, health, since, crashes>>
  /\ UNCHANGED operatorVars

RefreshState ==
  /\ step \in {"refresh", "status"}
  /\ health' = ApplyRecoveryControls(health, BaseStatus(Shown))
  /\ since' = [critical |-> IF BaseStatus(Shown) = CRITICAL THEN 0 ELSE since.critical,
               incident |-> IF Shown # {} THEN 0 ELSE since.incident,
               locked |-> BaseStatus(Shown) # CRITICAL /\ (since.locked \/ health'.lock > 0)]
  /\ step' = IF step = "refresh" THEN "status" ELSE "govern"
  /\ UNCHANGED <<incidents, response, crashes>>
  /\ UNCHANGED operatorVars

\* Mutant: the recovery override is missing from the fields that are compared.
LoadOperatorControlPartly ==
  /\ step = "govern"
  /\ loaded' = Normalized(control)
  /\ replayed' = [f \in DOMAIN audit |-> IF loaded'[f] # audit[f] /\ f # "recovery_override" THEN loaded'[f] ELSE replayed[f]]
  /\ step' = "audit"
  /\ UNCHANGED <<incidents, health, control, audit, response, since, edits, crashes, torn>>

\* load_operator_control: the fields that differ from the audited ones are appended to the action log.
LoadOperatorControl ==
  /\ step = "govern"
  /\ loaded' = Normalized(control)
  /\ replayed' = IF Normalized(control) = audit THEN replayed
                 ELSE [f \in DOMAIN audit |-> IF loaded'[f] # audit[f] THEN loaded'[f] ELSE replayed[f]]
  /\ step' = "audit"
  /\ UNCHANGED <<incidents, health, control, audit, response, since, edits, crashes, torn>>

\* ... and the audit state is written afterwards; then the answer is given.
Reply ==
  /\ step = "audit"
  /\ audit' = loaded
  /\ response' = TradingResponse
  /\ step' = "idle"
  /\ UNCHANGED <<incidents, health, control, loaded, replayed, since, edits, crashes, torn>>

Edit(c) ==
  /\ edits < MaxEdits
  /\ control' = c
  /\ edits' = edits + 1
  /\ UNCHANGED <<incidents, health, loaded, audit, replayed, step, response, since, crashes, torn>>

\* The process is killed; the files stay as they are.
Crash ==
  /\ step # "idle"
  /\ crashes < MaxCrashes
  /\ crashes' = crashes + 1
  /\ step' = "idle"
  /\ torn' = (torn \/ (step = "audit" /\ audit # loaded))
  /\ UNCHANGED <<incidents, health, control, loaded, audit, replayed, response, since, edits>>

\* An operation is short against a tick, so time passes between operations.
Tick ==
  /\ step = "idle"
  /\ incidents' = [i \in DOMAIN incidents |-> [incidents[i] EXCEPT !.age = AtMost(@ + 1, EscalationWindow + 1)]]
  /\ health' = [health EXCEPT
       !.stable = Older(@, StableCap),
       !.lock = IF @ = 0 THEN 0 ELSE @ - 1,
       !.history = InWindow([i \in DOMAIN health.history |-> [health.history[i] EXCEPT !.age = @ + 1]])]
  /\ since' = [since EXCEPT !.critical = AtMost(@ + 1, CriticalCooldown), !.incident = AtMost(@ + 1, DegradedCooldown)]
  /\ response' = Unanswered
  /\ UNCHANGED <<control, loaded, audit, replayed, step, edits, crashes, torn>>

Serve == AskTradingResponse \/ RefreshState \/ LoadOperatorControl \/ Reply

HealthNext ==
  \/ \E k \in Kinds, s \in Severities : RecordIncident(k, s)
  \/ \E k \in Kinds : ResolveIncident(k)
  \/ Serve
  \/ \E c \in Controls : Edit(c)
  \/ Crash
  \/ Tick

HealthSpec == HealthInit /\ [][HealthNext]_healthVars

\* The agency asks in every cycle and an operation once begun goes on; time passes between operations.
FairSpec == HealthSpec /\ WF_healthVars(Serve) /\ SF_healthVars(Tick)

-----------------------------------------------------------------------------
HealthTypeOK ==
  /\ incidents \in Seq([kind: Kinds, severity: Severities, active: BOOLEAN, age: 0..EscalationWindow + 1])
  /\ health \in [overall: Statuses, observed: Statuses, stable: {Never} \cup 0..StableCap,
                 lock: 0..AntiFlapLock, history: Seq([status: Statuses, age: 0..AntiFlapWindow])]
  /\ Len(health.history) <= HistoryMax
  /\ {loaded, audit, replayed} \subseteq OperatorControl
  /\ step \in {"idle", "refresh", "status", "govern", "audit"}
  /\ response \in [allow: BOOLEAN, action: {"none", "NORMAL_OPERATION", "ALLOW_WITH_WARNINGS", "HALT_NEW_TRADES"},
                   level: {"INFO", "WARNING", "CRITICAL"}]

\* After a CRITICAL incident was last seen, new trades are allowed only once the cooldown has passed,
\* unless the anti-flapping lock took over from the cooldown, whatever restarts and edits there were.
CriticalCoolsDown ==
  [][Reply /\ response'.allow => since.critical >= CriticalCooldown \/ since.locked]_healthVars

\* The lock does not shorten the cooldown. Does not hold once a tick is shorter than the cooldown: what
\* remains of a lock set when the CRITICAL began ends the cooldown with it.
LockKeepsCooldown ==
  [][Reply /\ response'.allow => since.critical >= CriticalCooldown \/ health.lock > 0]_healthVars

\* The system calls itself HEALTHY again only when no refresh has seen an incident for the whole
\* cooldown, whichever statuses and locks it went through.
HealthyIsEarned ==
  [][health.overall # HEALTHY /\ health'.overall = HEALTHY => since.incident >= DegradedCooldown]_healthVars

\* What the operator action log adds up to is what the audit file says was seen last, unless
\* the process was killed between writing the two.
AuditReplays == step # "audit" /\ ~torn => replayed = audit

\* The permission takes every incident in the log into account, those recorded by a killed process too.
\* Does not hold once more than ShownMax incidents are active: the newest ones hide a CRITICAL one.
CriticalNeverHidden ==
  [][Reply /\ response'.allow => \A i \in Active : incidents[i].severity # "CRITICAL"]_healthVars

\* As long as no more than ShownMax are active, every active CRITICAL incident is taken into account.
CriticalStopsWhileShown ==
  [][Reply /\ response'.allow /\ Cardinality(Active) <= ShownMax
       => \A i \in Active : incidents[i].severity # "CRITICAL"]_healthVars

\* When incidents and operator leave the system alone it comes back to normal operation for good.
RecoversToNormal ==
  (<>[](Active = {}) /\ <>[](Normalized(control).manual_mode = "OFF"))
    => <>[](health.overall = HEALTHY)
=============================================================================
