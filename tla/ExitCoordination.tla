--------------------------- MODULE ExitCoordination ---------------------------
(***************************************************************************)
(* Risk exits of the live engine: the engine's idempotent exit loop, the   *)
(* emergency fallback that cron starts beside it, the ownership journal    *)
(* both write, and the heartbeat in the engine's state file.               *)
(*                                                                         *)
(* Neither file is written atomically: opening it for writing truncates it *)
(* (the lock is taken only afterwards) and the text lands when the file is *)
(* closed.  Between the two, readers see an empty file and others write.   *)
(* A date change, which renames the keys of the journal, is left out.      *)
(***************************************************************************)
EXTENDS Naturals, Sequences, FiniteSets

CONSTANTS
  Coins, Engine, Fallbacks,
  MaxSize,           \* size of a position, in the units a fill may leave
  ForceRetries,      \* max_retries of a forced exit; an unforced one has 1
  HeartbeatLimit, Budget, FreshFor,  \* 30 s, 60 s and 300 s, in ticks
  MaxFaults          \* bound: crashes, failed calls and partial fills

ASSUME ActorsAssumption == Engine \notin Fallbacks
ASSUME CoinsAssumption == Coins # {}
ASSUME SizesAssumption ==
  /\ MaxSize \in Nat \ {0} /\ ForceRetries \in Nat \ {0}
  /\ HeartbeatLimit \in Nat /\ Budget \in Nat /\ FreshFor \in Nat
  /\ MaxFaults \in Nat

VARIABLES
  distressed, \* the coins past their stop-loss, the whole time
  size,       \* [Coins -> units the account holds at the exchange]
  text,       \* the journal file: "ok", "empty" (truncated) or "garbled"
  exits,      \* its entries, in the order of the Python dict
  stateText,  \* the engine's state file: "ok" or "empty" (truncated)
  beat,       \* age of the heartbeat in it
  recorded,   \* [Coins -> record_close calls], a history
  faults,     \* adversities left
  pc, next,   \* per actor: where it is; where a journal call returns to
  coin,       \* the position it works on
  snap,       \* the dict it is about to write
  listed,     \* list_active_exits as a fallback read it
  todo, held, \* positions to look at; positions a fallback has claimed
  tries, spent, force  \* the engine's exit loop

files  == <<text, exits, stateText, beat>>
loop   == <<tries, spent, force>>
local  == <<next, coin, snap, listed, todo, held>>
vars   == <<distressed, size, files, recorded, faults, pc, local, loop>>

Actors == {Engine} \cup Fallbacks
Stop(a) == IF a = Engine THEN "down" ELSE "off"
Home(a) == IF a = Engine THEN "scan" ELSE "sweep"

-----------------------------------------------------------------------------
(* The ownership journal.  Key: symbol and trade id; the engine's trade ids *)
(* start with "hl-", the fallback's with "fallback-".                       *)

Owner(a) == IF a = Engine THEN "engine" ELSE "fallback"
Tid(a)   == IF a = Engine THEN "hl" ELSE "fallback"

HasKey(e, a, c) == e.coin = c /\ e.tid = Tid(a)
KeyAt(dict, a, c) == {i \in DOMAIN dict : HasKey(dict[i], a, c)}
Entry(a, c) == [coin |-> c, tid |-> Tid(a), owner |-> Owner(a), age |-> 0]

\* claim_exit: the claim is granted without a write, refused, or written.
OwnsAlready(dict, a, c) ==
  \E i \in KeyAt(dict, a, c) : dict[i].owner = Owner(a)
\* Mutant: an entry of one's own refuses, too.
RefusesAnyKey(dict, a, c) == KeyAt(dict, a, c) # {}
Refuses(dict, a, c) ==
  \E i \in KeyAt(dict, a, c) : dict[i].owner # Owner(a) /\ dict[i].age < FreshFor
Claimed(dict, a, c) ==
  IF KeyAt(dict, a, c) = {} THEN Append(dict, Entry(a, c))
  ELSE [i \in DOMAIN dict |->
          IF HasKey(dict[i], a, c) THEN Entry(a, c) ELSE dict[i]]

\* A key occurs once in the dict; its entry is deleted.
Released(dict, a, c) ==
  LET i == CHOOSE i \in KeyAt(dict, a, c) : TRUE
  IN  SubSeq(dict, 1, i - 1) \o SubSeq(dict, i + 1, Len(dict))

\* A process ends; what it had in memory is gone.
Ends(a) ==
  /\ pc' = [pc EXCEPT ![a] = Stop(a)]
  /\ next' = [next EXCEPT ![a] = Home(a)]
  /\ snap' = [snap EXCEPT ![a] = <<>>]
  /\ listed' = [listed EXCEPT ![a] = <<>>]
  /\ todo' = [todo EXCEPT ![a] = {}]
  /\ held' = [held EXCEPT ![a] = {}]

Return(a) ==
  /\ pc' = [pc EXCEPT ![a] = next[a]]
  /\ next' = [next EXCEPT ![a] = Home(a)]
  /\ snap' = [snap EXCEPT ![a] = <<>>]

Writes(a, dict) ==
  /\ snap' = [snap EXCEPT ![a] = dict]
  /\ pc' = [pc EXCEPT ![a] = "truncate"]
  /\ UNCHANGED next

\* _read_ownership: json.load raises on an empty or garbled file, and nothing
\* between here and the process's top level catches it.
ReadRaises(a) ==
  /\ pc[a] \in {"list", "claim", "attempt", "release"} /\ text # "ok"
  /\ Ends(a)
  /\ UNCHANGED <<size, files, recorded, faults, coin, loop>>

ClaimExit(a) ==
  /\ pc[a] = "claim" /\ text = "ok"
  /\ IF Refuses(exits, a, coin[a])
     THEN /\ pc' = [pc EXCEPT ![a] = "scan"]
          /\ UNCHANGED <<next, snap, held, tries>>
     ELSE /\ IF OwnsAlready(exits, a, coin[a])
             THEN Return(a)
             ELSE Writes(a, Claimed(exits, a, coin[a]))
          /\ IF a = Engine
             THEN tries' = 0 /\ UNCHANGED held
             ELSE /\ held' = [held EXCEPT ![a] = @ \cup {coin[a]}]
                  /\ UNCHANGED tries
  /\ UNCHANGED <<size, files, recorded, faults, coin, listed, todo, spent, force>>

\* record_attempt (the dict is rewritten, its attempts are not modelled) and
\* release_exit; neither writes when the key is gone.
RecordOrRelease(a) ==
  /\ pc[a] \in {"attempt", "release"} /\ text = "ok"
  /\ IF KeyAt(exits, a, coin[a]) = {} THEN Return(a)
     ELSE Writes(a, IF pc[a] = "attempt" THEN exits
                    ELSE Released(exits, a, coin[a]))
  /\ UNCHANGED <<size, files, recorded, faults, coin, listed, todo, held, loop>>

Truncate(a) ==
  /\ pc[a] = "truncate"
  /\ text' = "empty" /\ exits' = <<>>
  /\ pc' = [pc EXCEPT ![a] = "dump"]
  /\ UNCHANGED <<size, stateText, beat, recorded, faults, local, loop>>

\* The text lands at offset 0; over a longer text of another writer it leaves
\* a tail that is not JSON.
Dump(a) ==
  /\ pc[a] = "dump"
  /\ \/ text' = "ok" /\ exits' = snap[a]
     \/ text # "empty" /\ text' = "garbled" /\ exits' = <<>>
  /\ Return(a)
  /\ UNCHANGED <<size, stateText, beat, recorded, faults, coin, listed, todo,
                 held, loop>>

-----------------------------------------------------------------------------
(* The exchange. *)

Live == {c \in Coins : size[c] > 0}

\* market_close by a, on c: a complete fill reported ok, or, for one fault,
\* any fill under any report ("error" after a fill is an unknown success).
MarketClose(c, report) ==
  \/ /\ report = "ok" /\ size' = [size EXCEPT ![c] = 0]
     /\ UNCHANGED faults
  \/ /\ faults > 0 /\ faults' = faults - 1
     /\ \E left \in 0..size[c] : size' = [size EXCEPT ![c] = left]
     /\ report = "ok" => size'[c] > 0

\* get_positions raises: the caller's process ends.  protect_capital catches
\* it for its own call only (SkipCycle).
QueryRaises(a) ==
  /\ \/ a = Engine /\ pc[a] \in {"query", "confirm"}
     \/ a = Engine /\ pc[a] = "scan" /\ todo[a] \ distressed # {}
     \/ a # Engine /\ pc[a] = "positions"
  /\ faults > 0 /\ faults' = faults - 1
  /\ Ends(a)
  /\ UNCHANGED <<size, files, recorded, coin, loop>>

-----------------------------------------------------------------------------
(* The engine. *)

Goto(a, l) == pc' = [pc EXCEPT ![a] = l]

BeginCycle ==
  /\ pc[Engine] = "idle"
  /\ \/ todo' = [todo EXCEPT ![Engine] = Live] /\ UNCHANGED faults
     \/ /\ faults > 0 /\ faults' = faults - 1   \* skip_cycle
        /\ UNCHANGED todo
  /\ Goto(Engine, "scan")
  /\ UNCHANGED <<size, files, recorded, next, coin, snap, listed, held, loop>>

\* evaluate_triggers of one position: an exit, forced or not, or none.
StartExit(c, forced) ==
  /\ pc[Engine] = "scan" /\ c \in todo[Engine]
  /\ c \in distressed => forced
  /\ todo' = [todo EXCEPT ![Engine] = @ \ {c}]
  /\ coin' = [coin EXCEPT ![Engine] = c]
  /\ force' = forced
  /\ next' = [next EXCEPT ![Engine] = "query"]
  /\ Goto(Engine, "claim")
  /\ UNCHANGED <<size, files, recorded, faults, snap, listed, held, tries, spent>>

NoExit(c) ==
  /\ pc[Engine] = "scan" /\ c \in todo[Engine] \ distressed
  /\ todo' = [todo EXCEPT ![Engine] = @ \ {c}]
  /\ UNCHANGED <<size, files, recorded, faults, pc, next, coin, snap, listed,
                 held, loop>>

MaxRetries == IF force THEN ForceRetries ELSE 1
RetriesLeft == tries < MaxRetries

\* Top of the retry loop, whose clock starts with it: budget, then ask the
\* exchange before any close.
Query ==
  /\ pc[Engine] = "query"
  /\ tries' = tries + 1
  /\ spent' = IF tries = 0 THEN 0 ELSE spent
  /\ IF tries > 0 /\ spent > Budget THEN Goto(Engine, "release") /\ UNCHANGED next
     ELSE IF size[coin[Engine]] = 0
     THEN Goto(Engine, "attempt") /\ next' = [next EXCEPT ![Engine] = "finish"]
     ELSE Goto(Engine, "close") /\ UNCHANGED next
  /\ UNCHANGED <<size, files, recorded, faults, coin, snap, listed, todo, held,
                 force>>

EngineClose(report) ==
  /\ pc[Engine] = "close"
  /\ MarketClose(coin[Engine], report)
  /\ next' = [next EXCEPT ![Engine] =
       IF report = "ok" THEN "confirm"
       ELSE IF RetriesLeft THEN "query" ELSE "release"]
  /\ Goto(Engine, "attempt")
  /\ UNCHANGED <<files, recorded, coin, snap, listed, todo, held, loop>>

\* After an "ok" the exchange is asked again; when the retries are used up on
\* partial fills the loop falls through, and the ownership stays.
\* Mutant: the report "ok" is taken for a complete fill.
ConfirmedByReport(c) == TRUE
ConfirmedFlat(c) == size[c] = 0
Confirm ==
  /\ pc[Engine] = "confirm"
  /\ Goto(Engine, IF ConfirmedFlat(coin[Engine]) THEN "finish"
                  ELSE IF RetriesLeft THEN "query" ELSE "scan")
  /\ UNCHANGED <<size, files, recorded, faults, local, loop>>

\* record_close, then save: the state file is truncated and rewritten.
Finish ==
  /\ pc[Engine] = "finish"
  /\ recorded' = [recorded EXCEPT ![coin[Engine]] = @ + 1]
  /\ stateText' = "empty"
  /\ Goto(Engine, "booked")
  /\ UNCHANGED <<size, text, exits, beat, faults, local, loop>>

Booked ==
  /\ pc[Engine] = "booked"
  /\ stateText' = "ok"
  /\ Goto(Engine, "release")
  /\ UNCHANGED <<size, text, exits, beat, recorded, faults, local, loop>>

\* update_heartbeat at the end of a cycle, saved the same way.
SaveHeartbeat ==
  /\ \/ /\ pc[Engine] = "scan" /\ todo[Engine] = {}
        /\ stateText' = "empty" /\ Goto(Engine, "beat") /\ UNCHANGED beat
     \/ /\ pc[Engine] = "beat"
        /\ stateText' = "ok" /\ beat' = 0 /\ Goto(Engine, "idle")
  /\ UNCHANGED <<size, text, exits, recorded, faults, local, loop>>

\* The engine is started again.  A truncated state file is replaced by
\* defaults without a heartbeat, which startup_reconciliation saves.
RestartEngine ==
  /\ pc[Engine] = "down"
  /\ Goto(Engine, "idle")
  /\ stateText' = "ok"
  /\ beat' = IF stateText = "ok" THEN beat ELSE HeartbeatLimit + 1
  /\ UNCHANGED <<size, text, exits, recorded, faults, local, loop>>

-----------------------------------------------------------------------------
(* The emergency fallback: one run per cron tick; runs may overlap. *)

Unhealthy == stateText # "ok" \/ beat > HeartbeatLimit

CheckEngineHealth(f) ==
  /\ pc[f] = "off" /\ Unhealthy
  /\ Goto(f, "list")
  /\ UNCHANGED <<size, files, recorded, faults, local, loop>>

ListActiveExits(f) ==
  /\ pc[f] = "list" /\ text = "ok"
  /\ listed' = [listed EXCEPT ![f] = exits]
  /\ Goto(f, "positions")
  /\ UNCHANGED <<size, files, recorded, faults, next, coin, snap, todo, held, loop>>

GetPositions(f) ==
  /\ pc[f] = "positions"
  /\ todo' = [todo EXCEPT ![f] = Live]
  /\ Goto(f, "scan")
  /\ UNCHANGED <<size, files, recorded, faults, next, coin, snap, listed, held, loop>>

\* The FIRST entry listed for the coin decides, whoever owns it.
FirstListed(dict, c) ==
  {i \in DOMAIN dict :
     dict[i].coin = c /\ \A j \in 1..(i - 1) : dict[j].coin # c}
\* Mutant: ownership never expires.
SkipsOwned(dict, c) == FirstListed(dict, c) # {}
Skips(dict, c) ==
  \E i \in FirstListed(dict, c) : dict[i].age < FreshFor

ScanPosition(f, c) ==
  /\ pc[f] = "scan" /\ c \in todo[f]
  /\ todo' = [todo EXCEPT ![f] = @ \ {c}]
  /\ IF Skips(listed[f], c) THEN UNCHANGED <<pc, next, coin>>
     ELSE /\ coin' = [coin EXCEPT ![f] = c]
          /\ next' = [next EXCEPT ![f] = "scan"]
          /\ Goto(f, "claim")
  /\ UNCHANGED <<size, files, recorded, faults, snap, listed, held, loop>>

ScanDone(f) ==
  /\ pc[f] = "scan" /\ todo[f] = {}
  /\ Goto(f, "sweep")
  /\ UNCHANGED <<size, files, recorded, faults, local, loop>>

\* A failed close keeps the ownership.
FallbackClose(f, c, report) ==
  /\ pc[f] = "sweep" /\ c \in held[f]
  /\ MarketClose(c, report)
  /\ held' = [held EXCEPT ![f] = @ \ {c}]
  /\ coin' = [coin EXCEPT ![f] = c]
  /\ next' = [next EXCEPT ![f] = IF report = "ok" THEN "release" ELSE "sweep"]
  /\ Goto(f, "attempt")
  /\ UNCHANGED <<files, recorded, snap, listed, todo, loop>>

FallbackExits(f) ==
  /\ pc[f] = "sweep" /\ held[f] = {}
  /\ Ends(f)
  /\ UNCHANGED <<size, files, recorded, faults, coin, loop>>

-----------------------------------------------------------------------------
(* A process is killed; time passes (ages stop counting past their limit). *)

Crash(a) ==
  /\ pc[a] # Stop(a)
  /\ faults > 0 /\ faults' = faults - 1
  /\ Ends(a)
  /\ UNCHANGED <<size, files, recorded, coin, loop>>

Older(n, limit) == IF n < limit THEN n + 1 ELSE n
Aged(dict) ==
  [i \in DOMAIN dict |-> [dict[i] EXCEPT !.age = Older(@, FreshFor)]]

Tick ==
  /\ exits' = Aged(exits)
  /\ snap' = [a \in Actors |-> Aged(snap[a])]
  /\ listed' = [a \in Actors |-> Aged(listed[a])]
  /\ beat' = Older(beat, HeartbeatLimit + 1)
  /\ spent' = Older(spent, Budget + 1)
  /\ UNCHANGED <<size, text, stateText, recorded, faults, pc, next, coin, todo,
                 held, tries, force>>

Init ==
  /\ distressed \in SUBSET Coins
  /\ size \in [Coins -> 1..MaxSize]
  /\ text = "ok" /\ exits = <<>>
  /\ stateText = "ok" /\ beat = 0
  /\ recorded = [c \in Coins |-> 0]
  /\ faults = MaxFaults
  /\ pc = [a \in Actors |-> IF a = Engine THEN "idle" ELSE "off"]
  /\ next = [a \in Actors |-> Home(a)]
  /\ coin \in {[a \in Actors |-> c] : c \in {CHOOSE c \in Coins : TRUE}}
  /\ snap = [a \in Actors |-> <<>>] /\ listed = snap
  /\ todo = [a \in Actors |-> {}] /\ held = todo
  /\ tries = 0 /\ spent = 0 /\ force = FALSE

Reports == {"ok", "error"}

JournalStep(a) ==
  \/ ReadRaises(a) \/ ClaimExit(a) \/ RecordOrRelease(a)
  \/ Truncate(a) \/ Dump(a)

EngineStep ==
  \/ JournalStep(Engine)
  \/ BeginCycle
  \/ \E c \in Coins, forced \in BOOLEAN : StartExit(c, forced)
  \/ \E c \in Coins : NoExit(c)
  \/ Query
  \/ \E report \in Reports : EngineClose(report)
  \/ Confirm
  \/ Finish
  \/ Booked
  \/ SaveHeartbeat

FallbackStep(f) ==
  \/ JournalStep(f)
  \/ CheckEngineHealth(f)
  \/ ListActiveExits(f)
  \/ GetPositions(f)
  \/ \E c \in Coins : ScanPosition(f, c)
  \/ ScanDone(f)
  \/ \E c \in Coins, report \in Reports : FallbackClose(f, c, report)
  \/ FallbackExits(f)

Step ==
  \/ EngineStep
  \/ \E f \in Fallbacks : FallbackStep(f)
  \/ \E a \in Actors : QueryRaises(a) \/ Crash(a)
  \/ RestartEngine
  \/ Tick

Next == Step /\ UNCHANGED distressed

Spec == Init /\ [][Next]_vars

\* Both programs keep taking steps and time passes; nobody is bound to
\* restart the engine, and nothing is bound to fail.
Fairness ==
  /\ WF_vars(EngineStep /\ UNCHANGED distressed)
  /\ \A f \in Fallbacks : WF_vars(FallbackStep(f) /\ UNCHANGED distressed)
  /\ WF_vars(Tick /\ UNCHANGED distressed)

FairSpec == Spec /\ Fairness

-----------------------------------------------------------------------------
(* Properties. *)

Labels ==
  {"down", "off", "idle", "scan", "sweep", "claim", "attempt", "release",
   "truncate", "dump", "query", "close", "confirm", "finish", "booked", "beat",
   "list", "positions"}

Entries ==
  [coin : Coins, tid : {"hl", "fallback"}, owner : {"engine", "fallback"},
   age : 0..FreshFor]

TypeOK ==
  /\ distressed \subseteq Coins
  /\ size \in [Coins -> 0..MaxSize]
  /\ text \in {"ok", "empty", "garbled"} /\ stateText \in {"ok", "empty"}
  /\ exits \in Seq(Entries)
  /\ beat \in 0..(HeartbeatLimit + 1) /\ spent \in 0..(Budget + 1)
  /\ recorded \in [Coins -> Nat] /\ faults \in 0..MaxFaults
  /\ pc \in [Actors -> Labels] /\ next \in [Actors -> Labels]
  /\ coin \in [Actors -> Coins]
  /\ snap \in [Actors -> Seq(Entries)] /\ listed \in [Actors -> Seq(Entries)]
  /\ todo \in [Actors -> SUBSET Coins] /\ held \in [Actors -> SUBSET Coins]
  /\ tries \in 0..ForceRetries /\ force \in BOOLEAN

\* The engine books the close of a position only when the position is flat,
\* and once, whatever the reports said, whoever closed it, and wherever a
\* process was killed (record_close counts losses for the circuit breaker).
RecordedOnceAndFlat ==
  \A c \in Coins : recorded[c] <= 1 /\ (recorded[c] = 1 => size[c] = 0)

\* If the engine stays down and nothing leaves the journal unreadable, the
\* fallback closes every position: entries of a dead owner, its own failed
\* closes included, expire.
FallbackFlattens ==
  <>[](pc[Engine] = "down" /\ (text = "ok" \/ \E f \in Fallbacks : pc[f] = "dump"))
    => <>[](Live = {})

\* If the engine stays up, a position past its stop-loss is closed, whatever
\* entries earlier exits have left in the journal.
EngineFlattens ==
  <>[](pc[Engine] # "down") => <>[](Live \cap distressed = {})

\* The actors working on the exit of c: from a granted claim to its release.
Exiting(a, c) ==
  IF a = Engine
  THEN coin[a] = c /\ (\/ pc[a] \in {"query", "close", "confirm", "finish", "booked"}
                       \/ pc[a] = "attempt"
                       \/ pc[a] \in {"truncate", "dump"} /\ next[a] # "scan")
  ELSE c \in held[a]

\* "Ensures only one actor (engine or fallback) owns a risk exit at a time"
\* (exit_ownership.py:5).
OneActorPerExit ==
  \A c \in Coins, a, b \in Actors : Exiting(a, c) /\ Exiting(b, c) => a = b

\* "If engine dies or heartbeat goes stale -> FORCE CLOSE ALL POSITIONS"
\* (emergency_fallback.py:7), and only then.
FallbackOnlyWhenStale ==
  [][\A f \in Fallbacks :
       pc[f] = "off" /\ pc'[f] = "list"
         => pc[Engine] = "down" \/ beat > HeartbeatLimit]_vars

\* "Engine releases ownership even if all retries fail."
\* (tests/test_race_condition.py): a step that ends the engine's exit leaves
\* no entry of the engine in a readable journal.
ReleasedAfterRetries ==
  [][pc[Engine] \in {"query", "close", "confirm", "dump"} /\ pc'[Engine] = "scan"
       /\ text' = "ok"
       => \A i \in DOMAIN exits' : exits'[i].owner # "engine"]_vars

\* "If engine dies or heartbeat goes stale -> FORCE CLOSE ALL POSITIONS":
\* when the engine stays down, every position is closed in the end.
ClosedAfterEngineDies ==
  <>[](pc[Engine] = "down") => <>[](Live = {})

===============================================================================
