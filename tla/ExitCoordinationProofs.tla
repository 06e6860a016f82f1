------------------------ MODULE ExitCoordinationProofs ------------------------
(***************************************************************************)
(* For any number of coins, fallback runs, retries and faults, the engine  *)
(* books a close once and only for a flat position, and the journal and    *)
(* the exit loop stay well typed.                                          *)
(***************************************************************************)
EXTENDS ExitCoordination, TLAPS

\* The part of TypeOK the argument needs.
Types ==
  /\ size \in [Coins -> Nat] /\ recorded \in [Coins -> Nat]
  /\ faults \in Nat
  /\ pc \in [Actors -> Labels] /\ next \in [Actors -> Labels]
  /\ coin \in [Actors -> Coins]
  /\ todo \in [Actors -> SUBSET Coins] /\ held \in [Actors -> SUBSET Coins]

\* Journal calls return where their caller meant them to: a release to the
\* scan, a claim to the loop, an attempt to one of its continuations.
Continues ==
  /\ pc[Engine] \in {"query", "close", "confirm", "finish", "booked", "release"}
       => next[Engine] = "scan"
  /\ pc[Engine] = "claim" => next[Engine] = "query"
  /\ pc[Engine] = "attempt"
       => next[Engine] \in {"finish", "confirm", "query", "release"}
  /\ pc[Engine] \in {"truncate", "dump"}
       => next[Engine] \in {"finish", "confirm", "query", "release", "scan"}

Writing == pc[Engine] \in {"attempt", "truncate", "dump"}
BeforeBooking ==
  \/ pc[Engine] \in {"claim", "query", "close", "confirm", "finish"}
  \/ Writing /\ next[Engine] # "scan"
AboutToBook ==
  pc[Engine] = "finish" \/ (Writing /\ next[Engine] = "finish")

\* Inside an exit, before its booking, the coin is unbooked and not waiting
\* in the snapshot; about to be booked, it is flat.
Phase ==
  /\ \A c \in todo[Engine] : recorded[c] = 0
  /\ BeforeBooking
       => recorded[coin[Engine]] = 0 /\ coin[Engine] \notin todo[Engine]
  /\ AboutToBook => size[coin[Engine]] = 0

IInv == Types /\ Continues /\ Phase /\ RecordedOnceAndFlat

-----------------------------------------------------------------------------
\* Steps that leave the engine's view alone and only shrink positions.
Bystander ==
  /\ UNCHANGED recorded
  /\ pc'[Engine] = pc[Engine] /\ next'[Engine] = next[Engine]
  /\ coin'[Engine] = coin[Engine] /\ todo'[Engine] = todo[Engine]
  /\ \A c \in Coins : size'[c] <= size[c]

LEMMA BystanderKeeps ==
  ASSUME IInv, Bystander, Types'
  PROVE  IInv'
<1>1. Continues'
  BY DEF IInv, Continues, Bystander
<1>2. \A c \in Coins : size[c] = 0 => size'[c] = 0
  BY DEF IInv, Types, Bystander
<1>3. coin[Engine] \in Coins
  BY DEF IInv, Types, Actors
<1>4. Phase'
  BY <1>2, <1>3 DEF IInv, Phase, BeforeBooking, AboutToBook, Writing, Bystander
<1>5. RecordedOnceAndFlat'
  BY <1>2 DEF IInv, RecordedOnceAndFlat, Bystander
<1>. QED BY <1>1, <1>4, <1>5 DEF IInv

\* A market order never adds to a position and leaves other coins alone.
LEMMA MarketCloseShrinks ==
  ASSUME Types, NEW c \in Coins, NEW report, MarketClose(c, report)
  PROVE  /\ size' \in [Coins -> Nat]
         /\ \A d \in Coins : size'[d] <= size[d]
         /\ faults' \in Nat /\ faults' <= faults
<1>1. CASE size' = [size EXCEPT ![c] = 0] /\ UNCHANGED faults
  BY <1>1 DEF Types
<1>2. CASE /\ faults > 0 /\ faults' = faults - 1
           /\ \E left \in 0..size[c] : size' = [size EXCEPT ![c] = left]
  BY <1>2 DEF Types
<1>. QED BY <1>1, <1>2 DEF MarketClose

-----------------------------------------------------------------------------
\* Calls on the journal keep the invariant, whoever makes them.
LEMMA JournalKeeps ==
  ASSUME IInv, NEW a \in Actors, JournalStep(a)
  PROVE  IInv'
<1> USE DEF Actors
<1>1. Types'
  <2>1. CASE ReadRaises(a)
    BY <2>1 DEF IInv, Types, ReadRaises, Ends, Stop, Home, Labels
  <2>2. CASE ClaimExit(a)
    BY <2>2 DEF IInv, Types, ClaimExit, Return, Writes, Home, Labels
  <2>3. CASE RecordOrRelease(a)
    BY <2>3 DEF IInv, Types, RecordOrRelease, Return, Writes, Home, Labels
  <2>4. CASE Truncate(a)
    BY <2>4 DEF IInv, Types, Truncate, local, Labels
  <2>5. CASE Dump(a)
    BY <2>5 DEF IInv, Types, Dump, Return, Home, Labels
  <2>. QED BY <2>1, <2>2, <2>3, <2>4, <2>5 DEF JournalStep
<1>2. UNCHANGED <<size, recorded, coin>>
  BY DEF JournalStep, ReadRaises, ClaimExit, RecordOrRelease, Truncate, Dump,
         local
<1>3. CASE a # Engine
  <2>1. Bystander
    BY <1>2, <1>3 DEF Bystander, JournalStep, ReadRaises, ClaimExit,
       RecordOrRelease, Truncate, Dump, local, Ends, Return, Writes, IInv, Types
  <2>. QED BY <2>1, <1>1, BystanderKeeps
<1>4. CASE a = Engine
  <2>1. Continues' /\ Phase'
    <3>1. CASE ReadRaises(a)
      BY <3>1, <1>2, <1>4 DEF IInv, Types, Continues, Phase, BeforeBooking,
         AboutToBook, Writing, ReadRaises, Ends, Stop, Home
    <3>2. CASE ClaimExit(a)
      BY <3>2, <1>2, <1>4 DEF IInv, Types, Continues, Phase, BeforeBooking,
         AboutToBook, Writing, ClaimExit, Return, Writes, Home
    <3>3. CASE RecordOrRelease(a)
      BY <3>3, <1>2, <1>4 DEF IInv, Types, Continues, Phase, BeforeBooking,
         AboutToBook, Writing, RecordOrRelease, Return, Writes, Home
    <3>4. CASE Truncate(a)
      BY <3>4, <1>2, <1>4 DEF IInv, Types, Continues, Phase, BeforeBooking,
         AboutToBook, Writing, Truncate, local
    <3>5. CASE Dump(a)
      BY <3>5, <1>2, <1>4 DEF IInv, Types, Continues, Phase, BeforeBooking,
         AboutToBook, Writing, Dump, Return, Home
    <3>. QED BY <3>1, <3>2, <3>3, <3>4, <3>5 DEF JournalStep
  <2>2. RecordedOnceAndFlat'
    BY <1>2 DEF IInv, RecordedOnceAndFlat
  <2>. QED BY <1>1, <2>1, <2>2 DEF IInv
<1>. QED BY <1>3, <1>4

-----------------------------------------------------------------------------
\* Types are kept by the engine's own steps ...
LEMMA EngineTypes ==
  ASSUME IInv, EngineStep
  PROVE  Types'
<1> USE DEF Actors
<1>1. CASE JournalStep(Engine)
  BY <1>1, JournalKeeps DEF IInv
<1>2. CASE BeginCycle
  BY <1>2 DEF IInv, Types, BeginCycle, Goto, Labels, Live
<1>3. ASSUME NEW c \in Coins, NEW forced \in BOOLEAN, StartExit(c, forced)
      PROVE  Types'
  BY <1>3 DEF IInv, Types, StartExit, Goto, Labels
<1>4. ASSUME NEW c \in Coins, NoExit(c)
      PROVE  Types'
  BY <1>4 DEF IInv, Types, NoExit
<1>5. CASE Query
  BY <1>5 DEF IInv, Types, Query, Goto, Labels
<1>6. ASSUME NEW report \in Reports, EngineClose(report)
      PROVE  Types'
  <2>1. size' \in [Coins -> Nat] /\ faults' \in Nat
    BY <1>6, MarketCloseShrinks DEF EngineClose, IInv, Types
  <2>. QED BY <1>6, <2>1 DEF IInv, Types, EngineClose, Goto, Labels
<1>7. CASE Confirm \/ Booked \/ SaveHeartbeat
  BY <1>7 DEF IInv, Types, Confirm, Booked, SaveHeartbeat, Goto, Labels, local
<1>8. CASE Finish
  BY <1>8 DEF IInv, Types, Finish, Goto, Labels, local
<1>. QED BY <1>1, <1>2, <1>3, <1>4, <1>5, <1>6, <1>7, <1>8 DEF EngineStep

\* ... and so is the rest: the crux is Finish, which finds its coin flat and
\* unbooked, and BeginCycle, whose snapshot holds unbooked coins only.
LEMMA EngineKeeps ==
  ASSUME IInv, EngineStep
  PROVE  IInv'
<1> USE DEF Actors
<1>1. Types'
  BY EngineTypes
<1>2. CASE JournalStep(Engine)
  BY <1>2, JournalKeeps
<1>3. CASE BeginCycle
  <2>1. \A c \in Live : recorded[c] = 0
    BY DEF IInv, Types, RecordedOnceAndFlat, Live
  <2>. QED BY <1>1, <1>3, <2>1 DEF IInv, Types, Continues, Phase,
          BeforeBooking, AboutToBook, Writing, RecordedOnceAndFlat, BeginCycle, Goto
<1>4. ASSUME NEW c \in Coins, NEW forced \in BOOLEAN, StartExit(c, forced)
      PROVE  IInv'
  BY <1>1, <1>4 DEF IInv, Types, Continues, Phase, BeforeBooking, AboutToBook,
     Writing, RecordedOnceAndFlat, StartExit, Goto
<1>5. ASSUME NEW c \in Coins, NoExit(c)
      PROVE  IInv'
  BY <1>1, <1>5 DEF IInv, Types, Continues, Phase, BeforeBooking, AboutToBook,
     Writing, RecordedOnceAndFlat, NoExit
<1>6. CASE Query
  BY <1>1, <1>6 DEF IInv, Types, Continues, Phase, BeforeBooking, AboutToBook,
     Writing, RecordedOnceAndFlat, Query, Goto
<1>7. ASSUME NEW report \in Reports, EngineClose(report)
      PROVE  IInv'
  <2>1. \A d \in Coins : size'[d] <= size[d]
    BY <1>7, MarketCloseShrinks DEF EngineClose, IInv, Types
  <2>2. \A d \in Coins : size[d] = 0 => size'[d] = 0
    BY <1>1, <2>1 DEF IInv, Types
  <2>3. RecordedOnceAndFlat'
    BY <1>7, <2>2 DEF IInv, RecordedOnceAndFlat, EngineClose
  <2>4. Continues' /\ Phase'
    BY <1>7 DEF IInv, Types, Continues, Phase, BeforeBooking, AboutToBook,
       Writing, EngineClose, Goto
  <2>. QED BY <1>1, <2>3, <2>4 DEF IInv
<1>8. CASE Confirm
  BY <1>1, <1>8 DEF IInv, Types, Continues, Phase, BeforeBooking, AboutToBook,
     Writing, RecordedOnceAndFlat, Confirm, ConfirmedFlat, Goto, local
<1>9. CASE Finish
  <2>1. /\ recorded[coin[Engine]] = 0 /\ size[coin[Engine]] = 0
        /\ coin[Engine] \notin todo[Engine]
    BY <1>9 DEF IInv, Phase, BeforeBooking, AboutToBook, Finish
  <2>2. recorded' = [recorded EXCEPT ![coin[Engine]] = 1]
    BY <1>9, <2>1 DEF Finish, IInv, Types
  <2>3. RecordedOnceAndFlat'
    BY <1>9, <2>1, <2>2 DEF IInv, Types, RecordedOnceAndFlat, Finish
  <2>4. Continues' /\ Phase'
    BY <1>9, <2>1, <2>2 DEF IInv, Types, Continues, Phase, BeforeBooking,
       AboutToBook, Writing, Finish, Goto, local
  <2>. QED BY <1>1, <2>3, <2>4 DEF IInv
<1>10. CASE Booked \/ SaveHeartbeat
  BY <1>1, <1>10 DEF IInv, Types, Continues, Phase, BeforeBooking, AboutToBook,
     Writing, RecordedOnceAndFlat, Booked, SaveHeartbeat, Goto, local
<1>. QED BY <1>2, <1>3, <1>4, <1>5, <1>6, <1>7, <1>8, <1>9, <1>10
        DEF EngineStep

-----------------------------------------------------------------------------
\* A fallback's steps only shrink positions and touch nothing of the engine.
LEMMA FallbackKeeps ==
  ASSUME IInv, NEW f \in Fallbacks, FallbackStep(f)
  PROVE  IInv'
<1> USE DEF Actors
<1>1. f # Engine
  BY ActorsAssumption
<1>2. CASE JournalStep(f)
  BY <1>2, JournalKeeps
<1>3. CASE \/ CheckEngineHealth(f) \/ ListActiveExits(f) \/ GetPositions(f)
           \/ \E c \in Coins : ScanPosition(f, c)
           \/ ScanDone(f) \/ FallbackExits(f)
  <2>1. Types'
    <3>1. CASE CheckEngineHealth(f) \/ ScanDone(f)
      BY <3>1 DEF IInv, Types, CheckEngineHealth, ScanDone, Goto, Labels, local
    <3>2. CASE ListActiveExits(f) \/ GetPositions(f)
      BY <3>2 DEF IInv, Types, ListActiveExits, GetPositions, Goto, Labels, Live
    <3>3. ASSUME NEW c \in Coins, ScanPosition(f, c)
          PROVE  Types'
      BY <3>3 DEF IInv, Types, ScanPosition, Goto, Labels
    <3>4. CASE FallbackExits(f)
      BY <3>4 DEF IInv, Types, FallbackExits, Ends, Stop, Home, Labels
    <3>. QED BY <1>3, <3>1, <3>2, <3>3, <3>4
  <2>2. Bystander
    BY <1>1, <1>3 DEF IInv, Types, Bystander, CheckEngineHealth, ListActiveExits,
       GetPositions, ScanPosition, ScanDone, FallbackExits, Ends, Goto, local
  <2>. QED BY <2>1, <2>2, BystanderKeeps
<1>4. ASSUME NEW c \in Coins, NEW report \in Reports, FallbackClose(f, c, report)
      PROVE  IInv'
  <2>1. /\ size' \in [Coins -> Nat] /\ faults' \in Nat
        /\ \A d \in Coins : size'[d] <= size[d]
    BY <1>4, MarketCloseShrinks DEF FallbackClose, IInv
  <2>2. Types'
    BY <1>4, <2>1 DEF IInv, Types, FallbackClose, Goto, Labels
  <2>3. Bystander
    BY <1>1, <1>4, <2>1 DEF IInv, Types, Bystander, FallbackClose, Goto
  <2>. QED BY <2>2, <2>3, BystanderKeeps
<1>. QED BY <1>2, <1>3, <1>4 DEF FallbackStep

\* A process that ends, by a crash or by an exception, books nothing.
LEMMA EndKeeps ==
  ASSUME IInv, NEW a \in Actors, QueryRaises(a) \/ Crash(a)
  PROVE  IInv'
<1> USE DEF Actors
<1>0. /\ faults > 0 /\ faults' = faults - 1 /\ Ends(a)
      /\ UNCHANGED <<size, recorded, coin>>
  BY DEF QueryRaises, Crash
<1>1. Types'
  <2>1. faults' \in Nat
    BY <1>0 DEF IInv, Types
  <2>. QED BY <1>0, <2>1 DEF IInv, Types, Ends, Stop, Home, Labels
<1>2. CASE a # Engine
  <2>1. Bystander
    BY <1>0, <1>2 DEF IInv, Types, Bystander, Ends
  <2>. QED BY <1>1, <2>1, BystanderKeeps
<1>3. CASE a = Engine
  BY <1>0, <1>1, <1>3 DEF IInv, Types, Continues, Phase, BeforeBooking,
     AboutToBook, Writing, RecordedOnceAndFlat, Ends, Stop, Home
<1>. QED BY <1>2, <1>3

LEMMA StepKeeps ==
  ASSUME IInv, [Next]_vars
  PROVE  IInv'
<1> USE DEF Actors
<1>1. CASE RestartEngine
  BY <1>1 DEF IInv, Types, Continues, Phase, BeforeBooking, AboutToBook,
     Writing, RecordedOnceAndFlat, RestartEngine, Goto, local, Labels
<1>2. CASE Tick \/ UNCHANGED vars
  <2>1. Types'
    BY <1>2 DEF IInv, Types, Tick, vars, files, local
  <2>2. Bystander
    BY <1>2 DEF IInv, Types, Bystander, Tick, vars, local
  <2>. QED BY <2>1, <2>2, BystanderKeeps
<1>. QED BY <1>1, <1>2, EngineKeeps, FallbackKeeps, EndKeeps DEF Next, Step

LEMMA InitHolds ==
  ASSUME Init
  PROVE  IInv
<1>1. Types
  <2>1. (CHOOSE c \in Coins : TRUE) \in Coins
    BY CoinsAssumption
  <2>2. coin \in [Actors -> Coins]
    BY <2>1 DEF Init
  <2>3. size \in [Coins -> Nat]
    BY SizesAssumption DEF Init
  <2>4. /\ recorded \in [Coins -> Nat] /\ faults \in Nat
        /\ todo \in [Actors -> SUBSET Coins] /\ held \in [Actors -> SUBSET Coins]
    BY SizesAssumption DEF Init
  <2>5. pc \in [Actors -> Labels] /\ next \in [Actors -> Labels]
    BY DEF Init, Home, Labels
  <2>. QED BY <2>2, <2>3, <2>4, <2>5 DEF Types
<1>. QED BY <1>1 DEF Init, IInv, Continues, Phase, BeforeBooking, AboutToBook,
        Writing, RecordedOnceAndFlat, Actors

-----------------------------------------------------------------------------
(* Type correctness: what TypeOK says beyond Types.                         *)

Dicts == Seq(Entries)

Rest ==
  /\ distressed \subseteq Coins /\ faults <= MaxFaults
  /\ \A c \in Coins : size[c] <= MaxSize
  /\ text \in {"ok", "empty", "garbled"} /\ stateText \in {"ok", "empty"}
  /\ exits \in Dicts /\ snap \in [Actors -> Dicts] /\ listed \in [Actors -> Dicts]
  /\ beat \in 0..(HeartbeatLimit + 1) /\ spent \in 0..(Budget + 1)
  /\ tries \in 0..ForceRetries /\ force \in BOOLEAN

\* The loop is only entered again with a try left.
TryLeft ==
  pc[Engine] = "query" \/ (Writing /\ next[Engine] = "query")
    => tries < MaxRetries

Typed == Types /\ Rest /\ TryLeft

LEMMA ClaimedTyped ==
  ASSUME NEW dict \in Dicts, NEW a \in Actors, NEW c \in Coins
  PROVE  Claimed(dict, a, c) \in Dicts
<1>1. Entry(a, c) \in Entries
  BY SizesAssumption DEF Entry, Entries, Tid, Owner
<1>. QED BY <1>1 DEF Claimed, Dicts

LEMMA ReleasedTyped ==
  ASSUME NEW dict \in Dicts, NEW a \in Actors, NEW c \in Coins,
         KeyAt(dict, a, c) # {}
  PROVE  Released(dict, a, c) \in Dicts
<1> DEFINE i == CHOOSE i \in KeyAt(dict, a, c) : TRUE
<1>1. i \in 1..Len(dict)
  BY DEF KeyAt, Dicts
<1> HIDE DEF i
<1>2. /\ SubSeq(dict, 1, i - 1) \in Seq(Entries)
      /\ SubSeq(dict, i + 1, Len(dict)) \in Seq(Entries)
  BY <1>1 DEF Dicts
<1>3. SubSeq(dict, 1, i - 1) \o SubSeq(dict, i + 1, Len(dict)) \in Dicts
  BY <1>2 DEF Dicts
<1>. QED BY <1>3 DEF Released, i

LEMMA AgedTyped ==
  ASSUME NEW dict \in Dicts
  PROVE  Aged(dict) \in Dicts
<1>1. \A e \in Entries : [e EXCEPT !.age = Older(@, FreshFor)] \in Entries
  BY SizesAssumption DEF Entries, Older
<1>2. \A i \in DOMAIN dict : dict[i] \in Entries
  BY DEF Dicts
<1>. QED BY <1>1, <1>2 DEF Aged, Dicts

LEMMA OlderTyped ==
  ASSUME NEW limit \in Nat, NEW n \in 0..limit
  PROVE  Older(n, limit) \in 0..limit
BY DEF Older

LEMMA JournalTyped ==
  ASSUME Typed, Continues, NEW a \in Actors, JournalStep(a), UNCHANGED distressed
  PROVE  Rest' /\ TryLeft'
<1> USE DEF Actors
<1>0. coin[a] \in Coins /\ exits \in Dicts /\ snap[a] \in Dicts /\ <<>> \in Dicts
  BY DEF Typed, Types, Rest, Dicts
<1>1. CASE ReadRaises(a)
  <2>1. Rest'
    BY <1>0, <1>1 DEF Typed, Rest, ReadRaises, Ends, files, loop
  <2>2. TryLeft'
    BY <1>1, ActorsAssumption DEF Typed, Types, TryLeft, Writing, MaxRetries, ReadRaises, Ends, Stop, Home, loop
  <2>. QED BY <2>1, <2>2
<1>2. CASE ClaimExit(a)
  <2>1. Claimed(exits, a, coin[a]) \in Dicts /\ 0 \in 0..ForceRetries
    BY <1>0, ClaimedTyped, SizesAssumption
  <2>2. Rest'
    BY <1>0, <1>2, <2>1 DEF Typed, Rest, ClaimExit, Return, Writes, files
  <2>3. MaxRetries \in Nat \ {0}
    BY SizesAssumption DEF MaxRetries
  <2>4. TryLeft'
    BY <1>2, <2>3, ActorsAssumption DEF Typed, Types, Continues, TryLeft, Writing, MaxRetries, ClaimExit, Return,
       Writes, Home
  <2>. QED BY <2>2, <2>4
<1>3. CASE RecordOrRelease(a)
  <2>1. KeyAt(exits, a, coin[a]) # {} => Released(exits, a, coin[a]) \in Dicts
    BY <1>0, ReleasedTyped
  <2>2. Rest'
    BY <1>0, <1>3, <2>1 DEF Typed, Rest, RecordOrRelease, Return, Writes, files, loop
  <2>3. TryLeft'
    BY <1>3, ActorsAssumption DEF Typed, Types, Continues, TryLeft, Writing, MaxRetries, RecordOrRelease, Return,
       Writes, Home, loop
  <2>. QED BY <2>2, <2>3
<1>4. CASE Truncate(a)
  <2>1. Rest'
    BY <1>0, <1>4 DEF Typed, Rest, Truncate, local, loop
  <2>2. TryLeft'
    BY <1>4, ActorsAssumption DEF Typed, Types, TryLeft, Writing, MaxRetries, Truncate, local, loop
  <2>. QED BY <2>1, <2>2
<1>5. CASE Dump(a)
  <2>1. Rest'
    BY <1>0, <1>5 DEF Typed, Rest, Dump, Return, loop
  <2>2. TryLeft'
    BY <1>5, ActorsAssumption DEF Typed, Types, Continues, TryLeft, Writing, MaxRetries, Dump, Return, Home, loop
  <2>. QED BY <2>1, <2>2
<1>. QED BY <1>1, <1>2, <1>3, <1>4, <1>5 DEF JournalStep

\* An order of either actor leaves sizes and faults within their bounds.
LEMMA MarketCloseTyped ==
  ASSUME Typed, NEW c \in Coins, NEW report, MarketClose(c, report)
  PROVE  (\A d \in Coins : size'[d] <= MaxSize) /\ faults' <= MaxFaults
<1>1. /\ size' \in [Coins -> Nat] /\ faults' \in Nat /\ faults' <= faults
      /\ \A d \in Coins : size'[d] <= size[d]
  BY MarketCloseShrinks DEF Typed
<1>. QED BY <1>1, SizesAssumption DEF Typed, Types, Rest

LEMMA EngineTyped ==
  ASSUME Typed, Continues, EngineStep, UNCHANGED distressed
  PROVE  Rest' /\ TryLeft'
<1> USE DEF Actors
<1>0. MaxRetries \in Nat \ {0} /\ MaxRetries <= ForceRetries
  BY SizesAssumption DEF MaxRetries
<1>1. CASE JournalStep(Engine)
  BY <1>1, JournalTyped
<1>2. CASE BeginCycle
  BY <1>2, SizesAssumption DEF Typed, Types, Rest, TryLeft, Writing, MaxRetries, BeginCycle, Goto, files, loop
<1>3. ASSUME NEW c \in Coins, NEW forced \in BOOLEAN, StartExit(c, forced)
      PROVE  Rest' /\ TryLeft'
  BY <1>3 DEF Typed, Types, Rest, TryLeft, Writing, StartExit, Goto, files
<1>4. ASSUME NEW c \in Coins, NoExit(c)
      PROVE  Rest' /\ TryLeft'
  BY <1>4 DEF Typed, Rest, TryLeft, Writing, MaxRetries, NoExit, files, loop
<1>5. CASE Query
  <2>1. tries < MaxRetries /\ tries \in Nat
    BY <1>5 DEF Query, Typed, TryLeft, Rest
  <2>2. tries' \in 0..ForceRetries /\ spent' \in 0..(Budget + 1)
    BY <1>0, <1>5, <2>1, SizesAssumption DEF Query, Typed, Rest
  <2>3. Rest'
    BY <1>5, <2>2 DEF Typed, Rest, Query, files
  <2>4. TryLeft'
    BY <1>5 DEF Typed, Types, Continues, TryLeft, Writing, Query, Goto
  <2>. QED BY <2>3, <2>4
<1>6. ASSUME NEW report \in Reports, EngineClose(report)
      PROVE  Rest' /\ TryLeft'
  <2>1. (\A d \in Coins : size'[d] <= MaxSize) /\ faults' <= MaxFaults
    BY <1>6, MarketCloseTyped DEF EngineClose, Typed, Types
  <2>2. Rest'
    BY <1>6, <2>1 DEF Typed, Rest, EngineClose, files, loop
  <2>3. TryLeft'
    BY <1>6 DEF Typed, Types, TryLeft, Writing, MaxRetries, RetriesLeft, EngineClose, Goto, loop
  <2>. QED BY <2>2, <2>3
<1>7. CASE Confirm \/ Finish \/ Booked \/ SaveHeartbeat
  <2>1. Rest'
    BY <1>7, SizesAssumption DEF Typed, Rest, Confirm, Finish, Booked, SaveHeartbeat, files, local, loop
  <2>2. TryLeft'
    BY <1>7 DEF Typed, Types, TryLeft, Writing, MaxRetries, RetriesLeft, Confirm, Finish, Booked, SaveHeartbeat,
       Goto, local, loop
  <2>. QED BY <2>1, <2>2
<1>. QED BY <1>1, <1>2, <1>3, <1>4, <1>5, <1>6, <1>7 DEF EngineStep

LEMMA FallbackTyped ==
  ASSUME Typed, Continues, NEW f \in Fallbacks, FallbackStep(f), UNCHANGED distressed
  PROVE  Rest' /\ TryLeft'
<1> USE DEF Actors
<1>0. f # Engine
  BY ActorsAssumption
<1>1. CASE JournalStep(f)
  BY <1>1, JournalTyped
<1>2. TryLeft' \/ JournalStep(f)
  BY <1>0 DEF Typed, Types, TryLeft, Writing, MaxRetries, FallbackStep, CheckEngineHealth, ListActiveExits,
     GetPositions, ScanPosition, ScanDone, FallbackClose, FallbackExits, Ends, Goto, local, loop
<1>3. CASE CheckEngineHealth(f) \/ ScanDone(f)
  <2>1. Rest'
    BY <1>3 DEF Typed, Rest, CheckEngineHealth, ScanDone, files, local, loop
  <2>. QED BY <1>1, <1>2, <2>1
<1>4. CASE ListActiveExits(f) \/ GetPositions(f) \/ \E c \in Coins : ScanPosition(f, c)
  <2>1. Rest'
    BY <1>4 DEF Typed, Rest, ListActiveExits, GetPositions, ScanPosition, files, loop
  <2>. QED BY <1>1, <1>2, <2>1
<1>5. ASSUME NEW c \in Coins, NEW report \in Reports, FallbackClose(f, c, report)
      PROVE  Rest' /\ TryLeft'
  <2>1. (\A d \in Coins : size'[d] <= MaxSize) /\ faults' <= MaxFaults
    BY <1>5, MarketCloseTyped DEF FallbackClose
  <2>2. Rest'
    BY <1>5, <2>1 DEF Typed, Rest, FallbackClose, files, loop
  <2>. QED BY <1>1, <1>2, <2>2
<1>6. CASE FallbackExits(f)
  <2>1. <<>> \in Dicts
    BY DEF Dicts
  <2>2. Rest'
    BY <1>6, <2>1 DEF Typed, Rest, FallbackExits, Ends, files, loop
  <2>. QED BY <1>1, <1>2, <2>2
<1>. QED BY <1>1, <1>3, <1>4, <1>5, <1>6 DEF FallbackStep

LEMMA EndTyped ==
  ASSUME Typed, NEW a \in Actors, QueryRaises(a) \/ Crash(a), UNCHANGED distressed
  PROVE  Rest' /\ TryLeft'
<1> USE DEF Actors
<1>1. /\ faults > 0 /\ faults' = faults - 1 /\ Ends(a)
      /\ UNCHANGED <<size, text, exits, stateText, beat, loop>>
  BY DEF QueryRaises, Crash, files
<1>2. <<>> \in Dicts /\ faults \in Nat
  BY DEF Dicts, Typed, Types
<1>3. faults' <= MaxFaults
  BY <1>1, <1>2, SizesAssumption DEF Typed, Rest
<1>4. Rest'
  BY <1>1, <1>2, <1>3 DEF Typed, Rest, Ends, loop
<1>5. TryLeft'
  BY <1>1, ActorsAssumption DEF Typed, Types, TryLeft, Writing, MaxRetries, Ends, Stop, Home, loop
<1>. QED BY <1>4, <1>5

\* A tick only raises ages, and a restart only the heartbeat's.
LEMMA TimeTyped ==
  ASSUME Typed, Tick \/ RestartEngine \/ UNCHANGED vars, UNCHANGED distressed
  PROVE  Rest' /\ TryLeft'
<1> USE DEF Actors
<1>1. CASE Tick
  <2>1. /\ exits' \in Dicts /\ snap' \in [Actors -> Dicts] /\ listed' \in [Actors -> Dicts]
    BY <1>1, AgedTyped DEF Tick, Typed, Rest
  <2>2. beat' \in 0..(HeartbeatLimit + 1) /\ spent' \in 0..(Budget + 1)
    BY <1>1, OlderTyped, SizesAssumption DEF Tick, Typed, Rest
  <2>3. Rest'
    BY <1>1, <2>1, <2>2 DEF Tick, Typed, Rest
  <2>4. TryLeft'
    BY <1>1 DEF Tick, Typed, TryLeft, Writing, MaxRetries
  <2>. QED BY <2>3, <2>4
<1>2. CASE RestartEngine
  <2>1. beat' \in 0..(HeartbeatLimit + 1)
    BY <1>2, SizesAssumption DEF RestartEngine, Typed, Rest
  <2>2. Rest'
    BY <1>2, <2>1 DEF RestartEngine, Typed, Rest, local, loop
  <2>3. TryLeft'
    BY <1>2 DEF RestartEngine, Typed, Types, TryLeft, Writing, Goto, local, loop
  <2>. QED BY <2>2, <2>3
<1>3. CASE UNCHANGED vars
  BY <1>3 DEF Typed, Rest, TryLeft, Writing, MaxRetries, vars, files, local, loop
<1>. QED BY <1>1, <1>2, <1>3

LEMMA InitTyped ==
  ASSUME Init
  PROVE  Rest /\ TryLeft
<1>1. <<>> \in Dicts
  BY DEF Dicts
<1>2. \A c \in Coins : size[c] <= MaxSize
  BY SizesAssumption DEF Init
<1>3. /\ faults <= MaxFaults /\ beat \in 0..(HeartbeatLimit + 1)
      /\ spent \in 0..(Budget + 1) /\ tries \in 0..ForceRetries
  BY SizesAssumption DEF Init
<1>4. /\ distressed \subseteq Coins /\ text = "ok" /\ stateText = "ok"
      /\ exits \in Dicts /\ snap \in [Actors -> Dicts] /\ listed \in [Actors -> Dicts]
      /\ force \in BOOLEAN
  BY <1>1 DEF Init
<1>5. Rest
  BY <1>2, <1>3, <1>4 DEF Rest
<1>6. TryLeft
  BY DEF Init, TryLeft, Writing, Actors
<1>. QED BY <1>5, <1>6

\* Every variable stays well typed; in particular the loop makes at most
\* max_retries tries, although partial fills and errors lead back to its top.
THEOREM ExitTypes == Spec => []TypeOK
<1>1. Init => IInv /\ Rest /\ TryLeft
  BY InitHolds, InitTyped
<1>2. IInv /\ Rest /\ TryLeft /\ [Next]_vars => (IInv /\ Rest /\ TryLeft)'
  <2> SUFFICES ASSUME IInv, Rest, TryLeft, [Next]_vars
               PROVE  Rest' /\ TryLeft'
    BY StepKeeps
  <2>1. Typed /\ Continues
    BY DEF Typed, IInv
  <2>2. UNCHANGED distressed
    BY DEF Next, vars
  <2>. QED BY <2>1, <2>2, EngineTyped, FallbackTyped, EndTyped, TimeTyped DEF Next, Step
<1>3. IInv /\ Rest => TypeOK
  <2> SUFFICES ASSUME IInv, Rest
               PROVE  TypeOK
    OBVIOUS
  <2>1. size \in [Coins -> 0..MaxSize]
    BY SizesAssumption DEF IInv, Types, Rest
  <2>2. faults \in 0..MaxFaults
    BY SizesAssumption DEF IInv, Types, Rest
  <2>. QED BY <2>1, <2>2 DEF IInv, Types, Rest, TypeOK, Dicts
<1>. QED BY <1>1, <1>2, <1>3, PTL DEF Spec

\* However the engine, any number of overlapping fallback runs, crashes, lost
\* writes and failed, partial or unknown closes interleave, record_close runs
\* at most once per position and only when the exchange holds nothing of it.
THEOREM BookedOnceAndFlat == Spec => []RecordedOnceAndFlat
<1>1. Init => IInv
  BY InitHolds
<1>2. IInv /\ [Next]_vars => IInv'
  BY StepKeeps
<1>3. IInv => RecordedOnceAndFlat
  BY DEF IInv
<1>. QED BY <1>1, <1>2, <1>3, PTL DEF Spec

==============================================================================
