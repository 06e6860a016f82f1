---------------------------- MODULE MarketProofs -----------------------------
(***************************************************************************)
(* From market data to signals: what hysteresis guarantees for every       *)
(* setting of the thresholds, why the orchestrator handles a logged        *)
(* transition at most once and in order, and what a signal rests on.       *)
(***************************************************************************)
EXTENDS LiveFeed, SignalPipeline, FiniteSetTheorems, WellFoundedInduction, TLAPS

(* LiveFeed: the regime detector, the engine log and the orchestrator.     *)

(* Hysteresis. *)

\* The level a downgrade stops at exists, and no level above the raw
\* classification of a consistent market is skipped on the way.
LEMMA DowngradeStops ==
  ASSUME NEW prev \in Regimes, NEW m, Consistent(m)
  PROVE  LET d == Downgrade(prev, m)
         IN  /\ d \in 0..prev /\ ~ShouldExit(d, m)
             /\ \A k \in (d + 1)..prev : ShouldExit(k, m)
<1>1. \E l \in 0..prev :
        ~ShouldExit(l, m) /\ \A k \in (l + 1)..prev : ShouldExit(k, m)
  <2>0. ~ShouldExit(0, m)
    BY DEF ShouldExit, EXTREME, HIGH_FUNDING, MODERATE
  <2>1. CASE prev = 0
    BY <2>0, <2>1
  <2>2. CASE prev = 1
    <3>1. CASE ShouldExit(1, m)
      BY <2>0, <2>2, <3>1
    <3>2. CASE ~ShouldExit(1, m)
      BY <2>2, <3>2
    <3>. QED BY <3>1, <3>2
  <2>3. CASE prev = 2
    <3>1. CASE ~ShouldExit(2, m)
      BY <2>3, <3>1
    <3>2. CASE ShouldExit(2, m) /\ ~ShouldExit(1, m)
      BY <2>3, <3>2
    <3>3. CASE ShouldExit(2, m) /\ ShouldExit(1, m)
      BY <2>0, <2>3, <3>3
    <3>. QED BY <3>1, <3>2, <3>3
  <2>4. CASE prev = 3
    <3>1. CASE ~ShouldExit(3, m)
      BY <2>4, <3>1
    <3>2. CASE ShouldExit(3, m) /\ ~ShouldExit(2, m)
      BY <2>4, <3>2
    <3>3. CASE ShouldExit(3, m) /\ ShouldExit(2, m) /\ ~ShouldExit(1, m)
      BY <2>4, <3>3
    <3>4. CASE ShouldExit(3, m) /\ ShouldExit(2, m) /\ ShouldExit(1, m)
      BY <2>0, <2>4, <3>4
    <3>. QED BY <3>1, <3>2, <3>3, <3>4
  <2>. QED BY <2>1, <2>2, <2>3, <2>4 DEF Regimes
<1>. QED BY <1>1 DEF Downgrade

LEMMA ClassifyType ==
  ASSUME NEW m
  PROVE  ClassifyRegime(m) \in Regimes
BY DEF ClassifyRegime, Regimes, EXTREME, HIGH_FUNDING, MODERATE, LOW_FUNDING

\* A level the market's classification reaches is never left.
LEMMA ReachedIsKept ==
  ASSUME NEW m, Consistent(m), NEW k \in Regimes, k <= ClassifyRegime(m)
  PROVE  ~ShouldExit(k, m)
BY ThresholdsAssumption
   DEF Consistent, ClassifyRegime, ShouldExit, Regimes,
       EXTREME, HIGH_FUNDING, MODERATE, LOW_FUNDING

\* apply_hysteresis never gives a regime below the one the market shows now,
\* for any thresholds ordered as in config/regime_thresholds.py.
LEMMA HysteresisNeverBelow ==
  ASSUME NEW prev \in Regimes, NEW m, Consistent(m)
  PROVE  /\ ApplyHysteresis(prev, m) \in Regimes
         /\ ApplyHysteresis(prev, m) >= ClassifyRegime(m)
<1>1. ClassifyRegime(m) \in Regimes
  BY ClassifyType
<1>2. CASE ClassifyRegime(m) >= prev
  BY <1>1, <1>2 DEF ApplyHysteresis, Regimes
<1>3. CASE ~(ClassifyRegime(m) >= prev)
  <2>. DEFINE d == Downgrade(prev, m)
  <2>1. /\ d \in 0..prev
        /\ \A k \in (d + 1)..prev : ShouldExit(k, m)
    BY DowngradeStops
  <2>2. ~ShouldExit(ClassifyRegime(m), m)
    BY <1>1, ReachedIsKept DEF Regimes
  <2>3. ~(ClassifyRegime(m) \in (d + 1)..prev)
    BY <2>1, <2>2
  <2>4. d \in Regimes /\ d >= ClassifyRegime(m)
    BY <1>1, <1>3, <2>1, <2>3 DEF Regimes
  <2>. QED BY <1>3, <2>4 DEF ApplyHysteresis
<1>. QED BY <1>2, <1>3

\* The same market seen again changes nothing: apply_hysteresis settles in one
\* scan, so a steady market logs no transition.
THEOREM HysteresisSettles ==
  ASSUME NEW prev \in Regimes, NEW m, Consistent(m)
  PROVE  ApplyHysteresis(ApplyHysteresis(prev, m), m) = ApplyHysteresis(prev, m)
<1>. DEFINE r == ClassifyRegime(m)
            n == ApplyHysteresis(prev, m)
<1>1. r \in Regimes /\ n \in Regimes /\ n >= r
  BY ClassifyType, HysteresisNeverBelow
<1>2. CASE n = r
  BY <1>1, <1>2 DEF ApplyHysteresis, Regimes
<1>3. CASE n # r
  <2>1. ~(r >= prev) /\ n = Downgrade(prev, m)
    BY <1>3 DEF ApplyHysteresis
  <2>2. ~ShouldExit(n, m)
    BY <2>1, DowngradeStops
  <2>3. ~(r >= n)
    BY <1>1, <1>3 DEF Regimes
  <2>4. /\ Downgrade(n, m) \in 0..n
        /\ \A k \in (Downgrade(n, m) + 1)..n : ShouldExit(k, m)
    BY <1>1, DowngradeStops
  <2>5. Downgrade(n, m) = n
    BY <1>1, <2>2, <2>4 DEF Regimes
  <2>. QED BY <2>3, <2>5 DEF ApplyHysteresis
<1>. QED BY <1>2, <1>3

-----------------------------------------------------------------------------
(* The inductive invariant. *)

Lines == [event : {"regime_updated", "regime_status"}, regime : Regimes,
          prev : Regimes \cup {NoRegime}, top : Assets \cup {NoAsset, Null}]
QueuedEvents == [idx : Nat, regime : 0..2, asset : Assets \cup {NoAsset}]

\* A readable state file holds a regime.
Readable == text = "ok" => saved.regime \in Regimes

\* Where reading stands: behind what was taken from the file only by the
\* lines not yet parsed, unless the file was truncated since.
Position ==
  /\ at <= end + 1
  /\ base >= end \/ base + pos = end

IInv == TypeOK /\ InOrderOnce /\ NeverBelowMarket /\ Readable /\ Position

\* What InOrderOnce says, over an interval, with the types it leaves out.
LEMMA QueueFacts ==
  ASSUME IInv
  PROVE  /\ queue \in Seq(QueuedEvents) /\ DOMAIN queue = 1..Len(queue) /\ Len(queue) \in Nat
         /\ \A i \in 1..Len(queue) :
              queue[i].idx \in Nat /\ last < queue[i].idx /\ queue[i].idx < at
         /\ \A i, j \in 1..Len(queue) : i < j => queue[i].idx < queue[j].idx
<1>1. queue \in Seq(QueuedEvents)
  BY DEF IInv, TypeOK, QueuedEvents
<1>2. DOMAIN queue = 1..Len(queue) /\ Len(queue) \in Nat
  BY <1>1
<1>3. \A i \in 1..Len(queue) : queue[i].idx \in Nat
  <2>1. ASSUME NEW i \in 1..Len(queue) PROVE queue[i].idx \in Nat
    <3>1. queue[i] \in QueuedEvents
      BY <1>1
    <3>. QED BY <3>1 DEF QueuedEvents
  <2>. QED BY <2>1
<1>. QED BY <1>1, <1>2, <1>3 DEF IInv, InOrderOnce

LEMMA InitIInv == Init => IInv
<1>. SUFFICES ASSUME Init PROVE IInv
  OBVIOUS
<1>. USE DEF Init, NoStatus, NoScan, NoRegime, LOW_FUNDING, Regimes
<1>1. saved \in Status /\ cached \in Status
  BY DEF Status
<1>2. scan \in [regime : Regimes, raw : Regimes, prev : Regimes,
                top : Assets \cup {NoAsset}, was : Regimes \cup {NoRegime}]
  OBVIOUS
<1>3. log \in Seq(Lines) /\ Len(log) = 0 /\ queue \in Seq(QueuedEvents)
  OBVIOUS
<1>4. /\ rotations \in 0..MaxRotations /\ faults \in 0..MaxFaults
      /\ held \subseteq Assets /\ lost \subseteq Nat
      /\ base \in 0..Len(log) /\ end \in 0..Len(log)
      /\ pos \in Nat /\ at \in Nat /\ last \in Nat
  BY <1>3, FeedBoundsAssumption
<1>5. TypeOK
  <2>1. /\ text \in {"none", "torn", "ok"} /\ stale \in BOOLEAN
        /\ epc \in {"idle", "write", "change", "status"}
        /\ opc \in {"down", "seek", "startup", "watch"}
    OBVIOUS
  <2>. QED BY ONLY <1>1, <1>2, <1>3, <1>4, <2>1 DEF TypeOK, Lines, QueuedEvents
<1>6. InOrderOnce /\ NeverBelowMarket /\ Readable /\ Position
  BY DEF InOrderOnce, NeverBelowMarket, Readable, Position
<1>. QED BY <1>5, <1>6 DEF IInv

\* A market is what Consistent asks for, and names an asset or none.
LEMMA MarketType ==
  ASSUME NEW m \in Markets
  PROVE  Consistent(m) /\ m.top \in Assets \cup {NoAsset}
BY MarketsAssumption

LEMMA DetectKeeps ==
  ASSUME IInv, NEW m \in Markets, Detect(m)
  PROVE  IInv'
<1>1. /\ PreviousRegime \in Regimes /\ GetActiveRegime \in Regimes
      /\ (IF text = "ok" THEN saved.regime ELSE NoRegime) \in Regimes \cup {NoRegime}
  BY DEF IInv, Readable, PreviousRegime, GetActiveRegime, Loaded, Regimes,
         LOW_FUNDING, HIGH_FUNDING
<1>2. /\ ApplyHysteresis(PreviousRegime, m) \in Regimes
      /\ ApplyHysteresis(PreviousRegime, m) >= ClassifyRegime(m)
      /\ ClassifyRegime(m) \in Regimes
  BY <1>1, MarketType, HysteresisNeverBelow, ClassifyType
<1>3. /\ scan' \in [regime : Regimes, raw : Regimes, prev : Regimes,
                    top : Assets \cup {NoAsset}, was : Regimes \cup {NoRegime}]
      /\ scan'.regime >= scan'.raw
  BY <1>1, <1>2, MarketType DEF Detect
<1>4. text' = "torn" /\ epc' = "write"
      /\ UNCHANGED <<saved, stale, log, base, rotations, opc, pos, at, end, cached,
                     queue, held, last, lost, faults>>
  BY DEF Detect, world, reader
<1>. QED
  BY <1>3, <1>4 DEF IInv, TypeOK, InOrderOnce, NeverBelowMarket, Readable, Position

LEMMA EngineKeeps ==
  ASSUME IInv, SaveRegimeState \/ LogChange \/ LogStatus \/ ScanEnds \/ Expire \/ Rotate
  PROVE  IInv'
<1>1. CASE SaveRegimeState
  BY <1>1 DEF SaveRegimeState, IInv, TypeOK, Status, InOrderOnce, NeverBelowMarket,
              Readable, Position, world, reader
<1>2. CASE LogChange
  <2>1. Line("regime_updated", scan.regime, scan.prev, NoAsset) \in Lines
    BY DEF IInv, TypeOK, Lines, Line
  <2>2. log' \in Seq(Lines) /\ Len(log') >= Len(log)
    <3>1. log \in Seq(Lines) /\ Len(log) \in Nat
      BY DEF IInv, TypeOK, Lines
    <3>2. \/ log' = log
          \/ log' = Append(log, Line("regime_updated", scan.regime, scan.prev, NoAsset))
      BY <1>2 DEF LogChange
    <3>. QED BY <2>1, <3>1, <3>2
  <2>3. Len(log) \in Nat /\ Len(log') \in Nat
    BY <2>2 DEF IInv, TypeOK
  <2>. QED
    BY <1>2, <2>2, <2>3
    DEF LogChange, IInv, TypeOK, Lines, InOrderOnce, NeverBelowMarket, Readable,
        Position, world, reader, state
<1>3. CASE LogStatus
  <2>1. PICK top \in StatusTops :
          log' = Append(log, Line("regime_status", scan.regime, NoRegime, top))
    BY <1>3 DEF LogStatus
  <2>2. Line("regime_status", scan.regime, NoRegime, top) \in Lines
    BY DEF IInv, TypeOK, Lines, Line, StatusTops
  <2>3. log' \in Seq(Lines) /\ Len(log') = Len(log) + 1 /\ Len(log) \in Nat
    BY <2>1, <2>2 DEF IInv, TypeOK, Lines
  <2>4. NoScan \in [regime : Regimes, raw : Regimes, prev : Regimes,
                    top : Assets \cup {NoAsset}, was : Regimes \cup {NoRegime}]
    BY DEF NoScan, Regimes, LOW_FUNDING
  <2>5. NoScan.regime >= NoScan.raw
    BY DEF NoScan, LOW_FUNDING
  <2>. QED
    BY <1>3, <2>3, <2>4, <2>5
    DEF LogStatus, IInv, TypeOK, Lines, InOrderOnce, NeverBelowMarket, Readable,
        Position, world, reader, state
<1>4. CASE ScanEnds
  <2>1. NoScan \in [regime : Regimes, raw : Regimes, prev : Regimes,
                    top : Assets \cup {NoAsset}, was : Regimes \cup {NoRegime}]
    BY DEF NoScan, Regimes, LOW_FUNDING
  <2>2. NoScan.regime >= NoScan.raw
    BY DEF NoScan, LOW_FUNDING
  <2>3. faults' \in 0..MaxFaults
    BY <1>4, FeedBoundsAssumption DEF ScanEnds, IInv, TypeOK
  <2>. QED
    BY <1>4, <2>1, <2>2, <2>3
    DEF ScanEnds, IInv, TypeOK, InOrderOnce, NeverBelowMarket, Readable, Position,
        world, reader, state
<1>5. CASE Expire
  BY <1>5 DEF Expire, IInv, TypeOK, InOrderOnce, NeverBelowMarket, Readable, Position,
              world, reader, engine
<1>6. CASE Rotate
  <2>1. Len(log) \in Nat
    BY DEF IInv, TypeOK
  <2>2. rotations' \in 0..MaxRotations /\ base' \in 0..Len(log) /\ base' >= end
    BY <1>6, <2>1, FeedBoundsAssumption DEF Rotate, IInv, TypeOK
  <2>. QED
    BY <1>6, <2>2
    DEF Rotate, IInv, TypeOK, InOrderOnce, NeverBelowMarket, Readable, Position,
        state, engine, reader
<1>. QED BY <1>1, <1>2, <1>3, <1>4, <1>5, <1>6

\* Reading starts again only behind everything read before.
LEMMA PollKeeps ==
  ASSUME IInv, Poll
  PROVE  IInv'
<1>. DEFINE size == Len(log) - base
            p    == StartOfRead
<1>1. /\ Len(log) \in Nat /\ base \in 0..Len(log) /\ end \in 0..Len(log)
      /\ pos \in Nat /\ at \in Nat /\ last \in Nat /\ at = end + 1
      /\ base >= end \/ base + pos = end
  BY DEF IInv, TypeOK, Position, Poll
<1>2. size \in Nat /\ p = IF size < pos THEN 0 ELSE pos
  BY <1>1 DEF StartOfRead, FileSize
<1>3. p \in Nat /\ p <= size /\ base + p >= end
  BY <1>1, <1>2
<1>4. /\ at' \in Nat /\ end' \in 0..Len(log) /\ pos' \in Nat
      /\ at' >= at /\ at' <= end' + 1 /\ (base >= end' \/ base + pos' = end')
  <2>1. CASE size # p
    <3>1. at' = base + p + 1 /\ end' = Len(log) /\ pos' = size
      BY <2>1 DEF Poll, Unread, FileSize
    <3>. QED BY <1>1, <1>2, <1>3, <3>1
  <2>2. CASE size = p
    <3>1. at' = at /\ end' = end /\ pos' = p
      BY <2>2 DEF Poll, Unread, FileSize
    <3>. QED BY <1>1, <1>2, <1>3, <2>2, <3>1
  <2>. QED BY <2>1, <2>2
<1>5. queue = <<>> /\ queue' = <<>> /\ last' = last
  BY DEF Poll
<1>6. InOrderOnce'
  BY <1>1, <1>4, <1>5 DEF InOrderOnce, IInv
<1>7. UNCHANGED <<text, saved, stale, epc, scan, log, base, rotations, opc, cached,
                  held, lost, faults>>
  BY DEF Poll, state, engine, world
<1>. QED
  BY <1>1, <1>4, <1>5, <1>6, <1>7
  DEF IInv, TypeOK, NeverBelowMarket, Readable, Position

\* A line that raises leaves an empty queue behind the batch.
LEMMA PollRaisesKeeps ==
  ASSUME IInv, at <= end, PollRaises(log[at])
  PROVE  /\ queue' \in Seq(QueuedEvents) /\ at' \in Nat /\ at' = end + 1
         /\ cached' = cached /\ held' = held /\ lost' \subseteq Nat
         /\ last' = last => InOrderOnce'
<1>1. /\ at \in Nat /\ end \in Nat /\ last \in Nat /\ last < at /\ lost \subseteq Nat
  BY DEF IInv, TypeOK, InOrderOnce
<1>2. {queue[i].idx : i \in DOMAIN queue} \subseteq Nat /\ at..end \subseteq Nat
  BY <1>1, QueueFacts
<1>3. /\ at' = end + 1 /\ queue' = <<>> /\ cached' = cached /\ held' = held
      /\ lost' = lost \cup {queue[i].idx : i \in DOMAIN queue} \cup at..end
  BY DEF PollRaises
<1>4. queue' \in Seq(QueuedEvents)
  BY <1>3
<1>5. lost' \subseteq Nat
  <2>. DEFINE I == {queue[i].idx : i \in DOMAIN queue}
              B == at..end
  <2>1. I \subseteq Nat /\ B \subseteq Nat /\ lost' = lost \cup I \cup B
    BY <1>2, <1>3
  <2>. HIDE DEF I, B
  <2>. QED BY <1>1, <2>1
<1>6. last' = last => InOrderOnce'
  BY <1>1, <1>3 DEF InOrderOnce
<1>. QED BY <1>1, <1>3, <1>4, <1>5, <1>6

\* A line that does not raise is queued at most once, behind those before it.
LEMMA LineParsed ==
  ASSUME IInv, at <= end, last' = last, ParseStatus(log[at]) \/ ParseUpdate(log[at])
  PROVE  /\ queue' \in Seq(QueuedEvents) /\ at' \in Nat /\ at' = at + 1
         /\ cached' \in Status /\ held' \subseteq Assets /\ lost' = lost
         /\ InOrderOnce'
<1>. DEFINE line == log[at]
            e    == [idx |-> at, regime |-> line.regime, asset |-> ResolveTopAsset]
<1>1. /\ at \in Nat /\ end \in 0..Len(log) /\ Len(log) \in Nat
      /\ at' = at + 1 /\ last < at /\ lost' = lost
      /\ queue \in Seq(QueuedEvents) /\ log \in Seq(Lines)
  BY DEF IInv, TypeOK, InOrderOnce, ParseStatus, ParseUpdate, QueuedEvents, Lines
<1>2. at # 0
  BY <1>1 DEF IInv, TypeOK, InOrderOnce
<1>3. line \in Lines
  BY <1>1, <1>2
<1>4. ResolveTopAsset \in Assets \cup {NoAsset, Null}
  BY DEF IInv, TypeOK, Status, ResolveTopAsset
<1>5. cached' \in Status /\ held' \subseteq Assets
  <2>1. CASE ParseStatus(line)
    BY <1>3, <2>1 DEF ParseStatus, IInv, TypeOK, Status, Lines, CheckPaperExits
  <2>2. CASE ParseUpdate(line)
    BY <2>2 DEF ParseUpdate, IInv, TypeOK
  <2>. QED BY <2>1, <2>2
<1>6. \/ queue' = queue
      \/ queue' = Append(queue, e) /\ Mapped(line.regime) /\ ResolveTopAsset # Null
  BY DEF ParseStatus, ParseUpdate, ParseRaises, IsTransition
<1>7. queue' \in Seq(QueuedEvents) /\ InOrderOnce'
  <2>1. CASE queue' = queue
    <3>1. last \in Nat /\ DOMAIN queue' = 1..Len(queue)
      BY <2>1, QueueFacts DEF IInv, TypeOK
    <3>. QED BY <1>1, <2>1, <3>1, QueueFacts DEF InOrderOnce
  <2>2. CASE queue' = Append(queue, e) /\ Mapped(line.regime) /\ ResolveTopAsset # Null
    <3>1. e \in QueuedEvents
      BY <1>1, <1>3, <1>4, <2>2
      DEF QueuedEvents, Mapped, LOW_FUNDING, MODERATE, HIGH_FUNDING
    <3>2. /\ queue' \in Seq(QueuedEvents)
          /\ Len(queue') = Len(queue) + 1 /\ Len(queue) \in Nat
          /\ queue'[Len(queue) + 1] = e
          /\ \A i \in 1..Len(queue) : queue'[i] = queue[i]
      BY <1>1, <2>2, <3>1
    <3>3. e.idx = at
      OBVIOUS
    <3>4. \A i \in 1..Len(queue) :
            queue[i].idx \in Nat /\ last < queue[i].idx /\ queue[i].idx < at
      BY QueueFacts
    <3>5. \A i, j \in 1..Len(queue) : i < j => queue[i].idx < queue[j].idx
      BY QueueFacts
    <3>6. DOMAIN queue' = 1..(Len(queue) + 1)
      BY <3>2
    <3>. HIDE DEF e
    <3>7. \A i \in DOMAIN queue' : last < queue'[i].idx /\ queue'[i].idx < at + 1
      BY <1>1, <3>2, <3>3, <3>4, <3>6
    <3>8. \A i, j \in DOMAIN queue' : i < j => queue'[i].idx < queue'[j].idx
      BY <1>1, <3>2, <3>3, <3>4, <3>5, <3>6
    <3>9. last \in Nat
      BY DEF IInv, TypeOK
    <3>. QED BY <1>1, <3>2, <3>7, <3>8, <3>9 DEF InOrderOnce
  <2>. QED BY <1>6, <2>1, <2>2
<1>. QED BY <1>1, <1>5, <1>7

LEMMA ParseKeeps ==
  ASSUME IInv, ParseEvent
  PROVE  IInv'
<1>1. /\ at <= end /\ last' = last /\ at \in Nat /\ end \in Nat
      /\ cached \in Status /\ held \subseteq Assets /\ lost \subseteq Nat
  BY DEF ParseEvent, IInv, TypeOK
<1>2. /\ queue' \in Seq(QueuedEvents) /\ at' \in Nat /\ at' <= end + 1
      /\ cached' \in Status /\ held' \subseteq Assets /\ lost' \subseteq Nat
      /\ InOrderOnce'
  <2>1. CASE PollRaises(log[at])
    BY <1>1, <2>1, PollRaisesKeeps
  <2>2. CASE ParseStatus(log[at]) \/ ParseUpdate(log[at])
    <3>1. /\ queue' \in Seq(QueuedEvents) /\ at' \in Nat /\ at' = at + 1
          /\ cached' \in Status /\ held' \subseteq Assets /\ lost' = lost
          /\ InOrderOnce'
      BY <1>1, <2>2, LineParsed
    <3>. QED BY <1>1, <3>1
  <2>. QED BY <2>1, <2>2 DEF ParseEvent
<1>3. UNCHANGED <<text, saved, stale, epc, scan, log, base, rotations, opc, end, pos,
                  last, faults>>
  BY DEF ParseEvent, state, engine, world
<1>. QED
  BY <1>1, <1>2, <1>3
  DEF IInv, TypeOK, QueuedEvents, NeverBelowMarket, Readable, Position

LEMMA HandleEventType ==
  ASSUME IInv, NEW regime, NEW asset \in Assets \cup {NoAsset},
         HandleEvent(regime, asset)
  PROVE  held' \subseteq Assets /\ faults' \in 0..MaxFaults
<1>1. held \subseteq Assets /\ faults \in 0..MaxFaults /\ MaxFaults \in Nat
  BY FeedBoundsAssumption DEF IInv, TypeOK
<1>2. CASE UNCHANGED faults
            /\ \E open \in {held, held \cup {asset}} :
                 /\ open # held => asset # NoAsset
                 /\ CheckPaperExits(open)
  BY <1>1, <1>2 DEF CheckPaperExits
<1>3. CASE faults > 0 /\ faults' = faults - 1 /\ UNCHANGED held
  BY <1>1, <1>3
<1>. QED BY <1>2, <1>3 DEF HandleEvent

LEMMA OrchestratorKeeps ==
  ASSUME IInv,
         HandleNext \/ SeekToEnd \/ SeedRegimeStatus \/ EvaluateStartupRegime
           \/ CrashOrchestrator
  PROVE  IInv'
<1>1. CASE HandleNext
  <2>1. queue \in Seq(QueuedEvents) /\ queue # <<>>
    BY <1>1 DEF HandleNext, IInv, TypeOK, QueuedEvents
  <2>2. /\ Head(queue) = queue[1] /\ queue[1] \in QueuedEvents /\ 1 \in DOMAIN queue
        /\ Tail(queue) \in Seq(QueuedEvents) /\ Len(Tail(queue)) = Len(queue) - 1
        /\ Len(queue) \in Nat /\ Len(queue) >= 1
        /\ \A i \in 1..(Len(queue) - 1) : Tail(queue)[i] = queue[i + 1]
    BY <2>1
  <2>3. held' \subseteq Assets /\ faults' \in 0..MaxFaults
    BY <1>1, <2>2, HandleEventType DEF HandleNext, QueuedEvents
  <2>4. /\ last' = queue[1].idx /\ last' \in Nat /\ queue' = Tail(queue) /\ at' = at
        /\ last' < at
    BY <1>1, <2>2 DEF HandleNext, QueuedEvents, IInv, InOrderOnce
  <2>5. \A i \in 1..(Len(queue) - 1) :
          /\ queue'[i] = queue[i + 1] /\ i + 1 \in DOMAIN queue
          /\ last' < queue'[i].idx /\ queue'[i].idx < at
    BY <2>2, <2>4 DEF IInv, InOrderOnce
  <2>6. \A i, j \in 1..(Len(queue) - 1) : i < j => queue'[i].idx < queue'[j].idx
    BY <2>2, <2>5 DEF IInv, InOrderOnce
  <2>7. DOMAIN queue' = 1..(Len(queue) - 1)
    BY <2>2, <2>4
  <2>8. InOrderOnce'
    BY <2>4, <2>5, <2>6, <2>7 DEF InOrderOnce
  <2>9. UNCHANGED <<text, saved, stale, epc, scan, log, base, rotations, opc, pos, at,
                    end, cached, lost>>
    BY <1>1 DEF HandleNext, state, engine, world
  <2>. QED
    BY <2>2, <2>3, <2>4, <2>8, <2>9
    DEF IInv, TypeOK, QueuedEvents, NeverBelowMarket, Readable, Position
<1>2. CASE SeekToEnd
  <2>1. /\ Len(log) \in Nat /\ base \in 0..Len(log) /\ end \in 0..Len(log)
        /\ at \in Nat /\ at <= end + 1 /\ last \in Nat /\ last < at
    BY DEF IInv, TypeOK, Position, InOrderOnce
  <2>2. /\ pos' = Len(log) - base /\ at' = Len(log) + 1 /\ end' = Len(log)
        /\ queue' = queue /\ last' = last
    BY <1>2 DEF SeekToEnd, FileSize
  <2>5. InOrderOnce'
    BY <2>1, <2>2, QueueFacts DEF InOrderOnce
  <2>6. UNCHANGED <<text, saved, stale, epc, scan, log, base, rotations, cached, held, lost,
                    faults>>
    BY <1>2 DEF SeekToEnd, state, engine, world
  <2>7. opc' = "seek"
    BY <1>2 DEF SeekToEnd
  <2>. QED
    BY <2>1, <2>2, <2>5, <2>6, <2>7
    DEF IInv, TypeOK, NeverBelowMarket, Readable, Position
<1>3. CASE SeedRegimeStatus
  <2>. DEFINE seen == {i \in (base + 1)..Len(log) : log[i].event = "regime_status"}
  <2>1. cached' \in Status
    <3>1. CASE seen = {}
      BY <1>3, <3>1 DEF SeedRegimeStatus, NoStatus, Status
    <3>2. CASE seen # {}
      <4>1. PICK i \in seen : cached' = [regime |-> log[i].regime, top |-> log[i].top]
        BY <1>3, <3>2 DEF SeedRegimeStatus
      <4>2. i \in DOMAIN log /\ log \in Seq(Lines)
        BY DEF IInv, TypeOK, Lines
      <4>3. log[i] \in Lines
        BY <4>2
      <4>. QED BY <4>1, <4>3 DEF Lines, Status
    <3>. QED BY <3>1, <3>2
  <2>2. opc' = "startup" /\ UNCHANGED <<text, saved, stale, epc, scan, log, base,
          rotations, pos, at, end, queue, held, last, lost, faults>>
    BY <1>3 DEF SeedRegimeStatus, state, engine, world
  <2>. QED
    BY <2>1, <2>2
    DEF IInv, TypeOK, InOrderOnce, NeverBelowMarket, Readable, Position
<1>4. CASE EvaluateStartupRegime
  <2>1. ResolveTopAsset \in Assets \cup {NoAsset, Null}
    BY DEF IInv, TypeOK, Status, ResolveTopAsset
  <2>2. /\ held' \subseteq Assets /\ faults' \in 0..MaxFaults
        /\ cached' \in Status /\ opc' \in {"down", "watch"}
    <3>1. CASE cached.regime = HIGH_FUNDING /\ ResolveTopAsset = Null
      BY <1>4, <3>1
      DEF EvaluateStartupRegime, NoStatus, NoRegime, Status, IInv, TypeOK
    <3>2. CASE ~(cached.regime = HIGH_FUNDING /\ ResolveTopAsset = Null)
      <4>1. /\ opc' = "watch" /\ cached' = cached
            /\ IF cached.regime = HIGH_FUNDING /\ ResolveTopAsset # NoAsset
               THEN HandleEvent(HIGH_FUNDING, ResolveTopAsset)
               ELSE UNCHANGED <<held, faults>>
        BY <1>4, <3>2 DEF EvaluateStartupRegime
      <4>2. CASE cached.regime = HIGH_FUNDING /\ ResolveTopAsset # NoAsset
        BY <2>1, <3>2, <4>1, <4>2, HandleEventType DEF IInv, TypeOK
      <4>3. CASE ~(cached.regime = HIGH_FUNDING /\ ResolveTopAsset # NoAsset)
        BY <4>1, <4>3 DEF IInv, TypeOK
      <4>. QED BY <4>2, <4>3
    <3>. QED BY <3>1, <3>2
  <2>3. UNCHANGED <<text, saved, stale, epc, scan, log, base,
          rotations, pos, at, end, queue, last, lost>>
    BY <1>4 DEF EvaluateStartupRegime, state, engine, world
  <2>. QED
    BY <2>2, <2>3
    DEF IInv, TypeOK, InOrderOnce, NeverBelowMarket, Readable, Position
<1>5. CASE CrashOrchestrator
  <2>1. end \in Nat /\ at \in Nat /\ at <= end + 1 /\ last < at /\ last \in Nat
    BY DEF IInv, TypeOK, InOrderOnce, Position
  <2>2. /\ at' = end + 1 /\ queue' = <<>> /\ last' = last /\ end' = end
        /\ cached' = NoStatus /\ opc' = "down" /\ lost' = {}
        /\ faults' \in 0..MaxFaults
        /\ UNCHANGED <<text, saved, stale, epc, scan, log, base, rotations, pos, held>>
    BY <1>5, FeedBoundsAssumption
    DEF CrashOrchestrator, state, engine, world, IInv, TypeOK
  <2>3. InOrderOnce'
    BY <2>1, <2>2 DEF InOrderOnce
  <2>. QED
    BY <2>1, <2>2, <2>3
    DEF IInv, TypeOK, Status, NoStatus, NeverBelowMarket, Readable, Position
<1>. QED BY <1>1, <1>2, <1>3, <1>4, <1>5

LEMMA NextKeeps == IInv /\ [Next]_vars => IInv'
<1>. SUFFICES ASSUME IInv, [Next]_vars PROVE IInv'
  OBVIOUS
<1>1. CASE UNCHANGED vars
  BY <1>1 DEF vars, IInv, TypeOK, InOrderOnce, NeverBelowMarket, Readable, Position
<1>2. CASE EngineStep
  BY <1>2, DetectKeeps, EngineKeeps DEF EngineStep
<1>3. CASE OrchestratorStep
  BY <1>3, PollKeeps, ParseKeeps, OrchestratorKeeps DEF OrchestratorStep
<1>4. CASE ScanEnds \/ Expire \/ Rotate
  BY <1>4, EngineKeeps
<1>5. CASE SeekToEnd \/ CrashOrchestrator
  BY <1>5, OrchestratorKeeps
<1>. QED BY <1>1, <1>2, <1>3, <1>4, <1>5 DEF Next

LEMMA Inductive == Spec => []IInv
<1>. QED BY InitIInv, NextKeeps, PTL DEF Spec

\* The feed keeps every variable well typed; in particular no event carries a
\* regime the orchestrator has no tier for.
THEOREM FeedTypes == Spec => []TypeOK
<1>1. IInv => TypeOK
  BY DEF IInv
<1>. QED BY <1>1, Inductive, PTL

\* A logged transition is handled at most once and in the order of the log,
\* for any number of restarts, failed calls and truncations of the log.
THEOREM HandledInOrderOnce == Spec => []InOrderOnce
<1>1. IInv => InOrderOnce
  BY DEF IInv
<1>. QED BY <1>1, Inductive, PTL

\* The regime a scan saves is never below the one the market shows, for any
\* thresholds ordered as the configured ones.
THEOREM RegimeNeverBelowMarket == Spec => []NeverBelowMarket
<1>1. IInv => NeverBelowMarket
  BY DEF IInv
<1>. QED BY <1>1, Inductive, PTL

-----------------------------------------------------------------------------
-----------------------------------------------------------------------------
(* SignalPipeline: from a transition to a logged signal.                   *)

\* The cache lists every exchange.
CacheKnown == cache \in [Exchanges -> [known: BOOLEAN, own: Nat, top: Nat, age: Nat]]

\* The fields of a job, whatever they hold.
JobKnown == job = [f \in DOMAIN Idle |-> job[f]]

\* What is predicted and measured for the event under way rests on data, or is
\* the value that closes a gate.
Measured ==
  /\ job.event \subseteq Events /\ \A e, f \in job.event : e = f
  /\ job.runs \in Nat /\ (job.runs < MinFit => job.survival = 0)
  /\ At("spread") => \A e \in job.event : cache[e.exch].own = 0 => job.liquidity = 0

\* What the gates let pass keeps its data until it is logged and sent.
Passed ==
  job.actionable =>
    /\ job.stage \in {"log", "alert"}
    /\ ActionableRestsOnData

\* An alert to be sent is logged, and so is every one that was.
AlertLogged == At("alert") => [no |-> next - 1, actionable |-> TRUE] \in rows

PipelineIInv ==
  /\ CacheKnown /\ JobKnown /\ Measured /\ Passed /\ AlertLogged
  /\ OldOnlyAfterFailure /\ AlertsAreLogged

-----------------------------------------------------------------------------
\* Without a ticker of the asset the liquidity of an exchange is 0.
LEMMA NoTickerNoLiquidity ==
  ASSUME NEW c, NEW x \in Exchanges, c[x].own = 0
  PROVE  Scored(c)[x] = 0
BY DEF Scored, Liquidity

\* The fields of a job are those of an idle one, and can be changed one by one.
LEMMA JobFields ==
  ASSUME JobKnown
  PROVE  /\ DOMAIN job = {"stage", "event", "runs", "survival", "overdue", "liquidity", "spread", "actionable"}
         /\ \A f, v : f \in DOMAIN job =>
              /\ DOMAIN [job EXCEPT ![f] = v] = DOMAIN job
              /\ [job EXCEPT ![f] = v][f] = v
              /\ \A g \in DOMAIN job \ {f} : [job EXCEPT ![f] = v][g] = job[g]
              /\ [job EXCEPT ![f] = v] = [g \in DOMAIN Idle |-> [job EXCEPT ![f] = v][g]]
<1>1. DOMAIN Idle = {"stage", "event", "runs", "survival", "overdue", "liquidity", "spread", "actionable"}
  BY DEF Idle
<1>2. DOMAIN job = DOMAIN Idle /\ job = [f \in DOMAIN job |-> job[f]]
  BY DEF JobKnown
<1> QED BY <1>1, <1>2

\* A restart, or an event that is given up, leaves nothing to rest on.
LEMMA IdleIsSafe ==
  ASSUME CacheKnown', job' = Idle, AlertsAreLogged'
  PROVE  PipelineIInv'
<1>1. JobKnown' BY DEF JobKnown, Idle
<1> QED
  BY <1>1 DEF PipelineIInv, Measured, Passed, ActionableRestsOnData, AlertLogged, OldOnlyAfterFailure, At, Idle

LEMMA PipelineInitSafe == PipelineInit => PipelineIInv
<1> SUFFICES ASSUME PipelineInit PROVE PipelineIInv OBVIOUS
<1>1. CacheKnown BY DEF PipelineInit, CacheKnown, NoCache
<1>2. job = Idle /\ JobKnown /\ AlertsAreLogged BY DEF PipelineInit, AlertsAreLogged, JobKnown, Idle
<1> QED
  BY <1>1, <1>2 DEF PipelineIInv, Measured, Passed, ActionableRestsOnData, AlertLogged, OldOnlyAfterFailure, At, Idle

\* Only a survival estimated from enough durations is not 0.
LEMMA ReceiveSafe ==
  ASSUME PipelineIInv, NEW e \in Events, NEW own \in 0..MaxRuns, NEW pooled \in 0..MaxRuns, Receive(e, own, pooled)
  PROVE  PipelineIInv'
<1>1. PICK survival \in Estimates(Used(own, pooled)) :
        job' = [Idle EXCEPT !.stage = "liquidity", !.event = {e}, !.runs = Used(own, pooled), !.survival = survival]
  BY DEF Receive
<1>2. /\ job'.stage = "liquidity" /\ job'.event = {e} /\ job'.runs = Used(own, pooled) /\ job'.survival = survival
      /\ job'.actionable = FALSE /\ job'.overdue = {} /\ JobKnown'
  BY <1>1 DEF Idle, JobKnown
<1>3. Used(own, pooled) < MinFit => survival = 0
  BY DEF Estimates
<1>4. CacheKnown' /\ AlertsAreLogged'
  BY DEF PipelineIInv, Receive, CacheKnown, AlertsAreLogged
<1>5. Used(own, pooled) \in Nat
  BY DEF Used
<1>6. Measured'
  BY <1>2, <1>3, <1>5 DEF Measured, At
<1> QED
  BY <1>2, <1>4, <1>6 DEF PipelineIInv, Passed, AlertLogged, OldOnlyAfterFailure, At

\* The score is taken from a cache that is fresh, but for exchanges that failed.
LEMMA ScoreSafe ==
  ASSUME PipelineIInv, NEW raised, Score(cache', raised), CacheKnown', UNCHANGED <<next, rows, alerts>>,
         \A x \in Exchanges \ raised : ~TooOld(cache', x), job.stage \in {"liquidity", "refresh"}
  PROVE  PipelineIInv'
<1>1. PICK e \in job.event :
        job' = [job EXCEPT !.stage = "spread", !.liquidity = Scored(cache')[e.exch],
                           !.overdue = {x \in Exchanges \ raised : TooOld(cache', x)}]
  BY DEF Score
<1>2. /\ job'.stage = "spread" /\ job'.liquidity = Scored(cache')[e.exch] /\ job'.overdue = {}
      /\ job'.event = job.event /\ job'.runs = job.runs /\ job'.survival = job.survival
      /\ job'.actionable = job.actionable /\ JobKnown'
  BY <1>1, JobFields DEF PipelineIInv, JobKnown
<1>3. e \in Events /\ e.exch \in Exchanges /\ \A f \in job.event : f = e
  BY PipelineAssumption DEF PipelineAssumption, PipelineIInv, Measured
<1>4. cache'[e.exch].own = 0 => job'.liquidity = 0
  BY <1>2, <1>3, NoTickerNoLiquidity
<1>5. ~job.actionable
  BY DEF PipelineIInv, Passed
<1> QED
  BY <1>2, <1>3, <1>4, <1>5 DEF PipelineIInv, Measured, Passed, AlertLogged, AlertsAreLogged, OldOnlyAfterFailure, At

LEMMA UseCacheSafe == PipelineIInv /\ UseCache => PipelineIInv'
<1> SUFFICES ASSUME PipelineIInv, UseCache PROVE PipelineIInv' OBVIOUS
<1>1. cache' = cache /\ UNCHANGED <<next, rows, alerts>> /\ job.stage = "liquidity" /\ Score(cache', {})
  BY DEF UseCache, At
<1>2. \A x \in Exchanges \ {} : ~TooOld(cache', x) BY <1>1 DEF UseCache, Stale
<1>3. CacheKnown' BY <1>1 DEF PipelineIInv, CacheKnown
<1> QED BY <1>1, <1>2, <1>3, ScoreSafe

\* What an exchange answers is fresh; what it failed to answer stays as it was.
LEMMA RefreshSafe ==
  ASSUME PipelineIInv, NEW answer \in [Exchanges -> Answers], NEW raised \in SUBSET Exchanges, Refresh(answer, raised)
  PROVE  PipelineIInv'
<1>1. cache' = Refreshed(answer, raised) /\ UNCHANGED <<next, rows, alerts>> /\ job.stage = "refresh"
      /\ Score(cache', raised)
  BY DEF Refresh, At
<1>2. TTL \in Nat \ {0} /\ \A a \in Answers : a.own \in Nat /\ a.top \in Nat
  BY PipelineAssumption DEF PipelineAssumption, Tickers
<1>3. CacheKnown'
  <2>1. \A x \in Exchanges : answer[x] \in Answers OBVIOUS
  <2> QED BY <1>1, <1>2, <2>1 DEF PipelineIInv, CacheKnown, Refreshed
<1>4. \A x \in Exchanges \ raised : ~TooOld(cache', x)
  BY <1>1, <1>2 DEF Refreshed, TooOld
<1> QED BY <1>1, <1>3, <1>4, ScoreSafe

LEMMA AskAllSafe == PipelineIInv /\ AskAll => PipelineIInv'
<1> SUFFICES ASSUME PipelineIInv, AskAll PROVE PipelineIInv' OBVIOUS
<1>1. job' = [job EXCEPT !.stage = "refresh"] /\ UNCHANGED <<cache, next, rows, alerts>> /\ job.stage = "liquidity"
  BY DEF AskAll, At
<1>2. /\ job'.stage = "refresh" /\ job'.event = job.event /\ job'.runs = job.runs /\ job'.survival = job.survival
      /\ job'.actionable = job.actionable /\ job'.overdue = job.overdue /\ JobKnown'
  BY <1>1, JobFields DEF PipelineIInv, JobKnown
<1> QED
  BY <1>1, <1>2 DEF PipelineIInv, CacheKnown, Measured, Passed, AlertLogged, AlertsAreLogged, OldOnlyAfterFailure, At

\* The gates ask for a survival and a liquidity that only data gives.
LEMMA DecideSafe ==
  ASSUME PipelineIInv, NEW spread, Decide(spread)
  PROVE  PipelineIInv'
<1>1. PICK e \in job.event :
        job' = [job EXCEPT !.stage = "log", !.spread = spread,
                           !.actionable = Actionable(e, job.survival, job.liquidity, spread)]
  BY DEF Decide
<1>2. /\ job'.stage = "log" /\ job'.actionable = Actionable(e, job.survival, job.liquidity, spread)
      /\ job'.event = job.event /\ job'.runs = job.runs /\ job'.survival = job.survival
      /\ job'.liquidity = job.liquidity /\ job'.overdue = job.overdue /\ JobKnown'
  BY <1>1, JobFields DEF PipelineIInv, JobKnown
<1>3. e.exch \in Exchanges /\ \A f \in job.event : f = e
  BY PipelineAssumption DEF PipelineAssumption, PipelineIInv, Measured
<1>4. UNCHANGED <<cache, next, rows, alerts>> /\ job.stage = "spread"
  BY DEF Decide, At
<1>5. Actionable(e, job.survival, job.liquidity, spread) => job.runs >= MinFit /\ cache[e.exch].own > 0
  <2>1. Actionable(e, job.survival, job.liquidity, spread) => job.survival # 0 /\ job.liquidity # 0
    BY DEF Actionable
  <2>2. cache[e.exch].own \in Nat BY <1>3 DEF PipelineIInv, CacheKnown
  <2>3. job.runs \in Nat /\ MinFit \in Nat BY PipelineAssumption DEF PipelineAssumption, PipelineIInv, Measured
  <2> QED BY <1>4, <2>1, <2>2, <2>3 DEF PipelineIInv, Measured, At
<1> QED
  BY <1>2, <1>3, <1>4, <1>5 DEF PipelineIInv, CacheKnown, Measured, Passed, ActionableRestsOnData, AlertLogged, AlertsAreLogged, OldOnlyAfterFailure, At

\* The row is written before the alert.
LEMMA LogSafe ==
  ASSUME PipelineIInv, NEW written \in BOOLEAN, Log(written)
  PROVE  PipelineIInv'
<1>1. /\ UNCHANGED <<cache, next, alerts>> /\ job.stage = "log"
      /\ rows' = IF written THEN rows \cup {[no |-> next - 1, actionable |-> job.actionable]} ELSE rows
      /\ job' = IF written /\ job.actionable THEN [job EXCEPT !.stage = "alert"] ELSE Idle
  BY DEF Log, At
<1>2. CacheKnown' /\ AlertsAreLogged'
  BY <1>1 DEF PipelineIInv, CacheKnown, AlertsAreLogged
<1>3. CASE ~(written /\ job.actionable) BY <1>1, <1>2, <1>3, IdleIsSafe
<1>4. CASE written /\ job.actionable
  <2>1. job' = [job EXCEPT !.stage = "alert"] /\ rows' = rows \cup {[no |-> next - 1, actionable |-> job.actionable]}
    BY <1>1, <1>4
  <2>2. /\ job'.stage = "alert" /\ job'.event = job.event /\ job'.runs = job.runs /\ job'.survival = job.survival
        /\ job'.actionable = job.actionable /\ job'.overdue = job.overdue /\ JobKnown'
    BY <2>1, JobFields DEF PipelineIInv, JobKnown
  <2>3. [no |-> next' - 1, actionable |-> TRUE] \in rows'
    BY <1>1, <1>4, <2>1 DEF PipelineIInv, Measured
  <2> QED
    BY <1>1, <1>2, <2>2, <2>3 DEF PipelineIInv, Measured, Passed, ActionableRestsOnData, AlertLogged, OldOnlyAfterFailure, At
<1> QED BY <1>3, <1>4

LEMMA AlertSafe ==
  ASSUME PipelineIInv, NEW sent \in BOOLEAN, Alert(sent)
  PROVE  PipelineIInv'
<1>1. CacheKnown' BY DEF Alert, PipelineIInv, CacheKnown
<1>2. AlertsAreLogged' BY DEF Alert, PipelineIInv, AlertsAreLogged, AlertLogged
<1> QED BY <1>1, <1>2, IdleIsSafe DEF Alert

\* Time makes tickers old and changes none of them.
LEMMA TickSafe == PipelineIInv /\ Tick => PipelineIInv'
<1> SUFFICES ASSUME PipelineIInv, Tick PROVE PipelineIInv' OBVIOUS
<1>1. UNCHANGED <<job, next, rows, alerts>> BY DEF Tick
<1>2. CacheKnown' /\ \A x \in Exchanges : cache'[x].own = cache[x].own
  BY DEF Tick, PipelineIInv, CacheKnown
<1>3. \A e \in job.event : e.exch \in Exchanges
  BY PipelineAssumption DEF PipelineAssumption, PipelineIInv, Measured
<1> QED
  BY <1>1, <1>2, <1>3 DEF PipelineIInv, JobKnown, Measured, Passed, ActionableRestsOnData, AlertLogged, AlertsAreLogged, OldOnlyAfterFailure, At

LEMMA PipelineRestartSafe == PipelineIInv /\ Restart => PipelineIInv'
<1> SUFFICES ASSUME PipelineIInv, Restart PROVE PipelineIInv' OBVIOUS
<1>1. CacheKnown' BY DEF Restart, CacheKnown, NoCache
<1>2. AlertsAreLogged' BY DEF Restart, PipelineIInv, AlertsAreLogged
<1> QED BY <1>1, <1>2, IdleIsSafe DEF Restart

LEMMA PipelineStepSafe == PipelineIInv /\ [PipelineNext]_pipelineVars => PipelineIInv'
<1> SUFFICES ASSUME PipelineIInv, [PipelineNext]_pipelineVars PROVE PipelineIInv' OBVIOUS
<1>1. CASE UNCHANGED pipelineVars
  BY <1>1 DEF pipelineVars, PipelineIInv, CacheKnown, JobKnown, Measured, Passed, ActionableRestsOnData, AlertLogged,
              AlertsAreLogged, OldOnlyAfterFailure, At
<1>2. CASE \E e \in Events, own, pooled \in 0..MaxRuns : Receive(e, own, pooled)
  BY <1>2, ReceiveSafe
<1>3. CASE ProcessStep
  BY <1>3, UseCacheSafe, AskAllSafe, RefreshSafe, DecideSafe, LogSafe, AlertSafe DEF ProcessStep
<1>4. CASE Tick \/ Restart
  BY <1>4, TickSafe, PipelineRestartSafe
<1> QED BY <1>1, <1>2, <1>3, <1>4 DEF PipelineNext

LEMMA PipelineInductive == PipelineSpec => []PipelineIInv
BY PipelineInitSafe, PipelineStepSafe, PTL DEF PipelineSpec

\* For any exchanges, answers and failures a score rests on tickers younger
\* than the cache's limit, but for exchanges whose answer could not be read.
THEOREM OldOnlyAfterFailureAlways == PipelineSpec => []OldOnlyAfterFailure
<1>1. PipelineIInv => OldOnlyAfterFailure BY DEF PipelineIInv
<1> QED BY <1>1, PipelineInductive, PTL

\* For any history, cache and fallback value an actionable signal rests on
\* enough durations and on a ticker of its own exchange.
THEOREM ActionableRestsOnDataAlways == PipelineSpec => []ActionableRestsOnData
<1>1. PipelineIInv => ActionableRestsOnData BY DEF PipelineIInv, Passed, ActionableRestsOnData
<1> QED BY <1>1, PipelineInductive, PTL

\* Whatever fails or restarts, every alert sent has its row, and the row says
\* actionable.
THEOREM AlertsAreLoggedAlways == PipelineSpec => []AlertsAreLogged
<1>1. PipelineIInv => AlertsAreLogged BY DEF PipelineIInv
<1> QED BY <1>1, PipelineInductive, PTL

-----------------------------------------------------------------------------
(* Types of the pipeline: the scores stay within their scales.             *)

\* A set of natural numbers has a least member.
LEMMA NatHasMin ==
  ASSUME NEW S \in SUBSET Nat, S # {}
  PROVE  \E m \in S : \A x \in S : m <= x
<1> DEFINE R == {ss \in Nat \X Nat : ss[1] < ss[2]}
<1>1. IsWellFoundedOn(OpToRel(<, Nat), Nat) BY NatLessThanWellFounded
<1>2. IsWellFoundedOn(R, Nat) BY <1>1 DEF OpToRel
<1>3. PICK m \in S : \A y \in S : ~(<<y, m>> \in R) BY <1>2, WFMin
<1>4. \A y \in S : ~(y < m) BY <1>3
<1> QED BY <1>4

(* Induction, with a set for what is shown: the provers instantiate a set. *)

\* What holds of 0 and of the successor of each number it holds of.
LEMMA NatSteps ==
  ASSUME NEW G, 0 \in G, \A n \in Nat : n \in G => n + 1 \in G
  PROVE  Nat \subseteq G
<1> SUFFICES ASSUME Nat \ G # {} PROVE FALSE OBVIOUS
<1>1. PICK m \in Nat \ G : \A x \in Nat \ G : m <= x BY NatHasMin, Zenon
<1>2. m # 0 /\ m - 1 \in Nat BY <1>1
<1>3. m - 1 \in G BY <1>1, <1>2
<1> QED BY <1>1, <1>2, <1>3

\* A set of one member more.
LEMMA OneMore ==
  ASSUME NEW T, IsFiniteSet(T), NEW n \in Nat, Cardinality(T) = n + 1
  PROVE  T # {} /\ \A x \in T : Cardinality(T \ {x}) = n
<1>1. Cardinality(T) # 0 BY SMT
<1>2. T # {} BY <1>1, FS_EmptySet
<1>3. ASSUME NEW x \in T PROVE Cardinality(T \ {x}) = n
  <2>1. Cardinality(T \ {x}) = Cardinality(T) - 1 BY FS_RemoveElement
  <2> QED BY <2>1
<1> QED BY <1>2, <1>3

\* What holds of the empty set and stays when one member is added.
LEMMA FiniteSteps ==
  ASSUME NEW S, IsFiniteSet(S), NEW G, {} \in G,
         \A T \in SUBSET S : \A x \in S \ T : T \in G => T \cup {x} \in G
  PROVE  S \in G
<1> DEFINE N == {n \in Nat : \A T \in SUBSET S : Cardinality(T) = n => T \in G}
<1>1. \A T \in SUBSET S : IsFiniteSet(T) /\ Cardinality(T) \in Nat BY FS_Subset, FS_CardinalityType
<1>2. 0 \in N BY <1>1, FS_EmptySet
<1>3. ASSUME NEW n \in Nat, n \in N PROVE n + 1 \in N
  <2>1. SUFFICES ASSUME NEW T \in SUBSET S, Cardinality(T) = n + 1 PROVE T \in G OBVIOUS
  <2>2. T # {} BY <1>1, <2>1, OneMore
  <2>3. PICK x \in T : TRUE BY <2>2
  <2>4. Cardinality(T \ {x}) = n BY <1>1, <2>1, OneMore
  <2>5. T \ {x} \in SUBSET S /\ T \ {x} \in G BY <1>3, <2>4
  <2> QED BY <2>5, (T \ {x}) \cup {x} = T, x \in S \ (T \ {x})
<1> HIDE DEF N
<1>4. Cardinality(S) \in N BY <1>1, <1>2, <1>3, NatSteps
<1> QED BY <1>4 DEF N

\* A finite set of numbers that is not empty has a greatest one.
LEMMA FiniteHasMax ==
  ASSUME NEW S \in SUBSET Nat, IsFiniteSet(S), S # {}
  PROVE  Max(S) \in S /\ \A x \in S : x <= Max(S)
<1> DEFINE G == {T \in SUBSET S : T = {} \/ \E m \in T : \A x \in T : x <= m}
<1>1. {} \in G OBVIOUS
<1>2. ASSUME NEW T \in SUBSET S, NEW y \in S \ T, T \in G PROVE T \cup {y} \in G
  <2>1. CASE T = {} BY <2>1
  <2>2. CASE T # {}
    <3>1. PICK m \in T : \A x \in T : x <= m BY <1>2, <2>2
    <3>2. CASE y <= m BY <3>1, <3>2
    <3>3. CASE ~(y <= m)
      <4>1. \A x \in T \cup {y} : x <= y BY <3>1, <3>3
      <4> QED BY <4>1
    <3> QED BY <3>2, <3>3
  <2> QED BY <2>1, <2>2
<1> HIDE DEF G
<1>3. S \in G BY <1>1, <1>2, FiniteSteps
<1>4. \E m \in S : \A x \in S : m >= x BY <1>3 DEF G
<1> QED BY <1>4 DEF Max

LEMMA ShareIsPercent ==
  ASSUME NEW a \in Nat, NEW b \in Nat \ {0}, a <= b
  PROVE  (100 * a) \div b \in 0..100
OBVIOUS

\* The cache holds what an exchange answered, the job scores within their
\* scales, and an event under way has been counted.
Answered(c) ==
  \A x \in Exchanges :
    /\ [own |-> c[x].own, top |-> c[x].top] \in Answers \cup {[own |-> 0, top |-> 0]}
    /\ c[x].age \in 0..TTL /\ c[x].known \in BOOLEAN
CacheTyped == Answered(cache)
JobTyped ==
  /\ job.stage \in Stages /\ (job.event = {} <=> At("idle")) /\ job.event \subseteq Events
  /\ job.runs \in 0..MaxRuns /\ job.survival \in 0..100 /\ job.liquidity \in 0..100
  /\ job.spread \subseteq Spreads /\ job.overdue \subseteq Exchanges /\ job.actionable \in BOOLEAN
Counted ==
  /\ next \in 1..MaxEvents + 1 /\ (job.stage # "idle" => next > 1)
  /\ rows \subseteq [no: 1..MaxEvents, actionable: BOOLEAN] /\ alerts \subseteq 1..MaxEvents

Typed == CacheTyped /\ JobTyped /\ Counted

LEMMA TypedIsTypeOK == Typed => PipelineTypeOK
BY DEF Typed, CacheTyped, Answered, JobTyped, Counted, PipelineTypeOK

LEMMA PipelineSizes ==
  /\ TTL \in Nat \ {0} /\ MaxRuns \in Nat /\ MaxEvents \in Nat /\ IsFiniteSet(Exchanges)
  /\ \A a \in Answers : a \in Tickers /\ a.own \in Nat /\ a.top \in Nat /\ a.own <= a.top
BY PipelineAssumption DEF PipelineAssumption, Tickers

LEMMA NothingAnswered == Answered([x \in Exchanges |-> NoCache])
<1>1. 0 \in 0..TTL BY PipelineSizes
<1>2. \A x \in Exchanges : [y \in Exchanges |-> NoCache][x] = NoCache OBVIOUS
<1> DEFINE empty == [y \in Exchanges |-> NoCache]
<1> HIDE DEF empty
<1>3. NoCache.own = 0 /\ NoCache.top = 0 /\ NoCache.age = 0 /\ NoCache.known = FALSE BY DEF NoCache
<1> QED BY <1>1, <1>2, <1>3 DEF Answered, empty

LEMMA IdleTyped == ASSUME job' = Idle, PipelineAssumption PROVE JobTyped'
BY PipelineSizes DEF Idle, JobTyped, Stages, At

\* No ticker is larger than its exchange's largest, so a liquidity is a percentage,
\* and where one is computed the divisor is not 0.
LEMMA LiquidityIsPercent ==
  ASSUME NEW c, Answered(c), NEW x \in Exchanges
  PROVE  Liquidity(c, x) \in 0..100 /\ (c[x].own # 0 => Largest(c) > 0)
<1> DEFINE tops == {c[y].top : y \in Exchanges}
           S == tops \cup {0}
<1>1. \A y \in Exchanges : c[y].own \in Nat /\ c[y].top \in Nat /\ c[y].own <= c[y].top
  <2> SUFFICES ASSUME NEW y \in Exchanges
               PROVE  c[y].own \in Nat /\ c[y].top \in Nat /\ c[y].own <= c[y].top
    OBVIOUS
  <2> DEFINE a == [own |-> c[y].own, top |-> c[y].top]
  <2>1. a.own = c[y].own /\ a.top = c[y].top OBVIOUS
  <2>2. a \in Answers \cup {[own |-> 0, top |-> 0]} BY DEF Answered
  <2> HIDE DEF a
  <2>3. CASE a \in Answers BY <2>1, <2>3, PipelineSizes
  <2>4. CASE a = [own |-> 0, top |-> 0] BY <2>1, <2>4
  <2> QED BY <2>2, <2>3, <2>4
<1>2. IsFiniteSet(S)
  <2> DEFINE f == [y \in Exchanges |-> c[y].top]
  <2>0. f \in Surjection(Exchanges, tops) /\ IsFiniteSet(Exchanges) BY PipelineSizes DEF Surjection
  <2>1. IsFiniteSet(tops) BY <2>0, FS_Surjection
  <2> QED BY <2>1, FS_AddElement
<1>3. S \in SUBSET Nat /\ S # {} /\ c[x].top \in S BY <1>1
<1>4. Largest(c) = Max(S) BY DEF Largest
<1> HIDE DEF S
<1>5. Largest(c) \in Nat /\ c[x].top <= Largest(c) BY <1>2, <1>3, <1>4, FiniteHasMax
<1>6. CASE c[x].own = 0 BY <1>6 DEF Liquidity
<1>7. CASE c[x].own # 0
  <2>1. c[x].own \in Nat /\ c[x].own <= Largest(c) /\ Largest(c) \in Nat \ {0}
    BY <1>1, <1>5, <1>7
  <2>2. (100 * c[x].own) \div Largest(c) \in 0..100 BY <2>1, ShareIsPercent
  <2> QED BY <1>7, <2>1, <2>2 DEF Liquidity
<1> QED BY <1>6, <1>7

LEMMA ReceiveTyped ==
  ASSUME Typed, PipelineIInv, NEW e \in Events, NEW own \in 0..MaxRuns, NEW pooled \in 0..MaxRuns, Receive(e, own, pooled)
  PROVE  Typed'
<1>1. PICK survival \in Estimates(Used(own, pooled)) :
        job' = [Idle EXCEPT !.stage = "liquidity", !.event = {e}, !.runs = Used(own, pooled), !.survival = survival]
  BY DEF Receive
<1>2. survival \in 0..100 BY PipelineAssumption DEF PipelineAssumption, Estimates
<1>3. Used(own, pooled) \in 0..MaxRuns BY DEF Used
<1>4. job' = [stage |-> "liquidity", event |-> {e}, runs |-> Used(own, pooled), survival |-> survival, overdue |-> {},
              liquidity |-> 0, spread |-> {}, actionable |-> FALSE]
  BY <1>1 DEF Idle
<1>5. JobTyped' BY <1>2, <1>3, <1>4 DEF JobTyped, Stages, At
<1>6. CacheTyped' BY DEF Receive, Typed, CacheTyped
<1>7. Counted' BY PipelineSizes DEF Receive, Typed, Counted
<1> QED BY <1>5, <1>6, <1>7 DEF Typed

\* The score of the cache that was read.
LEMMA ScoreTyped ==
  ASSUME Typed, PipelineIInv, NEW raised, CacheTyped', Score(cache', raised), UNCHANGED <<next, rows, alerts>>,
         job.stage \in {"liquidity", "refresh"}
  PROVE  Typed'
<1>1. PICK e \in job.event :
        job' = [job EXCEPT !.stage = "spread", !.liquidity = Scored(cache')[e.exch],
                           !.overdue = {x \in Exchanges \ raised : TooOld(cache', x)}]
  BY DEF Score
<1>2. e.exch \in Exchanges BY PipelineAssumption DEF PipelineAssumption, PipelineIInv, Measured
<1>3. \A x \in Exchanges : Liquidity(cache', x) \in 0..100
  <2>1. Answered(cache') BY DEF CacheTyped, Answered
  <2> QED BY <2>1, LiquidityIsPercent
<1>4. Scored(cache')[e.exch] \in 0..100 BY <1>2, <1>3 DEF Scored
<1> DEFINE late == {x \in Exchanges \ raised : TooOld(cache', x)}
<1>5. late \subseteq Exchanges OBVIOUS
<1> HIDE DEF late
<1>6. /\ job'.stage = "spread" /\ job'.liquidity = Scored(cache')[e.exch] /\ job'.overdue = late
      /\ job'.event = job.event /\ job'.runs = job.runs /\ job'.survival = job.survival
      /\ job'.actionable = job.actionable /\ job'.spread = job.spread
  BY <1>1, JobFields DEF PipelineIInv, JobKnown, late
<1>7. JobTyped' BY <1>4, <1>5, <1>6 DEF Typed, JobTyped, Stages, At
<1>8. Counted' BY <1>6 DEF Typed, Counted
<1> QED BY <1>7, <1>8 DEF Typed

LEMMA RefreshedTyped ==
  ASSUME Typed, PipelineIInv, NEW answer \in [Exchanges -> Answers], NEW raised \in SUBSET Exchanges, Refresh(answer, raised)
  PROVE  Typed'
<1>1. cache' = Refreshed(answer, raised) /\ UNCHANGED <<next, rows, alerts>> /\ job.stage = "refresh"
      /\ Score(cache', raised)
  BY DEF Refresh, At
<1>2. CacheTyped'
  <2> SUFFICES ASSUME NEW x \in Exchanges
               PROVE  /\ [own |-> cache'[x].own, top |-> cache'[x].top] \in Answers \cup {[own |-> 0, top |-> 0]}
                      /\ cache'[x].age \in 0..TTL /\ cache'[x].known \in BOOLEAN
    BY DEF CacheTyped, Answered
  <2>1. CASE x \in raised BY <1>1, <2>1 DEF Refreshed, Typed, CacheTyped, Answered
  <2>2. CASE x \notin raised
    <3>1. cache'[x] = [known |-> TRUE, own |-> answer[x].own, top |-> answer[x].top, age |-> 0]
      BY <1>1, <2>2 DEF Refreshed
    <3>2. answer[x] \in Answers /\ answer[x] \in Tickers BY PipelineSizes
    <3>3. answer[x] = [own |-> answer[x].own, top |-> answer[x].top] BY <3>2 DEF Tickers
    <3> QED BY <3>1, <3>2, <3>3, PipelineSizes
  <2> QED BY <2>1, <2>2
<1> QED BY <1>1, <1>2, ScoreTyped

LEMMA DecideTyped ==
  ASSUME Typed, PipelineIInv, NEW quoting \in Quoting, NEW spread \in SpreadOf(quoting), Decide(spread)
  PROVE  Typed'
<1>1. PICK e \in job.event :
        job' = [job EXCEPT !.stage = "log", !.spread = spread,
                           !.actionable = Actionable(e, job.survival, job.liquidity, spread)]
  BY DEF Decide
<1>2. spread \subseteq Spreads BY DEF SpreadOf
<1>3. Actionable(e, job.survival, job.liquidity, spread) \in BOOLEAN BY DEF Actionable
<1>4. /\ job'.stage = "log" /\ job'.actionable = Actionable(e, job.survival, job.liquidity, spread)
      /\ job'.event = job.event /\ job'.runs = job.runs /\ job'.survival = job.survival /\ job'.spread = spread
      /\ job'.liquidity = job.liquidity /\ job'.overdue = job.overdue
  BY <1>1, JobFields DEF PipelineIInv, JobKnown
<1>5. job.stage = "spread" /\ UNCHANGED <<cache, next, rows, alerts>> BY DEF Decide, At
<1> QED BY <1>2, <1>3, <1>4, <1>5 DEF Typed, CacheTyped, JobTyped, Counted, Stages, At

\* The other steps: asking, logging, the alert, time and a restart.
LEMMA RestTyped ==
  ASSUME Typed, PipelineIInv,
         \/ UseCache \/ AskAll \/ Tick \/ Restart \/ UNCHANGED pipelineVars
         \/ (\E written \in BOOLEAN : Log(written)) \/ (\E sent \in BOOLEAN : Alert(sent))
  PROVE  Typed'
<1>1. CASE UseCache
  <2>1. cache' = cache /\ UNCHANGED <<next, rows, alerts>> /\ job.stage = "liquidity" /\ Score(cache', {})
    BY <1>1 DEF UseCache, At
  <2>2. CacheTyped' BY <2>1 DEF Typed, CacheTyped
  <2> QED BY <2>1, <2>2, ScoreTyped
<1>2. CASE AskAll
  <2>1. job' = [job EXCEPT !.stage = "refresh"] /\ UNCHANGED <<cache, next, rows, alerts>> /\ job.stage = "liquidity"
    BY <1>2 DEF AskAll, At
  <2>2. /\ job'.stage = "refresh" /\ job'.event = job.event /\ job'.runs = job.runs /\ job'.survival = job.survival
        /\ job'.actionable = job.actionable /\ job'.overdue = job.overdue /\ job'.liquidity = job.liquidity
        /\ job'.spread = job.spread
    BY <2>1, JobFields DEF PipelineIInv, JobKnown
  <2> QED BY <2>1, <2>2 DEF Typed, CacheTyped, JobTyped, Counted, Stages, At
<1>3. ASSUME NEW written \in BOOLEAN, Log(written) PROVE Typed'
  <2>1. /\ UNCHANGED <<cache, next, alerts>> /\ job.stage = "log"
        /\ rows' = IF written THEN rows \cup {[no |-> next - 1, actionable |-> job.actionable]} ELSE rows
        /\ job' = IF written /\ job.actionable THEN [job EXCEPT !.stage = "alert"] ELSE Idle
    BY <1>3 DEF Log, At
  <2>2. next - 1 \in 1..MaxEvents BY <2>1, PipelineSizes DEF Typed, Counted
  <2>3. rows' \subseteq [no: 1..MaxEvents, actionable: BOOLEAN] BY <2>1, <2>2 DEF Typed, Counted, JobTyped
  <2>4. JobTyped'
    <3>1. CASE job' = Idle BY <3>1, IdleTyped, PipelineAssumption
    <3>2. CASE job' = [job EXCEPT !.stage = "alert"]
      <4>1. /\ job'.stage = "alert" /\ job'.event = job.event /\ job'.runs = job.runs /\ job'.survival = job.survival
            /\ job'.actionable = job.actionable /\ job'.overdue = job.overdue /\ job'.liquidity = job.liquidity
            /\ job'.spread = job.spread
        BY <3>2, JobFields DEF PipelineIInv, JobKnown
      <4> QED BY <2>1, <4>1 DEF Typed, JobTyped, Stages, At
    <3> QED BY <2>1, <3>1, <3>2
  <2>5. next' > 1 BY <2>1 DEF Typed, Counted
  <2> QED BY <2>1, <2>3, <2>4, <2>5 DEF Typed, CacheTyped, Counted
<1>4. ASSUME NEW sent \in BOOLEAN, Alert(sent) PROVE Typed'
  <2>1. /\ UNCHANGED <<cache, next, rows>> /\ job.stage = "alert" /\ job' = Idle
        /\ alerts' = IF sent THEN alerts \cup {next - 1} ELSE alerts
    BY <1>4 DEF Alert, At
  <2>2. next - 1 \in 1..MaxEvents BY <2>1, PipelineSizes DEF Typed, Counted
  <2>3. JobTyped' BY <2>1, IdleTyped, PipelineAssumption
  <2>4. job'.stage = "idle" BY <2>1 DEF Idle
  <2> QED BY <2>1, <2>2, <2>3, <2>4 DEF Typed, CacheTyped, Counted
<1>5. CASE Tick
  <2>1. UNCHANGED <<job, next, rows, alerts>> BY <1>5 DEF Tick
  <2>2. CacheTyped'
    <3> SUFFICES ASSUME NEW x \in Exchanges
                 PROVE  /\ [own |-> cache'[x].own, top |-> cache'[x].top] \in Answers \cup {[own |-> 0, top |-> 0]}
                        /\ cache'[x].age \in 0..TTL /\ cache'[x].known \in BOOLEAN
      BY DEF CacheTyped, Answered
    <3>1. cache'[x] = IF cache[x].known /\ cache[x].age < TTL THEN [cache[x] EXCEPT !.age = @ + 1] ELSE cache[x]
      BY <1>5 DEF Tick
    <3>2. cache[x] \in [known: BOOLEAN, own: Nat, top: Nat, age: Nat] BY DEF PipelineIInv, CacheKnown
    <3>3. /\ cache'[x].own = cache[x].own /\ cache'[x].top = cache[x].top /\ cache'[x].known = cache[x].known
          /\ cache'[x].age = IF cache[x].known /\ cache[x].age < TTL THEN cache[x].age + 1 ELSE cache[x].age
      BY <3>1, <3>2
    <3>4. /\ [own |-> cache[x].own, top |-> cache[x].top] \in Answers \cup {[own |-> 0, top |-> 0]}
          /\ cache[x].age \in 0..TTL /\ cache[x].known \in BOOLEAN
      BY DEF Typed, CacheTyped, Answered
    <3>5. cache'[x].age \in 0..TTL BY <3>3, <3>4, PipelineSizes
    <3> QED BY <3>3, <3>4, <3>5
  <2> QED BY <2>1, <2>2 DEF Typed, JobTyped, Counted, At
<1>6. CASE Restart
  <2>1. /\ cache' = [x \in Exchanges |-> NoCache] /\ job' = Idle /\ UNCHANGED <<next, rows, alerts>>
    BY <1>6 DEF Restart
  <2>2. CacheTyped' BY <2>1, NothingAnswered DEF CacheTyped
  <2>3. JobTyped' BY <2>1, IdleTyped, PipelineAssumption
  <2>4. job'.stage = "idle" BY <2>1 DEF Idle
  <2> QED BY <2>1, <2>2, <2>3, <2>4 DEF Typed, Counted
<1>7. CASE UNCHANGED pipelineVars BY <1>7 DEF pipelineVars, Typed, CacheTyped, JobTyped, Counted, At
<1> QED BY <1>1, <1>2, <1>3, <1>4, <1>5, <1>6, <1>7

LEMMA TypedInitially == PipelineInit => Typed
<1> SUFFICES ASSUME PipelineInit PROVE Typed OBVIOUS
<1>1. CacheTyped BY NothingAnswered DEF PipelineInit, CacheTyped
<1>2. JobTyped BY PipelineSizes DEF PipelineInit, JobTyped, Idle, Stages, At
<1>3. Counted BY PipelineSizes DEF PipelineInit, Counted, Idle
<1> QED BY <1>1, <1>2, <1>3 DEF Typed

LEMMA TypedKept == Typed /\ PipelineIInv /\ [PipelineNext]_pipelineVars => Typed'
<1> SUFFICES ASSUME Typed, PipelineIInv, [PipelineNext]_pipelineVars PROVE Typed' OBVIOUS
<1>1. CASE \E e \in Events, own, pooled \in 0..MaxRuns : Receive(e, own, pooled) BY <1>1, ReceiveTyped
<1>2. CASE ProcessStep BY <1>2, RefreshedTyped, DecideTyped, RestTyped DEF ProcessStep
<1>3. CASE Tick \/ Restart \/ UNCHANGED pipelineVars BY <1>3, RestTyped
<1> QED BY <1>1, <1>2, <1>3 DEF PipelineNext

\* For any exchanges, answers and failures: the scores keep their scales (no
\* liquidity above 100 %, no division by an empty market), an event under way
\* is counted, and rows and alerts are those of events that were received.
THEOREM PipelineTypes == PipelineSpec => []PipelineTypeOK
BY TypedInitially, TypedKept, TypedIsTypeOK, PipelineInductive, PTL DEF PipelineSpec
=============================================================================
