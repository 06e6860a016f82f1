-------------------------- MODULE PaperTraderProofs --------------------------
(* Proofs about PaperTrader, for every value of its constants. *)
EXTENDS PaperTrader, FiniteSetTheorems, TLAPS

\* A quoted price is a natural number, 0 when the venue quotes none.
LEMMA QuoteType ==
  ASSUME NEW price \in Prices \cup {NoPrice}
  PROVE  price \in Nat
BY PricesAssumption DEF NoPrice

\* compute_roe yields a number: a price move is an integer.
LEMMA MoveType ==
  ASSUME NEW p \in Position, NEW price \in Nat
  PROVE  Move(p, price) \in Int
BY DEF Move, Position

\* Observing a quote keeps a position well formed; the peak never falls.
LEMMA ObservedType ==
  ASSUME NEW p \in Position, NEW quote \in Quotes
  PROVE  /\ Observed(p, quote) \in Position
         /\ Observed(p, quote).id = p.id
         /\ Observed(p, quote).peak >= p.peak
<1>1. quote[p.asset] \in Nat
  <2>1. p.asset \in Assets
    BY DEF Position
  <2>2. quote[p.asset] \in Prices \cup {NoPrice}
    BY <2>1 DEF Quotes
  <2>. QED BY <2>2, QuoteType
<1>2. Move(p, quote[p.asset]) \in Int
  BY <1>1, MoveType
<1> DEFINE m == Move(p, quote[p.asset])
<1>3. CASE ~Priced(p, quote)
  BY <1>3 DEF Observed, Position
<1>4. CASE Priced(p, quote)
  <2>1. Observed(p, quote) = [p EXCEPT !.peak = IF m > p.peak THEN m ELSE p.peak]
    BY <1>4 DEF Observed, Position
  <2>2. p.peak \in Nat /\ (IF m > p.peak THEN m ELSE p.peak) \in Nat
    BY <1>2 DEF Position
  <2> HIDE DEF m
  <2>. QED BY <2>1, <2>2 DEF Position
<1>. QED BY <1>3, <1>4

LEMMA CloseType ==
  ASSUME NEW p \in Position, NEW why \in Reasons, NEW move \in Int
  PROVE  Close(p, why, move) \in Position /\ Close(p, why, move).id = p.id
BY DEF Close, Position

LEMMA ReloadedType ==
  ASSUME NEW p \in Position
  PROVE  Reloaded(p) \in Position /\ Reloaded(p).id = p.id
BY DEF Reloaded, Position, NoTime

LEMMA ExitReasonType ==
  ASSUME NEW p, NEW quote, NEW now
  PROVE  ExitReason(p, quote, now) \in Reasons
BY DEF ExitReason, Reasons

LEMMA LogTradesType ==
  ASSUME NEW act \in {"OPEN", "CLOSE"}, NEW ps \in SUBSET Position,
         log \subseteq LogRecord, LogTrades(act, ps)
  PROVE  log' \subseteq LogRecord /\ torn' \in BOOLEAN
BY DEF LogTrades, LogRecord

LEMMA LoggedType ==
  ASSUME log \subseteq LogRecord, NEW act
  PROVE  Logged(act) \subseteq Position /\ LoggedOpen \subseteq Position
BY DEF Logged, LoggedOpen, LogRecord


\* One position after check_exits has closed it.
LEMMA DoneType ==
  ASSUME NEW p \in Position, NEW quote \in Quotes, NEW now
  PROVE  Close(p, ExitReason(p, quote, now), Move(p, quote[p.asset]))
           \in Position
<1>1. p.asset \in Assets
  BY DEF Position
<1>2. quote[p.asset] \in Prices \cup {NoPrice}
  BY <1>1 DEF Quotes
<1>3. Move(p, quote[p.asset]) \in Int
  BY <1>2, QuoteType, MoveType
<1>. QED BY <1>3, ExitReasonType, CloseType

LEMMA PaidUpToType ==
  ASSUME NEW p \in Position
  PROVE  PaidUpTo(p) \in Int
BY DEF PaidUpTo, Position

LEMMA UpdateType ==
  ASSUME NEW p \in Position, NEW h \in Nat, NEW t \in Int
  PROVE  [p EXCEPT !.hours = h, !.upto = t] \in Position
BY DEF Position

\* Paying funding up to now keeps the hours a natural number.
LEMMA PaidType ==
  ASSUME NEW p \in Position, clock \in Nat, clock > PaidUpTo(p)
  PROVE  Paid(p) \in Position
<1>1. PICK h \in Nat : h = p.hours + clock - PaidUpTo(p)
  BY PaidUpToType DEF Position
<1>2. Paid(p) = [p EXCEPT !.hours = h, !.upto = clock]
  BY <1>1 DEF Paid, Position
<1>3. clock \in Int
  OBVIOUS
<1>4. [p EXCEPT !.hours = h, !.upto = clock] \in Position
  BY <1>3, UpdateType
<1>. QED BY <1>2, <1>4

THEOREM TypeCorrect == Spec => []TypeOK
<1>1. Init => TypeOK
  <2>1. \A old \in SUBSET Legacy :
          {[act |-> "OPEN", p |-> p] : p \in old} \subseteq LogRecord
    BY LegacyAssumption DEF LogRecord
  <2>2. Init => log \subseteq LogRecord
    BY <2>1 DEF Init
  <2>3. Init => nextId \in Nat /\ clock \in Nat
    BY BoundsAssumption DEF Init
  <2>. QED BY <2>2, <2>3 DEF Init, TypeOK
<1>2. TypeOK /\ [Next]_vars => TypeOK'
  <2> SUFFICES ASSUME TypeOK, [Next]_vars
               PROVE  TypeOK'
    OBVIOUS
  <2> USE DEF TypeOK
  <2>1. ASSUME NEW a \in Assets, NEW x \in Exchanges, NEW d \in Directions,
               NEW price \in Prices, NEW ts \in 0..clock,
               Open(a, x, d, price, ts)
        PROVE  TypeOK'
    <3> DEFINE p == [id |-> nextId, asset |-> a, exch |-> x, dir |-> d,
               entry |-> price, opened |-> ts, peak |-> 0, hours |-> 0,
               upto |-> ts, reason |-> "none", pnl |-> 0]
    <3>1. p \in Position
      BY PricesAssumption DEF Position, Reasons
    <3>2. positions' = positions \cup {p} /\ LogTrades("OPEN", {p})
      BY <2>1 DEF Open
    <3> HIDE DEF p
    <3>3. log' \subseteq LogRecord /\ torn' \in BOOLEAN
      BY <3>1, <3>2, LogTradesType
    <3>. QED BY <2>1, <3>1, <3>2, <3>3 DEF Open
  <2>2. ASSUME NEW quote \in Quotes, CheckExits(quote)
        PROVE  TypeOK'
    <3> DEFINE seen == {Observed(p, quote) : p \in positions}
               due  == {p \in seen : ExitReason(p, quote, clock) # "none"}
               done == {Close(p, ExitReason(p, quote, clock),
                              Move(p, quote[p.asset])) : p \in due}
    <3>1. seen \subseteq Position
      BY ObservedType
    <3>2. done \subseteq Position
      BY <3>1, DoneType
    <3>3. /\ positions' = seen \ due /\ closed' = closed \cup done
          /\ LogTrades("CLOSE", done)
      BY <2>2 DEF CheckExits
    <3> HIDE DEF seen, due, done
    <3>4. log' \subseteq LogRecord /\ torn' \in BOOLEAN
      BY <3>2, <3>3, LogTradesType
    <3>. QED BY <2>2, <3>1, <3>2, <3>3, <3>4 DEF CheckExits
  <2>3. ASSUME NEW rated \in SUBSET Assets, AccrueHourly(rated)
        PROVE  TypeOK'
    <3>1. ASSUME NEW p \in positions, clock > PaidUpTo(p)
          PROVE  Paid(p) \in Position
      BY <3>1, PaidType
    <3>2. positions' \subseteq Position
      BY <2>3, <3>1 DEF AccrueHourly
    <3>. QED BY <2>3, <3>2 DEF AccrueHourly, disk
  <2>4. ASSUME NEW a \in Assets, NEW x \in Exchanges,
               ClosePositionsForAsset(a, x)
        PROVE  TypeOK'
    <3> DEFINE gone == {p \in positions : p.asset = a /\ p.exch = x}
               done == {Close(p, "regime_change", 0) : p \in gone}
    <3>1. done \subseteq Position
      BY CloseType DEF Reasons
    <3>2. /\ positions' = positions \ gone /\ closed' = closed \cup done
          /\ LogTrades("CLOSE", done)
      BY <2>4 DEF ClosePositionsForAsset
    <3> HIDE DEF gone, done
    <3>3. log' \subseteq LogRecord /\ torn' \in BOOLEAN
      BY <3>1, <3>2, LogTradesType
    <3>. QED BY <2>4, <3>1, <3>2, <3>3 DEF ClosePositionsForAsset
  <2>5. CASE Crash
    BY <2>5 DEF Crash
  <2>6. CASE Restart
    <3> DEFINE open  == {Reloaded(p) : p \in LoggedOpen}
               stale == {p \in open : p.entry <= 0}
               swept == {Close(p, "stale_cleanup", 0) : p \in stale}
    <3>1. open \subseteq Position
      BY LoggedType, ReloadedType
    <3>2. swept \subseteq Position
      BY <3>1, CloseType DEF Reasons
    <3>3. {Reloaded(p) : p \in Logged("CLOSE")} \subseteq Position
      BY LoggedType, ReloadedType
    <3>4. /\ positions' = open \ stale
          /\ closed' = {Reloaded(p) : p \in Logged("CLOSE")} \cup swept
          /\ LogTrades("CLOSE", swept)
      BY <2>6 DEF Restart
    <3> HIDE DEF open, stale, swept
    <3>5. log' \subseteq LogRecord /\ torn' \in BOOLEAN
      BY <3>2, <3>4, LogTradesType
    <3>. QED BY <2>6, <3>1, <3>2, <3>3, <3>4, <3>5 DEF Restart
  <2>7. CASE RestartUnreadable
    BY <2>7 DEF RestartUnreadable, disk
  <2>8. CASE PassHour
    BY <2>8 DEF PassHour, disk
  <2>9. CASE UNCHANGED vars
    BY <2>9 DEF vars
  <2>. QED BY <2>1, <2>2, <2>3, <2>4, <2>5, <2>6, <2>7, <2>8, <2>9
           DEF Next, OpenSome
<1>. QED BY <1>1, <1>2, PTL DEF Spec

-----------------------------------------------------------------------------
(* Each position is listed once, and its funding covers its holding.       *)

\* What the two properties rest on in the log: ids are fresh, a position is
\* opened and closed at most once there, one that is open was not closed, and
\* a reloaded position has been paid nothing.
LogInv ==
  /\ \A p \in positions, q \in closed : p.id # q.id
  /\ \A p \in positions \cup closed : p.id < nextId
  /\ \A r \in log : r.p.id < nextId
  /\ \A r, s \in log : r.act = s.act /\ r.p.id = s.p.id => r = s
  /\ \A p \in positions, r \in log : r.act = "CLOSE" => r.p.id # p.id
  /\ \A r \in log : r.act = "OPEN" => r.p.hours = 0

IInv == TypeOK /\ LogInv /\ EachPositionListedOnce /\ FundingCoversHolding

LEMMA ObservedKeeps ==
  ASSUME NEW p \in Position, NEW quote \in Quotes
  PROVE  /\ Observed(p, quote).id = p.id /\ Observed(p, quote).hours = p.hours
         /\ Observed(p, quote).upto = p.upto /\ Observed(p, quote).opened = p.opened
BY DEF Observed, Position

LEMMA LogGrows ==
  ASSUME NEW act, NEW ps, LogTrades(act, ps)
  PROVE  \A r \in log' : r \in log \/ \E p \in ps : r = [act |-> act, p |-> p]
BY DEF LogTrades, AppendOutcome

\* Of the open positions, seen once more, those due are closed as done.
Closes(seen, due, done) ==
  /\ \A p \in seen : \E q \in positions :
       p.id = q.id /\ p.hours = q.hours /\ p.upto = q.upto /\ p.opened = q.opened
  /\ \A p, q \in seen : p.id = q.id => p = q
  /\ \A p \in done : \E q \in due : p.id = q.id
  /\ \A p, q \in done : p.id = q.id => p = q
  /\ positions' = seen \ due /\ closed' = closed \cup done
  /\ LogTrades("CLOSE", done) /\ nextId' = nextId

LEMMA ClosingKeeps ==
  ASSUME IInv, TypeOK',
         NEW seen \in SUBSET Position, NEW due \in SUBSET seen, NEW done \in SUBSET Position,
         Closes(seen, due, done)
  PROVE  IInv'
<1> USE DEF IInv, Closes
<1>1. \A r \in log' : r \in log \/ \E p \in done : r = [act |-> "CLOSE", p |-> p]
  BY LogGrows
<1>2. \A p \in positions' : \E q \in positions :
        p.id = q.id /\ p.hours = q.hours /\ p.upto = q.upto /\ p.opened = q.opened
  OBVIOUS
<1>3. \A p \in done : \E q \in positions : p.id = q.id
  OBVIOUS
<1>4. \A p \in positions', q \in done : p.id # q.id
  OBVIOUS
<1>5. EachPositionListedOnce'
  <2>1. \A p, q \in positions' : p.id = q.id => p = q
    OBVIOUS
  <2>2. \A p, q \in closed' : p.id = q.id => p = q
    BY <1>3 DEF EachPositionListedOnce, LogInv
  <2>3. \A p \in positions', q \in closed' : p.id # q.id
    BY <1>2, <1>4 DEF LogInv
  <2>. QED BY <2>1, <2>2, <2>3 DEF EachPositionListedOnce
<1>6. FundingCoversHolding'
  BY <1>2 DEF FundingCoversHolding
<1>7. LogInv'
  <2>1. \A p \in positions' \cup closed' : p.id < nextId'
    BY <1>2, <1>3 DEF LogInv
  <2>2. \A r \in log' : r.p.id < nextId'
    BY <1>1, <1>3 DEF LogInv
  <2>3. \A r, s \in log' : r.act = s.act /\ r.p.id = s.p.id => r = s
    BY <1>1, <1>3 DEF LogInv
  <2>4. \A p \in positions', r \in log' : r.act = "CLOSE" => r.p.id # p.id
    BY <1>1, <1>2, <1>4 DEF LogInv
  <2>5. \A r \in log' : r.act = "OPEN" => r.p.hours = 0
    BY <1>1 DEF LogInv
  <2>6. \A p \in positions', q \in closed' : p.id # q.id
    BY <1>2, <1>4 DEF LogInv
  <2>. QED BY <2>1, <2>2, <2>3, <2>4, <2>5, <2>6 DEF LogInv
<1>. QED BY <1>5, <1>6, <1>7

\* Every step of the paper trader preserves the invariant.
LEMMA InvStep ==
  ASSUME IInv, TypeOK', [Next]_vars
  PROVE  IInv'
<1> USE DEF IInv
<1>1. ASSUME NEW a \in Assets, NEW x \in Exchanges, NEW d \in Directions,
             NEW price \in Prices, NEW ts \in 0..clock, Open(a, x, d, price, ts)
      PROVE  IInv'
  <2> DEFINE p == [id |-> nextId, asset |-> a, exch |-> x, dir |-> d,
               entry |-> price, opened |-> ts, peak |-> 0, hours |-> 0,
               upto |-> ts, reason |-> "none", pnl |-> 0]
  <2>1. /\ positions' = positions \cup {p} /\ closed' = closed
        /\ nextId' = nextId + 1 /\ LogTrades("OPEN", {p})
    BY <1>1 DEF Open
  <2>2. p.id = nextId /\ p.hours = 0 /\ p.upto = ts /\ p.opened = ts /\ nextId \in Nat
    BY DEF TypeOK
  <2> HIDE DEF p
  <2>3. \A r \in log' : r \in log \/ r = [act |-> "OPEN", p |-> p]
    BY <2>1, LogGrows
  <2>4. \A q \in positions \cup closed : q.id < nextId /\ q.id \in Nat
    BY DEF LogInv, TypeOK, Position
  <2>5. \A r \in log : r.p.id < nextId /\ r.p.id \in Nat
    BY DEF LogInv, TypeOK, LogRecord, Position
  <2>6. EachPositionListedOnce'
    BY <2>1, <2>2, <2>4 DEF EachPositionListedOnce
  <2>7. FundingCoversHolding'
    BY <2>1, <2>2 DEF FundingCoversHolding
  <2>8. LogInv'
    <3>1. \A q \in positions' \cup closed' : q.id < nextId'
      BY <2>1, <2>2, <2>4
    <3>2. \A r \in log' : r.p.id < nextId'
      BY <2>1, <2>2, <2>3, <2>5
    <3>3. \A r, s \in log' : r.act = s.act /\ r.p.id = s.p.id => r = s
      BY <2>2, <2>3, <2>5 DEF LogInv
    <3>4. \A q \in positions', r \in log' : r.act = "CLOSE" => r.p.id # q.id
      BY <2>1, <2>2, <2>3, <2>5 DEF LogInv
    <3>5. \A r \in log' : r.act = "OPEN" => r.p.hours = 0
      BY <2>2, <2>3 DEF LogInv
    <3>6. \A q \in positions', r \in closed' : q.id # r.id
      BY <2>1, <2>2, <2>4 DEF LogInv
    <3>. QED BY <3>1, <3>2, <3>3, <3>4, <3>5, <3>6 DEF LogInv
  <2>. QED BY <2>6, <2>7, <2>8
<1>2. ASSUME NEW quote \in Quotes, CheckExits(quote)
      PROVE  IInv'
  <2> DEFINE seen == {Observed(p, quote) : p \in positions}
             due  == {p \in seen : ExitReason(p, quote, clock) # "none"}
             done == {Close(p, ExitReason(p, quote, clock),
                            Move(p, quote[p.asset])) : p \in due}
  <2>1. positions \subseteq Position
    BY DEF TypeOK
  <2>2. seen \subseteq Position /\ due \subseteq seen
    BY <2>1, ObservedType
  <2>3. done \subseteq Position
    BY <2>2, DoneType
  <2>4. \A p \in seen : \E q \in positions :
          p.id = q.id /\ p.hours = q.hours /\ p.upto = q.upto /\ p.opened = q.opened
    BY <2>1, ObservedKeeps
  <2>5. \A p, q \in seen : p.id = q.id => p = q
    BY <2>1, ObservedKeeps DEF EachPositionListedOnce
  <2>6. \A p \in due : Close(p, ExitReason(p, quote, clock), Move(p, quote[p.asset])).id = p.id
    BY <2>2 DEF Close, Position
  <2>7. \A p \in done : \E q \in due : p.id = q.id
    BY <2>6
  <2>8. \A p, q \in done : p.id = q.id => p = q
    BY <2>5, <2>6
  <2>9. /\ positions' = seen \ due /\ closed' = closed \cup done
        /\ LogTrades("CLOSE", done) /\ nextId' = nextId
    BY <1>2 DEF CheckExits
  <2> HIDE DEF seen, due, done, IInv
  <2>10. seen \in SUBSET Position /\ due \in SUBSET seen /\ done \in SUBSET Position
    BY <2>2, <2>3
  <2>11. Closes(seen, due, done)
    BY <2>4, <2>5, <2>7, <2>8, <2>9 DEF Closes
  <2>. QED BY <2>10, <2>11, ClosingKeeps
<1>3. ASSUME NEW rated \in SUBSET Assets, AccrueHourly(rated)
      PROVE  IInv'
  <2> DEFINE due(p) == p.asset \in rated /\ clock > PaidUpTo(p)
             after(p) == IF due(p) THEN Paid(p) ELSE p
  <2>1. /\ positions' = {after(p) : p \in positions}
        /\ closed' = closed /\ log' = log /\ nextId' = nextId
    BY <1>3 DEF AccrueHourly, disk
  <2>2. ASSUME NEW p \in positions
        PROVE  /\ after(p).id = p.id
               /\ after(p).hours = IF after(p).upto = NoTime THEN 0
                                   ELSE after(p).upto - after(p).opened
    <3>1. p \in Position /\ clock \in Nat
      BY DEF TypeOK
    <3>2. p.hours = IF p.upto = NoTime THEN 0 ELSE p.upto - p.opened
      BY DEF FundingCoversHolding
    <3>3. /\ Paid(p).id = p.id /\ Paid(p).upto = clock /\ Paid(p).opened = p.opened
          /\ Paid(p).hours = p.hours + clock - PaidUpTo(p)
      BY <3>1 DEF Paid, Position
    <3>4. p.hours + clock - PaidUpTo(p) = clock - p.opened
      BY <3>1, <3>2 DEF PaidUpTo, Position
    <3>. QED BY <3>1, <3>2, <3>3, <3>4 DEF NoTime
  <2> HIDE DEF due, after
  <2>3. \A p \in positions' : \E q \in positions : p = after(q) /\ p.id = q.id
    BY <2>1, <2>2
  <2>4. EachPositionListedOnce'
    BY <2>1, <2>2, <2>3 DEF EachPositionListedOnce, LogInv
  <2>5. FundingCoversHolding'
    BY <2>1, <2>2 DEF FundingCoversHolding
  <2>6. LogInv'
    BY <2>1, <2>3 DEF LogInv
  <2>. QED BY <2>4, <2>5, <2>6
<1>4. ASSUME NEW a \in Assets, NEW x \in Exchanges, ClosePositionsForAsset(a, x)
      PROVE  IInv'
  <2> DEFINE gone == {p \in positions : p.asset = a /\ p.exch = x}
             done == {Close(p, "regime_change", 0) : p \in gone}
  <2>1. positions \in SUBSET Position /\ gone \in SUBSET positions
    BY DEF TypeOK
  <2>2. done \in SUBSET Position
    BY <2>1, CloseType DEF Reasons
  <2>3. \A p \in gone : Close(p, "regime_change", 0).id = p.id
    BY <2>1 DEF Close, Position
  <2>4. \A p \in done : \E q \in gone : p.id = q.id
    BY <2>3
  <2>5. \A p, q \in positions : p.id = q.id => p = q
    BY DEF EachPositionListedOnce
  <2>6. \A p, q \in done : p.id = q.id => p = q
    BY <2>3, <2>5
  <2>7. /\ positions' = positions \ gone /\ closed' = closed \cup done
        /\ LogTrades("CLOSE", done) /\ nextId' = nextId
    BY <1>4 DEF ClosePositionsForAsset
  <2> HIDE DEF gone, done, IInv
  <2>8. Closes(positions, gone, done)
    BY <2>4, <2>5, <2>6, <2>7 DEF Closes
  <2>. QED BY <2>1, <2>2, <2>8, ClosingKeeps
<1>5. CASE Crash
  <2>1. positions' = {} /\ closed' = {} /\ log' = log /\ nextId' = nextId
    BY <1>5 DEF Crash
  <2>. QED BY <2>1 DEF LogInv, EachPositionListedOnce, FundingCoversHolding
<1>6. CASE Restart
  <2> DEFINE open  == {Reloaded(p) : p \in LoggedOpen}
             past  == {Reloaded(p) : p \in Logged("CLOSE")}
             stale == {p \in open : p.entry <= 0}
             swept == {Close(p, "stale_cleanup", 0) : p \in stale}
  <2>1. log \subseteq LogRecord
    BY DEF TypeOK
  <2>2. \A p \in LoggedOpen : p \in Position /\ [act |-> "OPEN", p |-> p] \in log
                              /\ \A r \in log : r.act = "CLOSE" => r.p.id # p.id
    BY <2>1 DEF LoggedOpen, Logged, LogRecord
  <2>3. \A p \in Logged("CLOSE") : p \in Position /\ [act |-> "CLOSE", p |-> p] \in log
    BY <2>1 DEF Logged, LogRecord
  <2>4. \A p \in Position : /\ Reloaded(p) \in Position /\ Reloaded(p).id = p.id
                            /\ Reloaded(p).upto = NoTime /\ Reloaded(p).hours = p.hours
    BY ReloadedType DEF Reloaded, Position
  <2>5. \A p \in LoggedOpen : p.id < nextId /\ p.hours = 0
    BY <2>2 DEF LogInv
  <2>6. ASSUME NEW p \in LoggedOpen, NEW q \in LoggedOpen, p.id = q.id
         PROVE  p = q
    <3>1. [act |-> "OPEN", p |-> p] = [act |-> "OPEN", p |-> q]
      BY <2>2, <2>6 DEF LogInv
    <3>. QED BY <3>1
  <2>7. ASSUME NEW p \in Logged("CLOSE"), NEW q \in Logged("CLOSE"), p.id = q.id
         PROVE  p = q
    <3>1. [act |-> "CLOSE", p |-> p] = [act |-> "CLOSE", p |-> q]
      BY <2>3, <2>7 DEF LogInv
    <3>. QED BY <3>1
  <2>8. \A p \in Logged("CLOSE") : p.id < nextId
    BY <2>3 DEF LogInv
  <2>9. /\ positions' = open \ stale /\ closed' = past \cup swept
         /\ LogTrades("CLOSE", swept) /\ nextId' = nextId
    BY <1>6 DEF Restart
  <2>10. /\ \A p \in open : \E q \in LoggedOpen : p = Reloaded(q)
         /\ \A p \in past : \E q \in Logged("CLOSE") : p = Reloaded(q)
    OBVIOUS
  <2> HIDE DEF open, past
  <2>11. ASSUME NEW p \in open
        PROVE  /\ p \in Position /\ p.id < nextId /\ p.upto = NoTime /\ p.hours = 0
               /\ \A r \in log : r.act = "CLOSE" => r.p.id # p.id
    <3>1. PICK q \in LoggedOpen : p = Reloaded(q)
      BY <2>10
    <3>2. q \in Position
      BY <2>2
    <3>3. p \in Position /\ p.id = q.id /\ p.upto = NoTime /\ p.hours = q.hours
      BY <2>4, <3>1, <3>2
    <3>. QED BY <2>2, <2>5, <3>3
  <2>12. ASSUME NEW p \in open, NEW q \in open, p.id = q.id
        PROVE  p = q
    <3>1. PICK r \in LoggedOpen, s \in LoggedOpen : p = Reloaded(r) /\ q = Reloaded(s)
      BY <2>10
    <3>2. r.id = s.id
      BY <2>2, <2>4, <2>12, <3>1
    <3>. QED BY <2>6, <3>1, <3>2
  <2>13. ASSUME NEW p \in past
        PROVE  p.id < nextId /\ \E r \in log : r.act = "CLOSE" /\ r.p.id = p.id
    <3>1. PICK q \in Logged("CLOSE") : p = Reloaded(q)
      BY <2>10
    <3>2. p.id = q.id /\ [act |-> "CLOSE", p |-> q] \in log
      BY <2>3, <2>4, <3>1
    <3>. QED BY <2>8, <3>2
  <2>14. ASSUME NEW p \in past, NEW q \in past, p.id = q.id
        PROVE  p = q
    <3>1. PICK r \in Logged("CLOSE"), s \in Logged("CLOSE") : p = Reloaded(r) /\ q = Reloaded(s)
      BY <2>10
    <3>2. r.id = s.id
      BY <2>3, <2>4, <2>14, <3>1
    <3>. QED BY <2>7, <3>1, <3>2
  <2>15. \A p \in stale : Close(p, "stale_cleanup", 0).id = p.id
    BY <2>11 DEF Close, Position
  <2>16. \A p \in swept : \E q \in stale : p.id = q.id /\ p = Close(q, "stale_cleanup", 0)
    BY <2>15
  <2>17. stale \subseteq open
    OBVIOUS
  <2> HIDE DEF stale, swept
  <2>18. \A r \in log' : r \in log \/ \E p \in swept : r = [act |-> "CLOSE", p |-> p]
    BY <2>9, LogGrows
  <2>19. \A p, q \in swept : p.id = q.id => p = q
    BY <2>12, <2>16, <2>17
  <2>20. \A p \in past : \A q \in open : p.id # q.id
    BY <2>11, <2>13
  <2>21. \A p \in swept : \E q \in open \cap stale : p.id = q.id
    BY <2>16, <2>17
  <2>22. \A p \in positions', q \in closed' : p.id # q.id
    BY <2>12, <2>9, <2>20, <2>21
  <2>23. EachPositionListedOnce'
    <3>1. \A p, q \in closed' : p.id = q.id => p = q
      BY <2>14, <2>9, <2>19, <2>20, <2>21
    <3>. QED BY <2>12, <2>9, <2>22, <3>1 DEF EachPositionListedOnce
  <2>24. FundingCoversHolding'
    BY <2>11, <2>9 DEF FundingCoversHolding
  <2>25. LogInv'
    <3>1. \A p \in positions' \cup closed' : p.id < nextId'
      BY <2>11, <2>13, <2>9, <2>21
    <3>2. \A p \in swept : p.id < nextId
      BY <2>11, <2>21
    <3>3. \A r \in log' : r.p.id < nextId'
      BY <2>9, <2>18, <3>2 DEF LogInv
    <3>4. \A p \in swept, r \in log : r.act = "CLOSE" => r.p.id # p.id
      BY <2>11, <2>21
    <3>5. \A r, s \in log' : r.act = s.act /\ r.p.id = s.p.id => r = s
      BY <2>18, <2>19, <3>4 DEF LogInv
    <3>6. \A p \in positions', r \in log' : r.act = "CLOSE" => r.p.id # p.id
      <4>1. \A p \in positions', r \in log : r.act = "CLOSE" => r.p.id # p.id
        BY <2>11, <2>9
      <4>2. \A p \in positions', q \in swept : p.id # q.id
        BY <2>9, <2>22
      <4>. QED BY <2>18, <4>1, <4>2
    <3>7. \A r \in log' : r.act = "OPEN" => r.p.hours = 0
      BY <2>18 DEF LogInv
    <3>. QED BY <2>22, <3>1, <3>3, <3>5, <3>6, <3>7 DEF LogInv
  <2>. QED BY <2>23, <2>24, <2>25
<1>7. CASE RestartUnreadable
  <2>1. positions' = {} /\ closed' = {} /\ log' = log /\ nextId' = nextId
    BY <1>7 DEF RestartUnreadable, disk
  <2>. QED BY <2>1 DEF LogInv, EachPositionListedOnce, FundingCoversHolding
<1>8. CASE PassHour \/ UNCHANGED vars
  <2>1. positions' = positions /\ closed' = closed /\ log' = log /\ nextId' = nextId
    BY <1>8 DEF PassHour, disk, vars
  <2>. QED BY <2>1 DEF LogInv, EachPositionListedOnce, FundingCoversHolding
<1>9. CASE OpenSome
  <2>1. PICK a \in Assets, x \in Exchanges, d \in Directions, price \in Prices,
             ts \in {t \in 0..clock : t >= clock - MaxLag} : Open(a, x, d, price, ts)
    BY <1>9 DEF OpenSome
  <2>. QED BY <1>1, <2>1
<1>. QED BY <1>2, <1>3, <1>4, <1>5, <1>6, <1>7, <1>8, <1>9 DEF Next

LEMMA InvInit == Init => LogInv /\ EachPositionListedOnce /\ FundingCoversHolding
<1> SUFFICES ASSUME Init PROVE LogInv /\ EachPositionListedOnce /\ FundingCoversHolding
  OBVIOUS
<1>1. PICK old \in SUBSET Legacy : log = {[act |-> "OPEN", p |-> p] : p \in old}
  BY DEF Init
<1>2. \A p \in old : p.id < FirstId /\ p.hours = 0 /\ \A q \in old : p.id = q.id => p = q
  BY LegacyAssumption
<1>3. positions = {} /\ closed = {} /\ nextId = FirstId
  BY DEF Init
<1>4. \A r \in log : \E p \in old : r = [act |-> "OPEN", p |-> p]
  BY <1>1
<1>. QED BY <1>2, <1>3, <1>4 DEF LogInv, EachPositionListedOnce, FundingCoversHolding

LEMMA Inductive == Spec => []IInv
<1>1. Init /\ TypeOK => IInv
  BY InvInit DEF IInv
<1>2. IInv /\ TypeOK' /\ [Next]_vars => IInv'
  BY InvStep
<1>. QED BY <1>1, <1>2, TypeCorrect, PTL DEF Spec

\* A trade counts once, whatever appends the disk loses and however often the
\* process restarts.
THEOREM ListedOnceAlways == Spec => []EachPositionListedOnce
<1>1. IInv => EachPositionListedOnce
  BY DEF IInv
<1>. QED BY <1>1, Inductive, PTL

\* Funding is paid once for every hour held, restarts included.
THEOREM FundingCoversAlways == Spec => []FundingCoversHolding
<1>1. IInv => FundingCoversHolding
  BY DEF IInv
<1>. QED BY <1>1, Inductive, PTL

-----------------------------------------------------------------------------
(* On a disk that does not fail the log holds the open positions, so that   *)
(* the limits checked in memory hold for what a restart rebuilds.           *)

\* OPEN records that no CLOSE record ends and a restart would not sweep.
LiveRecords ==
  {r \in log : r.act = "OPEN" /\ r.p.entry > 0 /\ \A c \in log : c.act = "CLOSE" => c.p.id # r.p.id}

Same(p, q) == p.id = q.id /\ p.asset = q.asset /\ p.exch = q.exch

\* A running process holds what is live in the log, and that is within limits.
Tracked ==
  /\ up => \A p \in positions : \E r \in LiveRecords : Same(p, r.p)
  /\ up => \A r \in LiveRecords : \E p \in positions : Same(p, r.p)
  /\ ~up => positions = {}

WithinLimits ==
  /\ IsFiniteSet(LiveRecords) /\ Cardinality(LiveRecords) <= MaxOpen
  /\ \A r, s \in LiveRecords : r.p.asset = s.p.asset /\ r.p.exch = s.p.exch => r = s

SafeDisk == ~faulty => ~torn /\ Tracked /\ WithinLimits

LEMMA LiveType ==
  ASSUME IInv
  PROVE  /\ LiveRecords \subseteq LogRecord
         /\ \A r, s \in LiveRecords : r.p.id = s.p.id => r = s
BY DEF IInv, TypeOK, LiveRecords, LogInv

\* What is tracked is as many as what is live.
LEMMA AsManyAsLive ==
  ASSUME IInv, up, Tracked, WithinLimits
  PROVE  IsFiniteSet(positions) /\ Cardinality(positions) = Cardinality(LiveRecords)
<1> DEFINE f == [r \in LiveRecords |-> CHOOSE p \in positions : Same(p, r.p)]
           g == [p \in positions |-> CHOOSE r \in LiveRecords : Same(p, r.p)]
<1>1. \A r \in LiveRecords : f[r] \in positions /\ Same(f[r], r.p) BY DEF Tracked
<1>2. \A p \in positions : g[p] \in LiveRecords /\ Same(p, g[p].p) BY DEF Tracked
<1>3. \A p, q \in positions : p.id = q.id => p = q BY DEF IInv, EachPositionListedOnce
<1>4. f \in [LiveRecords -> positions] /\ g \in [positions -> LiveRecords] BY <1>1, <1>2
<1> HIDE DEF f, g
<1>5. \A p \in positions : f[g[p]] = p BY <1>1, <1>2, <1>3 DEF Same
<1>6. \A r \in LiveRecords : g[f[r]] = r BY <1>1, <1>2, LiveType DEF Same
<1>7. f \in Surjection(LiveRecords, positions) BY <1>2, <1>4, <1>5 DEF Surjection
<1>8. g \in Surjection(positions, LiveRecords) BY <1>1, <1>4, <1>6 DEF Surjection
<1>9. IsFiniteSet(positions) /\ Cardinality(positions) <= Cardinality(LiveRecords)
  BY <1>7, FS_Surjection DEF WithinLimits
<1>10. Cardinality(LiveRecords) <= Cardinality(positions) BY <1>8, <1>9, FS_Surjection
<1> QED BY <1>9, <1>10, FS_CardinalityType DEF WithinLimits

\* On such a disk every append arrives.
LEMMA AllWritten ==
  ASSUME ~faulty, ~torn, NEW act, NEW ps, LogTrades(act, ps)
  PROVE  log' = log \cup {[act |-> act, p |-> p] : p \in ps} /\ ~torn'
BY DEF LogTrades, AppendOutcome, MayFail

\* Opening within the limits of memory stays within those of the log.
LEMMA OpenTracked ==
  ASSUME IInv, SafeDisk, ~faulty,
         NEW a \in Assets, NEW x \in Exchanges, NEW d \in Directions,
         NEW price \in Prices, NEW ts \in 0..clock, Open(a, x, d, price, ts)
  PROVE  (~torn /\ Tracked /\ WithinLimits)'
<1> DEFINE p == [id |-> nextId, asset |-> a, exch |-> x, dir |-> d,
             entry |-> price, opened |-> ts, peak |-> 0, hours |-> 0,
             upto |-> ts, reason |-> "none", pnl |-> 0]
           new == [act |-> "OPEN", p |-> p]
<1>1. /\ positions' = positions \cup {p} /\ LogTrades("OPEN", {p}) /\ up /\ up'
      /\ Cardinality(positions) < MaxOpen /\ ~HasOpenPosition(a, x)
  BY DEF Open, MayOpen
<1>2. p.id = nextId /\ p.entry > 0 /\ p.asset = a /\ p.exch = x BY PricesAssumption
<1>3. new.act = "OPEN" /\ new.p = p OBVIOUS
<1> HIDE DEF p, new
<1>4. log' = log \cup {new} /\ ~torn' BY <1>1, AllWritten DEF SafeDisk, new
<1>5. \A r \in log : r.p.id < nextId /\ r.p.id \in Nat
  BY DEF IInv, LogInv, TypeOK, LogRecord, Position
<1>6. nextId \in Nat BY DEF IInv, TypeOK
<1>7. LiveRecords' = LiveRecords \cup {new} BY <1>2, <1>3, <1>4, <1>5, <1>6 DEF LiveRecords
<1>8. Tracked' BY <1>1, <1>3, <1>7 DEF SafeDisk, Tracked, Same
<1>9. \A r \in LiveRecords : ~(r.p.asset = a /\ r.p.exch = x)
  BY <1>1 DEF SafeDisk, Tracked, HasOpenPosition, Same
<1>10. \A r, s \in LiveRecords' : r.p.asset = s.p.asset /\ r.p.exch = s.p.exch => r = s
  BY <1>2, <1>3, <1>7, <1>9 DEF SafeDisk, WithinLimits
<1>11. IsFiniteSet(LiveRecords) /\ Cardinality(LiveRecords) < MaxOpen
  BY <1>1, AsManyAsLive DEF SafeDisk, WithinLimits
<1>12. IsFiniteSet(LiveRecords') /\ Cardinality(LiveRecords') <= MaxOpen
  <2>1. Cardinality(LiveRecords) \in Nat BY <1>11, FS_CardinalityType
  <2>2. IsFiniteSet(LiveRecords') /\ Cardinality(LiveRecords') \in {Cardinality(LiveRecords), Cardinality(LiveRecords) + 1}
    BY <1>7, <1>11, FS_AddElement
  <2> QED BY <1>11, <2>1, <2>2, CapacityAssumption
<1> QED BY <1>4, <1>8, <1>10, <1>12 DEF WithinLimits

\* Closing some of the positions, the others seen once more.
LEMMA CloseTracked ==
  ASSUME IInv, SafeDisk, ~faulty, up, up',
         NEW seen, NEW due \in SUBSET seen, NEW done, Closes(seen, due, done),
         \A p \in seen : \E q \in positions : Same(p, q),
         \A q \in positions : \E p \in seen : Same(p, q),
         \A p \in due : \E q \in done : p.id = q.id
  PROVE  (~torn /\ Tracked /\ WithinLimits)'
<1>1. positions' = seen \ due /\ LogTrades("CLOSE", done) BY DEF Closes
<1>2. log' = log \cup {[act |-> "CLOSE", p |-> p] : p \in done} /\ ~torn'
  BY <1>1, AllWritten DEF SafeDisk
<1>3. LiveRecords' = {r \in LiveRecords : \A p \in done : p.id # r.p.id}
  <2>1. ASSUME NEW p \in done PROVE \E c \in log' : c.act = "CLOSE" /\ c.p = p
    <3> DEFINE c == [act |-> "CLOSE", p |-> p]
    <3>1. c \in log' BY <1>2
    <3>2. c.act = "CLOSE" /\ c.p = p OBVIOUS
    <3> QED BY <3>1, <3>2
  <2>2. \A c \in log' : c \in log \/ (c.act = "CLOSE" /\ c.p \in done) BY <1>2
  <2>3. log \subseteq log' BY <1>2
  <2>4. ASSUME NEW r \in LiveRecords' PROVE r \in LiveRecords /\ \A p \in done : p.id # r.p.id
    BY <2>1, <2>2, <2>3 DEF LiveRecords
  <2>5. ASSUME NEW r \in LiveRecords, \A p \in done : p.id # r.p.id PROVE r \in LiveRecords'
    BY <2>2, <2>3, <2>5 DEF LiveRecords
  <2> QED BY <2>4, <2>5
<1>4. \A p \in done : \E q \in due : p.id = q.id BY DEF Closes
<1>5. \A p, q \in seen : p.id = q.id => p = q BY DEF Closes
<1>6. ASSUME NEW p \in positions' PROVE \E r \in LiveRecords' : Same(p, r.p)
  <2>1. PICK q \in positions : Same(p, q) BY <1>1
  <2>2. PICK r \in LiveRecords : Same(q, r.p) BY DEF SafeDisk, Tracked
  <2>3. \A e \in done : e.id # p.id BY <1>1, <1>4, <1>5
  <2> QED BY <1>3, <2>1, <2>2, <2>3 DEF Same
<1>7. ASSUME NEW r \in LiveRecords' PROVE \E p \in positions' : Same(p, r.p)
  <2>1. r \in LiveRecords /\ \A p \in done : p.id # r.p.id BY <1>3
  <2>2. PICK q \in positions : Same(q, r.p) BY <2>1 DEF SafeDisk, Tracked
  <2>3. PICK p \in seen : Same(p, q) OBVIOUS
  <2>4. p \notin due BY <2>1, <2>2, <2>3 DEF Same
  <2> QED BY <1>1, <2>2, <2>3, <2>4 DEF Same
<1>8. Tracked' BY <1>6, <1>7 DEF Tracked
<1>9. LiveRecords' \in SUBSET LiveRecords BY <1>3
<1>10. IsFiniteSet(LiveRecords') /\ Cardinality(LiveRecords') <= MaxOpen
  BY <1>9, FS_Subset, FS_CardinalityType, CapacityAssumption DEF SafeDisk, WithinLimits
<1> QED BY <1>2, <1>8, <1>9, <1>10 DEF SafeDisk, WithinLimits

\* What a restart rebuilds: an open position for each record of one that is
\* not closed and has an entry price, a CLOSE record for each that has none.
LEMMA RebuildIs ==
  ASSUME IInv, ~faulty, ~torn, Restart
  PROVE  /\ up' /\ ~torn' /\ log \subseteq log'
         /\ \A p \in positions' : \E q \in LoggedOpen : Same(p, q) /\ q.entry > 0
         /\ \A q \in LoggedOpen : q.entry > 0 => \E p \in positions' : Same(p, q)
         /\ \A c \in log' : c \in log \/ ( /\ c.act = "CLOSE"
                                           /\ \E q \in LoggedOpen : q.id = c.p.id /\ ~(q.entry > 0) )
         /\ \A q \in LoggedOpen : ~(q.entry > 0) => \E c \in log' : c.act = "CLOSE" /\ c.p.id = q.id
         /\ \A p \in closed' : \E c \in log' : c.act = "CLOSE" /\ c.p.id = p.id
         /\ \A c \in log' : c.act = "CLOSE" => \E p \in closed' : c.p.id = p.id
<1> DEFINE open  == {Reloaded(p) : p \in LoggedOpen}
           stale == {p \in open : p.entry <= 0}
           swept == {Close(p, "stale_cleanup", 0) : p \in stale}
           past  == {Reloaded(p) : p \in Logged("CLOSE")}
           rec(p) == [act |-> "CLOSE", p |-> p]
<1>1. positions' = open \ stale /\ closed' = past \cup swept /\ LogTrades("CLOSE", swept) /\ up'
  BY DEF Restart
<1>2. log' = log \cup {rec(p) : p \in swept} /\ ~torn' BY <1>1, AllWritten
<1>3. log \subseteq LogRecord BY DEF IInv, TypeOK
<1>4. LoggedOpen \subseteq Position /\ Logged("CLOSE") \subseteq Position BY <1>3, LoggedType
<1>5. \A p \in Position : Same(Reloaded(p), p) /\ Reloaded(p).entry = p.entry /\ p.entry \in Nat
                          /\ Reloaded(p) \in Position
  BY ReloadedType DEF Reloaded, Position, Same
<1>6. \A p \in Position : Close(p, "stale_cleanup", 0).id = p.id
  <2>1. "stale_cleanup" \in Reasons /\ 0 \in Int BY DEF Reasons
  <2> QED BY <2>1, CloseType
<1>7. ASSUME NEW e \in swept PROVE \E q \in LoggedOpen : q.id = e.id /\ ~(q.entry > 0)
  <2>1. PICK q \in LoggedOpen : Reloaded(q).entry <= 0 /\ e = Close(Reloaded(q), "stale_cleanup", 0)
    OBVIOUS
  <2>2. q \in Position /\ Reloaded(q) \in Position BY <1>4, <1>5
  <2>3. q.id = e.id BY <1>5, <1>6, <2>1, <2>2 DEF Same
  <2>4. ~(q.entry > 0) BY <1>5, <2>1, <2>2
  <2> QED BY <2>3, <2>4
<1>8. ASSUME NEW q \in LoggedOpen, ~(q.entry > 0) PROVE \E e \in swept : q.id = e.id
  <2>1. Same(Reloaded(q), q) /\ Reloaded(q).entry <= 0 /\ Reloaded(q) \in Position BY <1>4, <1>5, <1>8
  <2>2. Close(Reloaded(q), "stale_cleanup", 0) \in swept BY <2>1
  <2> QED BY <1>6, <2>1, <2>2 DEF Same
<1>9. ASSUME NEW p \in positions' PROVE \E q \in LoggedOpen : Same(p, q) /\ q.entry > 0
  <2>1. PICK q \in LoggedOpen : p = Reloaded(q) /\ ~(p.entry <= 0) BY <1>1
  <2> QED BY <1>4, <1>5, <2>1
<1>10. ASSUME NEW q \in LoggedOpen, q.entry > 0 PROVE \E p \in positions' : Same(p, q)
  <2>1. Reloaded(q) \in open /\ Reloaded(q).entry = q.entry /\ q.entry \in Nat BY <1>4, <1>5
  <2>2. Reloaded(q) \in positions' BY <1>1, <1>10, <2>1
  <2> QED BY <1>4, <1>5, <2>2
<1>11. \A p \in Logged("CLOSE") : \E c \in log : c.act = "CLOSE" /\ c.p = p BY DEF Logged
<1>12. \A c \in log : c.act = "CLOSE" => Reloaded(c.p) \in past /\ Reloaded(c.p).id = c.p.id
  BY <1>3, <1>5 DEF Logged, LogRecord, Same
<1>13. \A p \in past : \E q \in Logged("CLOSE") : p.id = q.id BY <1>4, <1>5 DEF Same
<1> HIDE DEF open, stale, swept, past
<1>14. \A e \in swept : rec(e) \in log' /\ rec(e).act = "CLOSE" /\ rec(e).p = e BY <1>2
<1>15. \A c \in log' : c \in log \/ \E e \in swept : c = rec(e) BY <1>2
<1> HIDE DEF rec
<1>16. \A c \in log' : c \in log \/ (c.act = "CLOSE" /\ c.p \in swept) BY <1>14, <1>15
<1>17. \A p \in closed' : \E c \in log' : c.act = "CLOSE" /\ c.p.id = p.id
  <2>1. ASSUME NEW p \in past PROVE \E c \in log' : c.act = "CLOSE" /\ c.p.id = p.id
    BY <1>2, <1>11, <1>13
  <2>2. ASSUME NEW p \in swept PROVE \E c \in log' : c.act = "CLOSE" /\ c.p.id = p.id BY <1>14
  <2> QED BY <1>1, <2>1, <2>2
<1>18. \A c \in log' : c.act = "CLOSE" => \E p \in closed' : c.p.id = p.id
  BY <1>1, <1>12, <1>16
<1>19. \A q \in LoggedOpen : ~(q.entry > 0) => \E c \in log' : c.act = "CLOSE" /\ c.p.id = q.id
  BY <1>8, <1>14
<1>20. log \subseteq log' BY <1>2
<1> QED BY <1>1, <1>2, <1>7, <1>9, <1>10, <1>16, <1>17, <1>18, <1>19, <1>20

\* Its OPEN record is what is known of an open position in the log.
LEMMA LoggedOpenIs ==
  ASSUME IInv
  PROVE  /\ \A q \in LoggedOpen : /\ \E r \in log : r.act = "OPEN" /\ r.p = q
                                  /\ \A c \in log : c.act = "CLOSE" => c.p.id # q.id
         /\ \A r \in log : r.act = "OPEN" /\ (\A c \in log : c.act = "CLOSE" => c.p.id # r.p.id)
                             => r.p \in LoggedOpen
         /\ \A r, s \in log : r.act = s.act /\ r.p.id = s.p.id => r = s
BY DEF IInv, LogInv, LoggedOpen, Logged

\* A restart rebuilds what is live in the log, and sweeps what is not.
LEMMA RestartTracked ==
  ASSUME IInv, SafeDisk, ~faulty, Restart
  PROVE  (~torn /\ Tracked /\ WithinLimits)'
<1>1. ~torn BY DEF SafeDisk
<1>2. ASSUME NEW r \in LiveRecords PROVE r \in LiveRecords'
  <2>1. r \in log /\ r.act = "OPEN" /\ r.p.entry > 0 /\ \A c \in log : c.act = "CLOSE" => c.p.id # r.p.id
    BY DEF LiveRecords
  <2>2. ASSUME NEW c \in log', c.act = "CLOSE" PROVE c.p.id # r.p.id
    <3>1. CASE c \in log BY <2>1, <2>2, <3>1
    <3>2. ASSUME NEW q \in LoggedOpen, q.id = c.p.id, ~(q.entry > 0) PROVE c.p.id # r.p.id
      <4>1. PICK s \in log : s.act = "OPEN" /\ s.p = q BY LoggedOpenIs
      <4> QED BY <2>1, <3>2, <4>1, LoggedOpenIs
    <3> QED BY <1>1, <3>1, <3>2, RebuildIs
  <2> QED BY <1>1, <2>1, <2>2, RebuildIs DEF LiveRecords
<1>3. LiveRecords' = LiveRecords
  <2>1. \A r \in LiveRecords' : r \in LiveRecords BY <1>1, RebuildIs DEF LiveRecords
  <2> QED BY <1>2, <2>1
<1>4. ASSUME NEW p \in positions' PROVE \E r \in LiveRecords : Same(p, r.p)
  <2>1. PICK q \in LoggedOpen : Same(p, q) /\ q.entry > 0 BY <1>1, RebuildIs
  <2>2. PICK r \in log : r.act = "OPEN" /\ r.p = q BY LoggedOpenIs
  <2>3. r \in LiveRecords BY <2>1, <2>2, LoggedOpenIs DEF LiveRecords
  <2> QED BY <2>1, <2>2, <2>3
<1>5. ASSUME NEW r \in LiveRecords PROVE \E p \in positions' : Same(p, r.p)
  <2>1. r.p \in LoggedOpen /\ r.p.entry > 0 BY LoggedOpenIs DEF LiveRecords
  <2> QED BY <1>1, <2>1, RebuildIs
<1>6. ~torn' /\ up' BY <1>1, RebuildIs
<1>7. Tracked' BY <1>3, <1>4, <1>5, <1>6 DEF Tracked
<1>8. WithinLimits' BY <1>3 DEF SafeDisk, WithinLimits
<1> QED BY <1>6, <1>7, <1>8

\* Positions seen once more, some of them closed: what CloseTracked supposes.
ClosesSome(seen, due, done) ==
  /\ due \subseteq seen /\ Closes(seen, due, done)
  /\ \A p \in seen : \E q \in positions : Same(p, q)
  /\ \A q \in positions : \E p \in seen : Same(p, q)
  /\ \A p \in due : \E q \in done : p.id = q.id

LEMMA ExitsClose ==
  ASSUME IInv, NEW quote \in Quotes, CheckExits(quote)
  PROVE  \E seen, due, done : ClosesSome(seen, due, done)
<1> DEFINE seen == {Observed(p, quote) : p \in positions}
           due  == {p \in seen : ExitReason(p, quote, clock) # "none"}
           done == {Close(p, ExitReason(p, quote, clock), Move(p, quote[p.asset])) : p \in due}
<1>1. positions \subseteq Position BY DEF IInv, TypeOK
<1>2. \A p \in Position : Same(Observed(p, quote), p) BY DEF Same, Observed, Position
<1>3. /\ \A p \in seen : \E q \in positions : Same(p, q)
      /\ \A q \in positions : \E p \in seen : Same(p, q)
  BY <1>1, <1>2
<1>4. \A p \in seen : p \in Position BY <1>1, ObservedType
<1>5. \A p \in due : Close(p, ExitReason(p, quote, clock), Move(p, quote[p.asset])).id = p.id
  BY <1>4 DEF Close, Position
<1>6. \A p \in due : \E q \in done : p.id = q.id BY <1>5
<1>7. \A p \in seen : \E q \in positions :
        p.id = q.id /\ p.hours = q.hours /\ p.upto = q.upto /\ p.opened = q.opened
  BY <1>1, ObservedKeeps
<1>8. \A p, q \in seen : p.id = q.id => p = q
  BY <1>1, ObservedKeeps DEF IInv, EachPositionListedOnce
<1>9. \A p \in done : \E q \in due : p.id = q.id BY <1>5
<1>10. \A p, q \in done : p.id = q.id => p = q BY <1>5, <1>8
<1>11. /\ positions' = seen \ due /\ closed' = closed \cup done
       /\ LogTrades("CLOSE", done) /\ nextId' = nextId
  BY DEF CheckExits
<1>12. Closes(seen, due, done) BY <1>7, <1>8, <1>9, <1>10, <1>11 DEF Closes
<1>13. due \subseteq seen OBVIOUS
<1> HIDE DEF seen, due, done
<1> QED BY <1>3, <1>6, <1>12, <1>13 DEF ClosesSome

LEMMA AssetCloses ==
  ASSUME IInv, NEW a \in Assets, NEW x \in Exchanges, ClosePositionsForAsset(a, x)
  PROVE  \E seen, due, done : ClosesSome(seen, due, done)
<1> DEFINE gone == {p \in positions : p.asset = a /\ p.exch = x}
           done == {Close(p, "regime_change", 0) : p \in gone}
<1>1. \A p \in gone : Close(p, "regime_change", 0).id = p.id
  BY DEF IInv, TypeOK, Close, Position
<1>2. \A p \in gone : \E q \in done : p.id = q.id BY <1>1
<1>3. \A p \in positions : Same(p, p) BY DEF Same
<1>4. \A p, q \in positions : p.id = q.id => p = q BY DEF IInv, EachPositionListedOnce
<1>5. \A p \in done : \E q \in gone : p.id = q.id BY <1>1
<1>6. \A p, q \in done : p.id = q.id => p = q BY <1>1, <1>4
<1>7. /\ positions' = positions \ gone /\ closed' = closed \cup done
      /\ LogTrades("CLOSE", done) /\ nextId' = nextId
  BY DEF ClosePositionsForAsset
<1>8. Closes(positions, gone, done) BY <1>4, <1>5, <1>6, <1>7 DEF Closes
<1>9. gone \subseteq positions OBVIOUS
<1> HIDE DEF gone, done
<1> QED BY <1>2, <1>3, <1>8, <1>9 DEF ClosesSome

\* The steps that leave the log and the ids held as they are.
LEMMA FundingKeepsIds ==
  ASSUME IInv, NEW rated \in SUBSET Assets, AccrueHourly(rated)
  PROVE  /\ \A p \in positions' : \E q \in positions : Same(p, q)
         /\ \A q \in positions : \E p \in positions' : Same(p, q)
<1> DEFINE after(p) == IF p.asset \in rated /\ clock > PaidUpTo(p) THEN Paid(p) ELSE p
<1>1. positions' = {after(p) : p \in positions} BY DEF AccrueHourly
<1>2. \A p \in positions : Same(after(p), p) BY DEF IInv, TypeOK, Same, Paid, Position
<1> HIDE DEF after
<1> QED BY <1>1, <1>2

LEMMA SafeDiskStep ==
  ASSUME IInv, SafeDisk, [Next]_vars
  PROVE  SafeDisk'
<1>9. faulty' = faulty
  BY DEF vars, Next, OpenSome, Open, CheckExits, AccrueHourly,
         ClosePositionsForAsset, Crash, Restart, RestartUnreadable, PassHour
<1>0. SUFFICES ASSUME ~faulty PROVE (~torn /\ Tracked /\ WithinLimits)'
  BY <1>9 DEF SafeDisk
<1>1. CASE OpenSome
  <2>1. PICK a \in Assets, x \in Exchanges, d \in Directions, price \in Prices,
             ts \in {t \in 0..clock : t >= clock - MaxLag} : Open(a, x, d, price, ts)
    BY <1>1 DEF OpenSome
  <2> QED BY <1>0, <2>1, OpenTracked
<1>2. ASSUME NEW quote \in Quotes, CheckExits(quote) PROVE (~torn /\ Tracked /\ WithinLimits)'
  <2>1. PICK seen, due, done : ClosesSome(seen, due, done) BY <1>2, ExitsClose
  <2>2. up /\ up' /\ due \in SUBSET seen BY <1>2, <2>1 DEF CheckExits, ClosesSome
  <2> QED BY <1>0, <2>1, <2>2, CloseTracked DEF ClosesSome
<1>3. ASSUME NEW rated \in SUBSET Assets, AccrueHourly(rated)
      PROVE  (~torn /\ Tracked /\ WithinLimits)'
  <2>1. log' = log /\ torn' = torn /\ up /\ up' BY <1>3 DEF AccrueHourly, disk
  <2>2. LiveRecords' = LiveRecords BY <2>1 DEF LiveRecords
  <2>3. Tracked' BY <1>0, <1>3, <2>1, <2>2, FundingKeepsIds DEF SafeDisk, Tracked, Same
  <2> QED BY <1>0, <2>1, <2>2, <2>3 DEF SafeDisk, WithinLimits
<1>4. ASSUME NEW a \in Assets, NEW x \in Exchanges, ClosePositionsForAsset(a, x)
      PROVE  (~torn /\ Tracked /\ WithinLimits)'
  <2>1. PICK seen, due, done : ClosesSome(seen, due, done) BY <1>4, AssetCloses
  <2>2. up /\ up' /\ due \in SUBSET seen BY <1>4, <2>1 DEF ClosePositionsForAsset, ClosesSome
  <2> QED BY <1>0, <2>1, <2>2, CloseTracked DEF ClosesSome
<1>5. CASE Crash
  <2>1. ~up' /\ positions' = {} /\ log' = log /\ torn' = torn BY <1>0, <1>5 DEF Crash, MayFail
  <2>2. LiveRecords' = LiveRecords BY <2>1 DEF LiveRecords
  <2> QED BY <1>0, <2>1, <2>2 DEF SafeDisk, Tracked, WithinLimits
<1>6. CASE Restart BY <1>0, <1>6, RestartTracked
<1>7. CASE RestartUnreadable BY <1>0, <1>7 DEF RestartUnreadable, MayFail
<1>8. CASE PassHour \/ UNCHANGED vars
  <2>1. up' = up /\ positions' = positions /\ log' = log /\ torn' = torn BY <1>8 DEF PassHour, disk, vars
  <2>2. LiveRecords' = LiveRecords BY <2>1 DEF LiveRecords
  <2> QED BY <1>0, <2>1, <2>2 DEF SafeDisk, Tracked, WithinLimits
<1> QED BY <1>1, <1>2, <1>3, <1>4, <1>5, <1>6, <1>7, <1>8 DEF Next

LEMMA SafeDiskAlways == Spec => [](IInv /\ SafeDisk)
<1>1. Init => SafeDisk
  <2> SUFFICES ASSUME Init PROVE SafeDisk OBVIOUS
  <2>1. PICK old \in SUBSET Legacy : log = {[act |-> "OPEN", p |-> p] : p \in old} BY DEF Init
  <2>2. \A p \in old : ~(p.entry > 0) BY LegacyAssumption
  <2>3. \A r \in log : ~(r.p.entry > 0) BY <2>1, <2>2
  <2>4. LiveRecords = {} BY <2>3 DEF LiveRecords
  <2>5. ~up /\ positions = {} /\ ~torn BY DEF Init
  <2> QED BY <2>4, <2>5, FS_EmptySet, CapacityAssumption DEF SafeDisk, Tracked, WithinLimits
<1>2. IInv /\ SafeDisk /\ [Next]_vars => SafeDisk' BY SafeDiskStep
<1> QED BY <1>1, <1>2, Inductive, PTL DEF Spec

\* open_position compares len(self.positions) with max_open_positions in its
\* own process; on a disk that does not fail this bounds the open positions
\* for ever, those rebuilt by _reload_open_positions_from_log included.
THEOREM AtMostMaxOpenAlways == Spec => []AtMostMaxOpen
<1>1. IInv /\ SafeDisk => AtMostMaxOpen
  <2> SUFFICES ASSUME IInv, SafeDisk, ~faulty PROVE Cardinality(positions) <= MaxOpen
    BY DEF AtMostMaxOpen
  <2>1. CASE up BY <2>1, AsManyAsLive DEF SafeDisk, WithinLimits
  <2>2. CASE ~up BY <2>2, FS_EmptySet, CapacityAssumption DEF SafeDisk, Tracked
  <2> QED BY <2>1, <2>2
<1> QED BY <1>1, SafeDiskAlways, PTL

\* has_open_position looks at its own process; on a disk that does not fail
\* no two positions of a market are ever open, restarts included.
THEOREM OnePositionPerMarketAlways == Spec => []OnePositionPerMarket
<1>1. IInv /\ SafeDisk => OnePositionPerMarket
  <2> SUFFICES ASSUME IInv, SafeDisk, ~faulty, NEW p \in positions, NEW q \in positions,
                      p.asset = q.asset, p.exch = q.exch
               PROVE  p = q
    BY DEF OnePositionPerMarket
  <2>1. up BY DEF SafeDisk, Tracked
  <2>2. PICK r \in LiveRecords, s \in LiveRecords : Same(p, r.p) /\ Same(q, s.p)
    BY <2>1 DEF SafeDisk, Tracked
  <2>3. r = s BY <2>2 DEF SafeDisk, WithinLimits, Same
  <2> QED BY <2>2, <2>3 DEF IInv, EachPositionListedOnce, Same
<1> QED BY <1>1, SafeDiskAlways, PTL

-----------------------------------------------------------------------------
(* On such a disk the paper trader implements the ledger: what memory says  *)
(* of every position is what the log says.                                 *)

Begun(i) == \E r \in log : r.act = "OPEN" /\ r.p.id = i
Ended(i) == \E r \in log : r.act = "CLOSE" /\ r.p.id = i
Holds(i) == \E p \in positions : p.id = i
HasClosed(i) == \E p \in closed : p.id = i

Told ==
  ~faulty =>
    /\ up => \A i \in Nat : (Holds(i) <=> Begun(i) /\ ~Ended(i)) /\ (HasClosed(i) <=> Ended(i))
    /\ ~up => positions = {} /\ closed = {}

\* The ids opened and those closed by a step.
Tells(B, E) ==
  \A i \in Nat : (Begun(i)' <=> Begun(i) \/ i \in B) /\ (Ended(i)' <=> Ended(i) \/ i \in E)

LEMMA LifeIs ==
  ASSUME NEW i \in 0..MaxId
  PROVE  LoggedLife[i] = IF Ended(i) THEN "closed" ELSE IF Begun(i) THEN "open" ELSE "fresh"
<1>1. \A act : (\E p \in Logged(act) : p.id = i) <=> \E r \in log : r.act = act /\ r.p.id = i
  BY DEF Logged
<1> QED BY <1>1 DEF LoggedLife, Ended, Begun

LEMMA BeliefIs == Told /\ up /\ ~faulty => Belief = LoggedLife
<1> SUFFICES ASSUME Told, up, ~faulty PROVE Belief = LoggedLife OBVIOUS
<1>1. \A i \in 0..MaxId : i \in Nat BY BoundsAssumption
<1>2. ASSUME NEW i \in 0..MaxId PROVE Belief[i] = LoggedLife[i]
  BY <1>1, LifeIs DEF Belief, Told, Holds, HasClosed
<1> QED BY <1>2 DEF Belief, LoggedLife

LEMMA BeliefIsNext == (Told /\ up /\ ~faulty => Belief = LoggedLife)'
BY BeliefIs, PTL

\* What an append on such a disk tells.
LEMMA ClosesTold ==
  ASSUME ~faulty, ~torn, NEW ps, LogTrades("CLOSE", ps)
  PROVE  Tells({}, {p.id : p \in ps})
<1> DEFINE rec(p) == [act |-> "CLOSE", p |-> p]
<1>1. log' = log \cup {rec(p) : p \in ps} BY AllWritten
<1>2. \A p \in ps : rec(p) \in log' /\ rec(p).act = "CLOSE" /\ rec(p).p = p BY <1>1
<1>3. \A r \in log' : r \in log \/ \E p \in ps : r = rec(p) BY <1>1
<1>4. log \subseteq log' BY <1>1
<1> HIDE DEF rec
<1>5. \A i : Begun(i)' <=> Begun(i) BY <1>2, <1>3, <1>4 DEF Begun
<1>6. \A i : Ended(i)' <=> Ended(i) \/ i \in {p.id : p \in ps} BY <1>2, <1>3, <1>4 DEF Ended
<1> QED BY <1>5, <1>6 DEF Tells

LEMMA OpensTold ==
  ASSUME ~faulty, ~torn, NEW p, LogTrades("OPEN", {p})
  PROVE  Tells({p.id}, {})
<1> DEFINE new == [act |-> "OPEN", p |-> p]
<1>1. log' = log \cup {new} /\ new.act = "OPEN" /\ new.p = p BY AllWritten
<1> HIDE DEF new
<1> QED BY <1>1 DEF Tells, Begun, Ended

\* How a step of the log looks in the ledger.
LEMMA LifeMoves ==
  ASSUME NEW B, NEW E, Tells(B, E)
  PROVE  LoggedLife' = [i \in 0..MaxId |-> IF i \in E THEN "closed"
                          ELSE IF i \in B /\ ~Ended(i) THEN "open" ELSE LoggedLife[i]]
<1>1. \A i \in 0..MaxId : i \in Nat BY BoundsAssumption
<1>2. ASSUME NEW i \in 0..MaxId
      PROVE  LoggedLife'[i] = IF Ended(i)' THEN "closed" ELSE IF Begun(i)' THEN "open" ELSE "fresh"
  <2>1. \A act : (\E p \in Logged(act)' : p.id = i) <=> \E r \in log' : r.act = act /\ r.p.id = i
    BY DEF Logged
  <2> QED BY <2>1 DEF LoggedLife, Ended, Begun
<1>3. LoggedLife' = [i \in 0..MaxId |-> LoggedLife'[i]] BY DEF LoggedLife
<1> QED BY <1>1, <1>2, <1>3, LifeIs DEF Tells

LEMMA OpenRefines ==
  ASSUME IInv, SafeDisk, Told, ~faulty,
         NEW a \in Assets, NEW x \in Exchanges, NEW d \in Directions,
         NEW price \in Prices, NEW ts \in 0..clock, Open(a, x, d, price, ts)
  PROVE  Told' /\ Ledger!Next
<1> DEFINE p == [id |-> nextId, asset |-> a, exch |-> x, dir |-> d,
             entry |-> price, opened |-> ts, peak |-> 0, hours |-> 0,
             upto |-> ts, reason |-> "none", pnl |-> 0]
<1>1. /\ positions' = positions \cup {p} /\ closed' = closed /\ LogTrades("OPEN", {p})
      /\ up /\ up' /\ ~faulty' /\ Cardinality(positions) < MaxOpen /\ nextId <= MaxId
  BY DEF Open, MayOpen
<1>2. p.id = nextId OBVIOUS
<1> HIDE DEF p
<1>3. Tells({nextId}, {}) BY <1>1, <1>2, OpensTold DEF SafeDisk
<1>4. nextId \in Nat /\ nextId \in 0..MaxId BY <1>1, BoundsAssumption DEF IInv, TypeOK
<1>5. ~Begun(nextId) /\ ~Ended(nextId)
  BY <1>4 DEF Begun, Ended, IInv, LogInv, TypeOK, LogRecord, Position
<1>6. \A i \in Nat : (Holds(i)' <=> Holds(i) \/ i = nextId) /\ (HasClosed(i)' <=> HasClosed(i))
  BY <1>1, <1>2 DEF Holds, HasClosed
<1>7. Told' BY <1>1, <1>3, <1>5, <1>6 DEF Told, Tells
<1>8. LoggedLife' = [LoggedLife EXCEPT ![nextId] = "open"]
  <2>1. LoggedLife' = [i \in 0..MaxId |-> IF i = nextId THEN "open" ELSE LoggedLife[i]]
    BY <1>3, <1>5, LifeMoves
  <2>2. LoggedLife = [i \in 0..MaxId |-> LoggedLife[i]] BY DEF LoggedLife
  <2> QED BY <1>4, <2>1, <2>2
<1>9. Belief' = LoggedLife' BY <1>1, <1>7, BeliefIsNext
<1>10. LoggedLife[nextId] = "fresh" BY <1>4, <1>5, LifeIs
<1>11. Cardinality({i \in 0..MaxId : LoggedLife[i] = "open"}) < MaxOpen
  <2> DEFINE O == {i \in 0..MaxId : LoggedLife[i] = "open"}
             P == {q \in positions : q.id \in 0..MaxId}
             f == [q \in P |-> q.id]
  <2>1. IsFiniteSet(positions) /\ Cardinality(positions) \in Nat
    BY <1>1, AsManyAsLive, FS_CardinalityType DEF SafeDisk
  <2>2. IsFiniteSet(P) /\ Cardinality(P) <= Cardinality(positions) BY <2>1, FS_Subset
  <2>3. \A i \in 0..MaxId : i \in Nat BY BoundsAssumption
  <2>4. \A i \in 0..MaxId : LoggedLife[i] = "open" <=> Holds(i)
    BY <1>1, <2>3, LifeIs DEF Told
  <2>5. \A i \in O : \E q \in P : f[q] = i BY <2>4 DEF Holds
  <2>6. f \in [P -> O] BY <2>4 DEF Holds
  <2> HIDE DEF O, P, f
  <2>7. f \in Surjection(P, O) BY <2>5, <2>6 DEF Surjection
  <2>8. IsFiniteSet(O) /\ Cardinality(O) <= Cardinality(P) BY <2>2, <2>7, FS_Surjection
  <2>9. Cardinality(O) \in Nat /\ Cardinality(P) \in Nat BY <2>2, <2>8, FS_CardinalityType
  <2>10. Cardinality(O) < MaxOpen BY <1>1, <2>1, <2>2, <2>8, <2>9, CapacityAssumption
  <2> QED BY <2>10 DEF O
<1>12. Ledger!Open(nextId)
  <2>1. Ledger!OpenIds = {i \in 0..MaxId : LoggedLife[i] = "open"} BY DEF Ledger!OpenIds
  <2>2. \A S : Ledger!Cardinality(S) = Cardinality(S)
    BY DEF Ledger!Cardinality, Cardinality, Ledger!IsFiniteSet, IsFiniteSet
  <2> QED BY <1>1, <1>8, <1>9, <1>10, <1>11, <2>1, <2>2 DEF Ledger!Open
<1> QED BY <1>4, <1>7, <1>12 DEF Ledger!Next

\* The ledger sees the ids it knows of a set of closed ones.
LEMMA LedgerCloses ==
  ASSUME Told, Told', ~faulty, ~faulty', up', NEW E,
         Tells({}, E), \A i \in E \cap 0..MaxId : Begun(i) /\ ~Ended(i)
  PROVE  /\ up => [Ledger!Next]_(Ledger!vars)
         /\ ~up => Ledger!Next
<1> DEFINE S == E \cap 0..MaxId
<1>1. LoggedLife' = [i \in 0..MaxId |-> IF i \in S THEN "closed" ELSE LoggedLife[i]]
  BY LifeMoves
<1>2. S \in SUBSET {i \in 0..MaxId : LoggedLife[i] = "open"} BY LifeIs
<1>3. Belief' = LoggedLife' BY BeliefIsNext
<1> HIDE DEF S
<1>4. LoggedLife' = Ledger!Closing(S) BY <1>1 DEF Ledger!Closing
<1>5. S \in SUBSET Ledger!OpenIds BY <1>2 DEF Ledger!OpenIds
<1>6. CASE up /\ S # {}
  <2>1. Ledger!CloseAll(S) BY <1>3, <1>4, <1>6 DEF Ledger!CloseAll
  <2> QED BY <1>5, <1>6, <2>1 DEF Ledger!Next
<1>7. CASE up /\ S = {}
  <2>1. LoggedLife' = LoggedLife BY <1>1, <1>7 DEF LoggedLife
  <2>2. Belief' = Belief BY <1>3, <1>7, <2>1, BeliefIs
  <2> QED BY <1>7, <2>1, <2>2 DEF Ledger!vars
<1>8. CASE ~up
  <2>1. Ledger!Resume(S) BY <1>3, <1>4, <1>8 DEF Ledger!Resume
  <2> QED BY <1>5, <1>8, <2>1 DEF Ledger!Next
<1> QED BY <1>6, <1>7, <1>8

LEMMA CloseRefines ==
  ASSUME IInv, SafeDisk, Told, ~faulty, ~faulty', up, up',
         NEW seen, NEW due \in SUBSET seen, NEW done, Closes(seen, due, done),
         \A q \in positions : \E p \in seen : Same(p, q),
         \A p \in due : \E q \in done : p.id = q.id
  PROVE  Told' /\ [Ledger!Next]_(Ledger!vars)
<1> DEFINE E == {p.id : p \in done}
<1>1. Tells({}, E) BY ClosesTold DEF SafeDisk, Closes
<1>2. \A i : i \in E <=> \E p \in due : p.id = i BY DEF Closes
<1>3. \A p \in seen : Holds(p.id) /\ p.id \in Nat
  BY DEF Closes, Holds, IInv, TypeOK, Position
<1>4. \A i \in Nat : HasClosed(i)' <=> HasClosed(i) \/ i \in E BY DEF Closes, HasClosed
<1> HIDE DEF E
<1>5. \A i \in Nat : Holds(i)' <=> Holds(i) /\ i \notin E
  <2>1. \A p, q \in seen : p.id = q.id => p = q BY DEF Closes
  <2>2. \A i \in Nat : Holds(i) <=> \E p \in seen : p.id = i BY <1>3 DEF Holds, Same
  <2>3. \A i : Holds(i)' <=> \E p \in seen \ due : p.id = i BY DEF Holds, Closes
  <2> QED BY <1>2, <2>1, <2>2, <2>3
<1>6. Told' BY <1>1, <1>4, <1>5 DEF Told, Tells
<1>7. \A i \in E \cap 0..MaxId : Begun(i) /\ ~Ended(i)
  BY <1>2, <1>3 DEF Told
<1> QED BY <1>1, <1>6, <1>7, LedgerCloses

LEMMA RestartRefines ==
  ASSUME IInv, SafeDisk, Told, ~faulty, Restart
  PROVE  Told' /\ Ledger!Next
<1> DEFINE E == {q.id : q \in {p \in LoggedOpen : ~(p.entry > 0)}}
<1>1. ~torn /\ ~up /\ ~faulty' BY DEF SafeDisk, Restart
<1>2. up' /\ log \subseteq log' BY <1>1, RebuildIs
<1>3. Tells({}, E)
  <2>1. \A r \in log' : r.act = "OPEN" => r \in log BY <1>1, RebuildIs
  <2>2. \A i : Begun(i)' <=> Begun(i) BY <1>2, <2>1 DEF Begun
  <2>3. ASSUME NEW i, Ended(i)' PROVE Ended(i) \/ i \in E
    BY <1>1, <2>3, RebuildIs DEF Ended
  <2>4. ASSUME NEW i \in E PROVE Ended(i)' BY <1>1, RebuildIs DEF Ended
  <2>5. \A i : Ended(i) => Ended(i)' BY <1>2 DEF Ended
  <2> QED BY <2>2, <2>3, <2>4, <2>5 DEF Tells
<1>4. \A q \in LoggedOpen : Begun(q.id) /\ ~Ended(q.id) BY LoggedOpenIs DEF Begun, Ended
<1>5. ASSUME NEW i, Begun(i), ~Ended(i) PROVE \E q \in LoggedOpen : q.id = i
  BY <1>5, LoggedOpenIs DEF Begun, Ended
<1>6. \A p, q \in LoggedOpen : p.id = q.id => p = q BY LoggedOpenIs
<1>7. \A i : Holds(i)' <=> \E q \in LoggedOpen : q.id = i /\ q.entry > 0
  BY <1>1, RebuildIs DEF Holds, Same
<1>8. \A i \in Nat : Holds(i)' <=> Begun(i)' /\ ~Ended(i)'
  <2>1. \A i : Holds(i)' <=> Begun(i) /\ ~Ended(i) /\ i \notin E BY <1>4, <1>5, <1>6, <1>7
  <2> QED BY <1>3, <2>1 DEF Tells
<1>9. \A i : HasClosed(i)' <=> Ended(i)' BY <1>1, RebuildIs DEF HasClosed, Ended
<1>10. Told' BY <1>2, <1>8, <1>9 DEF Told
<1>11. \A i \in E \cap 0..MaxId : Begun(i) /\ ~Ended(i) BY <1>4
<1> HIDE DEF E
<1> QED BY <1>1, <1>2, <1>3, <1>10, <1>11, LedgerCloses

\* A step that tells nothing is not seen in the ledger.
LEMMA QuietRefines ==
  ASSUME Told, UNCHANGED <<up, closed, log, faulty>>, \A i \in Nat : Holds(i)' <=> Holds(i),
         positions = {} => positions' = {}
  PROVE  Told' /\ UNCHANGED Ledger!vars
<1>1. \A i : (Begun(i)' <=> Begun(i)) /\ (Ended(i)' <=> Ended(i)) /\ (HasClosed(i)' <=> HasClosed(i))
  BY DEF Begun, Ended, HasClosed
<1>2. Told' BY <1>1 DEF Told
<1>3. LoggedLife' = LoggedLife BY DEF LoggedLife, Logged
<1>4. \A i \in 0..MaxId : i \in Nat BY BoundsAssumption
<1>5. Belief' = Belief
  <2>1. \A i \in 0..MaxId : (\E p \in positions : p.id = i)' <=> \E p \in positions : p.id = i
    BY <1>4 DEF Holds
  <2> QED BY <2>1 DEF Belief
<1> QED BY <1>2, <1>3, <1>5 DEF Ledger!vars, Fresh

LEMMA StepRefines ==
  ASSUME IInv, SafeDisk, Told, [Next]_vars
  PROVE  Told' /\ [Ledger!Next]_(Ledger!vars)
<1>1. faulty' = faulty
  BY DEF vars, Next, OpenSome, Open, CheckExits, AccrueHourly,
         ClosePositionsForAsset, Crash, Restart, RestartUnreadable, PassHour
<1>2. CASE faulty
  <2>1. Told' /\ UNCHANGED Ledger!vars BY <1>1, <1>2 DEF Told, Ledger!vars, Fresh
  <2> QED BY <2>1
<1> SUFFICES ASSUME ~faulty PROVE Told' /\ [Ledger!Next]_(Ledger!vars) BY <1>2
<1>3. CASE OpenSome
  <2>1. PICK a \in Assets, x \in Exchanges, d \in Directions, price \in Prices,
             ts \in {t \in 0..clock : t >= clock - MaxLag} : Open(a, x, d, price, ts)
    BY <1>3 DEF OpenSome
  <2> QED BY <2>1, OpenRefines
<1>4. ASSUME NEW quote \in Quotes, CheckExits(quote) PROVE Told' /\ [Ledger!Next]_(Ledger!vars)
  <2>1. PICK seen, due, done : ClosesSome(seen, due, done) BY <1>4, ExitsClose
  <2>2. up /\ up' /\ due \in SUBSET seen BY <1>4, <2>1 DEF CheckExits, ClosesSome
  <2> QED BY <1>1, <2>1, <2>2, CloseRefines DEF ClosesSome
<1>5. ASSUME NEW a \in Assets, NEW x \in Exchanges, ClosePositionsForAsset(a, x)
      PROVE  Told' /\ [Ledger!Next]_(Ledger!vars)
  <2>1. PICK seen, due, done : ClosesSome(seen, due, done) BY <1>5, AssetCloses
  <2>2. up /\ up' /\ due \in SUBSET seen BY <1>5, <2>1 DEF ClosePositionsForAsset, ClosesSome
  <2> QED BY <1>1, <2>1, <2>2, CloseRefines DEF ClosesSome
<1>6. ASSUME NEW rated \in SUBSET Assets, AccrueHourly(rated)
      PROVE  Told' /\ UNCHANGED Ledger!vars
  <2>1. UNCHANGED <<up, closed, log, faulty>> BY <1>6 DEF AccrueHourly, disk
  <2>2. \A i \in Nat : Holds(i)' <=> Holds(i) BY <1>6, FundingKeepsIds DEF Holds, Same
  <2>3. positions = {} => positions' = {} BY <1>6, FundingKeepsIds
  <2> QED BY <2>1, <2>2, <2>3, QuietRefines
<1>7. CASE Crash
  <2>1. up /\ ~up' /\ positions' = {} /\ closed' = {} /\ log' = log BY <1>7 DEF Crash
  <2>2. Told' BY <2>1 DEF Told
  <2>3. LoggedLife' = LoggedLife BY <2>1 DEF LoggedLife, Logged
  <2>4. Belief' = Ledger!Nothing BY <2>1 DEF Belief, Ledger!Nothing
  <2>5. Ledger!Stop BY <1>1, <2>1, <2>3, <2>4 DEF Ledger!Stop
  <2> QED BY <2>2, <2>5 DEF Ledger!Next
<1>8. CASE Restart BY <1>8, RestartRefines
<1>9. CASE RestartUnreadable BY <1>9 DEF RestartUnreadable, MayFail
<1>10. CASE PassHour \/ UNCHANGED vars
  <2>1. UNCHANGED <<up, positions, closed, log, faulty>> BY <1>10 DEF PassHour, disk, vars
  <2>2. \A i \in Nat : Holds(i)' <=> Holds(i) BY <2>1 DEF Holds
  <2>3. Told' /\ UNCHANGED Ledger!vars BY <2>1, <2>2, QuietRefines
  <2> QED BY <2>3
<1> QED BY <1>3, <1>4, <1>5, <1>6, <1>7, <1>8, <1>9, <1>10 DEF Next

LEMMA InitRefines == Init => Told /\ Ledger!Init
<1> SUFFICES ASSUME Init PROVE Told /\ Ledger!Init OBVIOUS
<1>1. PICK old \in SUBSET Legacy : log = {[act |-> "OPEN", p |-> p] : p \in old} BY DEF Init
<1>2. \A r \in log : r.act = "OPEN" BY <1>1
<1>3. ~up /\ positions = {} /\ closed = {} BY DEF Init
<1>4. Told BY <1>3 DEF Told
<1>5. \A i \in 0..MaxId : LoggedLife[i] \in {"fresh", "open"} BY <1>2, LifeIs DEF Ended
<1>6. LoggedLife \in [0..MaxId -> {"fresh", "open"}]
  <2>1. LoggedLife = [i \in 0..MaxId |-> LoggedLife[i]] BY DEF LoggedLife
  <2> QED BY <1>5, <2>1
<1>7. Fresh \in [0..MaxId -> {"fresh", "open"}] /\ Fresh = Ledger!Nothing
  BY DEF Fresh, Ledger!Nothing
<1>8. Belief = Ledger!Nothing BY <1>3 DEF Belief, Ledger!Nothing
<1>9. Ledger!Init BY <1>3, <1>6, <1>7, <1>8 DEF Ledger!Init
<1> QED BY <1>4, <1>9

\* On a disk that does not fail, crashes and restarts between any two
\* operations are invisible: the paper trader implements PositionLedger, in
\* which each position is opened once, within the limit, and closed once, and
\* a running process believes what happened.
THEOREM RestartInvisibleAlways == Spec => RestartInvisible
<1>1. Init => Told /\ Ledger!Init BY InitRefines
<1>2. IInv /\ SafeDisk /\ Told /\ [Next]_vars => Told' /\ [Ledger!Next]_(Ledger!vars) BY StepRefines
<1> QED BY <1>1, <1>2, SafeDiskAlways, PTL DEF Spec, RestartInvisible, Ledger!Spec
=============================================================================
