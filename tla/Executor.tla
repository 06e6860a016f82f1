------------------------------- MODULE Executor -------------------------------
(***************************************************************************)
(* The execution bridge (src/execution/executor.py): the gates between a   *)
(* scored signal and an order on the exchange, the kill switch, the daily  *)
(* loss limit and the circuit breaker.  An execution asks the exchange     *)
(* several times; the operator and the trading engine, which shares the    *)
(* wallet, act in between.                                                 *)
(***************************************************************************)
EXTENDS Integers, FiniteSets

CONSTANTS
  Coins,
  MaxConcurrent,     \* MAX_CONCURRENT
  LossLimit,         \* CIRCUIT_BREAKER_LOSSES
  DailyLossLimit,    \* EXECUTION_DAILY_LOSS_LIMIT
  Losses,            \* bound: the losses one trade may make, USD
  MaxDay, MaxTrades, \* bounds: midnights and closed trades of a run
  MaxFaults          \* bound: failed calls and crashes

ASSUME ExecutorAssumption ==
  /\ IsFiniteSet(Coins)
  /\ MaxConcurrent \in Nat \ {0} /\ LossLimit \in Nat \ {0}
  /\ DailyLossLimit \in Nat \ {0} /\ Losses \subseteq Nat
  /\ MaxDay \in Nat /\ MaxTrades \in Nat /\ MaxFaults \in Nat

VARIABLES
  mode,      \* "dry_run", "no_client" or "live"
  halt,      \* the HALT file exists
  day,       \* the calendar
  held,      \* coins with a position on the wallet
  own,       \* history: those the bridge has opened
  mem,       \* the executor's counters
  pc, coin,  \* where execute is, and for which asset
  blind,     \* history: position queries that failed
  lost,      \* history: USD lost on this day, recorded by this process
  inRow,     \* history: losses in a row recorded by this process
  trades, faults   \* adversities left

vars == <<mode, halt, day, held, own, mem, pc, coin, blind, lost, inRow, trades,
          faults>>
outside == <<mode, halt, day>>
history == <<blind, lost, inRow>>

\* __init__
Fresh(today) == [today |-> today, loss |-> 0, halted |-> FALSE, losses |-> 0]

\* Mutant: the date is taken over, the day's loss is not cleared.
ResetDateOnly(m) == [m EXCEPT !.today = day]
\* _reset_daily_if_needed
ResetDaily(m) ==
  IF m.today = day THEN m
  ELSE [m EXCEPT !.today = day, !.loss = 0, !.halted = FALSE]

-----------------------------------------------------------------------------
(* execute *)

Reject == pc' = "idle"

\* Gates 0 to 5; the score, the regime and is_actionable are those of the
\* signal, so any signal may fail here.
Execute(c) ==
  /\ pc = "idle" /\ coin' = c
  /\ mem' = ResetDaily(mem)
  /\ \/ ~halt /\ ~mem'.halted /\ pc' = "positions"
     \/ Reject
  /\ UNCHANGED <<outside, held, own, history, trades, faults>>

\* Mutant: the asset is looked up, the count is not.
RoomForAny(seen) == coin \notin seen
\* Gates 6 and 7.
Room(seen) == coin \notin seen /\ Cardinality(seen) < MaxConcurrent

\* A failed position query gives no positions.
CheckPositions ==
  /\ pc = "positions"
  /\ \/ /\ IF Room(held) THEN pc' = "balance" ELSE Reject
        /\ UNCHANGED <<blind, faults>>
     \/ /\ faults > 0 /\ faults' = faults - 1
        /\ IF Room({}) THEN pc' = "balance" ELSE Reject
        /\ blind' = blind + 1
  /\ UNCHANGED <<outside, held, own, mem, coin, lost, inRow, trades>>

\* Mutant: the breaker trips one loss late.
BreakerLate == mem.losses <= LossLimit
BreakerClosed == mem.losses < LossLimit

\* Gates 8 and 9: a failed balance query gives 0, below every minimum.
CheckBreakerAndBalance ==
  /\ pc = "balance"
  /\ \/ BreakerClosed /\ pc' = "size"
     \/ Reject
  /\ UNCHANGED <<outside, held, own, mem, coin, history, trades, faults>>

\* Sizing, dry run, missing client, price: all but a live order end here.
PrepareOrder ==
  /\ pc = "size"
  /\ \/ mode = "live" /\ pc' = "order"
     \/ Reject
  /\ UNCHANGED <<outside, held, own, mem, coin, history, trades, faults>>

\* The order fills, is refused, or raises although it filled; the executor's
\* counters are the same in all cases.
MarketOpen ==
  /\ pc = "order" /\ Reject
  /\ \/ /\ held' = held \cup {coin}
        /\ own' = IF coin \in held THEN own ELSE own \cup {coin}
     \/ UNCHANGED <<held, own>>
  /\ UNCHANGED <<outside, mem, coin, history, trades, faults>>

-----------------------------------------------------------------------------
(* The results of trades, recorded between executions, as positions close. *)

Booked(m, usd) ==
  LET r == ResetDaily(m)
  IN  [r EXCEPT !.loss = @ + usd, !.losses = @ + 1,
                !.halted = @ \/ r.loss + usd >= DailyLossLimit]

RecordLoss(c, usd) ==
  /\ pc = "idle" /\ c \in own /\ trades > 0 /\ trades' = trades - 1
  /\ held' = held \ {c} /\ own' = own \ {c}
  /\ mem' = Booked(mem, usd)
  /\ lost' = lost + usd /\ inRow' = inRow + 1
  /\ UNCHANGED <<outside, pc, coin, blind, faults>>

RecordWin(c) ==
  /\ pc = "idle" /\ c \in own /\ trades > 0 /\ trades' = trades - 1
  /\ held' = held \ {c} /\ own' = own \ {c}
  /\ mem' = [mem EXCEPT !.losses = 0]
  /\ inRow' = 0
  /\ UNCHANGED <<outside, pc, coin, blind, lost, faults>>

-----------------------------------------------------------------------------
(* The surroundings. *)

\* kill_switch activate and deactivate, another process.
SwitchHalt ==
  /\ halt' = ~halt
  /\ UNCHANGED <<mode, day, held, own, mem, pc, coin, history, trades, faults>>

Midnight ==
  /\ day < MaxDay /\ day' = day + 1
  /\ lost' = 0
  /\ UNCHANGED <<mode, halt, held, own, mem, pc, coin, blind, inRow, trades, faults>>

\* The trading engine trades with the same wallet.
EngineTrades(c) ==
  /\ held' = IF c \in held THEN held \ {c} ELSE held \cup {c}
  /\ own' = own \ {c}
  /\ UNCHANGED <<outside, mem, pc, coin, history, trades, faults>>

\* The counters are in memory only.
Restart ==
  /\ faults > 0 /\ faults' = faults - 1
  /\ mem' = Fresh(day) /\ pc' = "idle"
  /\ lost' = 0 /\ inRow' = 0
  /\ UNCHANGED <<outside, held, own, coin, blind, trades>>

Init ==
  /\ mode \in {"dry_run", "no_client", "live"}
  /\ halt \in BOOLEAN /\ day = 0
  /\ held = {} /\ own = {} /\ mem = Fresh(0)
  /\ pc = "idle" /\ coin \in Coins
  /\ blind = 0 /\ lost = 0 /\ inRow = 0
  /\ trades = MaxTrades /\ faults = MaxFaults

ExecutorStep ==
  \/ CheckPositions
  \/ CheckBreakerAndBalance
  \/ PrepareOrder
  \/ MarketOpen

Next ==
  \/ \E c \in Coins : Execute(c) \/ RecordWin(c) \/ EngineTrades(c)
  \/ \E c \in Coins, usd \in Losses : RecordLoss(c, usd)
  \/ ExecutorStep
  \/ SwitchHalt
  \/ Midnight
  \/ Restart

Spec == Init /\ [][Next]_vars

-----------------------------------------------------------------------------
(* Properties. *)

TypeOK ==
  /\ mode \in {"dry_run", "no_client", "live"} /\ halt \in BOOLEAN
  /\ day \in 0..MaxDay /\ held \subseteq Coins /\ own \subseteq held
  /\ mem \in [today : 0..MaxDay, loss : Nat, halted : BOOLEAN, losses : Nat]
  /\ pc \in {"idle", "positions", "balance", "size", "order"} /\ coin \in Coins
  /\ blind \in Nat /\ lost \in Nat /\ inRow \in Nat
  /\ trades \in 0..MaxTrades /\ faults \in 0..MaxFaults

\* EXECUTION_DAILY_LOSS_LIMIT, "Halt execution for the day after this loss":
\* the counters are reset only when they are next used, yet an execution that
\* passes its first gates finds less than the limit lost on this day, and one
\* that finds the halt finds the limit lost today: yesterday's loss stops
\* nothing.
DailyLimitHolds ==
  [][(\E c \in Coins : Execute(c))
       => /\ pc' = "positions" => lost < DailyLossLimit
          /\ mem'.halted => lost >= DailyLossLimit]_vars

\* A position that the bridge opened beyond the limit has cost a position query
\* that failed (the query fails open) or a position the engine opened since:
\* the bridge's own orders alone stay within MAX_CONCURRENT.
OwnWithinLimit == Cardinality(own) <= MaxConcurrent + blind

\* An order goes out only while the losses recorded in a row are below the
\* circuit breaker, wins and midnights included.
BreakerStopsOrders == pc \in {"size", "order"} => inRow < LossLimit

\* "HALT file at /opt/trading/HALT blocks all execution immediately"
\* (executor.py:8).
HaltBlocksOrders == [][\A c \in own' \ own : ~halt]_vars

===============================================================================
