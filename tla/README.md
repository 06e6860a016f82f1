# TLA+ models of the autonomous trading system

The repository trades funding-rate imbalances, mostly on Hyperliquid. It has
three generations side by side: a paper-trading agency over shared files
("Phase 1"), short-lived scripts that a scheduler starts over one real account
(cycle, guardian, watchdog), and a long-running engine with an emergency
fallback, whose log a second process follows to trade the same signals on
paper. Everything is joined by files (JSON, JSON lines, SQLite) and by one
exchange account. That is where a test hardly reaches: few files are written
atomically, no call to the exchange is sure to have failed when it raises, and
any process may be killed between two lines. These modules model that.

Contents: [the system](#the-system), [modules and code](#modules-and-code),
[runs](#runs), [fairness](#fairness), [proofs](#proofs),
[disagreements between code and its texts](#disagreements),
[counterexamples without a run](#counterexamples),
[what is not modelled](#not-modelled), [plan](#plan).

## The system

| Part | State | Operations | Talks to |
|---|---|---|---|
| Trading engine, `scripts/trading_engine.py` | `EngineState.data` in memory and in the state file: open positions, peaks, loss streak, breaker, heartbeat; `trade-ledger.jsonl`; `trading_engine.jsonl` | start-up reconciliation; a cycle of healing, protection, reconciliation, scan, entry, heartbeat | exchange, journal, healer, validator, log |
| Exit loop, `scripts/idempotent_exit.py` | tries and time spent on an exit | claim, query, close, confirm, record, release | exchange, journal, engine state |
| Ownership journal, `scripts/exit_ownership.py` | JSON dict: symbol and trade id to owner | claim, record attempt, release, list | engine, fallback |
| Emergency fallback, `scripts/emergency_fallback.py` | none of its own | check the heartbeat, list the owned exits, close the rest | engine state file, journal, exchange |
| Self-healing validator, `scripts/self_healing_validator.py` | the engine's state file | reconcile, reset the breaker, rebuild | engine state file, exchange |
| Pre-trade validator, `scripts/pre_trade_validator.py` | none | state sync, ledger integrity, capital, size | engine state, ledger, exchange |
| Regime detector, `scripts/regime_detector.py` | `regime_state.json` | classify, hysteresis, save, load with staleness | engine scanner, connector |
| Log connector, `src/bridge/ats_connector.py` | file position, last `regime_status` | seek to end, poll, parse | engine log, regime state, orchestrator |
| Live orchestrator, `src/pipeline/live_orchestrator.py` | counters | event, startup evaluation, exit check on every status | connector, scorer, paper trader, executor |
| Signal filter and scorers, `src/pipeline/signal_filter.py`, `src/scoring/`, `src/models/` | ticker cache; `signal_log` | score an event, log it, alert | exchanges, regime history, Telegram |
| Regime history, `src/collectors/regime_history.py` | `funding_rates`, `regime_transitions` | incremental backfill, transitions, statistics | exchange adapters, duration predictor |
| Paper trader, `src/simulator/paper_trader.py` | open and closed positions, `paper_trades.jsonl` | open, close, accrue funding, check exits, reload | orchestrator |
| Execution bridge, `src/execution/` | day, day's loss, halt, loss streak; the HALT file | ten gates, order, record win or loss, kill switch | exchange |
| Cycle, `scripts/ats-cycle.py` with `scripts/hl_entry.py` | `ats-cycle.lock`, `hl-entry-state.json` | scan, gates, order, record; then a guardian run | exchange, guardian |
| Guardian, `scripts/risk-guardian.py`, and `scripts/watchdog.py` | `risk-guardian-state.json` (halt, losses, cooldowns), peak tracker, lock file | read account, evaluate, close with retries, record, save | exchange, cycle |
| Phase-1 agency and trader, `scripts/trading-agency-phase1.py`, `scripts/phase1-paper-trader.py` | trade history, position file, signals | data gate, scan, safety validation, plan, persist, monitors | the two layers, health manager |
| Phase-1 layers, `scripts/data-integrity-layer.py`, `scripts/execution-safety-layer.py` | a JSON state file each; breakers computed from the history | gate, validate a signal, validate a trade, incidents | agency, health manager |
| Position state, `models/position_state.py`, `models/trade_schema.py` | `position-state.json` | apply a record, synchronize with the history | agency, trader, monitors |
| Health manager, `utils/system_health.py` | incident log, health file, operator control, audit trail | record, resolve, refresh, answer whether trading is allowed | agency |
| Backtesters, `scripts/backtest/engine.py`, `engine_regime_exit.py` | positions, trades, capital | one bar: regime exit, exits, entries; force close | historical files |
| Reports, dashboards, health server | none | statistics, views | files |

What makes each correct, and what is hard about it:

* **Exits.** A position past its stop is closed, the close is booked once and
  only when the account is flat; engine and fallback do not both act. Hard:
  two processes and a journal rewritten in place; fills that are partial,
  unknown or misreported; kills inside a write.
* **Engine loop.** At most `MAX_CONCURRENT` own positions; no entry after
  `CIRCUIT_BREAKER_LOSSES` losses; what is tracked becomes what is held. Hard:
  the healer edits the state file while the engine keeps its own copy in
  memory; orders whose outcome is unknown; validators that pass when their
  query fails.
* **Regime feed.** Hysteresis never goes below what the market shows; each
  logged transition is handled once, in order. Hard: two files written one
  after the other by one process and read by another, truncation, restart.
* **Signal scoring.** A score rests on data that is there and fresh. Hard: it
  is put together over three awaits from a cache an exchange may have failed
  to refresh, and every failure has a fallback value.
* **Regime history.** What is stored has no holes and the durations derived
  from it are real. Hard: paging in two directions, failures between pages, a
  resume point that is only the newest time stored, rows never corrected.
* **Paper trader.** Capacity, one position per market, funding paid once per
  hour held, no position lost or repeated by a restart. Hard: memory changes
  before the append that may fail.
* **Execution bridge.** Daily limit, breaker, capacity, kill switch. Hard:
  counters reset only when next used; a wallet shared with the engine; gates
  that are read long before the order.
* **Cycle and guardian.** Exposure is bounded, a halt is final, losing closes
  are counted, stops are acted on. Hard: three scripts, two lock files with a
  time limit, one state file that each run copies and writes back whole; the
  watchdog kills a guardian that is slow.
* **Phase-1 agency.** A signal is traded once, a position closed once, no entry
  that the safety stage did not let pass, due exits happen whatever else
  fails. Hard: two appends per record, a position file that can be lost and is
  rebuilt, layers whose torn state file raises in every later cycle, positions
  that change between validation and entry.
* **Health manager.** CRITICAL is left only after its cooldown or under the
  anti-flapping lock, HEALTHY is earned, the audit trail adds up. Hard: three timers (cooldown, stability,
  anti-flapping lock) over a file that any operation may rewrite, and an
  operator who edits another at any time.
* **Backtesters.** The first exit of a bar is the worst, the accounting adds
  up, no position overstays. Hard: bars without candles, a regime exit before
  the other exits, entries after them.

## Modules and code

Each definition is named after the function it stands for; `PROJECT.json`
("map") gives its lines.

* `PaperTrader`: `positions`, `closed` are the trader's lists, `log` the
  records of the JSONL file, `up` whether the process runs. `Open`,
  `CheckExits`, `AccrueHourly`, `ClosePositionsForAsset`, `Restart` are the
  methods; every append goes through `LogTrades`, where the disk may lose it
  or leave it torn (`Faults`). A price move is kept as a signed integer and
  compared with percentages multiplied out, so nothing is rounded. Positions
  from before `entry_price` existed are `Legacy`. `PositionLedger` is the
  abstract life of a position (fresh, open, closed; a stopped process believes
  nothing, a resumed one knows what happened); `RestartInvisible` says that
  `PaperTrader` implements it on a disk that does not fail.
* `ExitCoordination`: `pc` per actor (engine, each fallback run); `text` and
  `exits` are the journal, which a `Truncate` empties and a later `Dump`
  fills; in between others read and write. A report of `MarketClose` ("ok",
  "error") is independent of what was filled. Ages stop counting past the
  limits they are compared with.
* `TradingEngine`: `pc` walks through one cycle of `run`; `mem` and
  `disk`/`diskOk` are the two copies of the state. A position is a number, its
  life, so that a peak or an entry time can be seen to belong to an earlier
  one. Exits are one step here, because `ExitCoordination` has their inside.
  `Heal` works on the file only, as `validate_and_heal` does. `Validated` is
  the set of outcomes `validate_entry` may have in a state.
* `RegimeDetector`: the pure functions `ClassifyRegime` and `ApplyHysteresis`
  over a market (highest rate, share above 100 %, top asset). The loop that
  goes down level by level is written as the level it stops at.
* `LiveFeed`: the scanner (`Detect`, `SaveRegimeState`, `LogChange`,
  `LogStatus`) and the orchestrator (`Poll`, `ParseEvent`, `HandleNext`,
  `SeekToEnd`, `SeedRegimeStatus`, `EvaluateStartupRegime`). `log` keeps every
  line ever logged and `base` counts the removed ones, so that handling a line
  twice can be expressed; the connector itself sees only its file position.
  Lines of other kinds do not matter to it and are left out; so is the limit of
  50 KB that `seek_to_end` looks back. A top asset may be missing (`NoAsset`,
  "UNKNOWN") or there and null (`Null`): the scanner logs null when no asset
  pays, and `_resolve_top_asset` passes it on, since it is not "UNKNOWN". The
  event of a transition cannot be built from it: `PollRaises` drops the lines of
  the whole poll (`lost`), because the file position has advanced and `watch`
  goes on without events; in `EvaluateStartupRegime` the same ends the process.
* `SignalPipeline`: `process` of the signal filter as the stages between its
  awaits: `Receive` reads the durations, `UseCache` or `AskAll` and `Refresh`
  the tickers, `Decide` takes the spread and the verdict, `Log` and `Alert`
  are the two writes. A volume is its decimal logarithm, which is what the
  liquidity score compares; a survival probability is one of a few values.
* `RegimeHistory`: `backfill` as fetches of single pairs (`StartFetch`,
  `FetchPage`, `FetchFails`, `Store`), then `BuildTransitions`. The gathered
  fetches share only the database, each its own rows, so their steps commute
  and are taken one pair at a time. A rate is known by its time and its
  regime, time counts funding intervals. `Page` and `NextCursor` are the
  adapters: forward (Binance, Hyperliquid) or backward (Bybit).
* `Executor`: `pc` stops at each point where `validate` or `execute` waits for
  the network. `own` (opened by the bridge), `blind` (failed position queries),
  `lost` and `inRow` (recorded results) are histories the properties speak of.
  The default build runs in dry-run mode without an exchange client; the model
  has all three modes. No production code calls `record_loss` and `record_win`;
  the model calls them as positions close.
* `Guardian`: `Cycles` and `Watched` are the processes that may run,
  `Deployments` which of them do. A cycle goes `StartCycle` ... `Enter`,
  `RecordEntry`, removes the guardian's lock and runs the guardian; the
  watchdog starts a guardian of its own. `mem` is a process's copy of
  `risk-guardian-state.json`, written back whole by `Save`. `Fill`,
  `LoseAnswer` and `Refuse` are the ways `market_close` may end. Returns are
  levels of `Roe`; `peaks` is the tracker file. The rule that closes a position
  by age is left out because it never fires: `get_state` returns no opening
  time.
* `TradeHistory`: what the Phase-1 stack computes from the trade log: open
  positions (`Replay`), consumed signals, breakers. `Phase1Agency` runs the
  stages over it: `StartAgency`, `Gate`, `Scan`, `Validate`, `Plan`, then
  `Append` and `Apply` for each record (history first, position file second),
  `RecordOutcome`, `Monitors`. `StartTrader` is the stand-alone trader, which
  enters at `Plan`. `incidents` are the active CRITICAL ones, each with the
  number of incidents of any severity recorded after it (`newer`): the health
  manager looks at the newest 25 active ones, so `MayEnter` asks for `Shown`
  only. Incidents resolved since are counted too, so `Shown` are those it sees
  for certain, and the model lets pass a few entries more than the code. The loop that persists the records takes exits first and
  then the entry, as the code does.
* `SystemHealth`: `RecordIncident` (with escalation), `ResolveIncident`,
  `RefreshState`, `AskTradingResponse`, `LoadOperatorControl` and `Reply`;
  `Edit` is the operator's editor. Timestamps are ages, capped at the largest
  window they are compared with.
* `Backtest`: both engines, told apart by `engine`. A bar is `ReadBar`,
  `CheckRegimeExit`, `CheckExits`, `OpenPosition`/`NoEntry`; `ForceClose` ends
  the run. A candle is low, close and high; prices are levels, a return is the
  difference of two, fees and funding are whole units. Rates are multiples of
  eight, so that the eighth `funding_earned` takes of them for an hour is whole.
  `earned` adds up the rates of all hours held, `missed` those of the hours
  whose asset has no candle.
* `MC...` modules give the instances their values; `...Proofs` modules hold the
  theorems, some of them of two neighbouring components: `MarketProofs` of
  `LiveFeed` and `SignalPipeline`, `PermissionProofs` of `Executor` and
  `SystemHealth`, `OfflineProofs` of `RegimeHistory` and `Backtest`.

## Runs

| Run | Question | Bounds |
|---|---|---|
| `PaperTraderRun` | Do restarts keep trades, capacity, markets and funding, and implement `PositionLedger`? | one asset on 3 venues, 2 open, 3 positions, one of them legacy; a fall through the stop, a rise that arms the trail, a time-out; lost, torn and unreadable logs while one position is opened (`MaxFaultyId`). Prices do not reach the take-profit |
| `ExitRun` | Is a close booked once and only when flat, and a distressed position closed in the end, by whoever is left? | 1 coin of 2 units (a fill may leave one), 2 tries, 2 faults: an adversity for each actor, or a fault of an exit and a kill inside a write |
| `EngineLoop` | Do breaker, capacity and tracking survive healer, faults and outsiders? | 2 coins, 3 positions, 2 losses to the breaker, 1 fault; the sanity limits of the healer lie above, see below |
| `LiveFeedRun` | Is each transition handled once and in order, and each line served but for batches lost with a transition that a null asset makes unreadable? | 4 lines, 4 markets (one per regime; 90 % is between the exit and the entry of HIGH_FUNDING), one of them without a paying asset, so that its status says null, a truncation, a fault |
| `ExecutorRun` | Do lazy counters and failing queries keep the gates? | 3 coins, 4 trades, a midnight, 2 faults: a streak, a day's loss in one or three trades, two failed queries in a row |
| `SystemHealthRun` | Is permission and health earned, does a CRITICAL incident stop trading, does the audit trail add up, does a quiet system recover? | one kind of incident, 2 incidents (escalation by repetition), an edit of the control file (valid and not), a kill; cooldowns of 2 and 3 ticks within an anti-flapping window of 4, a lock of 3; control files: the defaults, a restriction with a hold, a halt with a recovery mode that is not one |
| `AgencyRun` | Are trades booked once, entries vetted, exits done? | 3 assets, 2 open positions from the day before, one more signal and trade, one fault, two instants: a full book, a duplicate, an exit and an entry in one cycle; a loss limit of 1; 2 incidents shown for the 25 of the code, so that warnings can hide a CRITICAL one |
| `GuardianRun` | Are exposure and losses bounded, a halt final, stops acted on? | the cycle with its guardian, or the watchdog with its guardian; 2 coins, capacity 1, 2 losses to the breaker, one retry, one kill or lost answer; returns at the stop, on both sides of zero and at the take-profit |
| `BacktestRun` | Do stops hold and is an hour with a candle paid once, an eighth of its rate, over all price paths, and does a bar of one price exit as the live engine does? | 2 markets, 3 bars, 6 candles (points, narrow and wide bars, a bar through stop and target), missing candles and rates, both engines |
| `RegimeHistoryRun` | Is what is recorded true, without holes where paging goes forward, and does a backfill end? | one asset on a forward and a backward exchange, pages of one rate, a window of 2, 4 intervals: so several pages, a lapse beyond the window, regimes that end before, in and after a run |
| `SignalPipelineRun` | Does a score rest on data, has each alert its row? | 2 exchanges, 2 events with the APY on both sides of a gate, tickers absent, thin and deep, a cache of 2 ticks, failures and restarts at any await |
| `ExitTwoActors` | the code does not do what its texts say | see [disagreements](#disagreements) |

Every counter that could grow for ever is bounded in a guard by a constant
whose comment says "bound"; the theorems hold for every value of them. The
limits that are code constants (30 s heartbeat, 300 s ownership and lock file,
120 s scan) are a few ticks: only their order matters to the properties.

Where the system may really stop, deadlock is not checked: an agency whose
operator never repairs it, a guardian after a halt with nothing to do, and a
backtest that has read its last bar.

Each property of a passing run is paired in `PROJECT.json` with a mutation of the
code (a dropped guard, a check one too late, a cleared field forgotten) under
which the same run finds it violated.

## Fairness

* `ExitCoordination`: weak fairness of the engine, of each fallback run and of
  time. The exit loop and the fallback are plain loops whose calls have
  timeouts; nobody is obliged to restart the engine, and nothing is obliged to
  fail. The liveness properties are conditional: the engine stays up, or it
  stays down and the journal remains readable.
* `TradingEngine`: weak fairness of the loop, strong fairness of time, which
  passes only in the sleeps the loop returns to.
* `LiveFeed`: weak fairness of the orchestrator's steps; its loop catches every
  exception. The engine owes nothing.
* `SystemHealth`: the agency asks in every cycle (weak fairness of `Serve`),
  and time passes between operations, infinitely often (strong, because an
  operation disables it while it runs). `RecoversToNormal` supposes that
  incidents stop being active and the operator's mode stays off.
* `Phase1Agency`: a scheduler starts cycles for ever and each goes on (weak
  fairness of `Step`); the clock runs; the operator removes a state file nobody
  can parse; infinitely often the scanner returns before its time limit, and
  planning finds a price for every position (strong). Without the operator no
  exit ever happens again after a torn state file.
* `Guardian`: the cycle and the watchdog are started for ever (weak for a cycle
  and for a guardian at work, strong for the watchdog, whose condition comes
  and goes); the exchange does not fail for ever to give the account, and does
  not refuse the same close for ever (strong).
* `RegimeHistory`: weak fairness of the step under way, since every request has
  a time limit.
* `PaperTrader`, `Executor`, `Backtest`, `SignalPipeline`: none, their
  properties speak of states and steps.
* Faults are finite in a run where they are counted (`MaxFaults`); what is
  checked is what happens after the last. Failures of a page, a ticker request
  or a store are not counted: they may happen every time.

## Proofs

A theorem of a `...Proofs` module holds for every value of the constants that
satisfies the named assumptions of the component's module: numbers are natural,
limits positive, sets of coins, assets, exchanges and past positions finite,
some return a loss (a position starts at one, the fee); the positions an
earlier day left to the agency are within its limits, one for a market, and
number themselves. None supposes a bound to be small. TLC checks the properties
that have a run on the instances above, and checked each inductive invariant
before it was proved. `OneAtATime`, `NoOverstay`, `BelowHighIsFlat`,
`DurationsAreReal` and most type invariants are proved and in no run. Every
invariant and every action property that a passing run checks is a theorem
here. The proofs follow one scheme: an
inductive invariant (`IInv`, or named after its component) that implies the
property, a lemma for `Init`, a lemma for each action (or for a group that
touches the same parts), and a temporal step.

| Module | Theorem | The argument |
|---|---|---|
| `PaperTraderProofs` | `TypeCorrect` | by action |
| | `ListedOnceAlways`, `FundingCoversAlways` | `LogInv`: ids in the log are fresh, opened once, closed once; what is open was not closed; a reloaded position was paid nothing. The lists alone say too little, because a restart forgets them and builds them from the log |
| | `AtMostMaxOpenAlways`, `OnePositionPerMarketAlways` | `SafeDisk`: on a disk that does not fail, memory holds exactly the positions live in the log, and those are within the limits. The process checks the limits in memory, a restart takes what the log has; `AsManyAsLive` counts one by the other |
| | `RestartInvisibleAlways` | the refinement: `InitRefines` and `StepRefines` map every step to one of `PositionLedger` or to a stutter. `Told`: memory and log tell the same life of every id |
| `ExitCoordinationProofs` | `BookedOnceAndFlat` | `Phase`: within an exit its coin is unbooked, about to be booked it is flat; `Continues`: every journal call returns to where its caller meant. Others' steps only shrink positions (`BystanderKeeps`) |
| | `ExitTypes` | `TryLeft`: the loop is entered again only with a try left; the journal is only ever copied, extended, cut and aged |
| `TradingEngineProofs` | `EngineTypes` | by action |
| | `BreakerHoldsAlways` | `Remembered`: memory counts at least the losses booked since its last win, whatever the healer does to the file; `Gated`: from the gate to the order nothing is booked |
| | `AtMostMaxConcurrentAlways` | until a third call has failed, which is as far as it holds. `UnknownWhere` counts failures against places of the cycle: one is needed to leave a position untracked, a tick before the next scan makes the reconciliation due, which must fail too, and then the state-sync query. So at an order with two failures everything own is tracked, and the gate on what is tracked bounds what is held |
| `MarketProofs` | `FeedTypes`, `HandledInOrderOnce` | `Position`: the file position of the connector belongs to lines not read yet, truncation and restart included |
| | `RegimeNeverBelowMarket`, `HysteresisSettles` | the hysteresis answers at or above what `ClassifyRegime` says and is idempotent, for thresholds in order |
| | `OldOnlyAfterFailureAlways`, `ActionableRestsOnDataAlways` | `Measured`, `Passed`: between its awaits the event carries values that rest on data or close a gate (a survival of 0, a liquidity of 0), and nothing is added after the gates |
| | `AlertsAreLoggedAlways` | `AlertLogged`: at the alert, the row just written is that of the event |
| | `PipelineTypes` | `LiquidityIsPercent`: the score of a ticker is between 0 and 100 whatever the two depths, and the largest depth it divides by is positive; `FiniteHasMax`: among finitely many exchanges there is one |
| `PermissionProofs` | `ExecutorTypes` | by action |
| | `OwnWithinLimitAlways` | `RoomCounted`: from gate 7 to the order there is room for one more, failed queries apart |
| | `BreakerStopsOrdersAlways`, `DailyLimitAlways` | `StreakCounted`, `LossCounted`: the lazily reset counters agree with what was lost once they are brought up to date |
| | `CriticalCoolsDownAlways`, `HealthyIsEarnedAlways` | `StableAgrees`: the stability clock kept in the file is behind the time since an incident was last seen; `CriticalHeld`: a status other than CRITICAL follows a whole cooldown, or the lock replaced it |
| | `CriticalStopsWhileShownAlways` | `Judged`: between a refresh and its answer the health file speaks of the incidents as they are, and what was observed CRITICAL is called CRITICAL, lock or not; `AllAreShown`: the cut hides nothing until more than `ShownMax` are active |
| | `HealthTypesAlways` | `InWindowIsRecent`: what is kept of a history of any length is recent, and `AppendTransitionIsRecent`: never longer than its bound |
| | `AuditReplaysAlways` | `AuditAhead`: what the log of operator actions replays to is what was loaded, before the audit file is written as after |
| `OfflineProofs` | `HistoryTypes` | by action |
| | `TransitionsStayTrueAlways` | `Ahead`: a fetch asks for rates later than all that are stored, so a regime that has ended is never split or moved by a later rate |
| | `ForwardHasNoHoleAlways` | `Fetched`, `NoGaps`: what a fetch has got follows what is stored without a gap, after every page |
| | `DurationsAreRealAlways` | from the two before: over rates without a hole a recorded run is one of the market |
| | `StopBoundsLossAlways`, `OneAtATimeAlways`, `NoOverstayAlways`, `BelowHighIsFlatAlways` | `AboveStop`, `InTime`, `FlatBelowHigh`: what a bar leaves open is above its stop, has begun no later than the bar, and below HIGH_FUNDING is nothing that has a candle. `ExitAboveStop` is the case analysis over the exit rules |
| | `FundingOnceAlways`, `BacktestTypes` | `Balanced`: capital and books agree at every place of a bar, up to `Unpaid`, the funding of the hour that was read and is paid out with the exits of the bar. What was paid is an eighth of the rates of the hours held (`earned`) less those without a candle (`missed`); `SumEightfold` takes the eighth out of a sum. A trade closed is a new one (`EnteredBefore`), so the sum over the closed grows by it (`OneMore`) |
| | `PointBarAsLiveAlways` | `OnePriceIsLive`: on one price the rules are the triggers of the live engine; `EnteredBefore`: what the rules see is older than the bar, so the trade they book is a new one |
| `GuardianProofs` | `BreakerBoundsLossesAlways`, `HaltIsFinalAlways` | under `OneScheduler` (an account has a cycle or a watchdog, not both). `Halting`: a halt on disk is in the copy at work, so no later save undoes it; `Counting`: the count on disk lags behind the losses by the one being recorded and by `LossLimit` for each kill or lost answer |
| | `ExposureBoundedAlways` | under `OneScheduler`. `Room`: from the gates to the order the coin is free and a place is left; `Holdings`: a position has one unit. The gates read the account itself, so no lost answer matters |
| | `GuardianTypes` | in every deployment, two processes at once included. `Planned`: a close is planned, sent and recorded only for a position this process has read, whatever the other did to it since |
| `AgencyProofs` | `TypeOKAlways` | under `OneProcess` (nothing locks the files), as the next three. A scan has room for its signals and a plan for its trade |
| | `EachTradeOnceAlways` | `PlannedOnce`: what is planned is not in the history yet, one entry at most and one close for a position; `IdsKnown`: a new identifier is new to history and position file, which may be the only one left |
| | `OpenWithinLimitsAlways` | `Remaining`, `RoomPlanned`: the positions left once the planned closes are written have room for the planned entry. Exits are written first; a close lost in a damaged line makes room for one less, which `lost` counts |
| | `EntryIsVettedAlways` | `Vetted`: a verdict rests on the history as it was validated (`SeenBy`), which later appends leave as it is, and a plan takes no other signal than the validated one. The status read at the plan stage stops an entry for the CRITICAL incidents among the newest `ShownMax`, and no others: that is what the theorem says |

Without `OneScheduler` the guardian's first two theorems are false: each of two
guardians writes back its own copy. Without `OneProcess` the agency's are: two
processes plan on the same positions and signals. `HaltIsFinal`,
`DailyLimitHolds`, `CriticalCoolsDown`, `HealthyIsEarned`,
`CriticalStopsWhileShown`, `EntryIsVetted` and `PointBarAsLive` are properties
of steps, the others of states.

Induction. The theorems of the library that do induction take an operator, which
the provers cannot instantiate. Where a fact is about all lengths of a list or
all sizes of a set (the history cut to its window, the sum over the closed
trades, the largest depth of finitely many tickers), the proofs take the *set*
of the numbers for which it holds and show with `NatHasMin`, that a non-empty
set of naturals has a least element, that nothing is missing from it
(`NatSteps`, `FiniteSteps`). This is why the modules compute with recursive
functions (`kept` in `InWindow`) and with `SumFunction`.

A proof that failed changed the model: the arms of the `CASE`s that rank
incidents and answers overlapped, which TLA+ leaves open and TLC resolves in
order; they are `IF`s in the order of the code now.

Only model-checked: liveness (`FallbackFlattens`, `EngineFlattens`,
`TrackingConverges`, `EveryLineServed`, `RecoversToNormal`, `ExitsComplete`,
`StopIsActedOn`, `BackfillEnds`), because the proof system reasons neither about
fairness nor about `ENABLED`.

Type invariants: every component's is proved. Only that of `Phase1Agency`, which
relates fields of the files, is checked by a run as well.

## Disagreements

`ExitTwoActors`: the journal's key contains the trade id, and engine and
fallback build different ids for one position (`idempotent_exit.py:91`,
`emergency_fallback.py:169`): both claims are granted, while
`exit_ownership.py` says that only one actor owns a risk exit at a time.

## Counterexamples

Met while modelling. The modules state these properties, no run checks them
because they fail; the values under which TLC finds the failure are those of
the component's run unless given.

* `PaperTrader`: on a disk that fails, `RestartInvisible` and the capacity fail
  as soon as one append is lost (`_log_trade` swallows the error after memory
  has changed); they are stated for a disk that does not. A reload takes
  `peak_roe` from the OPEN record, where it is 0, so the trailing stop forgets.
* `ExitCoordination`: `ClosedAfterEngineDies` fails with one fault: a process
  killed inside a journal write leaves an empty file, every later read raises
  and nothing repairs it, so the fallback never closes anything.
  `FallbackOnlyWhenStale` fails when the fallback reads the state file between
  truncation and write. `ReleasedAfterRetries` fails when the last try ends in
  a partial fill: the loop falls through without a release.
* `TradingEngine`: `NoFalseOrphan` fails without a fault: entry and exit of one
  trade carry ids that never match, so a finished trade counts as an orphan
  entry after five minutes and halts entries. `AtMostMaxConcurrent` fails with
  three faults (an order of unknown outcome, a reconciliation that fails and
  still moves its timer, a state-sync query that fails open).
  `TrailingUsesOwnPeak` fails with two: the start-up drops a stale position and
  keeps its peak. `ResetSticks` fails without any: the healer resets the breaker
  in the file, the next heartbeat writes the halt back from memory.
  `EntryTimeKept` fails with a crash inside `save`. `HealingKeepsRunning` fails
  without any fault, if the sanity limits are reached: the reload after a
  rebuild calls `EngineState` with an argument it does not take.
* `LiveFeed`: `RegimeChangesLogged` fails with six lines: after a gap of four
  hours the scanner compares with HIGH_FUNDING and the detector starts from
  LOW_FUNDING, so a change to HIGH_FUNDING is saved and not logged. A restart of
  the orchestrator between `regime_updated` and `regime_status` misses a
  HIGH_FUNDING regime until the next transition. `NoPollLost` fails: a scan in
  which no asset pays logs `"top_asset": null`; if the state file names no
  asset either or cannot be read, a transition in the next poll raises, and the
  poll's other lines, transitions among them, are lost with it.
  `EveryLineServed` excepts those lines and no others.
* `Executor`: `HaltBlocksOrders` fails: HALT is read once, several network
  calls before the order.
* `SystemHealth`: `LockKeepsCooldown` fails: while the anti-flapping lock is on,
  the cooldown after a CRITICAL is not asked for, and what remains of a lock set
  when the CRITICAL began may be shorter. `CriticalNeverHidden` fails with two
  active incidents and one shown: permission is computed from the newest 25
  active incidents, and newer ones push a CRITICAL one out of sight. That cut is
  the only way: `CriticalStopsWhileShown` is proved.
* `Phase1Agency`: `CleanValidationResolves` fails: a safety failure is recorded
  without its trade and resolved by trade, so it stays and halts entries.
  `BreakerHoldsAtEntry` fails (`Past <- MCPastOne`, no fault): the exits a cycle
  books before its entry may trip the breakers it was validated against.
  `NoEntryUnderCritical` fails: every later validation with a
  warning records a LOW incident that nothing resolves, and as many as the
  status looks at push the CRITICAL one out of sight: entries resume. With
  two processes (`Procs = {p, q}`) `EachTradeOnce` and `OpenWithinLimits` fail:
  nothing locks the files.
* `Guardian`: `StopAlwaysActedOn` fails: the circuit breaker is asked before a
  protective close, so after a halt a position past its stop is held for ever.
  `OneGuardianInside` fails when cycle and watchdog share the account
  (`Deployments <- MCTwoSchedulers`, `LockTTL = 3`): the cycle removes the lock
  of the other guardian. `PeakIsKept` fails: the peak of a position is deleted
  when its close is decided, and the close may then be blocked or refused.
* `Backtest`: `FundingPerHour` fails, a disagreement between the code and its
  text: `funding_arb.py` says of the rates that they are "per-hour (Hyperliquid
  `ctx['funding']`), not per-8h" (9-11, 103-105) and annualizes them so, while
  `funding_earned` of `cost_model.py` (47) prorates the same number by
  `hours_held / 8`, so an hour pays an eighth of it. (`engine.py` calls it
  "latest 8h funding rate", and `download_kraken_history.py` does convert to
  8 h.) `EveryHourPaid` fails: `_check_exits` skips a position without a candle,
  and its funding of that hour is never paid. `FundingOnce` says what is paid.
  `CapitalIsNet` fails (costs of an entry count in the capital when
  it is opened and again with its trade; funding of all hours but the last is
  not in the trade). `FillsInBar` fails when a bar lies wholly beyond the stop.
  `TrailsEarlierPeak` fails: the high of a bar raises the peak its low is then
  compared with. `NoEntryBelowHigh` fails: entries do not ask for the regime.
* `RegimeHistory`: `NoHole` fails for the exchange that pages backward: a page
  that fails leaves the older rates out, and the next run begins after the
  newest one.
* `SignalPipeline`: `OutageLiftsNobody` fails: an exchange that answers with no
  tickers lowers the measure of the others and lifts an asset over a gate.

## Not modelled

* Prices, scores, sizes and fees as real numbers: free choices, or small
  integers where thresholds are compared. Alerts, logs, reports, dashboards.
* `fail_safe_validator.py` (only `scripts/test_fail_safe.py` uses it), the
  spread scanner, the signal engine and the tiered scanner (stateless
  classification), the HTTP views, the analysis scripts (offline statistics).
* Code without a production caller: `execute_exit` of the engine (replaced by
  `idempotent_exit.py`), `validate_exit`, `accrue_funding` of the paper trader,
  `validate_price_outlier` and `validate_spread` of the data layer,
  `reset_halt` of the guardian; nothing sets `kill_switch_active`.
* `exit-monitor.py`: no cycle runs it, and `monitor()` calls `calculate_pnl`
  without an argument it requires.
* A damaged `portfolio-allocation.json`: `check_data_integrity` of the safety
  layer would raise on it in every cycle. Nothing in the repository writes it.
* Two engines, two health managers or two orchestrators started at once; the
  change of date inside an exit, which renames the journal's keys.

`PROJECT.json` ("components") lists every part with its status, "hazards" what
is hardest to test, with the properties about it or the reason why there is none.

## Plan

The order so far was by what an error costs: the code that sends orders, what
decides about them, then what only simulates; then the proofs, until every
safety property of a run but the two named above was a theorem. Next:

1. An abstract account (flat, held, closing) that the engine with its exits and
   the guardian both implement; today the two are related only by the shared
   shape of their close.
2. The hazards that have no property yet ("hazards" in `PROJECT.json`): first
   two processes over the files of the agency, of which only the
   counterexamples are known, and the bound that does hold for them.
