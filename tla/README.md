# A verification development for GODALGO

GODALGO is an algorithmic trading program: a backtester, a live engine for one
symbol, a fleet of such engines under a portfolio supervisor, and a terminal
with a web interface that starts and stops them.  This directory holds TLA+
models of the parts whose failures are hard to test (concurrency, ambiguous
network outcomes, files under kills, sequences of legal calls that end somewhere
illegal), the TLC runs that check them, and theorems checked by TLAPS.  The code
is under `src/src/godalgo/`; paths below are relative to it.  `PROJECT.json` maps
every definition to its lines and lists the hazards, one by one, at the line
where each bites.

## 1. Inventory

| Component | State | Operations | Talks to | What is hard, what makes it correct |
|---|---|---|---|---|
| `risk/limits.py` RiskManager | equity, peak, day start, losses, halt and reason, last permitted weight | `update_equity`, `apply`, `reset_day` | engine and backtest, once per bar | limits in sequence; halts that must survive; exact boundaries |
| `risk/stops.py` StopManager | one StopState per symbol | `open`, `update`, `close` | engine, once per bar | a ratchet under a changing ATR; a stop on the side of the position that is held |
| `execution/live.py` LiveBroker | the venue's | `submit`, `cancel`, `open_orders`, `position`, `equity` | ccxt over a network | a send whose outcome is unknown; lookup, retry, duplicate |
| `execution/engine.py` LiveEngine | EngineState, last book, bars | `ingest_tick`, `on_book`, `on_bar_close`, `halt`, `flatten`, `check_staleness` | broker, router, risk, stops | `halted` is read once, then five awaits; halt re-entered from several tasks |
| `execution/driver.py` WebSocketDriver | four asyncio tasks, `_bar_ready`, `_stop` | `run`, `stop`, `_shutdown` | engine, exchange streams | cancellation in the middle of a halt; silent streams; a latch |
| `execution/reconcile.py` Reconciler | none | `check` | broker | tolerance; what is believed |
| `execution/router.py`, `market.py` OrderRouter | `_in_flight`, `_accepted`, submission times | `decide`, `mark_submitted`, `mark_settled`, `forget_recent` | engine | gates in order; throttle; an id accepted once |
| `execution/broker.py` PaperBroker, DryRunBroker | cash, positions, resting orders | `submit`, `on_book`, `cancel`, `position`, `equity` | engine | fills against resting orders; partial exits; turning over |
| `execution/mode.py` ModeController | mode, broker | `switch` | session, server | consent at the moment of the switch; a switch that fails half way |
| `portfolio/supervisor.py`, `execution/portfolio_driver.py` | engines, admission times, drivers and their tasks | `rotate`, `_retire`, `clamp_target`, `_start_symbol`, `_stop_symbol`, `_reap`, `_shutdown` | engines, drivers, scanner | retirement racing a decision; failed flatten; engines without drivers |
| `portfolio/book.py`, `allocator.py`, `sizing.py`, `ui/book_state.py` | held targets | `allocate`, `rebuild`, gates and buffers | terminal, backtest | ceilings that undo one another; exits that must pass every gate |
| `evolve/autopilot.py`, `promotion.py` | incumbent, approved candidate, round times, ledger | `maybe_run`, `apply_pending`, gate | engine, thread, disk | a swap that waits for a flat book; restarts |
| `evolve/walkforward.py`, `search.py` | folds | `walk_forward_splits`, `walk_forward_evaluate` | autopilot | purge and embargo to the bar |
| `risk/settlement.py`, `risk/venue_rules.py` | settled cash, day trades | `plan_rebalance`, `check_tradeable` | book, broker | what can be spent and closed today |
| `venues/alpaca*.py` | none | as LiveBroker | REST | no reduce-only at the venue; an answer without a status |
| `data/feed.py`, `stream.py`, `scanner.py` | current bar, bars, candidates | fetch, seed, aggregate, scan | engine, session | pages against a moving clock; late ticks; one bet in two wrappers |
| `research/forward.py`, `research/selection.py` | append-only record, trial ledger | append, load, judge | disk | a kill in the middle of a line; one search over every symbol |
| `backtest/engine.py` | position, regime, equity, all of the risk manager | the bar loop of `run_backtest` | strategies, risk | the lag of one bar; exits |
| `strategies/`, `features/`, `core/types.py` | arrays; position of mean reversion | `generate`, `classify_regime` | engine, backtest | floating point, except the position machine and the classification |
| `ui/portfolio_session.py`, `ui/session.py` | task, supervisor, history, status | `start`, `stop`, `_run`, `_rotate`, `_dispatch`, `_refresh_history` | supervisor, server | start and stop overlapping at their awaits |
| `ui/state.py`, `ui/journal.py`, `ui/events.py` | open and closed positions, journal, summaries | `on_fill`, `mark`, `record`, `check_rollover` | engine's fills, disk | scaling, partial exits, reversals; days and kills |
| `ui/credentials.py` | keys, permissions, one file | `add`, `remove`, `set_trade_enabled`, `set_secret`, `save` | server, threads, disk | two saves at once; a revocation that must stay |
| `ui/server.py`, `ui/feed.py`, `ui/venue.py` | bridge, feed task | HTTP and WebSocket handlers, lifespan, poller | session, mode, credentials | handlers overlapping at every await |
| `ui/desktop.py`, `service.py` | lock file, ports | launch, serve, release | other processes | two launches; stale locks |

Interaction: a stream task feeds trades and books to the engine; a completed bar
sets a latch; the decision task runs `on_bar_close` (equity -> risk -> reconcile
-> strategies -> stop -> risk gate -> portfolio clamp -> router -> broker); the
watchdog halts on staleness; `_shutdown` cancels everything and halts.  In the
terminal the session's loop refreshes the history, scans, rotates the supervisor
and dispatches prices to its engines; HTTP handlers start and stop it and switch
the broker beneath it.  Concurrency is cooperative asyncio, so an atomic step of a
model is the code between two awaits, except for the threads that search and that
save credentials, whose every step of I/O is one of its own.

## 2. Modules

| Module | Models | Extends |
|---|---|---|
| `RiskManager` | `risk/limits.py` | - |
| `StopManager` | `risk/stops.py` | - |
| `StopGuard` | one bar of `LiveEngine`: mark, stop, sizing, limits, route | `RiskManager`, `StopManager` |
| `Reversion` | the position machine of `strategies/mean_reversion.py` | - |
| `BacktestRun` | `backtest/engine.py` with blend, gate, buffer and regimes | `RiskManager`, `Reversion` |
| `OrderOutcome` | what `Broker.submit` promises (abstract) | - |
| `LiveSubmit` | `LiveBroker.submit` and `_lookup` with network and venue | instantiates `OrderOutcome` |
| `AlpacaOrders` | `venues/alpaca_broker.py` under halt and under an exit | instantiates `OrderOutcome` |
| `EngineDriver` | LiveEngine + WebSocketDriver + Reconciler + venue | - |
| `OrderRouter` | `execution/router.py`, `execution/market.py` | - |
| `PaperTrading` | PaperBroker behind the routing step of the engine | `OrderRouter` |
| `Fleet` | PortfolioSupervisor + PortfolioDriver over several engines | - |
| `Terminal` | ModeController + PortfolioSession + the handlers that call them | - |
| `VenuePanel` | MarketFeed, watchlist, and the handlers that change the venue | - |
| `Launch` | `ui/desktop.py` and the service: windows, ports, lock file | - |
| `AppendLog` | a file of one entry per line under kills | - |
| `Records` | journal, daily summaries, forward record | `AppendLog` |
| `Autopilot` | `evolve/autopilot.py`, gate and ledger | `AppendLog` |
| `Credentials` | `ui/credentials.py` | - |
| `WalkForward` | folds and their search | - |
| `Selection` | trial ledger and selection gate | - |
| `BookPlan` | `allocate`, `plan_rebalance`, `rebuild` | - |
| `DayTrades` | `check_tradeable` beside a broker that counts | - |
| `Scanner` | history, scan, diversification, universe, verdicts | - |
| `Bars` | paged fetch, seeding, aggregation of ticks | - |
| `Positions` | PositionTracker beside the broker | - |
| `*Proofs` | theorems about the modules they extend | `SetInduction` or TLAPS |
| `SetInduction` | lemmas: induction over sets, recursion, sums and folds | TLAPS |
| `MC*` | constants for TLC | the modules of a run |

Several runs check modules that share nothing side by side: their `MC` module has
a variable `focus`, chosen at the start, and only the part it names takes steps.
That is the union of the state spaces, never their product.

### RiskManager
State: the fields of the dataclass plus the last `RiskDecision`.  `UpdateEquity`
is `update_equity` with its two outcomes: a bad mark (0 stands for non-finite and
non-positive) halts and changes nothing else; a good one does the day change,
peak, loss counter and the two loss tests in the code's order.  `Apply` is the
whole of `apply`: kill switch, de-risking, gross cap, change limit, with the
`binding` names.  `ResetDay` is `reset_day`.  Money and weights are integers, the
comparisons are cross-multiplied, and the loss counter saturates at the value the
code compares it with.  The day never decreases because callers stamp marks with
the current time.

### StopManager and StopGuard
`StopManager` has one symbol.  `Open` is `open` as the engine calls it (no stop
tracked, ATR valid); `Update` composes the ratcheted best price, break-even,
trailing and the exit tests as the code does.  ATRs are scaled so that the
default multiples are integers.  `StopGuard` composes it with `RiskManager` the
way `on_bar_close` does: it closes the stop of a flat book, replaces the one of a
position that turned over, opens one when there is none, advances it, caps the
target by what the stop risks, and passes it through `apply`.  The engine acts on
the weight it believed at its last routing; the venue fills at once, later or
never, so the stop follows a position one decision late.  `exposed` counts the
decisions that have found the position there.

### BacktestRun and Reversion
One run over a series of bars: every `RefitEvery` bars the regime is classified
(`Classified`, the thresholds of `features/regime.py`), shares of the strategies
are blended, mean reversion goes through its entry, exit, stop and half-life
gates, and the target passes edge gate, turnover buffer, lag and risk manager
before costs and equity.  The returns, convictions and scores are any value of
small sets; only the branches they reach matter.

### LiveSubmit, AlpacaOrders and OrderOutcome
`OrderOutcome` is the promise of `submit`: at most one copy, ACCEPTED means it is
there, REJECTED means it is not, and only UNKNOWN leaves the question open.

`LiveSubmit` is one call.  `pc` names the await where `submit` is suspended; a
request is named by the attempt that sent it.  The network of a call is a record
of four freedoms, fixed at Init: requests may be delivered after their timeout
(`late`), the lookup's fetches may raise (`lookupFails`), orders may leave the
window of fifty closed orders (`slips`), the venue may refuse a known client order
id (`dedup`).  `Abandon` is the driver cancelling the task.

`AlpacaOrders` is a halt, or an exit, of an engine at Alpaca: cancel what rests,
read the position, clamp, POST.  Each request is a step and resting orders fill
between two of them; a request fails in transport, is refused, or is answered by a
gateway (`Troubles`).

### EngineDriver
One action per stretch between awaits of each task.  `pc` holds the place of the
four tasks and of `run`; `halter` and `hpc` hold the body of `halt`, which can be
inside any of them.  Positions and orders are integer lots at a venue that may
book, refuse or fill at any time.  The decision is one choice from `Targets`
(`StopGuard` has its inside); the router's gates are the choice to refuse
(`OrderRouter` has them), its in-flight marker is `marker`.  The engine believes a
*weight*; `moved` says that the mark has left the reconciliation tolerance since.
`overlap` is a history variable: a decision was between its awaits, or a routed
order on its way, when a halt began.

### OrderRouter and PaperTrading
`Decide` returns the first gate that refuses, in the order of the code, or the
order: floor, band, spread, in flight, a ticket already placed, throttle, edge,
venue minimum.  No method of PaperBroker suspends, so a whole routing step is one
action: decide, submit, settle.  A resting order fills when a book trades through
it (`on_book`, whose loop is `Swept`).  Averages are exact, as the code's floats are
meant to be: entry and realised profit are integers over a denominator `den` of the
account, which grows by the size of the position whenever an entry is blended.
`flow` is a history variable, the cash that fills have moved.
`Wired` says whether anything feeds the broker's book; in the program nothing does.

### Fleet
The fleet's task runs between its awaits without interruption, so its small steps
(`RetireFlat`, `Admit`, `Teardown`, `Start`, ...) are separate actions that no other
task can interleave: `Suspended` is a guard of every other actor.  `fpc` is the
loop it is in (`sleep`, the retirement loop of `rotate`, the stop loop of
`_rotate`, the loop of `_shutdown`), `todo` what the loop has left, `cur` and `act`
what it awaits.  A symbol's engine and driver are reduced to what `EngineDriver`
shows of one: a decision clamps a target (`Decide`) and sends an order of the
distance to it, or of part of it (`Route`), believing the weight it read before; on
any exit it halts.  The order rests, as the router's post-only orders do, until the
venue fills it in parts (`Fills`) or lets it lapse, and the next decision sends
another over it.  Weights move with price and equity (`Reprices`).  `loose` and
`strained` are history variables: the symbols that a flatten or a halt has left with
a position or an order, and those that have had an order routed over another, or
their weights moved, since they were last sized with nothing resting or left clean.
Which symbols are ranked and which are inside their minimum hold is any choice of at
most `MaxConcurrent`; `Scanner` has how the universe is really chosen.

### Terminal, VenuePanel and Launch
`Terminal` has the requests that switch the mode, grant and revoke the permission
of the live key and shut down, the loops of the session (each start makes a new
one; a cancelled one ends at its next await), the supervisors and the engines they
hold.  A request in progress is a record of where it waits.  The awaits of `stop`
and `switch` let other requests in; `overlapped` remembers that it happened.

`VenuePanel` has the feed tasks with what they poll, the watchlist rows with the
venue each came from, the handlers that store a key, remove it or refresh, and
venues that go away and come back.

`Launch` has windows that look for a running terminal, take over stale locks,
claim a port, serve and release, services on their fixed port, other programs on
ports, and crashes.  A window has two threads: its server goes on while the main
thread waits for it, gives up, removes the lock and shows its message (`GiveUp`,
`Dismiss`).  Whatever may come at the wrong time does: launches that overlap, a
service beside a terminal, answers that miss their deadline, ports taken between two
steps.  `races` is a history variable that counts them.

### AppendLog, Records, Autopilot, Credentials
`AppendLog` is the file: a sequence of lines, each an entry, torn, or without its
newline; `Appended` lands on a line without one.  `Records` has the journal with
its rollover and the forward record over kills and restarts.  `Autopilot` has
rounds in a thread, the gate against the incumbent, the approved candidate that
waits for a flat book, the ledger and restarts; a configuration is known by its
out-of-sample Sharpe.  `Credentials` has two writers whose saves open, write and
rename the same temporary file (an inode each time it is created), requests that
change the keys in memory meanwhile, failures and kills between any two steps.

### WalkForward and Selection
`WalkForward` enumerates the folds and the search over them, one candidate of one
window at a time, candidates that raise included.  `Selection` pools the trials of
every symbol and judges a candidate against the luck bar, which is 0 without a
variance and otherwise the deviation of the trials times a factor of their number
(`InsideLuck`; `LuckFactor` holds the squares of `expected_max_sharpe` for a variance
of one, and everything else is exact).  `Purge` is the one given to
`walk_forward_evaluate` or the default it computes; any natural number will do.

### BookPlan, DayTrades, Scanner, Bars, Positions
`BookPlan` is `allocate` step by step (vol target, leverage, ceilings, sector,
gross, net, minimum, ladder, no-trade band) in integers that round down, then
`plan_rebalance` of its lines (a weight of zero makes none) on what is held.  `DayTrades` is an account that asks
`check_tradeable` before each order, beside a broker that counts and restricts.
`Scanner` refreshes the history symbol by symbol, with failures, ranks, filters,
diversifies, builds the universe and the verdicts.  `Bars` fetches pages against a
clock that moves and drops the forming bar (the command line, alone or with a fleet),
or asks Alpaca once and seeds what it got when the rotation admits the symbol (the
terminal); then the aggregator adds ticks, some late; a bar keeps the moments of its trades instead of prices.  `Positions` is the
tracker with its average entries, beside the broker it reports on.

## 3. Runs

| Run | Checks | Instance and bounds | States |
|---|---|---|---|
| `risk` | `ChangeBounded`, `BreachHaltsAtOnce`, `OnlyDailyLossIsCleared`, `StopRatchets`, `BreakevenLocksIn`, `Protected`, `ExitsGoThrough` | 7 marks that straddle each limit, 3 losing bars instead of 8, 2 days; a backtest of 6 bars with a refit every 3; 8 closes and 3 ATRs (0 = missing) at 20 ticks per step, time stop of 3 bars so that all five exits occur; the live engine with orders that rest | 927,241 |
| `submit` | `ExactBooksOnce`, `Answered`, `OutcomeSpec` | the default 3 retries, all 16 networks | 30,555 |
| `engine_safety` | `CleanHaltLeavesNothing`, `NothingAfterUnknown` | 2 bars, 2 orders, targets 0 and 1, account flat or one lot short | 1,719,088 |
| `engine_liveness` | `HaltStopsDriver`, `DeadFeedHalts`, `NewestBarDecided` | 2 bars, 1 order, flatten may fail, no reconnect limit | 163,308 |
| `fleet` | `GrossWithinCap`, `PositionHasDriver` | 3 symbols of which 2 may be traded, cap 2, targets 0 and 2 (beyond the share of 1), 2 rotations, 2 orders or moves of a weight; symmetry of the symbols, safety only | 4,797,044 |
| `brokers` | `EquityIsMarkToMarket`, `HaltEndsFlat`, `AnswerIsHonest` | 4 books around two prices, 4 orders, targets on both sides, up to 3 lots so that an average has a fraction; at Alpaca up to 4 resting orders over a long, a short or no position | 195,312 |
| `terminal` | `SessionAgrees`, `EnginesTradeOneBroker`, `OneVenueOnScreen`, `BotsAreRaced`, `RequestsAreAnswered`, `FeedRecovers` | 2 requests at once and 3 in all, 1 symbol, 1 grant; 2 venues, 3 switches, 2 outages; 3 windows, a service, 3 ports of which other programs may take 2, 2 races, 1 crash | 609,244 |
| `records` | `KillLosesOne`, `SummaryIsWhole`, `FileIsWhole`, `RevocationSurvives`, `FoldsAreApart`, `LiveImproves` | 3 days, 4 trades, 2 kills; 2 keys, 2 writers, 3 requests, 1 failure; 2 rounds a day, 3 hours, 1 restart; 100 bars, 3 candidates; 4 trials on 2 symbols, Sharpes 0 to 2 | 1,075,421 |
| `portfolio` | `BookWithinLimits`, `DrawdownDelivers`, `PlanIsFunded`, `ReserveIsEnough`, `OneBetEach`, `TicksCountOnce`, `ShownIsMade` | 2 stocks of one sector and a coin, flat or long and short, drawdowns short of, on and past each step; 2 stocks over 3 sessions; 4 symbols with up to 2 alike pairs, 1 refresh; 5 bars in pages of 3, 4 ticks; 4 fills, 1 closed position shown | 209,698 |
| `engine_double` | `NoDoublePosition` is violated | as `engine_safety`, targets on both sides | |
| `submit_resend` | `AtMostOnce` is violated | a prompt network whose lookups may fail, 2 retries | |
| `terminal_strand` | `SwitchLeavesNothing` is violated | one request at a time, one symbol, flattens that succeed | |

What each property says of the code is in the comment above it.  Deadlock checking
is off where a system may stop: a submission that has returned, a driver or a fleet
that has closed, bars, days, requests or ticks used up.

The bounds (`MaxBars`, `MaxOrders`, `MaxDay`, `MaxScans`, `MaxRequests`, `MaxKills`,
`MaxRestarts`, `MaxCrashes`, `MaxOutages`, ...) are guards of the models; nothing
else is cut off.  They are enough because of what the hazards are.  In the engine:
two bars with one resting order and one halt; a third bar only repeats the second,
since the latch merges bars.  The fleet needs one rotation to fill its universe and
one to replace part of it, and two orders to hold the positions of both its symbols
or to stack them on one; its theorems cover any number.  Three windows and two races
show that a terminal more needs a race of its own, also once the first pair is gone.  In the terminal two
requests overlap and a third starts from what they left.  A kill tears a line and
the next write lands on it; a second kill shows that losses do not add up.  The
book's stages are functions of one call, and the values are placed on both sides of
every ceiling and on every step of the ladder.

Some properties state their own precondition, and the README names it because
it is what they do not promise: `SessionAgrees`, `FileIsWhole` and
`RevocationSurvives` speak of requests that come one at a time (`overlapped` is
false), `FeedRecovers` of handlers that have not raced, `CleanHaltLeavesNothing` of
halts that no decision overlapped, `PositionHasDriver` of symbols that are not
`loose`, `GrossWithinCap` of the symbols that are neither `loose` nor `strained`
(whatever the others do), `EquityIsMarkToMarket` of accounts that no fill has turned over,
`ExactBooksOnce` and `OutcomeSpec` of networks whose lookup is exact,
`ReserveIsEnough` of no more stocks than the reserve and one.  `BotsAreRaced` has no
precondition, and does not promise one bot: it bounds the bots by the races there have
been, so that nothing else (a crash, a stale lock, a closed window, a failed launch)
ever costs one.

### Fairness
`LiveSubmit`: weak fairness of the client's own steps; every ccxt request has a
timeout and every sleep ends.  Nothing is assumed of the venue.
`EngineDriver`: weak fairness of the decision task, the watchdog, the body of halt
and `run`: their timers fire (`wait_for(..., 1.0)`, `watchdog_interval`) and their
broker calls end (the decision timeout; the client's request timeout).  No fairness
for streams, venue or operator: a feed may stay silent for ever.  Each is a
separate conjunct, as the tasks are scheduled independently.
`Fleet`: weak fairness of the fleet's task and of each halt that has begun; its run
checks safety only.
`Terminal`: weak fairness of each request and of loops that have been cancelled:
the event loop resumes what can go on.  Requests themselves need not come.
`VenuePanel`: the same for each feed task and each handler; a venue answers or the
client's timeout strikes.  No fairness for outages: a venue may stay away.
`MCTerminal` repeats these for the part in focus.  `Launch`, `Records` and the
modules of `portfolio` state safety and have none.

## 4. Disagreements between the code and its documentation

`PROJECT.json` quotes the line each contradicts.  Three are runs of their own:

1. `submit_resend`: a failed lookup is treated as "not there" while attempts
   remain; the docstring (`execution/live.py:370`) says it keeps the caller on the
   UNKNOWN path.
2. `engine_double`: the in-flight marker is cleared when `submit` returns, also for
   an order that rests; "a signal cannot become a double position"
   (`src/README.md:727`).
3. `terminal_strand`: stopping the session retires engines that believe they are
   flat without a halt, so what rests at the venue is left there when the broker is
   switched (`ui/server.py:417`).

The others are definitions whose comment begins with VIOLATED.  Each is refuted by
TLC when it is put in place of the properties of the cfg named here, with the
constants changed as said:

| Property | cfg | What the code does |
|---|---|---|
| `OnlyReduces` | `MCRisk` | the change limit acts in both directions, so `apply(0)` may return a weight |
| `FiringReduces`, `FiringFinishes` | `MCRisk` | a fired stop passes the change limit: the exit takes several bars, may begin by adding and may be called off |
| `NeverHeldAgainst` | `MCRisk` | a reversal whose edge does not pay keeps the whole old position |
| `FadesTheDeviation` | `MCRisk` | a score that jumps over the exit band keeps the side of the position |
| `ClosedMeansFlat` | `MCEngineDriver` | `_shutdown` cancels a task inside `halt` and does not halt again |
| `DriftMeansMoved` | `MCEngineDriver`, `MaxBars` 3, `MaxOrders` 1 | a price move beyond the tolerance looks like drift |
| `GrossIsCeiling` | `MCFleet`, `Drifts` FALSE, `MaxScans` 1, `MaxEvents` 3 | an engine sizes its order by what is held, over whatever rests, so a symbol whose orders fill late exceeds its share, and the book its cap |
| `CancelCloses` | `MCFleet`, without its SYMMETRY | a cancellation of the fleet inside `_stop_symbol` is swallowed |
| `LabelIsBroker` | `MCTerminal` | two overlapping switches leave label, controller and loop on different modes |
| `VenueIsQuoted` | `MCTerminal`, `Partial` {"alpaca"} | one symbol the venue does not list fails the whole poll, for ever |
| `OneBot` | `MCTerminal` | check and claim are two steps, the service takes no lock, a slow server is not seen, a window that gives up removes the lock while its server comes up |
| `QuotedIsTaken` | `MCBrokers`, `Wired` FALSE | nothing in the program calls `PaperBroker.on_book`, so paper orders are refused for want of a book |
| `NeverThroughFlat` | `MCBrokers` | a resting order fills between the clamp and the POST |
| `SilentMeansFlat` | `MCBrokers` | a position that cannot be read counts as flat |
| `AnswerIsHonest` | `MCBrokers`, "gateway" added to `Troubles` | a 5xx becomes REJECTED although the order may be booked |
| `WrittenIsKept`, `SummariesReadable` | `MCRecords` | the entry after a torn line is lost as well; summaries cannot be read any more |
| `SavesAtomically`, `ConsentStays` | `MCRecords` | overlapping saves share one temporary file, and the older one may be renamed last |
| `BudgetPerDay`, `SwapsHappenFlat`, `LandsWhenFlat`, `LedgerReadable` | `MCRecords` | the budget is in memory; flatness is believed from before the last order; a failed round postpones a swap; a torn ledger line stops every read |
| `SkipsAreSurfaced`, `KeptWasTrained` | `MCRecords` | test failures are not counted; a fold nobody could train in is credited to the first candidate |
| `SearchingRaisesTheBar` | `MCRecords`, `MaxTrials` 5, as a PROPERTY | a trial that agrees with the others narrows the variance and lowers the luck bar; the test that says otherwise holds the variance fixed |
| `AdoptedIsDeflated` | `MCRecords` | a trial without its returns passes the deflation bar |
| `PlanFitsBudget`, `GrossIsHard` | `MCPortfolio` | the legs put off need not be day trades; the no-trade band comes after the caps |
| `NeverRestricted` | `MCPortfolio`, `Stocks` of 3 | the reserve is compared once per opening |
| `NoDuplicates` | `MCPortfolio`, `Venues` {"alpaca"} | the forming bar is seeded as complete and formed again |
| `SeedIsComplete` | `MCPortfolio`, `Listed` 4 | an unfinished row stays in the frame when its bar ends during the fetch |
| `LimitIsUsable` | `MCPortfolio`, `Page` 5 | a complete last row is dropped |
| `ShownIsHeld` | `MCPortfolio` | fills that come later, and those of a halt, are not reported |
| `LimitIsNotBlamed` | `MCPortfolio` | what a full list leaves out is labelled as correlated |
| `FailedIsSkipped` | `MCPortfolio`, `MaxRounds` 2 | the frame of an earlier refresh is ranked |

Seen while modelling and visible in the models:

- `reset_day` clears a daily-loss halt although the drawdown limit has been breached
  since, because the first reason sticks (`risk/limits.py:198`); nothing outside the
  tests calls it.
- `risk_fraction` measures |entry - stop| and grows again once the stop has passed
  the entry (`risk/stops.py:290`).
- A venue that refuses a known client order id turns a resend of a booked order into
  REJECTED (`execution/live.py:345`).
- A decision that passed its check of `halted` routes its order after a watchdog halt
  (`execution/engine.py:279`).
- An account that is not flat at start is reported as drift at the first
  reconciliation (`execution/live.py:244`).
- A driver that halted by itself is reaped but its engine stays in the supervisor's
  universe, so the symbol is neither traded nor admitted again
  (`execution/portfolio_driver.py:260`).
- `check_rollover` runs only while a page holds its websocket open: of the days that
  end with no page open only the first gets a summary.
- `ForwardRecord.record_day` and `Autopilot` are called by tests only; `rebuild` is
  given no account and `plan_rebalance` no symbol opened today, which the models
  give; `permitted_weight` feeds `set_weight_cap`, which is defined nowhere.

## 5. Proofs

All theorems hold for every value of the constants that the named assumptions of
the modules allow (`LimitsAssumption`, `StopAssumption`, `NoStopAssumption`,
`GuardAssumption`, `ReversionAssumption`, `BacktestAssumption`, `SubmitAssumption`,
`AlpacaAssumption`, `DriverAssumption`, `FleetAssumption`, `TerminalAssumption`,
`VenueAssumption`, `LaunchAssumption`, `CredentialsAssumption`, `RecordsAssumption`,
`AutopilotAssumption`, `WalkForwardAssumption`, `BookAssumption`, `DayTradesAssumption`, `ScannerAssumption`, `BarsAssumption`,
`PositionsAssumption`): types of the parameters, finite sets where something is
counted or summed, and what the constructors accept.  TLC evaluates each in a
passing run.  Every safety and action property of the passing runs is a theorem;
what a theorem assumes beyond the named assumptions is part of the property or stands
in the statement, and is said here.

`SetInduction` has the lemmas the others share.  The library's induction theorems
take the property as an operator, which no installed prover can instantiate; here
it is given as the *set* of the naturals, or of the subsets of a finite set, that
have it (`SetOfAllNaturals`, `SetOfAllSubsets`), from the library's well-founded
order on the naturals.  From these follow that a recursion over the subsets of a
finite set has a solution (`RecursionOnSubsets`), which is what the folds of the
community modules compute: sums over a set (`SumExists`, `SumUnfolds`, `SumBound`,
`SumsCompare`) and folds over a sequence (`FoldExists`).

- `RiskProofs`: `RiskInv` adds to the types that the permitted weight is within the
  gross band and that the peak covers the last mark.  The band is inductive because
  the change limit moves from a weight inside it toward a capped weight inside it
  (`SteppedBounds`).  `BreachesHalt` and `OnlyDailyLossClears` are action properties
  from the same invariant.  For the stops one lemma per stage of `update` (mark,
  break-even, trail) says what the stage preserves; the ratchet follows because
  every assignment to the stop goes through `Improves`.  `ExposureIsProtected` is
  about `StopGuard`: `GuardInv` says that from the second decision over a position
  on, the side the engine believes is the side that is held, so the stop it replaces
  or opens is on that side.  `ExitsReachZero` is about `BacktestRun`: `ExitInv`
  counts the bars since the strategies wanted nothing (`quiet`): the first takes the
  target to zero through gate and buffer, the second through the lag, and each one
  after takes `MaxChange` off what is left of the weight.
- `OrdersProofs`: `SubmitInv` = types, "each attempt is sent once and answered once"
  (`OneRequestPerAttempt`) and what an answer says of its own attempt
  (`AnswerMeans`); it holds on every network.  Over an exact one, `ExactInv` says
  that nothing of an earlier attempt is left when the next starts, which makes
  `booked` a set of at most one and gives the refinement of `OrderOutcome`, step by
  step.  For Alpaca, `HaltInv` says of each place of a halt without trouble what can
  still rest and what is held, given that the engine has had a book (`HasBook`,
  without which flatten cannot price its order).  The refinement of `OrderOutcome`
  there assumes that no gateway answers in the venue's place ("gateway" not in
  `Troubles`).
  For the paper account, `PaperInv` says that the account is `Balanced`: until a fill
  turns the position over, what was paid and realised less the cost of the position is
  what went through the account (`EquityStaysMarkToMarket`).  `FillBalances` shows it
  for one fill, with one case per branch of `_fill` (flat, opening or adding, reducing),
  and `LoopBalances` for the loop of `on_book` over any list of resting orders.
- `EngineDriverProofs`: `ControlInv` relates the program counters, `halter`, `hpc`,
  `halted` and `marker` (one halter at most; the marker set exactly at "submit"; a
  closed driver has only ended tasks).  It is needed because `Teardown` changes
  everything at once.  `CleanInv` adds why the order inside halt matters: a halt that
  nothing overlapped can be joined by no order later (`NothingJoinsHalt`), nothing
  is routed before the first book (`BookFirst`), cancelled orders stay cancelled
  and the position read is the one closed (`CancelledFirst`).
- `FleetProofs`: a decision is within the share of its symbol because `Clamp` cuts to
  the budget first; nothing bounds what the venue may hold.  `PositionHasTask`
  strengthens `PositionHasDriver` to a task that still runs, which a driver's end must
  re-establish.  `LoopInv` says what each loop of the fleet may assume of its lists;
  with it `AllManaged` is inductive.  `CountInv` bounds the drivers that nothing has
  left behind, now and when the retired have been stopped and the admitted started.
  `WithinShare` is about one symbol: filling, lapsing or replacing the one order that
  rests leaves the reach of position and order within the share, and what does not is
  `strained`.  `GrossStaysWithinCap` joins them: only symbols with a driver are exposed,
  each by at most its share (`SumBound`), and the share times the limit is at most the
  cap.  Neither says anything of a symbol that is `loose` or `strained`, and neither
  needs anything of one.
- `TerminalProofs`: `update_watchlist` leaves nothing fresh but what the venue has just
  returned, so fresh rows have the venue of the feed that runs (`WatchlistInv`).  For
  the session, whatever overlaps, a supervisor has the number of the start that made
  it, and engines of a number have the broker of that start
  (`EnginesTradeTheSessionsBroker`).  As long as
  requests come one at a time, `OneAtATime` says of each place where a request waits
  what it has left for its next step: the loop it joins is the only one, and the start
  it will make fits mode and label (`InProgress`).  `LaunchInv`
  balances the live processes (those that serve or have passed the last look for a
  terminal) against the races: there may be one more only while the next window would
  find it (`Heir`), and two more only while the windows that look are all about to
  attach (`AllAttach`).  A step at the wrong time pays for the process it adds; the
  others leave the balance as it is (`PaidIsBalanced`, `FreeIsBalanced`).
  `BotsNeedRaces` follows with no assumption on order, answers or ports.
- `RecordsProofs`: `FoldsInv` bounds where the next window starts, past every earlier
  test window and its embargo, so the folds that are added stay in order.  For the
  autopilot the approved candidate, while it waits, is the incumbent and betters
  what is live; improvements compose because Sharpes of recommended configurations
  are at least a positive floor.  `OneSaving` (credentials): at most one save is under
  way, its temporary file is never the file itself, what it has written is the store,
  and what was revoked trades neither in memory nor on disk.  `RecordsInv`: the cost
  of the kills is counted per file (`Lost`) as the entries that cannot be read and the
  one that will land on a line left open, so that a kill and the next write together
  add one; a day is summarised when it is over, after which its trades in the journal
  only become fewer.  What a reader finds in a file is a fold over its lines
  (`EntriesAreKept`).
- `PortfolioProofs`: the day trades used and the openings of today that are still
  open together stay within what the window leaves (`BudgetHeld`), as long as no
  more stocks than the reserve and one are held (`FewPositions`).  For the book, each
  numbered step of `allocate` has a lemma that says which ceilings it leaves in
  force: every later step only shrinks weights (the no-trade band apart, which leaves
  one where it had drifted to), so a ceiling once met stays met, and
  the ladder comes after all that could give a part of the cut back; `BookInv` keeps
  the result together with what was asked.  `PlanCanBePaid` sums the increases of a
  plan after its purchases were scaled down.  For the scanner `ChoicesSoFar` is the
  invariant of the loop of `_diversify`, one candidate at a time.  For the bars
  `CountedOnce` counts the trades of the rows, of the current bar and of what was
  trimmed against the ticks fed.  For the positions `Gap` is what display, trimmed
  history and cash differ by; opening, reducing and turning over leave it as it is
  (`OpeningIsExact`, `PartialExitIsExact`, `ReversalIsExact`) and scaling in widens it
  by less than a unit for each lot (`ScalingInIsClose`), because the average is rounded
  down.

Checked by TLC only: liveness (`Answered`, `HaltStopsDriver`, `DeadFeedHalts`,
`NewestBarDecided`, `RequestsAreAnswered`, `FeedRecovers`), since TLAPS proves
neither fairness-based liveness nor ENABLED.

## 6. Plan

Done: the inventory's components except those of section 7, and the theorems of
section 5.  Next, in this order:

1. `Positions` with the exact averages of `PaperTrading`, so that what is shown and
   what was made agree without a rounding error.
2. The order router: the throttle and the one ticket per bar as theorems.
3. `Fleet`: progress (a stop request closes the fleet) on an instance small enough
   for liveness, a third rotation, and `FlattenOnRetire` off.
4. `Terminal` over `Fleet`: the session uses the supervisor without its driver; a
   composition would show the two retirements side by side.

## 7. Not modelled

Telegram, network probes, diagnostics and the simulator: I/O whose results nothing
in the trading path reads.  The browser interface: presentation.  Command line,
reports and the installation of the service: no state of their own.
`TradingSession` of `ui/session.py`: instantiated nowhere in the program.
`PortfolioSupervisor.run`, the loop for a supervisor without a fleet: nothing calls
it.  The event log: a bounded list for display.  Indicators, metrics, bootstrap,
deflated Sharpe, covariance, feasibility, the proposals of the search: floating
point, and inputs where a model needs their result.  REST clients, caches and
downloads: I/O.

Inside modelled parts: logging, notifications, statistics counters, the autopilot
as a fifth task of the driver, client order ids (an attempt is its own name),
prices inside `EngineDriver`, the warm-up and session tilt of the engine, the typed
confirmation of a switch (a guard on one request), texts of verdicts beyond their
kind.
