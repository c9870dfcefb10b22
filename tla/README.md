# PolyCortex in TLA+

PolyCortex is a Python agent that trades prediction markets. Its package is
`src/polymarket_agent` (all paths below are relative to it). This directory holds
TLA+ models of the agent, the TLC configurations that check them on small instances,
and theorems about them proved with TLAPS.

    tlc -workers 2 -config MCExecutorPaper.cfg MCExecutor     # a run
    for m in *Proofs.tla SumTheorems.tla; do tlapm $m; done    # the proofs, some ten minutes

`PROJECT.json` lists the components, the runs with their properties, a mutant of the code
for every property, the source lines behind every definition (`map`), the hazards and the
theorems.

## 1. Inventory of the system

The agent is one process with one asyncio event loop. `main.py` runs a cycle every few
minutes; signals start a shutdown task next to it; the exchange, SQLite, the kill-switch
file and the operator are outside.

| Component | State | Operations | Hard behaviour | What makes it correct |
|---|---|---|---|---|
| Order executor, `execution/executor.py` | dict of orders with their bracket legs, dedup window, lock; table `submitted_orders` | `place_order` (paper, live, split in chunks), `close_position`, `reconcile_orders`, `cancel_order`, `cancel_all_open_orders`, `cancel_expired_orders` | awaits between check and use; cancels that take no lock; rows read at different times; posts that time out and still arrive; memory lost at exit | a position is sold at most once and never more than was bought; every fill is bracketed; no live order is forgotten; the lock is always released |
| Kill switch, `risk/kill_switch.py` | a file | activate, deactivate, is_active | set by anybody at any moment | no trading while it is on |
| Graceful shutdown, `infra/shutdown.py` | list of hooks, flag | install, run hooks with a timeout, exit; second signal forces the exit | runs next to the cycle | open orders are cancelled, state is saved |
| Trading cycle, `main.py` | bankroll, positions, failure count, cycle count | `run_cycle`, `startup_checks`, `_reconcile_order_lifecycle`, `run_forever`, hooks | many components per cycle, each may fail; restart | tracker rows follow the orders; a failing or losing agent stops |
| Performance tracker, `tracking/tracker.py` | tables `trades`, `signals`, fees | record, `sync_entry_order`, `close_position`, `close_trade_for_order` | several writers of one row, close after close | a trade closes once; open rows are the positions |
| Reconciler, resolver, `tracking/` | none of their own | compare database and executor, import or close orphans; settle resolved markets | restart: the executor knows nothing | a row is closed only when its position is |
| Learner, calibration, `tracking/learner.py`, `models/calibration.py` | minimum edge, fit, two files | adjust, refit, save, load | two files written at different times, each may fail | a restart resumes what was learned |
| Drawdown, daily loss, sizer, `risk/` | peak, day, losses of the day | update, record, multiplier; Kelly size under caps | sizes and tiers computed from values read earlier | exposure and daily loss stay under their limits |
| Alerts, `risk/alerts.py`, `utils/alerting.py` | rules, cooldowns | check prices, send | rate limits | at most one alert per crossing |
| Order state machine, `execution/state_machine.py` | status, history | transition | illegal sequences | final states are final |
| TWAP, trailing stop, batch, paper engine, `execution/` | slices; peak and trigger; queue; portfolio | tick, update, add and flush, buy and sell | partial failure, retries | money and shares are conserved; an algorithm ends |
| Slippage, arbitrage, `execution/` | none | walk a book, compare with the midpoint | levels in any order | the estimate is the best execution |
| Event bus, `events/bus.py` | queue, handlers | publish, dispatch, start, stop | full queue, failing handler | each kept event reaches each handler once |
| Circuit breakers, retry, limiter, backpressure, `infra/` | state, counters, tokens, queue | call, record success or failure, acquire, put | concurrent callers, late answers | a degraded service is left alone; bounded rate |
| PID lock, scheduler, wallets, health, memory guard, `infra/` | lock file, last runs, utilization | acquire, release; due, mark_ran; get_wallet, record | several processes; writes that fail; choices on lagging data | one holder; intervals survive restarts; load stays balanced |
| Market data, `data/` | caches with a time to live, subscribed tokens, websocket book | list markets page by page; subscribe, reconnect | concurrent listings, failing pages; subscriptions during a reconnect | lists have a bounded age; each subscription is served |
| Edges, features, strategies, intelligence | windows of prices | numerical estimation | numerical | numerical |
| Signing, RPC, configuration, metrics, logging | none | I/O and validation | none | none |
| Reporting, demo data, dashboard, backtest, scripts | files | offline | none | none |

How they interact: the cycle fetches books, calls `reconcile_orders(books)` and copies order
state into the tracker, scans, sizes, and calls `place_order`; at the end of a cycle it
calls `cancel_expired_orders`. The emergency path calls `cancel_all_open_orders` and sets the
kill switch. `place_order` reads the kill switch. The shutdown task calls
`cancel_all_open_orders` and nothing stops the cycle meanwhile. PID lock, trailing stop,
TWAP, batch, paper engine, resolver, state machine, daily-loss tracker, circuit breakers,
signal queue, wallet manager, strategy registry and websocket client are complete and
tested, but `main.py` does not use them.

## 2. Modules

| Module | What it is |
|---|---|
| `Executor` | the order executor, the two tasks that use it, the exchange, kill switch, signals, exit, crash and restart, and the properties |
| `BracketPosition` | the abstract specification: what the executor promises of each entry's position |
| `MCExecutor` | symmetry for TLC; instantiated by the six `MCExecutor*.cfg` |
| `ExecutorProofs` | the first inductive invariant of the executor: types and `OcoSound` |
| `ExecutorSafetyProofs` | on top of it: what a step may do to a record; brackets, finished orders, the refinement of `BracketPosition`, the pair of legs |
| `ExecutorVenueProofs`, `ExecutorOrphanProofs` | on top of that: the executor against the exchange, its fills and its live orders |
| `SumTheorems` | induction over numbers and over the subsets of a finite set, and what it gives about totals: `Total` of weights over a set, `Tally` of integers over one |
| `TradingCycleProofs` | the inductive invariant of the cycle and its seven theorems |
| `DeliveryProofs` | an inductive invariant and a theorem for each of `WsClient`, `GammaClient`, `OrderLifecycle`, `EventBus`, `BatchOrders`; the types of all the components of `MCUnits` |
| `ComponentProofs` | the same for `RetryBreaker`, `CallBreaker`, `RateLimiter`, `PidLock`, `TrailingStop`, `PriceAlerts`, `JobScheduler`, `LearnedState`, `Wallets`, `PaperEngine`, `Slippage`, `Twap` |
| `TradingCycle` | `run_forever` and `run_cycle` with the trades table, drawdown controller, sizer, position reconciler, kill switch, mode flags, shutdown hooks, crash and restart |
| `TradeLedger` | the abstract specification of the trades table: a trade opens once, closes once, and its profit is final |
| `MCTradingCycle` | two of three orders on one market; instantiated by the three `MCTradingCycle*.cfg` |
| `Clock` | the monotonic clock the components below read |
| `RetryBreaker`, `CallBreaker` | `infra/retry.py` and `infra/circuit_breaker.py`, each with concurrent callers |
| `RateLimiter` | `infra/rate_limiter.py`: the bucket, the queue at its lock, overrunning sleeps, cancelled requesters |
| `PidLock` | `infra/pid_lock.py`: processes, inodes, the path, a release in two steps, death |
| `JobScheduler` | `infra/scheduler.py` with the two jobs of `main.py`, failing writes and restarts |
| `Wallets` | `infra/wallet_manager.py`: traders choosing on utilization that lags |
| `EventBus` | `events/bus.py`: the queue, the background loop and the drains, concurrent handlers |
| `WsClient` | `data/ws_client.py`: connection, resubscription, messages, back-off, the books it keeps |
| `GammaClient` | the market listing of `data/gamma_client.py`: two caches, pages, retries, concurrent readers |
| `PriceAlerts` | `risk/alerts.py` |
| `Twap`, `TrailingStop`, `BatchOrders`, `PaperEngine`, `Slippage` | the files of the same names in `execution/` |
| `OrderLifecycle` | `execution/state_machine.py` and the transition table of `types.py` |
| `LearnedState` | what `tracking/learner.py` and `models/calibration.py` learn, keep in files and load |
| `MCUnits` | all of the components from `Clock` on, one of them moving; instantiated by `MCUnits.cfg` |

`TradingCycle` uses the executor through what it sees of it: order status, filled part,
bracket, and one lifecycle event per change. That view is what `Executor` implements (a leg
sells at most once and at most the position, `OcoSound`; a finished order stays finished,
`FinalIsFinal`). The components of `MCUnits` share no variable with each other or with the
cycle: `JobScheduler` and `LearnedState` model the lines of `main.py` that call them, the
others are used at their boundary or, as section 1 says, not yet used at all.

### Executor: state

| Variable | Code |
|---|---|
| `ord[r]` | the `Order` of root `r` in `self.orders`, together with its two children (take-profit, stop-loss): `kind` (entry, or the SELL of `close_position`), `status`, `size`, `filled`, `bracket` = `bracket_state`, `eids` = `exchange_order_ids`, `leg` and `legSize` = status and size of the children; `aged` and `due` stand for `placed_at` and `gtt_expires_at` compared with the clock |
| `orders` | the keys of the dict in insertion order: the order in which every loop visits orders |
| `recent` | `_recent_placements`, the keys inside the dedup window |
| `lock` | `_order_lock` |
| `task[t]` | the local variables of the call task `t` is in: program counter at an await, snapshot still to visit, ids received, rows read |
| `loop` | the task in the middle of a synchronous stretch |
| `venue`, `vcancel` | the exchange's order for each chunk, and cancel requests on their way |
| `intents` | rows of `submitted_orders` |
| `killed`, `proc` | the kill-switch file, the process |
| `used`, `mishap` | history: ids drawn (`uuid4` never repeats), roots a fault or the shutdown interfered with |

### Executor: actions

| Actions | Code |
|---|---|
| `PlacePaper`; `PlaceLive`, `PreflightOk/Fail`, `PostReplyMore`, `NextChunk`, `PostReplyLast`, `PostFail` | `place_order`, `_place_order_unlocked`, `_place_order_live`, `_submit_with_retries` |
| `CloseCall` | `close_position` (its replies are the `Post...` actions) |
| `CancelAllCall`, `CancelOneCall`, `CancelExpiredCall`, `ScanSkip`, `ScanExpire`, `ScanCancelLocal`, `ScanCancelNoIds`, `ScanCancelLive`, `CancelReplyMore/Last`, `CancelFail`, `ScanDone` | `cancel_all_open_orders`, `cancel_order`, `cancel_expired_orders` |
| `ReconcileCall`, `VisitSkip`, `VisitPaperEntry`, `VisitLegExpired`, `VisitLegTriggered`, `VisitLiveEntry`, `FetchReply/Fail`, `ReconcileDone` | `reconcile_orders`, `_reconcile_live_entry`, `_reconcile_order_with_book` |
| `ApplyFill`, `ArmBracketOrders`, `SyncChildSizes`, `ApplyRows`, `TriggerLeg`, `CancelLocal`, ... | the helpers of the same names, and the assignments inside the loops |
| `Signal`, `HookTimeout`, `Exit`, `Crash`, `Restart` | `shutdown.py`, the hook `main.py` registers first, the process |
| `VenueReceive/Fill/End/Cancel` | external: the exchange as the client calls presuppose it |

**Grain.** asyncio switches tasks only at an await. A loop over orders is one action per
order, and `loop` keeps the other task, the exchange and the clock out between two actions of
one synchronous stretch, so nothing is interleaved that the event loop cannot interleave. A
crash is allowed between stretches only: the memory a stretch changes is lost anyway, and
each external request is the last action of its stretch. The posts and status requests run
in worker threads under `wait_for`: a request that timed out stays with the exchange
(`VenueReceive` needs no caller), also after the process has ended.

**Abstractions.** Prices are nondeterministic: a limit or trigger is met or not. Amounts are
units of the smallest fill (`Nat`); splitting divides exactly and so does the partial-fill
ratio, as `ExecutorAssumption` says, so rounding is not modelled. A rejected placement (bad
size or price, slippage, duplicate, kill switch) changes nothing and is no step; a call that
waits for the lock is a call that has not begun. `live_reconcile_enabled` is true, as shipped.
The cap of 10,000 dedup entries is left out: no run comes near it. `cancel_order` is called
with roots only: nothing in the repository passes it a leg directly, the loops pass both.
`get_order`, the summaries and the metrics change nothing.

### TradingCycle: state and actions

| Variable | Code |
|---|---|
| `pc`, `turn` | the await `run_cycle` is at, and how far the executor's pass or the placing loop has come |
| `orders` | `executor.orders` as the cycle sees it; emptied by a restart |
| `events`, `positions`, `mult` | locals of the cycle: lifecycle events not applied yet, the list `open_positions`, `dd_mult` |
| `rows` | the trades table: status, size, filled part, entry and bracket state, profit, fees charged per side |
| `bankroll`, `peak`, `daily`, `dailyOld` | `_bankroll`, the drawdown controller, and whether its date is past |
| `failures`, `killed`, `mode` | `_consecutive_failures`, the kill-switch file, the two copies of `dry_run` |
| `proc` | running, shutdown hooks under way, tracker closed, down |
| `budget`, `history` | the bound on disturbances; what the properties need of the past |

| Actions | Code |
|---|---|
| `StartCycle`, `SkipCycle`, `Pause`, `Fail` | the kill-switch test, the loop of `run_forever`, `except` and `finally` (heartbeat, automatic kill switch) |
| `Scanned`, `EntryFills`, `VenueCancels`, `LegTriggers`, `LegExpires`, `Reconciled` | markets and books, then the pass of `reconcile_orders` |
| `ApplyEntry`, `ApplyExitFee`, `ApplyClose`, `CloseRollsBack`, `Applied` | `_reconcile_order_lifecycle`, one event at a time |
| `EnterSizing`, `EmergencyCancel`, `EmergencyHalt`, `PlaceOrder`, `Record`, `PlacingDone` | drawdown, the emergency path, sizing, `place_order`, the tracker's record and fee |
| `Account`, `Expire`, `Audit` | bankroll, `cancel_expired_orders`, the reconciler |
| `Stop`, `ShutdownCancel`, `ShutdownCloseTracker`, `Exit`, `Crash`, `Restart`, `FlipSwitch`, `Midnight` | signal, hooks, process, `kill-switch on/off`, the UTC day |

Money is in whole units; an exit is a percentage of the size; the Kelly formula is an arbitrary
wish under the caps of `calculate_position`, which are translated. The opportunities are
arbitrary. The executor's own awaits inside `place_order` are in `Executor`. An order's legs
come after it in the executor's pass, so a leg armed in an earlier pass may fill or expire
right after more of its entry has filled (`LegsAfterFill`); the venue's cancel is read only
while nothing has filled. The reconciler closes a phantom at the YES price of its entry,
which is no gain for a YES trade and any gain or loss for a NO trade, and does not tell the
drawdown controller (`Audit`).

### The other components

Each module's head says which coroutines or processes interleave, and each action names its
method. Two conventions: a method that a property getter changes (`state` of both breakers)
is applied where the code reads the getter; a file write has three outcomes, written, not
written, cut short, where the code swallows the error.

* `WsClient`: a message that is not a record, or a level that is not, raises out of
  `_handle_message`; the loop backs off with the socket still open (`HandlerRaises`). Nothing
  makes such messages come or stop coming.
* `EventBus`: `Handlers` are subscriptions, so a function subscribed twice is two of them;
  `start()` may come while `stop()` still drains. Each dispatcher (loop, `process()`,
  `stop()`) runs once at a time.
* `LearnedState`: a fit over samples of one probability ends with a single threshold, which
  `is_fitted` and `save()` take for no fit. It leaves the state as it was, is tried again in each
  cycle, and does not count as a fit (`spread` in `Refits`).
* `PaperEngine`: sizes and drawn partial fills are whole, prices in cents; the rounding of a fill
  to two decimals, which would change no such size, and of its average price to four is left out.

## 3. Properties and runs

| Property | Meaning |
|---|---|
| `Executor!TypeOK` | the state is well formed |
| `OcoSound` | fills agree with status and size; once a leg has filled its sibling is out for good; a leg never sells more than was bought |
| `BracketCoversPosition` | whatever was bought has its bracket in the same stretch, and armed legs sell exactly the position |
| `LegsTogether` | at every await, both legs are armed or neither is |
| `FinalIsFinal` | a finished order stays as it finished (live: until a shutdown begins) |
| `FillsAreReal` | a live order never reports more than the exchange traded |
| `NoOrphanWithoutCause` | a live order of the exchange is known to the executor, unless a named mishap hit it |
| `PositionSpec` | `Executor` implements `BracketPosition`: `bought` is the entry's fill, `sold` what its filled leg sold |
| `CallsReturn` | no call keeps the lock or the loop for ever |
| `FillsGetProtected` | a fill the exchange made gets its bracket, unless the entry ends or the process does |
| `TradingCycle!TypeOK` | the state is well formed |
| `BooksAgree` | a trade is closed in the table exactly when its bracket sold, unless a failure, a crash or the closed database lost the event |
| `ExposureCapped` | open trades together stay under the portfolio limit of the best bankroll there was |
| `EmergencyNeedsDisturbance` | a process that never failed, stopped or restarted never reaches the emergency drawdown |
| `FeesOncePerSide` | one entry fee and one exit fee at most |
| `DailyLossHalts` | after the daily loss limit the process that saw the loss opens nothing that day |
| `LedgerSpec` | `TradingCycle` implements `TradeLedger` |
| `ShedsLoad`, `ProbesBeforeClose` | the breakers: attempts only a full timeout after the last failure; closing only on fresh successes |
| `GrantsWithinTwiceTheRate` | the limiter: the burst, then at most two requests a period |
| `SingleUnlessReleaseRaced` | two processes hold the PID lock only around a release in progress |
| `IntervalsSurviveRestarts` | a job runs an interval after it last finished, across restarts, unless its write failed |
| `LoadStaysBalanced` | wallets differ by no more than what is in flight |
| `DeliversInOrder` | accepted events reach every handler; in order and once with one dispatcher |
| `SubscriptionsReachServer`, `StreamServesItsSubscriptions` | the websocket: no subscription is lost to a reconnect; each is eventually served |
| `ListingsAreRecent` | a market list is at most twice the time to live, plus its assembly, old |
| `FiresAsRegistered` | alerts: once, or a cooldown apart |
| `TwapLoopEnds` | the loop that drives a TWAP ends unless a slice fails |
| `TrailsTheBest` | the stop is where the best price puts it; it has fired exactly if the last price shown gives back the whole trail: the first such price fires it, no other does |
| `NoOrderIsSentTwice` | batches: nothing twice, nothing pending or cleared sent, totals count each order once |
| `PaperFillsAreSound` | paper fills: within the size and, if no draw cut one, within the limit price |
| `AuditTrailExplainsState` | the order's history chains to its state through saves and restores |
| `LearningSurvivesRestarts` | refits are an interval apart, and the edge in use is the one in the file |
| `EstimateIsBestExecution` | the slippage estimate is the cheapest way to take the size (the dearest for a SELL), and the check is monotone in it |
| `UnitsTypeOK` | each component's state is what its module declares: queues, batches, delays and sleeps within their limits, the slices of a TWAP adding up to the order |

| Run | Instance | Shows |
|---|---|---|
| `exec_paper` | paper, 2 orders on one key, size 2 filled in two parts, all operations, all events; 1.4 million states | the safety properties and the refinement in paper mode |
| `exec_live` | live, 1 order split in 2 chunks, every fault, the exchange ending orders by itself, shutdown next to the cycle, crash, restart; 1.2 million states | the same with the exchange, plus `FillsAreReal`, `NoOrphanWithoutCause`, `FinalIsFinal` |
| `exec_fair` | live, 1 order of 2 chunks, failing posts and cancels, shutdown; 44 thousand states | the two liveness properties of the executor |
| `exec_kill` | violation | the switch comes on during the balance and gas checks, and the first chunk still goes out |
| `exec_exit` | violation | a shutdown during a placement leaves a posted chunk live |
| `exec_idem` | violation | after a restart the same intent is submitted twice inside its window |
| `cycle` | 3 orders, 2 of them on one market, both modes, one disturbance of each kind at any await | the properties of `TradingCycle` and the refinement of `TradeLedger` |
| `cycle_emergency` | violation | the emergency leaves the positions open |
| `cycle_dryrun` | violation | `--dry-run` with a live configuration places real orders |
| `units` | 17 components, one moving; 0.6 million states | their safety, action and liveness properties |
| `rate_limit` | violation | under load the limiter grants twice its rate |
| `ws_asks` | violation | the first ask of a websocket book is the highest |

**Bounds of the executor.** The state of an order involves no other order except through the lock, the loop,
the dedup window and the visiting order of the dict. Two orders exercise all of these in
paper mode; in live mode two chunks give one order several ids, rows read at different
times, partial answers and a failure after the first success. Size 2 is the least that
distinguishes "nothing", "part" and "all". Two tasks are all there are. Ids are drawn once
(`Roots` is finite), so runs do stop: deadlock is not checked. The values of `Faults`,
`Events`, `VenueEnds` and `CycleOps` name what happens in each instance.

**Bounds of the cycle.** `NOrders` 3 and two markets: an order can meet another of its own
market (the category limits, and a phantom hidden by it) and one of another. `TopN` 2 lets one
cycle place two orders from one list of positions. `Budget` 1 is one disturbance per run,
of each kind, at every await; a failure already starts the kill switch (`MaxFailures` 1) and
a restart needs no budget. The percentages are not the shipped ones: they are chosen so that
three orders can reach every tier (two orders of 40 in 1000 with full losses pass the
reduction, the stop and, with a failure, the emergency threshold), keeping the order of the
shipped ones and satisfying, like them, the condition `EmergencyMargin` of section 4 on which
`EmergencyNeedsDisturbance` depends (100 + 864 + 56 and 700 + 56, both below 1100).
A daily limit of 30 is passed by losing one full order, or two part fills, and leaves room for a
next order above `MinPosition`, which only the limit then refuses.

**Bounds of the components.** In `MCUnits` one component moves and the others keep their first
state. They share no variable, so an interleaving of two of them is, for each of their
properties, one of its own behaviours with stutters; nothing is lost. Two callers,
traders, flushers, readers, handlers or tokens give every race of the code (the third process
of `PidLock` is the one that locks the new file); thresholds of 2 distinguish first and last;
each clock runs for at least two of its timeouts. `MaxCalls`, `MaxReports`, `MaxGrants`,
`MaxInode`, `MaxRestarts`, `MaxTrades`, `MaxEvents`, `MaxAlerts`, `MaxListings`, `ShowsMax`,
`MaxOrders`, `MaxSnapshots`, `MaxHistory`, `MaxForced`, `MaxClosed`, `MaxLearns`, `MaxLevels`
bound the length of a run and nothing else. Prices are in hundredths and taken on both sides
of each comparison, and of `Levels` some touch a stop exactly (95 under 100, 108 over 103);
sizes exceed the 10 from which the paper engine draws partial fills.
The runs end at their bounds, so deadlock is not checked there.

**Fairness of the executor.** Every await is bounded by `wait_for` or `sleep` and asyncio's ready queue is
first in, first out, so a call under way advances; strong fairness, because it is disabled
while the other task holds the loop. `run_cycle` reconciles in each cycle that gets past the
kill switch and the market scan; `exec_fair` has neither a kill switch nor failing fetches,
and outside these assumptions `FillsGetProtected` is not claimed. Requests reach the
exchange. Nothing is assumed of the exchange's fills, of the caller's placements, of the
clock or of signals.

**Fairness of the components.** `WsClient`: the connection task is scheduled, a socket on
which a send failed goes down, and, if tried again and again, a connection and a message on
it get through at last; without that no client could serve anything. A served token counts
only on a connection the loop attends to (`Attended`), not on a socket it has left. `Twap` is passive: the
loop of its docstring keeps calling `next_slice`, time passes, and the executor reports on each
slice (it returns within its timeouts, `CallsReturn`).

### Disagreements with the documentation

* `kill_switch.py:3-4` promises that all trading halts immediately. `place_order` looks once,
  before its first await; neither the first chunk, after the balance and gas checks, nor the
  later ones, minutes on for a split order, ask again (`exec_kill`).
* `shutdown.py:3` says that open orders are cancelled. An order learns its ids only after its
  last chunk; a cancel that comes earlier sends nothing (`exec_exit`).
* `CHANGELOG.md:58` claims idempotency through `submitted_orders`. Its key is a fresh UUID and
  nobody reads it (`exec_idem`).

* `README.md:88` and `settings.yaml:24` promise that positions are liquidated at the emergency
  drawdown. The code cancels orders, legs included, sets the kill switch and keeps the
  positions, which no cycle looks at while the switch is on (`cycle_emergency`).
* `README.md:117` and `BUYER_QUICKSTART.md:45` present `trade --dry-run` as paper trading. The
  executor copied `dry_run` when it was built (`cycle_dryrun`). The reverse holds as well:
  `--live` over a dry-run configuration stays on paper.
* `rate_limiter.py:16` says maximum; the time of a sleep is credited twice (`rate_limit`).
* `ws_client.py:274` and `types.py:178` say asks ascend; both sides are sorted in descending
  order (`ws_asks`).

Met while modelling, and visible in the model rather than refuted by a run. *Executor*: in
live mode a triggered leg fills locally and no SELL is sent; a live cancel leaves the armed
legs of a partial fill behind; one cancelled row among several chunks marks the whole order
cancelled (a cause in `mishap`); the shutdown hook can cancel an entry whose rows the cycle
is fetching, and the rows bring it back (hence the condition in `FinalIsFinal`); with a
`paper_partial_fill_ratio` below one half, the legs do not follow a second part that leaves
the status unchanged (the instances use one half, the shipped value). *Cycle*: after an
exception the rest of a pass's events is lost for good; the daily loss is forgotten at a
restart, and its halt is lifted by the next recorded result, not by midnight; an entry
cancelled without a fill stays an open row; a row on a market with another live order is no
phantom; with the shipped bankroll of 100 and 2 % per trade no order reaches the minimum
size; the branch of `startup_checks` that resets the peak is never taken. *Components*:
HALF_OPEN of `retry.py` admits everybody, not "one request" (line 46); the failures that
trip `circuit_breaker.py` need not be consecutive, a success takes back only one; a failed
TWAP slice is never sent again; a batch that timed out counts as failed although the
exchange may have taken it; an unparsable market makes a Gamma page short and ends the
listing, a page that failed all its retries does too, and the truncated list is cached; a
partial draw of the paper engine raises the fill price above the limit; orders of one paper
snapshot share its liquidity; `PARTIAL_FILL` cannot expire; the learner adjusts in every
cycle as long as the count of trades stays a multiple of its interval.

## 4. Proofs

Every theorem holds for any number of orders, callers, handlers, tokens and so on, and for
any settings that satisfy the assumptions of the module it is about; the runs show the same
formulas on small instances. Each has the same shape: an inductive invariant, a lemma per
group of actions that keep it, and the property as a consequence. Hypotheses beyond the
assumptions are named below; there are two.

### The executor

| Theorem | States | Invariant |
|---|---|---|
| `TypeCorrect`, `OcoSafe` | `[]TypeOK`, `[]OcoSound` | `IInv` |
| `BracketsCover` | `[]BracketCoversPosition`, if `Live \/ PartialDivisor <= 2` | `SInv` |
| `FinishedStaysFinished` | `FinalIsFinal` | `SInv` |
| `ImplementsBracketPosition` | `PositionSpec`: the step simulation | `SInv` |
| `LegsStayTogether` | `[]LegsTogether` | `LInv` |
| `ReportedFillsAreReal` | `[]FillsAreReal` | `VInv` |
| `LiveOrdersAreKnown` | `[]NoOrphanWithoutCause` | `OInv` |

**`IInv`.** `OcoSound` speaks of one order record at a time, but the helpers that change
a record need more than it says to keep it: `_apply_fill` needs `filled <= size` and
typed fields, arming needs to know that legs come in pairs, a trigger that the leg was
armed. `GoodOrder` adds the record's type to the three parts of `OcoSound`. *Record lemmas*
(`ApplyFillGood`, `ArmGood`, `TriggerLegGood`, `ApplyRowsGood`, ...) show that each helper
turns a good record into a good one, whatever rows, sizes or ids it is given:
the clip in `_apply_fill` is what protects the order from late or contradictory rows. *Step
lemmas* (`CallStep`, `PlacingStep`, ..., `EnvironmentStep`) show that every action puts
only such records into `ord`. `IInv == OrdersGood /\ CallsGood /\ OutsideGood`: `CallsGood`
is the part `TypeOK` lacks: a call that awaits has a root, a chunk inside its count, and,
inside a loop, an element it is visiting; without it `ord[task[t].root]` and
`Tail(task[t].todo)` mean nothing.

**`SInv`** adds what relates the two halves of a record (a fill has its bracket, armed legs have
the size of the fill, kind and status agree) and that a call under way works on an order that
exists. From it every action has one of three shapes (`Changes`): it leaves the
records alone, makes one *permitted move* of one record (`Moves`), or ends the process. The three
theorems are consequences of that shape: a permitted move keeps a finished record (live: while the
shutdown hook does not run, as `FinalIsFinal` says), keeps the bracket over the position, and
is a step or a stutter of `BracketPosition`.

`BracketsCover` needs its hypothesis: with a paper fill ratio below one half (`PartialDivisor` 3)
a second partial fill leaves the status unchanged, and then `executor.py:905-939` resizes no
leg. The shipped ratio is one half (`settings.yaml`, `paper_partial_fill_ratio`).

**`LInv`** is about the list of ids a call goes through while it awaits. Take-profit and
stop-loss are adjacent in the dict, hence in every snapshot (`ListsAdjacent`); they are in step
except in the stretch between the two visits (`LegsInStep`), and during that stretch the loop
is held (`LoopHeld`), so nobody can see one leg armed alone.

**`VInv`.** A reconciliation adds up rows it reads one after the other while the venue trades
on. The sum it holds is bounded by the fills of the chunks it has passed (`Passed`), and a
venue row only ever grows, so the sum never exceeds what is filled by the time it is applied.
That a row is never overwritten needs that a chunk is sent once: ids are fresh (`Unsent`) and
a placing call sends its chunks in turn (`InTurn`). `VenueFilled` is a recursive function; its
value is reasoned about chunk by chunk with `CountingUp`.

**`OInv`** says of every entry that nothing interfered with (not in `mishap`) which of its chunks
the venue may still work on and who knows them. While it is placed, the call holds an id for
every chunk that was answered (`PlacingWell`); afterwards the order holds the ids of all that
are live (`PlacedWell`); a cancelled entry has only chunks that are over or that a cancelling
call still has before it (`CallWell`, `Ends`). A filled entry has no live chunk: the chunks
are equal parts of its size (`RowsFit`), the fills add up to it, and a live one is not full.
What puts an entry into `mishap` is what breaks one of these conjuncts: an answer that never
came, a chunk the venue ended by itself, a cancel that met a placement under way.

### The trading cycle

`CycleTypeOK`, `CycleBooksAgree`, `CycleFeesOncePerSide`, `CycleExposureCapped`,
`CycleDailyLossHalts` (if `DailyLimit > 0`) and `CycleImplementsLedger` (the refinement of
`TradeLedger`) share `CycleInv`. The executor, the table and the events between
them are three views of one order, written at different moments. `Books` says which of
the three may be ahead at each stage and what a failure or restart left behind
(`history.lost`); `Fees` which charge has been made and which may still be, which does not
follow from the amounts, because a fee can round to nothing and the code's test for an
earlier one cannot see it; `Queue` that the events of a pass are of different orders in the
executor's order, and gone once it is over; `Placing` that the list of positions the caps are
computed from is the table's, although it was read before; `Fits` that the order about to be
recorded fits under the limit next to what is open; `Today` that the loss the drawdown
controller holds is that of the day, and that placing started above the limit.

`CycleDailyLossHalts` needs a positive limit: `risk/drawdown.py:61` compares with `-abs(limit)`
before it looks at the date, so with 0 a profit left from yesterday would let trading start on a
day without one (the unused `DailyLossTracker` of that file refuses 0, line 153). `CycleAssumption` says of the drawdown percentages what the shipped
ones satisfy: reduction below stop, stop at most emergency.

**`CycleEmergencyNeedsDisturbance`** adds `Calm` and `Sized` to `CycleInv`. The bankroll alone is
not enough for the induction, because it falls when money is committed and again when a trade is
lost. `Calm` is about `Floor`: what the bankroll would be if every open trade were lost with
both its fees. A fill, an exit or a charge never lowers it (`FloorHolds`), as `Sized` bounds what
was filled and charged; only recording a trade does, by its size and fees
(`FloorSinks`). The bankroll computed from the table is above it by the fees of what is open, at
most a share of the portfolio limit (`FloorIs`). So it suffices that one cycle cannot bring the
floor down to the threshold: sizing starts above the stop, the multiplier shrinks linearly
from the reduction to the stop (`MultiplierBrakes`), and each of the `TopN` orders takes at most the
multiplier's share of the position limit; the worst start is one of the two ends
(`MarginHolds`). That is what `EmergencyMargin` asks: in hundredths of a percent,
100 * reduction + `TopN` orders with fees + fees of the portfolio, and 100 * stop + fees of the
portfolio, below 100 * emergency. The shipped settings (8, 15 and 20 %, five orders of 2 %, portfolio
20 %, fee 2 %) give 800 + 1040 + 80 = 1920 and 1500 + 80 = 1580, below 2000; with six orders
or a fee of 4 % the condition fails. It also asks that a position loses no more than was paid
(prices are between 0 and 1) and that the emergency threshold is at most 100 %.

The capital at risk is a sum over a set (`Capital`, `Total`). `SumTheorems` has what is needed of it: a
total exists and is unique, adding a member adds its weight, and equal weights give
equal totals.

### The components

| Theorem | Invariant, and why it is needed |
|---|---|
| `RetryShedsLoad` | `RetryInv`: the breaker's count and last failure are those of the outage, it is closed exactly below the threshold, HALF_OPEN only once the timeout has passed since the last failure. An attempt is admitted when reading `state` does not say OPEN, and that reading is the only step that leaves OPEN without a success or a reset. |
| `CallProbesBeforeClose` | `CallInv`: in HALF_OPEN the successes counted are covered by reports since OPEN was left, and are below the threshold. It survives calls admitted in one state that report in another, because entering HALF_OPEN restarts the count. |
| `LimiterWithinTwiceTheRate` | `LimiterInv` is a potential: grants and tokens are paid for by the burst, the time up to the last refill, and once more the time up to now (nobody asleep) or up to that refill (one asleep): `acquire` gives the sleeper the time it waited as a token, and the next refill credits it again; sleeps do not overlap, so it happens once. |
| `PidLockExclusive` | `PidInv`: until a race, at most one process holds the lock or is releasing it, and a holder has the file open that the path names; so a newcomer meets the holder's inode. |
| `StopTrailsTheBest` | `TrailInv`: the mark is the best price, the stop is computed from it, and the stop has fired exactly if the last price shown crosses it. The code moves the stop only when that tightens it; `StopMonotone` shows that a better price never asks for a looser stop. |
| `AlertsFireAsRegistered` | `AlertInv`: an alert's own memory (`last`) is the time of its last firing since it was registered, and a one-shot alert that fired is no longer active. |
| `JobsStaySpaced` | `JobInv`: memory and file hold the time of the last finish, except for a job whose write failed since. |
| `LearningSurvives` | `LearnInv`: the edge in use is the one in the file, if there is one; a fit that was not lost is in memory and in the file with the count it was made at. An adjusted edge is within the limits that loading checks (`AdjustedInRange`), so a restart takes it. |
| `LoadBalanced` | `WalletInv` is a potential: the traders that use a wallet pay for what it may be ahead of another; weighted wallets are compared by cross-multiplication; under round robin the wallets up to the turn have been picked once more than the others (`TurnPasses`). |
| `PaperFillsSound` | `PaperInv` is the property with the types; the work is the walk of a book: `WalkSizeIs` goes level by level from the best price (`CountingUp`), `WalkCostIs` adds the levels in any order (`SetBySet`). |
| `BookWalkIsBest` | `SlippageInv`: the estimate is what the book gives for the order asked about. `Greedy` says what the walk takes: all it meets until the size is filled, so nothing from a level that ranks after one it leaves some of (`WalkIsGreedy`, by `SetBySet` over the levels walked). With `q` the rank of the last level it takes from, any other taking costs at least `q` for each unit it takes beyond the walk's (`GreedyIsBest`), hence no less for the same size (`WalkIsBest`; `RankedCost` turns the sign for a SELL). For the check, `CheaperUnits` shows that a smaller order has no worse an average price, and `SmallerOrderPasses` that it passes where the larger one did. |
| `SlicesMakeUpTheOrder` | `TwapTypeOK` itself is inductive: the last slice is what the draws leave of the order (`TwapInitially`, with the sum split by `SlicesTally`), and no hand-out or report touches a size. |
| `SubscriptionsSurviveReconnects` | `WsInv`: while the resubscription is under way, every subscribed token is served, has failed, or is still to be sent. |
| `ListingsStayRecent` | `GammaInv`: the pages a reader has collected were at most one lifetime old when it began, and a cached list expires one lifetime after the assembly of such pages ended (`FreshSince`). |
| `TrailExplainsState` | `LifecycleInv`: the trail explains the current state, and the saved trail the saved state, so that a restore finds what it needs. |
| `BusDelivers` | `BusInv`: an accepted event waits, was dropped, or is done, under way or cut off for each handler it was taken for (`Accounted`); what was taken is older than the queue (`QueueOrder`); without an overlap the one dispatcher at work has an event newer than any its handlers did (`OneAtATime`). |
| `BatchesSendOnce` | `BatchInv`: an order is pending, in one batch, cleared or reported, never two of them (`Apart`); the exchange took nothing that was not asked for (`Sent`); queue and batches are in the order of addition (`Lined`), so a new order is in none; the totals count the reported (`Counted`). |
| `UnitsTyped` | `UnitsInv`: the invariants of this table together, for the specification of `MCUnits`, with what they leave out of the declared types: `Bounded` (grants), `Refused` (the bus queue is within `max_queue_size`), `BatchBounds` (a batch is within `max_batch_size`, at most all of it was asked for, and ids are of its orders, so that successes never exceed it), `WsTypeOK` and `GammaTypeOK`. `Motions` reads a step of `MCUnits` as a step of the component that moves and, for each other, a tick of the clock or a stutter; so every component's own step lemma applies. |

### Assumed, checked, and out of reach

TLC evaluates every assumption on constants on the instances. They say what the constants
are (`ClockAssumption` is only `Horizon \in Nat`) or what the code's settings validate, and
two are abstractions of the model: sizes split exactly into chunks and partial fills
(`ExecutorAssumption`), and the order of the drawdown percentages (`CycleAssumption`).

**Only model-checked.** The four liveness properties, named next; every invariant and action
property of a passing run is stated by a theorem.

**Out of the prover's reach.** The liveness properties `CallsReturn`, `FillsGetProtected`,
`StreamServesItsSubscriptions` and `TwapLoopEnds` (fairness, `ENABLED`). Induction schemes
that take an operator cannot be used, so induction is stated over a set (`CountingUp` for the
numbers with a property, `SetBySet` for the subsets with one): enough for recursive functions
over numbers or over subsets of a finite set and for totals over sets, but not for folds over
sequences, nor for `SortSeq`. Where a definition sorts, it therefore says what sorting gives:
the walk of `Slippage` goes over the set of levels and takes off the one that sorting puts last
(`LastOf`, with the order of presentation among equal prices, as Python's stable sort has it),
and `HighestFirst` of `WsClient` is the sequence of the levels in which prices descend;
`LevelsAreSorted` proves that there is one.

## 5. Plan

1. *Done*: `Executor`, `BracketPosition`; `TradingCycle`, `TradeLedger`; the components of `MCUnits`.
2. *Done*: every safety and action property of the executor as a theorem, with its refinement.
3. *Done*: the same for the cycle.
4. *Done*: every safety and action property of the components, the slippage walk and the
   types of all of them included.
5. Room in the model: a signal queue once something uses it; the resolver once something
   calls it.

## 6. Not modelled

Models, features, strategies, edge detection, regime and anomaly detection, the signal weights
of the learner and the isotonic regression of the calibrator: floating-point estimation whose
result reaches the cycle as an arbitrary opportunity. The arbitrage scan: one formula per
book, and its result is only logged. The order-book and news clients, history files, signing,
RPC, metrics, logging, health and memory sampling, configuration: I/O and validation
without a protocol. The signal queue of `backpressure.py` and the market resolver: nothing
calls them. Statistics, snapshots, signals and migrations of the tracker; the report-only
checks of the reconciler; delivery of alert messages. Reporting, demo data, dashboard,
backtest and scripts: offline (the tax report pushes and pops one lot per closed row, so its
queue order cannot matter). The reasons are also with each component in `PROJECT.json`.
