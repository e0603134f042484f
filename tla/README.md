# Grinder: TLA+ models, checks and proofs

Grinder is a grid trading bot for Binance USD-M futures. It keeps a ladder of
limit orders on both sides of a reference price; a filled *entry* opens a *lot*
that a reduce-only *exit* order one grid step away closes again. This
directory models the parts of it in which orders of events matter, checks them
with TLC on small instances and proves the main invariants with TLAPS for all
instances.

Contents: 1 inventory, 2 modules and their code, 3 runs, 4 bounds, 5 fairness,
6 proofs, 7 where code and documents disagree, 8 what is not modelled, 9 plan.

Check a run with `tlc -config <cfg> <MC module>` and a proof with
`tlapm <module>`. `PROJECT.json` names the runs, the lines of source behind
every definition, and for every property a plausible defect of the code that
breaks it.

## 1. Inventory

Paths are relative to `src/grinder/` of the repository, scripts to `scripts/`.

| Part | State it keeps | Hard behaviour | Properties that make it correct |
|---|---|---|---|
| Grid machine, `grid_v2/state.py` | branch mode, window, open and closed lots, exits, stop flag | long sequences of fills, net-off, rolls | snapshot valid after any sequence; a lot opens and closes once, under one OPEN exit; a branch is one-sided |
| Bridge and registry, `grid_v2/adapter.py`, `bridge.py` | CID -> entry or lot, active and stale | fills of orders already replaced, restart | every order of ours can be attributed, a fill moves the machine once |
| Live path, `live/engine.py` | account snapshot, pending placements, seed latch, user fills seen | polling, stream, two-request sync and dispatch overlap | no fill invented of an order that rests or was cancelled here, none lost, lots = position at rest |
| Upkeep of a tick, `live/engine.py` | pending requests, latch, flat age | resize, recenter, repair and drift reconstruction act on stale answers | one entry per rung, no position behind a flat machine |
| Sync reconciler, `grid_v2/sync_reconciler.py` | cooldowns, recent requests | cached answers, refused and lost requests | no slot doubled, the grid is restored |
| Reduce-only exits, `live/engine.py`, `risk/symbol_unload.py` | latch per side, unload steps | two repairs of one sync, rejections, forced reduction | protection returns, a forced reduction comes down to its smallest step |
| Futures port, `execution/binance_futures_port.py`, `net/measured_sync.py` | symbol per CID, orders of this run | lost, repeated and late requests, ids of an earlier life | a cancel names its order's symbol, "unknown" is true |
| Market feed, `live/feed.py`, `connectors/live_connector.py`, `binance_ws.py` | connection states, socket, last time stamp | redials, a stop at any await | updates in order, none after the stop, sockets shut |
| Rolling ladder, `live/grid_planner.py`, `live/cycle_layer.py` | orders in flight, recent cancels, take-profits | fills inferred from absence | levels move for fills only, one order per level |
| Account ledgers, `account/` | orders and position of the stream, trust | lost and tied events, cached REST answers | resting orders stay tracked, ledgers settle |
| User-data stream, `connectors/binance_user_data_ws.py` | socket, listen key, keepalive task | reconnects, two tasks, shutdown | nothing outlives the loop |
| Order path, `execution/idempotent_port.py`, `connectors/idempotency.py`, `circuit_breaker.py` | keys, breaker | threads, expiring claims, ambiguous timeouts | one effect per key, the breaker recovers |
| Submission, `live/engine.py`, `execution/binance_futures_port.py` | CIDs registered, awaited, budget latch | lost answers and refused retries in a pool of threads | a resting order is not forgotten |
| Fill gate, `execution/fill_prob_gate.py`, `ml/threshold_resolver.py`, scripts | model, report, breaker window | three programs and their files | the threshold belongs to the model in memory |
| Leader election, `ha/` | role, lease in Redis | GET then SET XX, stalls, stop | two leaders only briefly, one of them without the lock |
| Reconcile loop, `reconcile/`, `run_live_reconcile.py` | budgets, cooldown, action lock | crash between call and record, torn files | budgets hold, mismatches go |
| Fill ingestion, `execution/fill_*.py`, `risk/consecutive_loss_wiring.py` | cursor, streak, files | crash between writes | each round trip counted once |
| Lifecycle, `live/fsm_orchestrator.py`, `fsm_driver.py` | state, timers, override | overrides, hysteresis, failing syncs | quiet before risk, trading resumes |
| Fleet, `rotation/`, `execution_plane/`, `orchestration/`, `runtime/` | registry, engine threads, day mode | failures, deaths and shutdown between actions | at most top_k engines, clean shutdown |
| Trading script, `run_trading.py`, `exchange_state.py` | phase, stop reason, exit code | fills between two reads, signals, crashes, HA | starts on a known state, exit code 0 means clean |
| Paper engine, `paper/` | orders, ledger, kill switch | gates and delayed fills | books balance |
| Model registry, `ml/`, `promote_ml_model.py` | pointers, history | two promoters, half-written files | history tells the pointer, only vetted models decide |
| Symbol selector, `selection/` | active set, holds, symbols wound down | cycles between dispatch and fills, forced exits | eligibility neither churns nor orphans inventory |
| Tuning refresher, `tuning/`, `runtime/live_engine_bridge.py` | published snapshot, bridge settings, result cache | refresher, main loop and a starting engine share no lock | the snapshot is whole; an engine mixes two tunings at most |
| Features, policies, sizing, observability, ops | numbers, reports | none that interleaves | - |

**How they interact.** `LiveEngineV0` runs on one event loop: market snapshots
(`process_snapshot`, a tick) and events of the user-data stream
(`process_user_data_event`) never overlap, but their HTTP requests are where the
exchange moves. The engine calls the bridge synchronously, the bridge applies
one event to the machine and turns the intents it gets back into actions, and
these go through gates, the fill gate, the idempotent port and the futures port.
What happened is learnt from two sources that overlap and lag, the stream and a
throttled REST sync of two requests; an absent order may have filled, been
cancelled or never have arrived, and a restart has only the exchange to go by.
The lifecycle FSM and the risk guards stand before dispatch. Outside the loop
run the election's renewal thread, thread pools for cancels and seeds, one
thread per symbol under the autonomous host, and separate programs (reconcile
loop, training, evaluation, promotion) that share only files and the exchange.

`PROJECT.json` lists every component with its status and the hazards with the
line where each bites.

## 2. Modules and their code

```
LotLedger <- GridV2State <- GridV2Bridge <- GridV2Live          GridV2StateProofs, GridV2LiveProofs
GridWatchdog   UserStream                                       TradingProofs
RollingLadder  FillIngestion                                    (with GridV2Live: MCTrading)
FuturesPort    (with GridV2Live: MCScript)                      ControlProofs
MarketFeed     (with Fleet: MCExecution)                        ExecutionProofs
AccountTruth   SyncReconciler                                   MCAccount, AccountProofs
LeaderElection Reconcile                                        MCCoordination, CoordinationProofs
TradingRun     (with GridV2Live: MCScript)                      MCTradingRun, CoordinationProofs
SymbolSelector (with GridV2Live: MCScript)                      ExecutionProofs
TuningRefresher (with GridV2Live: MCScript)                     ControlProofs
SafetyControl  ReduceOnlyExits                                  MCControl, ControlProofs
DayRisk <- Fleet,  CircuitBreaker, IdempotencyStore <- IdempotentPort   MCExecution, ExecutionProofs
PaperTrading   ModelPromotion   FillGate   OrderSubmission      MCResearch, ResearchProofs
```

`A <- B`: B is built on A. The MC modules put components side by side: a
variable `part` is chosen once and a behaviour moves one of them, so a run pays
the sum of their states and not the product. That loses nothing between
components that share no state; where they do, the interaction is inside one
module (the engine, the bridge and the exchange in GridV2Live; the ledgers and
their readers in AccountTruth; loop, plane and host in Fleet; breaker, store and
port in IdempotentPort).

### GridV2State and LotLedger

One variable per field of `GridV2Snapshot`, plus `intents`, the `ActionIntent`s
of the last `TransitionResult`. One action per event, the whole handler each.

| Code (`state.py`) | Model |
|---|---|
| `_entry_fill_reject_reason` | `EntryAdmissible`, `SeenEntry`, `BranchCompatible` |
| `_execute_entry` | `ExecuteEntry`, `WindowAfterEntry` |
| `_execute_netoff` | `ExecuteNetoff`, `ClosestLots` |
| `_update_window_after_fill` | `Roll`, `HasRoom`, `BurstSuppressed` |
| `_apply_exit_filled` | `ExecuteExit` = `FlatReseed`, `Resymmetrize` or `RestoreEntry` |
| `_validate_exit_pair` and the lookups before it | `ExitAcceptable`, `RejectExit` |
| `_apply_recenter`, `_apply_emergency_stop`, `_apply_operator_cleanup` | `RecenterRequested`, `EmergencyStopTriggered`, `OperatorCleanup` |

Prices are integer ticks and the step a fraction, rounded in the direction the
code rounds. The tuples of window prices are sorted and free of duplicates in
every snapshot the code builds, so a side is a set. A lot and its exit carry the
id of the order they come from, as their names in the code do. Several lots
equally close to a net-off fill: the code takes the one opened first, the model
any. `LotLedger` is the abstract specification: lots are opened once, protected
while open, closed once, never held on both sides. `KeepsLedger` says that
GridV2State implements it.

### GridV2Bridge and GridV2Live

The registry is four functions, active and stale entries and exits. Each
operator is a method, written as an action on registry and machine together:
`AcceptEntryFill`, `RejectEntryFill`, `AcceptExitFill`, `RejectExitFill`,
`SuppressedExit` are the cases of `on_fill`; `Resolve` is
`resolve_actions_partial`; `Requests` is `_to_execution_actions`; `Startup`,
`StartupFlat`, `StartupFailed` are `startup`, `startup_fresh` followed by
`recenter_flat`, and the fail-closed result (`Consistent`). A position without
exits becomes one F2 lot with a protective exit. Quantities are one unit per
order; a CID is its kind and number, and never comes back, since a CID of the
code also carries the second it was made in.

`phase` says where the engine's loop is. A tick is `Boot`, `BeginTick`,
`HandleFill` for each fill found, `EndFills`, then `SkipSync` or `ReadPositions`
and `ReadOrders`, one `DispatchPlace` or `DispatchCancel` per action, and
`EndTick`. `UserDataEvent` runs between ticks and dispatches too. HTTP calls are
separate steps.

| Code (`engine.py`) | Model |
|---|---|
| `_grid_v2_try_startup` 1499 | `Boot` = `BootFlat`, `BootRestored`, `BootFailed` |
| `_grid_v2_process_fills` 2182 | `Disappeared`, `HandleFill`, `AcceptFill`, `RefuseFill` |
| `process_user_data_event` 2862 | `UserFill`, `UserCancel`, `UserIgnored`, `StopTracking` |
| `_tick_account_sync` 4890 | `ReadPositions`, `ReadOrders`, `RefreshLatch`, `Expired` |
| `_grid_v2_sync_reconstruct_on_position_drift` 1787 | `Drifted` and the second branch of `ReadOrders` |
| dispatch of `process_snapshot`, `_dispatch_cancel_wave` | `Wave`, `DispatchPlace`, `DispatchCancel` |
| `_grid_v2_register_pending_place`, `_grid_v2_clean_failed_place` | `RegisterPendingPlace`, `CleanFailedPlace` |

The exchange is external: limit orders of a side fill best price first,
reduce-only orders must reduce, an order may be cancelled from outside, a
request is executed, rejected, or times out with or without effect, and terminal
events come in order, once or again, at most `MaxLag` ticks late.
Abstractions: reconciler, upkeep, gates and size reseed are off (they have
modules of their own, and none of them books a fill: `on_fill` has three callers,
2244, 2283 and 2902); the event ledger is untrusted, so syncs read REST;
`_grid_v2_pending_cancels` is left out, since cancels that follow a fill never
register there (3637); during `boot` and `fills` the engine does not touch the
exchange, so a step of the exchange there commutes with them and is not taken.
`bookings` and `refused` are history; a crash resets them.

### GridWatchdog

The upkeep of a ladder whose own requests after a fill are lost, except exits:
`Watch` is a tick (`_grid_v2_integrity_repair`, or recentring after the
latch), `Resize` `_grid_v2_maybe_reseed_size`, `Sync` the account sync with what it
clears, expires and, on a drift, rebuilds (`Rebuild`); `Dispatch` sends what a tick
decided, `Hear` is a stream event. Cancels grow stale by syncs, and by the 15 s of
`_grid_v2_resolve_stale_pending_cancels`, which `Overdue` lets pass at any time. What the tick decided (`work`) is dispatched
after the sync of the same tick, as in the code. Prices are grid steps. Left out:
geometry repair, distance guard, the budget of five placements (one order a side
fits it) and `planned_slots_this_tick`.

### RollingLadder and FillIngestion

RollingLadder is the planner of `grid_planner.py` with `cycle_layer.py` for one
symbol: plans, orders in flight with their age, cancels remembered, fills found
by absence, take-profits with retries and renewals. A tick up to its dispatch is one
action, since nothing in it awaits; then each action is dispatched by a step of its
own (`PlaceTaken`, `PlaceRefused`, `CancelDropped`, `CancelSent`) and the exchange
moves in between. Loops over orders are recursive functions (`InOrder`, `Closing`,
`Renewing`). Full quantity per order, no partial fill, an account snapshot is atomic.

FillIngestion is the fill part of `run_live_reconcile.py`: poll after a cursor, count,
pair into round trips, guard, save. A trade is its symbol and number, the tape tells
the rest; `Process` is one round of the loop over the trades of a poll, in the order of
their numbers, and the process dies between any two steps. Every trade has one unit.

### AccountTruth and SyncReconciler

AccountTruth has both ledgers, their trust (booted, ok, revoked), the sync that
corrects them and the three readers that choose a source (fill detection, release
of placements in flight, cleaning of the registry). Events are lost or tie; an
answer may be the one of the sync before. SyncReconciler is
`reconcile_grid_state` over a machine reduced to its mode, reference and lots: its diff,
gaps, drains, cooldowns and limits, with answers repeated from a cache. A placement
that fails (`Drain`) fails with a definite answer, and its id is cleaned; or without
one, and then it is registered and on its way, whether it rests or was lost. A lost one
ends as in the code: once it is given up it counts as filled (`Vanished`,
`InferredFill`), a lot without an exit.

### UserStream

One loop, two tasks: the reader (`run_user_data_loop`, `iter_events`, reconnect)
and the keeper (keepalive, renewed keys), at the grain of their awaits. They share
one connector: `conn` is its socket and key. `close()` has its two awaits, `Closes`,
`KeeperParts` and `HangsUp`, and `Canceled` is the one cancel of the task by
`trading_loop` or the bridge: it falls at any await, and one that falls while a
keepalive task is awaited is swallowed, as `contextlib.suppress` does. Bounded
messages, keys and faults.

### FuturesPort

The client every order and account snapshot passes through, one call at a time as its
one thread makes them: what a call checks and sends (`PlaceLimit`, `PlaceMarket`,
`CancelByClientId`, `CancelById`, `CancelSymbol`, `ReplaceOrder`, `FetchSnapshot`), what
the venue does with the request, and how it ends: `Answered`, `Rejected`, or `Failed`,
which stands for timeouts and broken connections, executed or not or later (`LandLate`),
and repeated up to `MaxAttempts`. `Resolved` is the guess of a symbol from an id that is
not registered. `NewOrder` keeps what the id carries beside the truth. Ids are unique,
fills whole; leverage, account info, notional limit and time offset are left out.

### MarketFeed

`LiveFeedRunner.run` and `.stop` over one connector and one socket, an await a step.
`at` is where `run` awaits, `stopper` where `stop` does; the connection drops between
any two. `orphans` counts sockets nobody refers to. LiveFeedRunner is the only host
modelled; a close that asyncio cancels counts as done.

### LeaderElection and Reconcile

A command to Redis is three moments: sent, served, answered. Time is explicit
in ticks; nothing relates the timeout to the lease. `stop()` is a thread of its own:
`Stop`, `Joined` when the renewal thread ends or `Join` ticks are over, the Lua script
(`ServeRelease`), its failures (`ReleaseFails`: ConnectionError is caught, TimeoutError
leaves stop() with the role as it was), `Stopped`; a renewal thread that outlived the
join goes on. `age` and `robbed` are history. Reconcile is one run of the reconcile loop after the other: snapshot,
detection, one gate after the other, the port call, the records, the file. Its
role may change at any time, which is all it knows of the election.

### TradingRun

`run_trading.py` from `main()` to `sys.exit()`. `at` is where `main()` is: the gates
(`PassGate`, `FailGate`), the launch guard over the symbols (`BeginGuard`,
`GuardChecks`, two snapshots, `cmd_cleanup` request by request), the contract, the
loop with the market stream and the user-data task, the `finally` block
(`BeginCleanup`, the same cleanup, `CountFailures` or `CleanupRaises`, `Leave`). Each
request of the operator tool is a step, and orders fill, signals come, other
instances trade and the process dies between any two; `StartAgain` starts the next
run on what is left. What the engine does in the loop is free (`EngineActs`: it may
leave any orders), which is all the promises of the script may rely on. Left out:
requests still in the air when the process dies.

### SymbolSelector

The selector that `run_trading.py` builds and the engine ticks after each snapshot.
`Observe` is what the features of a symbol amount to: refused by a gate or worth a
score. `Cycle` is `_apply_transitions` over `select_topk_v1`: thresholds, holds, the
budget (removals first, additions from what is left), graceful exits for symbols with
inventory, release of those found flat. Only the grid symbol has a branch that can be
non-flat.

### TuningRefresher

The autonomous host's way to give engines their settings: `TuningInit` is the
bootstrap, `Discover`, `Retune` (with `Backfilled`, `Intersection` and `Scrubbed` of the
merge), `CachePut`, `Replace` and then `TurnTo`, `WriteSetting` per setting, `TurnAway`
are a cycle of the refresher's thread. `Select` and `Activate` are the main loop,
`ReadSetting` and `Start` the thread of an engine. Every size, NATR, feature record and
setting is the number of the tuning it was made in. What solver and feature providers
find is free. `SnapshotIsWhole` starts with the first refresh, because the bootstrap may
publish less than that: the NATR of more symbols, features that are missing, the
candidates of `--symbols` untuned. `Replace` is one step: readers of
AutonomousTuningState in other threads take no lock (section 7), and the main loop asks
it only for the features of a symbol.

### SafetyControl and ReduceOnlyExits

SafetyControl is the lifecycle FSM, the driver that deduces its inputs from a
snapshot (spread, toxicity, feed gap, sync failures), kill switch, override and the
emergency exit, and the ticks of the engine around them. ReduceOnlyExits has two lots with
their exits, the repairs of a sync (`_reduce_only_repair_on_sync`,
`_exit_topology_repair_on_sync`), the latch, and the forced reduction, whose step is
`StepPct` of what is held, rounded down to lots, and at least `MinStep`, 0 by default.

### Fleet and DayRisk

One cycle of AutonomousLoop: `Facts`, `Rank` or `RankingFails`, `Rotate`, a step
per corrective action, `EndCycle`; the refresher changes the tuning cache and
engines live, trade and die between any two of them; then the shutdown, one
engine at a time, whose threads may not end. A graceful exit that FAILED is left out:
a live handle always has its engine, and `force_graceful_exit` cannot raise. DayRisk is the pure part: day modes
and admission.

### CircuitBreaker, IdempotencyStore, IdempotentPort

Breaker and store are records with one operator per method, atomic under the
lock as in the code. The clock is a timer that saturates, so time is not
bounded. A thread is at one point between two locks: `BeforeCall`, `Lookup`,
`Claim`, `Recheck`, `Execute`, `Succeed` or `Fail`, `ReportSuccess` or
`ReportFailure`. `effects`, `excused`, `probing` and `wasted` are history. When
an entry expires with no call holding it, the code treats the key as new, and so
does the count of effects; a timeout that was applied excuses its key, because
only the exchange could tell.

### OrderSubmission, FillGate, ModelPromotion, PaperTrading

OrderSubmission: the seed batch and single placements through limits, breaker and
retries, and what `_apply_submit_outcome` then forgets. FillGate: training,
evaluation and a booting engine with the files between them, the sweep that
chooses the threshold, and the gate's breaker over a window. ModelPromotion: two
promoters over one registry file, torn writes, the engine's conditions for
using a model. PaperTrading: one snapshot of the paper engine (gates, kill
switch, cancel and place, fills) with its ledger of cash, position and fees.

## 3. Runs

| Run | Checks | Shows |
|---|---|---|
| grid_state | SnapshotIsValid, BranchHoldsInventory, OneSidedUnlessNetoff, KeepsLedger | every order of fills, recenters, stops and cleanups over three ids, net-off on or off, implements the lot ledger and never makes `_commit` refuse a snapshot |
| live | EachFillBookedOnce, LotsProtected, BooksBalance, StartsOnKnownState, ExitZeroIsClean, RotationIsOrderly, TuningsStayWhole, PortIsTruthful | with the stream, two levels a side and a redelivery: polling and stream book a fill once; at rest the lots add up to the position and each has its exit. The script around the engine: what it starts on and what exit code 0 means, over two runs. The selector: every ranking, hold and forced exit. The tuning refresher: every partly failed tuning, and an engine that starts at any step. The futures port: requests lost, repeated and late, over two lives with different whitelists |
| grid_live_settles | FillsSettle, DetectionResumes | fair loop, a lost request and an order cancelled from outside: every fill is booked or refused in the end, and the seed latch never blinds detection for ever |
| trading | NoFillInvented, LadderIsSound, OneEntryPerRung, MachineKnowsPosition, StreakSurvivesRestarts, NothingLeftRunning | GridV2Live with one mishap at any step: a crash, a request that is rejected, lost or whose answer is, or an order cancelled from outside; the rolling ladder; the watchdog; fill ingestion; the user-data stream |
| coordination | OverlapIsShort, WithinDailyBudget, LeaderReturns, UnexpectedGoes | two instances race for a lock that can run out before a slow renewal is served; the reconcile loop with faults, restarts and midnights |
| control | QuietBeforeRisk, ResumesWhenCalm, ProtectionReturns, ForceReduceUnloads | the lifecycle with every outside signal; two lots and their exits through rejections and a forced reduction |
| execution | FleetIsOrderly, AtMostOneEffect, RecoversUnlessWasted, FeedIsOrderly | the fleet through failures, deaths and a shutdown; three threads and one key through trips, probes and expiries; the market feed with a stop at any await |
| account | RestingIsTracked, OneOrderPerSlot, AccountSettles, GridConverges | the ledgers and their readers; the sync reconciler with cached answers, refused and lost requests |
| research | PaperBooksBalance, ModelsAreVetted, ThresholdFitsModel, ForgottenOnlyUnsent | the paper engine; two promoters; training, evaluation and use of a threshold; a pool that submits with retries |
| grid_live_restart, cleanup_skipped, exit_latch | one property each, violated | section 7 |

Every property of a passing run has a mutant in `PROJECT.json`: an operator kept
beside the one it replaces that has a plausible defect of that code. With it, the
property fails.

Conditions inside properties, and why they are there:

- `OneEntryPerRung` leaves out orders in `stuck`: those whose cancel failed and
  those a drift reconstruction in mid-tick has forgotten. Both do double a rung
  (section 7).
- `NoFillInvented` allows a fill booked for an order that somebody else cancelled and
  for a placement that timed out and never arrived: the code takes both absences for
  fills (section 7). `NoPhantomFill`, beside it, is the claim of docs/27 and fails there.
- `OverlapIsShort` allows two leaders when one of them has lost its lock (run out,
  overwritten by a SET XX, given up by its stop()) and is no older than a renewal with
  its timeouts. `OnlyOneLeads`, beside it, is what leader.py:6 says; it fails with the
  default timing (section 7).
- `ForceReduceUnloads` ends where a step rounds to nothing, as every step does near the end
  with the default minimum of 0. `ForceReduceFlattens`, beside it, asks for a flat position.
- `NothingLeftRunning` leaves out the socket and the key of a `close()` that a cancel cut
  short (section 7).
- `GridRestored` leaves out a book on which a cancel failed: it is not sent again while
  its order rests.
- `AtMostOneEffect` leaves out keys whose entry expired under a call or whose call
  timed out although it was applied: only the exchange could tell.
- `RecoversUnlessWasted` leaves out breakers with a wasted probe (section 7).
- `WithinDailyBudget` counts calls the process could not record apart.
- `LotsProtected` speaks of accepted placements; rejected exits are the subject
  of ProtectionReturns. `BooksBalance` says what holds at rest, and for a process
  that lives on: after a crash it fails until the stream catches up.
- `StreakSurvivesRestarts` leaves out a state file dropped for a stale checksum.
- `LadderIsSound` stops at `astray`: a pause longer than the code's own time-outs, an
  order the exchange dropped by itself, or a sync between planning placements and
  sending them; in each the ladder can take an absence for a fill or plan a level twice.
- `PortIsTruthful` leaves out `strayed` orders: requests executed after the port had
  given them up, or once more after their order was gone.
- `FeedIsOrderly` leaves out sockets lost in the two ways of section 7 (`slips`).

## 4. Bounds

Each run is meant to contain every case its properties tell apart, once.

| Run | Bound | Why it is enough |
|---|---|---|
| grid_state | 3 ids, 2 levels a side, 4 in all, prices 97..103 around 100, cooldown 1 with times {0, 1}, quantities {0, 1} | two lots and a replay, or a lot, its net-off and a replay; a side short, full or shifted; one level beyond each window; an exit in and out of the cooldown; ids are symmetric |
| live, engine; trading, engine; grid_live_* | 1 or 2 levels, 2 fills, lag 1, at most one crash, redelivery, failure or outside cancel; stale generations 2, expiry 3 and cooldown 2 for the source's 4, 6 and 3 | an entry with its exit, or two entries; the shortest race of the two sources; one fault at every step; each counter at least two syncs, pending placements expire before the latch as in the code |
| live, script | 2 symbols, 1 order each, positions up to 1, 2 runs, one attempt of the user-data task; three command lines: the runbook's, one without cleanups, one under HA without `--mainnet` | a symbol cleaned and one left; a second run on what the first left behind |
| live, selector | 3 symbols, one of them gridded, 1 place, hold 2, 1 change a cycle, thresholds 1 and 2, one forced exit | a symbol in the target, one between the thresholds and one below; a budget used up by a removal; a wind-down by ranking and one by force |
| live, tuning | 2 symbols, one of them in the bootstrap, 1 new a cycle, 3 tunings, 1 engine | the bootstrap and two refreshes, so that three tunings could mix; a symbol discovered, dropped and found again |
| live, port | 2 ids, one of them of another life, 2 symbols (one its own token), 4 settings, 2 attempts, 2 lives, 1 late request | a symbol registered, guessed from the id and not to be guessed; a request repeated after it took effect |
| execution, feed | 2 attempts to connect and to redial, receive times {0, 1} | the first and the last attempt of each kind; a clock that steps back |
| trading, ladder | 1 level, 5 orders, age 2, one retry, one renewal, one mishap, reference price fixed | an entry of each side, a take-profit with renewal and retry, and one pause, refused write or order dropped by the exchange |
| trading, watchdog | 1 level, 2 lots, 8 ids, 3 mishaps (refused requests, cancels that are 15 s old); stale generations and cooldowns 2 (4 and 6 in the source), answers cached at most once in a row | a refused exit, a lost cancel and a late fill in one behaviour. The finding of section 7 needs two price levels and is found with `WatchMids = {-1, 0}`, 3 lots and 4 mishaps |
| trading, fills | 3 trades, pages of 2, prices {1, 2}, threshold 2, one failing ingestion | a page boundary, a streak at its threshold, a crash between any two writes |
| trading, stream | 2 symbols, 2 restarts and redials, 4 keys, 2 messages, 3 faults | a reconnect of each kind after one that failed |
| coordination | 2 instances, lease 3, renewal, timeout and join 1, one mishap (a failed command, a stop or a crash); 2 orders, 2 calls a day and one of them paid, 2 days, 2 faults | holder and challenger; lease, renewal, timeout and join stand to each other as in the code (10, 3, 5, 5 s): a renewal with three timeouts outlasts the lease, one without them does not; every budget at its limit on both sides of a midnight |
| control | cooldown 2, stale gap, hard age 1, 2 failed syncs, 2 changes of signals, 2 lots | a trigger comes and goes inside and outside a cooldown; one exit gone while another stays; steps of half the position and no minimum: of 2 lots a step is one, of 1 lot it is nothing |
| execution | 2 symbols for 1 place, 3 corrective actions, 5 mismatches; 3 threads, 1 key, 2 failures, 2 probes, 2 successes, TTLs 1 | a symbol replaces another; a probe, a straggler admitted before the trip and a newcomer; every counter below, at and past its limit |
| account | 2 orders, 1 stream event under way, 1 mishap, grace 2; 2 levels, 2 lots, 10 ids, 2 troubles (recenters, entry fills, failing requests), placements given up after 4 syncs as in the code, shifts {1, 5} | an order of either side, one event lost or tied; a recenter next to the window and one beyond it, with a cached answer and a request refused or lost |
| research | 1 market, 3 prices, 3 or 4 snapshots; 2 promoters, 1 artifact and dataset, history 1 (50 in the source), 3 writes; 2 bins, one training, sweep of 1000 (100 in the source); 3 orders, 2 threads, 2 attempts | positions opened, reduced and flipped; interleaved read-modify-write, with an event that the limit cuts off; an older and a newer model; a lost answer followed by each kind of refusal |

Distinct states: grid_state 61,074, live 1,240,497, grid_live_settles
257,715, trading 1,439,675, coordination 130,501, control 92,263, execution
748,955, account 183,398, research 384,592.

## 5. Fairness

| Run | Assumed | Why |
|---|---|---|
| grid_live_settles | weak fairness of `Engine`, strong of `UserDataEvent`, `ReadPositions`, `BeginTick` | the loop runs; it alternates between its sources and starves neither; the sync is throttled by time, which passes; market data keeps coming. Orders need not fill, requests may have any outcome |
| coordination | weak fairness of the clock, of a thread's progress and of the last steps of stop(); of the reconcile loop and its timers; strong of a run whose snapshots all succeed and, per order and symbol, of a call that succeeds | threads run, and an exchange that refuses for ever could not be reconciled by anybody |
| control | weak fairness of ticks, of fills of exits, of their delivery and of the sync's steps, strong of a tick whose sync succeeds | snapshots keep coming and the exchange is not down for ever; an exit that rests fills in the end, without which no reduction ends |
| execution | weak fairness of every thread inside the port, of new calls and of the clock | the engine keeps sending orders; nothing is assumed of which thread or outcome comes |
| account | weak fairness of event delivery and of the reconciler's ticks, strong of a sync whose answer is fresh | a cache expires |

Fairness is stated per part (`part = "..." /\ ...`), so a part that is not chosen
is not forced to move.

## 6. Proofs

Every theorem holds for all values of the constants that satisfy the named
assumptions of the modules (`ConfigAssumption`, `LiveAssumption`,
`BreakerAssumption`, ...: types and non-emptiness, as the code's validators ask)
and what the last column says.

| Module | Theorem | States | Beyond the assumptions |
|---|---|---|---|
| GridV2StateProofs | TypeCorrect | TypeOK | |
| | SnapshotAlwaysValid | SnapshotIsValid: `_commit` never raises | |
| | ImplementsLedger | KeepsLedger: refinement of LotLedger | |
| | ExitsAndBranchesHoldLots | BranchHoldsInventory, no orphan exit | |
| | BranchStaysOneSided | OneSidedUnlessNetoff | net-off off, as the property says |
| | UnwindsLeaveFullWindow | an unwind leaves the full window (action property) | net-off off, reseed on skew |
| GridV2LiveProofs | IdsDrawnOnce | a request, event or booking names an id drawn before, a booked id never comes back | |
| | NoFillIsInvented | NoFillInvented | |
| | PolledFillsBookedOnce | EachFillBookedOnce | no stream |
| | FillsBookedOnce | EachFillBookedOnce | no net-off, short of a drift reconstruction |
| CoordinationProofs | ElectionTypeCorrect, ReconcileTypeCorrect | types | |
| | OverlapBounded | OverlapIsShort, for any timing | |
| | LeadersHold | a leader is no older than a renewal, and holds the key with the rest of its lease unless it was overwritten, ran out or was given up by its stop() | |
| | DailyBudgetHolds | WithinDailyBudget | |
| | CooldownHolds | calls that succeed are a cooldown apart | |
| | BudgetPersists | the file says what was saved today | |
| | RunsTellTheTruth, StartIsKnown | StartsOnKnownState, ExitZeroIsClean | |
| ExecutionProofs | TypeCorrect | types | |
| | OneEffectPerKey, CacheIsTruthful | AtMostOneEffect; a cached result stands for an effect | |
| | BreakerBudgets | breaker counts within its budgets | |
| | RotationStaysOrderly | RotationIsOrderly | |
| | TopKHolds, ShutdownHolds, FleetStaysOrderly | FleetIsOrderly and its two halves | MaxChangesPerCycle <= 1, the controller's default (the shutdown half without it) |
| | FeedStaysOrderly | FeedIsOrderly, an action property | |
| ControlProofs | ControlTypeCorrect | types | |
| | SettingsStayWhole | TuningsStayWhole | |
| | QuietHolds | QuietBeforeRisk | |
| | PortTellsTheTruth | PortIsTruthful | |
| AccountProofs | RestingStaysTracked | RestingIsTracked | GraceGens > 1 (4 in the code) |
| | SlotsNeverDoubled | OneOrderPerSlot | PlaceGens > 1 (4 in the code) |
| ResearchProofs | SubmissionTypeCorrect, PromotionTypeCorrect | types | |
| | ForgottenWereLost | ForgottenOnlyUnsent | |
| | HistoryAudits, InfluenceVetted, ModelsVetted | ModelsAreVetted and its two halves | |
| | ThresholdHolds | ThresholdFitsModel | |
| | BreakerCloses | an open gate breaker lets an order pass within a window of a judged one | |
| TradingProofs | RungsNeverDoubled | OneEntryPerRung | StalePlaceGens > 1 (4 in the code) |
| | PositionIsKnown | MachineKnowsPosition | StalePlaceGens > 1 |
| | StreakIsKept | StreakSurvivesRestarts | one symbol; with two it is false (section 7) |
| | LadderStaysSound | LadderIsSound | |
| | StreamTypeCorrect, NothingLeftHolds | types, NothingLeftRunning | |

The inductive invariants, and why the properties alone do not suffice:

- **GridV2State**, `IInv`: the bound on the window says nothing of its
  finiteness, without which cardinalities cannot be compared, and closing a lot is
  safe only if open exits belong to open lots and a branch holds one. `LotsOK`
  (ids disjoint, pairing both ways, mode), `FlagsOK`, `WindowOK`, the intents.
  `RestoreOK` is the hard lemma: the level found by the search is new and the side
  short, or another level leaves when it comes.
- **GridV2Live**: `IdsInUse` (registry, requests, stream and bookings name drawn
  ids; what is gone is not drawn again) carries everything. Booked once: a
  booked id is remembered, by the machine's lots or its recent exits
  (`BookedRemembered`), or nobody will report it again (`PolledOnce`). Nothing
  invented: `AbsenceExplained`, an order that the engine may infer from was on the
  exchange or was lost on its way, and what it misses there was cancelled by us or by
  others, has filled, or never arrived.
- **LeaderElection**, `ElectionInv`: clocks stay within their patience
  (`ClocksBounded`), an answer is no older than its command (`AnswersFresh`), so a leader
  is no older than what its thread has spent since its last SET (`LeadersFresh`), and
  whoever was given the lock less than a lease ago holds it unless it was robbed or has
  released it (`OwnersHold`). Two leaders cannot both hold it, so one is `Lost`.
- **Reconcile**, `BudgetInv`: calls made today are those recorded, plus those lost
  in a crash, plus one under way, and room was checked for that one. `CoolInv` and
  `DiskKeepsUp` follow the phase of a run.
- **TradingRun**, `RunInv`: outside the loop nothing dirties a clean symbol
  (`CleanStays`), so a pass over the symbols keeps what it has established: all but
  those still to do and those left for reconstruction are clean (`GuardKnows`,
  `CleanupKnows`). `HalfVerified` is why the order of the two reads matters: no order
  seen means none rests when the position is read.
- **IdempotentPort**, `IInv`: `SoundClaim`, at most one call holds the claim of a
  key that is not excused, it has a live INFLIGHT entry, and the effects are counted by
  its phase or by a DONE entry; `EffectInv`, a late mark_done is true although the
  entry is no longer the caller's; `WorkInv`, a probe is at work.
- **Fleet**: `EnginesCounted` (what runs or is about to was counted) and
  `ListHoldsLive` (the shutdown's list holds every live engine).
- **SymbolSelector**: `SelectorTyped` (only gridded symbols wind down) is enough; the work is
  in `CycleIsOrderly`: what `Foremost` takes is bounded (`ForemostBound`) and removals
  and additions share one budget (`BudgetShared`).
- **TuningRefresher**, `TuningInv`: the entries a symbol has agree on their tuning (`Agree`),
  which is what makes a merge of old and new whole (`MergeWhole`); a symbol's settings
  are of one tuning unless they are being written (`Uniform`, `HalfWritten`), and what an
  engine has read and may still read is of two (`TwoTunings`), because the refresher turns
  to a symbol only before its engine starts.
- **SafetyControl**: `WaitsItOut`, a state that may not trade was entered no
  earlier than the last trigger was seen.
- **AccountTruth**, `TruthInv`: an order that rests is in flight until an answer
  shows it; from then on every answer does, and so does a trusted ledger.
- **SyncReconciler**, `ReconcilerInv`: what rests or is staged is registered under
  its slot, a slot is registered once, a cancel under way still shows in the next
  answer, and an entry that rests is on its way until an answer has shown it
  (`OnItsWay`, `EntriesSeen`), so that only lost ones are taken for filled.
- **GridWatchdog**, `WatchInv`: an entry at the venue is looked after (registered
  under its slot), was just placed, waits to be cancelled, or is stuck; and a
  repair computed in this tick has not been overtaken by another placement
  (`AwaitedClean`, `IdleSendsNothing`, `NewlyPlaced`). The proof attempt failed at
  the rebuild in mid-tick; TLC found the trace of section 7 at larger bounds, and the
  exemption of the property is the result.
- **GridWatchdog**, `PositionInv`, on top of it: the position after any number of
  unheard fills is a number of lots the machine was told of (`Told`), each exit closes
  a lot at least (`ExitsClose`), and an exit a rebuild has yet to send was never sent
  (`LeftIsExit`). A fill heard takes a lot off both sides (`HearTold`).
- **FillIngestion**, `Ingested`: what the service counts is the fold of the tape up to
  its last number (`Knows`), a poll leaves out no number between that and the mark
  (`BatchIsWhole`), and the cursor on disk never passes the state on disk.
- **RollingLadder**, `LadderInv`: nothing is placed twice (`ActsAreDistinct`); and while
  nothing is astray, every cancel under way is registered (`CancelsAreRegistered`), a
  grid order gone without one has filled (`GoneAreFilled`), what rests is listed or
  awaited and holds the latch (`RestingAreKnown`), and levels stay apart among what
  rests or may still be sent (`LevelsAreDistinct`). A tick is shown to keep each part
  from what its helpers return (`PlanForms`, `CycleForms`, `ActionsForms`); every other
  step changes one order at most.
- **FuturesPort**, `PortInv`: what is registered is the truth (`KnownFits`), an id tells
  nothing but its order's symbol (`TellsSymbol`), and a request under way or given up
  still fits its order (`Fits`, `LateFits`).
- **MarketFeed**, `FeedInv`: who is responsible for the open socket at each await
  (`Sockets`), and what holds once the connector is closed (`ClosedFor`).
- **UserStream**, `AtRest`: between attempts the keeper is through, no socket is
  open and the last key was given back or its deletion tried.
- **OrderSubmission**, `PostedLeavesTrace`: a request the exchange took is
  remembered as lost by every later attempt, or answered so that the CID stays.
- **ModelPromotion**, `AllAudit`: a promotion writes pointer and event in one
  file, and what it read is a file that agreed. `EngineVetted`: what a booting engine
  has passed so far.
- **FillGate**, `GateInv`: what the evaluator holds, what the files say and what
  the engine took over recommend the best threshold of their own rows. `Tally` is a
  cardinality, so the counts of a sweep need no induction. `WindowInv` bounds the age
  of a window with a judged order.

Recursion over data is written as recursive functions, and what they return is proved
by the least-number principle (`LeastNumber`): were it false for some number, it would
be for a least one, and the step before it is right. `StreakExists`, `ClosingExists` and
their like first show that the function the definition describes exists.

### What is only model-checked, and why

- Liveness under fairness (FillsSettle, DetectionResumes, LeaderReturns,
  UnexpectedGoes, ResumesWhenCalm, ProtectionReturns,
  ForceReduceUnloads, RecoversUnlessWasted, AccountSettles, GridConverges): out
  of the proof system's reach.
- BooksBalance and LotsProtected, sums over lots and orders that hold only at rest: the
  invariant would have to say how every fill under way will be booked.
  PaperBooksBalance, a sum over markets whose rounding accumulates.
- EachFillBookedOnce with a drift reconstruction, where it is an argument about lag.

Two hypotheses of the theorems are needed: with MaxChangesPerCycle above 1 `AtMostTopK`
is false, and with two symbols under one fill cursor the streak is (section 7).

## 7. Where code and documents disagree

Three runs end with a counterexample and are entries of "findings":

1. `grid_live_restart`: a fill already in the position read at startup comes
   again as a stream event and becomes a second lot (engine.py:2890).
2. `cleanup_skipped`: a loop that raises, as it does when the reconnects after a
   failed read run out, keeps the stop reason `not_started`, for which the cleanup
   that ADR-121 promises on any exit is skipped (run_trading.py:2200).
3. `exit_latch`: the latch refuses the repair that would open it (engine.py:6162).

Met while modelling or proving. These were reproduced with a model, but no run of
this project repeats them:

- **A rebuild in mid-tick doubles a rung.** The drift reconstruction
  (engine.py:1787, called from the account sync at 3703) replaces the registry
  after the repair of the same tick was computed (3504); its actions are then
  dispatched without a registry entry, and the next repair, which knows only
  registered ids (2764), places the slot again, although Guard 1 (2652) means to "Skip
  if slot already pending".
- `run_live_reconcile.py` builds the executor but never a LeaderElector: the role
  stays UNKNOWN and every remediation is refused (remediation.py:403).
- A position that opens between the launch guard's last look and `cmd_cleanup` is
  closed, although DECISIONS.md:4356 says that cleanup is never executed on one; a
  second signal during the cleanup on exit breaks it off, since its handler finds the
  event loop closed; the futures port without `--mainnet` trades on the live exchange
  with neither guard nor cleanup; user-data events are processed whatever the role.
- **A lost placement is booked as a fill.** A placement without an answer is quarantined
  as pending (engine.py:3963-3974), released by the fourth sync (4990-5005) and then
  found missing (2211-2222), although docs/27:571 says "never assume fill without
  evidence -- silent lot creation from missing orders is forbidden (I8)". The lot has no
  position behind it, and its reduce-only exit is refused or reduces another lot.
  With the constants of the run `trading`, `NoPhantomFill` is violated.
- **Two leaders with nobody robbed.** "Only one instance can be ACTIVE at any time"
  (leader.py:6; DECISIONS.md:369): a renewal every 3 s whose GET and SET may each wait 5 s
  (socket_timeout, leader.py:109, plus a connect) outlasts the lease of 10 s, and only
  renewal < lease is checked (leader.py:70). The leader that stalls stays ACTIVE beside
  the next one until its command ends: `OnlyOneLeads` is violated with the constants of
  the run `coordination`. `SET XX` overwrites the key of whoever has taken it since the GET;
  `stop()` joins its thread for 5 s only (144), so that the thread may renew or take the
  lock again after the release, and a redis.TimeoutError in `_release_lock` (259 catches
  ConnectionError) leaves stop() with the role ACTIVE. `OverlapBounded` proves how long an
  overlap may last.
- **A cancel inside `close()` of the user-data connector** (run_trading.py:1545-1548,
  live_engine_bridge.py:773-777) at the await of `transport.close()`
  (binance_user_data_ws.py:367-372) skips the deletion of the listen key and the state
  CLOSED; one that comes while the keepalive task is awaited is swallowed, and the loop
  goes on. "Close the connection and clean up resources" (357).
- Without the stream, an order somebody else cancels is booked as a fill
  (2215), although invariant I8 of the specification forbids a lot without
  evidence; and an entry that fills while its cancel is on its way is never
  booked (2027).
- An exit fill after an emergency stop places entries (`state.py:976`).
- Probes that end in a cache hit, a conflict or an error that does not trip report
  nothing; once all are spent the circuit stays half open (idempotent_port.py:144).
- A size reseed collects the ids it waits for from `order_id` (1416), which placements
  do not carry: the seed is awaited by nothing and only expiry clears it.
- A recenter of the repair can raise ValueError, which nobody catches (2568).
- A failed attempt followed by a refused retry is taken for "never sent" (errors.py:74,
  engine.py:3960): the CID is cleaned although the order may rest.
- Writes share the one retry policy of the client, that of reads, although
  scripts/http_measured_client.py:149 says "they exclude 429 from retryable reasons": a
  timed-out placement is sent again under its id and may execute twice once the first
  has filled.
- "AccountSnapshot: ... at a consistent point in time" (account/contracts.py:145): the port makes two
  REST calls. `replace_order` parses ids of the old format only, always buys, and places
  even when the cancel was refused; fallback ids (`g_`) are not the engine's own under the
  prefix `grinder_` (reconcile/identity.py).
- The feed: a stop during the dial of a reconnect leaves the new socket open; a connect
  whose subscription failed is repeated over the open socket; all symbols share one
  `_last_seen_ts` of receive milliseconds, so a second symbol's tick in the same
  millisecond and all ticks after the clock steps back are dropped (binance_ws.py);
  `LiveFeed.run` sets `_running` again after a stop that came first; `connect()` on a
  closed connector leaves CLOSED.
- One exception of a handler uses up one of five reconnects for life; messages
  buffered behind a drop are lost; failed dials leak listen keys; a failing
  keepalive ends the whole stream (binance_user_data_ws.py), although
  DECISIONS.md:1725 promises reconnects.
- A take-profit's failing submission can shift the ladder's state before its
  outcome is known (engine.py:8273); a fill that no snapshot ever showed moves the
  ladder but gets no take-profit; a retried close never re-sends its cancel.
- One cursor serves trades of all symbols although trade numbers are per symbol; a
  crash between state file and checksum forgets the streak (fill_cursor.py,
  consecutive_loss_wiring.py:344).
- The fill gate's freshness check reads a key that no report contains; without
  `--auto-threshold` the preflight calls a report safe that may belong to another
  model; gate 8 blocks reduce-only exits too, although fill_prob_gate.py:10 says
  it does not.
- The event ledger is not healed by a REST snapshot once an order was closed or
  partly filled in between; a blacklisted id that is still visible stays
  blacklisted (engine.py:5019 against DECISIONS.md:4245); a generation is counted
  twice on the sync that reconstructs (5012, 5378).
- A symbol dropped from the ranking stays live and its removal intent uses up the
  change budget; a cap of two or more changes a cycle exceeds top_k; an engine that
  FAILED or STOPPED is not activated again; the death of an engine's thread goes
  unnoticed (rotation/controller.py, runtime/).
- The selector's additions are not limited by k, so the active set may grow beyond it; a
  symbol found flat after a wind-down leaves outside the change budget and its hold
  (docs/36, 3.1: "upper bound"); with an empty active set every symbol is allowed; a
  forced wind-down ends with the next cycle that sees the branch flat; and grid_v2's own
  entries never ask the selector (engine.py:7853), although docs/36, 5.4 has a wind-down
  stop new entries.
- "Readers ... never observe a torn snapshot" (ADR-183, DECISIONS.md:5233): `replace` assigns
  its fields one by one and the properties of AutonomousTuningState take no lock. A
  candidate whose v2 features fail is dropped although the backfill is meant for
  transient failures; `_propagate_grid_v2_env` runs before the `try` that restores the
  environment (live_engine_bridge.py:646); a symbol activated between the cache and the
  bridge (refresher.py:308) fails its construction, for good.
- Two promoters lose each other's update; a torn registry is never repaired
  (promote_ml_model.py:282).
- The paper risk gate's `record_fill` and `update_unrealized_pnl` have no callers;
  flattening ignores the kill switch; the pause plan of the adaptive policy never
  runs.
- An unload that paused after failures is not reactivated while its symbol is
  exposed. "0 = derive from constraints" (symbol_unload.py:39) is the default of the
  smallest step, but nothing derives one: a fifth of a small position rounds to zero and
  is skipped for ever (engine.py:7101-7110), so a forced reduction need not end flat.
  With the constants of the run `control`, `ForceReduceFlattens` is violated.
- EMERGENCY is left while its override stands and entered again (fsm_orchestrator.py:377).
- The budget file is rewritten in place: torn, it loads as a budget never used
  (budget.py:159).

## 8. Not modelled

- The geometry repair, the distance guard and the placement budget of the
  integrity repair; repricing of exits in the sync reconciler; shadow modes,
  which only log; anchored mode of the rolling ladder; partial fills (the grid
  handles FILLED events only).
- The content of requests: rounding, sizes, constraints, signatures, HTTP and
  WebSocket frames of the ports. The exchange is external everywhere.
- Features, policies, sizing, the decision journal of the selector, backtests, metrics, reports: numeric or
  output only, sequential, reached by tests with fixed inputs.
- `drawdown_guard_v1` in the live process, corrective actions nobody executes,
  `purge_expired`, `reset`, the expected-order store: no caller.
- How `run_trading.py` builds the engine from its settings, and what its checks ask
  of clocks, keys and files.

## 9. Plan

1. The host scripts of the fleet, and the upkeep `AccountTruth` leaves out: the cleanup of
   orders never seen (engine.py:5127) and the reconciler's risk bookkeeping (5154).
2. Liveness of the script's shutdown, which waits for the next snapshot of the feed.
3. Proofs: `LotsProtected` by way of the fills under way, and the refinement of an
   abstract lock by `LeaderElection`.
