# A verification of OpenTicker in TLA+

OpenTicker runs trading bots: it polls bars from a data connector, feeds them
to indicators and a strategy, sizes and risk-checks the orders that come out,
submits them to an exchange, and journals every step in SQLite so that a
restart can go on where the process stopped. This directory holds TLA+ models
of the parts where that is hard to get right, TLC runs that check them on small
instances, and TLAPS proofs of the properties that matter most.

Run `tlc -config X.cfg M` for the runs and `tlapm M.tla` for the proofs below.

## The system

| Part | State | What is hard about it | Module |
|---|---|---|---|
| lifecycle (`openticker-runtime/src/lifecycle.rs`), restart (`construction.rs`) | state of each lane, kill switch; one journalled snapshot per bot | a request walks several lanes and may fail or crash between two of them | `Lifecycle` |
| trading cycle (`openticker-lane`) | position, cooldown, position records, cycle traces | the exchange acts in the middle of the cycle; later journal writes may fail, answers may be lost | `LaneCycle` |
| account ledger (`openticker-ledger`), sizing (`openticker-execution`) | open and reserved notional per lane, balances | several bots share an account; every error path has to release | `AccountLedger`, `OrderSizing` |
| a lane's books (`openticker-ledger/src/inventory.rs`, `openticker-lane/src/position.rs`) | inventory, the fields that repeat it, position records | three copies of a position, two thresholds for zero | `LaneInventory` |
| reconciliation and manual close (`reconciliation/*.rs`, `manual_ops.rs`) | position and order records, the venue's one position per symbol | the venue does not know which bot holds what | `SharedSymbol`, `Lifecycle` |
| risk policy (`openticker-risk`) | losses of the day, cooldowns, open positions | triggers are dated by bars, losses by days, memory ends at a restart | `RiskGate` |
| polling and recovery (`market_data/recovery_engine.rs`, `polling_supervisor`) | last dispatched bar, recovery state, warm-up | plan under a read lock, fetch without a lock, apply later to a lane that has changed | `LanePolling`, `BarDispatch` |
| dataplane (`openticker-dataplane`) | streams, due times, buffers | one loop, an operator's tick and a reload in two steps share the streams | `DataPlane` |
| bar requests of the connectors | none | a bar closes while its request is under way; answers come in pages | `BarPages` |
| bar builder (`openticker-data`) | the bar under way | late trades, negative times, pauses | `BarBuilder` |
| indicators, strategies (`openticker-signals`, `openticker-strategy`) | windows, averages, previous values | previews, warm-up, recovery and manual signals feed or copy one state | `Indicators`, `Strategies`, `SignalPath` |
| preview workers (`polling_supervisor/preview.rs`) | sessions, bounded queues, connection states | tasks, loop and lanes run concurrently; queues drop | `PreviewStreams` |
| gateway and registry (`openticker-gateway`, `openticker-connectors/src/registry.rs`) | failures, reconnect times, throttles; a mutex and a lock per client | round trips under locks, concurrent readiness checks | `Gateway` |
| orders at the venue (`connectors/{alpaca,binance}`) | none of its own | lost answers, polling to a final status, snapshots from several requests | `RemoteOrders` |
| storage (`openticker-storage`) | SQLite file or vectors | two backends, retries, pruning, crashes during migration, poisoned mutexes | `SqliteJournal`, `MemoryJournal`, `Journal`, `JournalFile` |
| read models (`openticker-storage/src/operator_read_models.rs`) | bounded feeds, latest records | projected after the write, loaded at a restart, re-ingested by reports | `ReadModels` |
| configuration (`openticker-config`, `openticker-http`) | the directory, the bundle in force, runtime, history | edits by hand, watcher and API race; a runtime is swapped while bots start | `ConfigRules`, `ConfigReload`, `ConfigWatcher` |
| dashboard (`openticker-cli`) | snapshot, selection, prompt | the service changes between what is shown and what is sent | `Dashboard` |

The whole runtime lives behind one `RwLock`. Requests and trading cycles hold
its write side from beginning to end, so they never interleave with each other;
what splits them are failures, lost answers and crashes. Polling, previews,
configuration reloads, HTTP queries and everything below the gateway run beside
it, and their modules interleave step by step.

## The modules

### Trading

`Lifecycle` models the bots' life. The variables `kill`, `st`, `blocked`,
`resume` and `pos` are process memory, `snap`, `posRec` and `recs` are the
journal. `op` is the request that holds the write lock: the lanes it has still
to visit and, in a reconciliation, the step it is at. `StartInstance`,
`StopInstance`, `SetKillSwitch`, ... are the guards of the requests up to their
loop; `TransitionInstance` is the body of the loop (`transition_instance`:
memory, then snapshot, then event, with the rollback); `ReconcileStarted`,
`AssessReconciliation`, `FinalizeReconciliationResult` and
`AppendReconciliationRecord` are the steps of `reconcile_instance_internal`.
`Boot` is `from_config_with_journal`. The verdict of an assessment and the
outcome of each write are nondeterministic.

`AccountLedger` and `OrderSizing` have no variables: the methods of
`AccountLedger` and the functions of `sizing.rs` and `policy.rs` are operators
over natural numbers. `LaneCycle` extends both and models the trading cycle of
all lanes of one account. `cyc` is the cycle in flight; `EvaluateCycle` is the
head of `run_lane_cycle` up to the risk decision, `AppendProcessBarRecords`,
`ApplyRiskDecisionEffects`, `SubmitOrder...`, `AppendOrderRecords`,
`ApplyProcessBarState` and `PersistCycleTrace` are its stages in the code's
order. The exchange (`remote`, `accepted`) fills an order wholly or partly at
any price, refuses a client order id it has seen, and its answer may be lost.
`executed` and `torn` are history variables. A signal is a nondeterministic
choice; what the signals are is `SignalPath`'s subject.

`LaneInventory` follows the books of one lane fill by fill: the lot with its
average cost, the fields of the lane that are copied to and from it around every
fill, the position record, and what a manual close, a reconciliation and a
restart make of them. Numbers are scaled so that every average is exact; the
code's `f64::EPSILON` is below one unit and its tolerance is `Tolerance` units.
`cash`, `off`, `held` and `memory` are histories.

`SharedSymbol` has one symbol of one account that several bots trade: trades
with every way they can end, startup and manual reconciliation with the choice
of the record they look at and the backfill of orders, the manual close, the
refresh of the ledger and a restart.

`RiskGate` has the daily loss, the position limit and the cooldown over lanes,
accounts, midnight and restarts. Triggers bear the timestamps of bars, which may
lie behind the clock.

### Market data and signals

`LanePolling` models how confirmed bars reach one lane. A bar is its position in
the market's history, `last` the last dispatched bar (0: none), `rec`, `target`
and `stalls` the recovery state, `loaded` the progress of the warm-up, `traces`
the bars with a journalled cycle, `fed` (history) the bars the indicators have
evaluated. `poll` holds what the two pollers are doing: the background loop,
which plans under the read lock, fetches without a lock and applies under the
write lock, and the HTTP tick, which keeps the write lock throughout. Their
plans are those of `LanePollPlan`; `ApplyLatestBarPlan`,
`ApplyLatestConfirmedTargetPlan` and, for `apply_confirmed_range_plan`,
`ApplyRangeEarly`, `StartRecoveryFails`, `RecordRecoveryNoProgress` and
`ApplyRecoveryPage` apply their answers, each with the writes that may fail.
`StartLane` and `Boot` contain the warm-up backfill. `FetchSlow` is a provider
that answers late, short or out of order, within the bound `MaxSlow`.
`SimulateBar` is the HTTP request that pushes a bar past the polling and is part
of `SpecWithSimulatedBars` only. What a cycle does with a bar is `LaneCycle`'s
subject; here it completes with a trace or fails after the evaluation.

`BarDispatch` is what all of that promises the indicators: from the first bar on
they see the bars of the market without a gap, except where a lane that is not
warm yet is seeded anew. `LanePolling` implements it with `last`, `fed` and
`Ready` for `head`, `seen` and `warm`.

`DataPlane` has the streams: merging of specifications, due times and close
windows, the loop's plan, parallel polls and recording, the operator's tick, and
a reload that swaps the runtime first and the streams afterwards. Times are kept
as ages that stop at `Never`, beyond every interval of the code.

`BarPages` has one call of a connector for bars: request, answer (page by page
for Alpaca's recent bars), the look at the clock before or after, and the
normalisation, while time passes between all of them. A row is a bar and whether
its values were final when the venue answered.

`BarBuilder` turns trades into bars; `process_trade` feeds it while the lane
runs. `Indicators` has SMA crossover and RSI with exact ratios instead of
floating-point values, `Strategies` the single-indicator and the consensus
strategy, and `SignalPath` one lane's way from the market's closes to intents
through warm-up, live bars, previews, manual signals, recovery and restarts. It
assumes that the warm-up fills the windows (`WarmUpFillsWindows`); previews of
the next bar may be evaluated before a bar is dispatched, and only decisions on
confirmed bars are compared with the market's.

`PreviewStreams` has the loop that keeps one session per account, the session's
task with its socket, the two bounded queues between them (`EventCap` is 2
instead of 1024) and the dispatch to lanes. `up` says that connections to the venue
carry data: a handshake then completes, and what was sent into an open socket
arrives. Without it a socket or a handshake may fail at any time or stay as it is
(the worker sets no timeout and sends no ping).

### Venues

`Gateway` has threads that call the exchanges of several accounts, the
registry's mutex, and a read-write lock per client that, as in the standard
library on Linux, admits no reader while a writer waits. Poisoning of the mutex
is left out. Accounts are connected unless the validation of their mode failed.
The wrapper in the runtime only maps errors and journals the stages of a call.

`RemoteOrders` has `submit_remote_order` (post, polls, answers lost at any point)
and `fetch_remote_snapshot` (several requests) of both connectors against a venue
that executes and closes orders at any time. Quantities are in units that
`QuantityStep` cuts to Binance's decimals; prices and dollar fees are left out.
An answer of Alpaca lists `OpenLimit` open orders at most (500 in the code, which
asks for no second page). An order in one of the statuses that the connector takes
for terminal is assumed to change no more. A second submission under the same id is `LaneCycle`'s subject.

### Storage

`SqliteJournal` translates the SQL statements to operators on sets of rows,
`MemoryJournal` the in-memory backend to operators on sequences, and `Journal`
makes every call on both. `JournalFile` has the file under them: opening,
migration, connections, threads, failing statements, panics, crashes and
timestamps; the prune of removed bots, which an operator may switch on, is
`Journal`'s. `ReadModels`
has the feeds and maps that queries read, with the thread that writes, reports
that re-ingest, a reload and crashes.

### Configuration and operator

`ConfigRules` has every rule of the validation next to what construction, polling
and the risk limits rely on; its states are pairs of a configuration and an
account update. `ConfigReload` has the reload and the six write requests step by
step under `config_write_lock`, against edits by hand, starts, stops and the
kill switch. `Cancel` is the server that drops the handler of a client that is gone
where it waits for a lock, whatever it has done by then; `abandoned` (history)
remembers what it left undone until the next request does it. `ConfigWatcher` has
the debounce: events, quiet window, cap, closed
channels, backoff and shutdown.

`Dashboard` has the terminal loop: keys, prompts, selection, actions and
refreshes in several requests, any of which may fail or lose its answer, while
other clients use the service. A key that arrives during a request is a key
pressed after it.

### Instances and mutants

The `MC*` modules instantiate the components for TLC. Several components, or
several instances of one, share a run: a variable `part`, chosen at the start,
says which of them takes the steps, and the others rest in an initial state. A
property of a run is then either a definition of the component that the module
extends or a conjunction that names, for every part, the property of its
component.

Definitions introduced by a comment "Mutant" or "The slip of" are deliberately
wrong variants of the definition that follows; replacing the one by the other
makes the property it belongs to fail, which shows that the property depends on
it. `PROJECT.json` lists the pairs.

## The runs

| Run | Instance | Checks |
|---|---|---|
| `lifecycle` | two bots with one symbol each, one live with remote reconciliation and one paper, and a paper bot with two symbols; 1 fault, 2 crashes | after a kill-switch request no lane runs; the snapshot of a bot with a running lane leads it through startup reconciliation; a lane that startup reconciliation resumes has its journalled position; a restart leaves no symbol Reconciling |
| `lane_cycle` | two bots that share an account and a symbol, with budgets of 50 and 80 % and changing balances; bars only (3 cycles, 1 crash) and, in lots of two, two bars and manual signals (2 cycles); 1 fault | no reservation outlives its submission; a submitted entry fits the budgets of bot and account together with all that is open and reserved; memory, journal and exchange agree on positions; a trigger is executed once |
| `lane_polling` | 4 bars, up to 2 of them there at the start, pages of 2, warm-up of 2 bars, 1 slow answer, 1 fault, 1 request; and 2 bars with bars pushed over HTTP and a crash | a recovering lane has its last bar and its target, and is given up only for a provider or journal that failed or a new start; a bar is traded only after the one before it; `BarDispatch` is implemented; a lane that keeps running catches up |
| `positions` | two lanes over two days and three lanes of which one is a day behind, with a restart; one bot whose position is closed by hand next to trades made elsewhere; two bots with rows of older versions; the books of a lane, exact with fees and with a tolerance of one unit | entries stop at the loss limit and are refused for losses only when they were made; a running lane holds what its newest record says; the profit reported is what the fills brought in; a cooldown is served, up to the age of late bars |
| `signals` | trades at six times around the epoch in any order; a consensus of a crossover and an RSI filter, and a single crossover, over 5 and 7 bars with a restart | no traded volume is lost between the bars; a confirmed bar is decided as the market's closes call for |
| `storage` | both backends under 3 calls of every kind and 4 calls with keys; the read models under events, cycles, reports, a reload and restarts | both backends answer every query alike, up to fees that are not positive; feeds show the newest records, each once and in order; the latest record is the newest; realized profit accumulates |
| `venues` | two orders at Alpaca, of which an answer lists one, two at Binance; bars of Alpaca in one answer and split into pages, bars of Binance | a snapshot in which every open order was listed misses none, and none counts a purchase twice; what is reported as accepted or confirmed is final; a page of a range continues without a gap, and one that says so is the last |
| `data_plane` | two lanes on a stream that a reload takes away, with a fault; a reload that moves a lane to another stream; a lane and a watchlist entry with their own paces | a stream is polled no more often than its intervals allow; lanes of a stream that stays end up with the newest bar |
| `preview_streams` | three accounts that compete for one worker, with a connector that refuses; two streams of one account over an outage | active sessions stay within the limit; an outage that the worker is told of is shown; what keeps running ends up subscribed |
| `operator` | the dashboard on lists of up to three bots; six write requests and reloads on five directories, with clients that leave; edits that a watcher reports; the watcher's loop; configurations of two bots that vary one rule at a time | nothing destructive is sent unconfirmed; runtime, queries, streams and bundle are of one configuration unless a client left in the middle of a swap; a guarded write replaces what its author read; what validation accepts can be built, reads the data of its account, and what the ledger allocates to its bots fits the account; edits are loaded or reported |
| `calls` | three threads in the gateway; two threads in the journal's file with two connections and a crash, and with one connection, and statements that fail; one order | an acknowledged record survives; a throttle is kept; every call returns |
| `reprocess` | `lane_cycle` with one price | ends in a counterexample: see the known divergences |

The bounds are chosen so that each kind of event happens at least once and can
be followed by the recovery from it: one fault and one crash reach every early
return in combination with a restart, two crashes reach a crash during the boot;
two lanes are what a shared account, snapshot or symbol needs; three cycles open,
add and close. Four bars and pages of two are the smallest instance in which a
recovery needs several polls and a lane can fall behind again meanwhile. Two days
of two ticks have a midnight with a bar on either side. Three and four records
overflow caps of two and three. The bounds multiply, so parts of a run spend them
on different events: the cycles with manual signals have a second bar and no
crash, the ones with bars only a crash and one bar; two bots over restarts keep
two rows each, the one that is closed by hand three. `PollAttempts` is 1 or 4 instead of 20 and
`EventCap` 2 instead of 1024: the code only compares with them. The prices of
the inventory are multiples of the numbers it divides by. Every passing run
finishes within a few minutes, and together they take every action.

Two observations are written into the properties. A backfill at a start may pass
the target of a recovery that was under way, which the next poll takes for
exhausted history (`OutOfSyncHasCause` allows a request as a cause). And a bar
that has a trace is never dispatched again, so a lane restarted with incomplete
history can wait one bar behind the market (the exception in `CatchesUp`).

The modules state more properties than the standing runs check: the ones proved
below, the ones listed under the known divergences, and some that were checked
while the models were built and follow the same behaviours
(`OrderedBarsAreExact`, `RecentIsNewest`, `FirstWriteWins`, `PruneForgetsRemoved`,
`InventoryMirrorsFields`, `FiresWithinCap`, `ShutdownEndsLoop`, `ShutdownEndsSessions`,
`SnapshotCatchesUp`, `BufferInOrder`, `StalenessIsConservative`, `DueIsPolled`,
`ResilienceIsConsistent`, `IndexIsSuffix`, `PositionsWithinLimit`,
`ManagedWithinVenue`, `RefreshedOnce`, `SubmittedIsDurable`, `ConfirmedOnlyWaits`,
`NoOrderAgainstIndicators`).

## Fairness

Safety needs none. Where a property says that something happens:

* `Lifecycle`: weak fairness of the steps of a request (the code that holds the
  lock runs to its end) and of the boot (a supervisor starts the process again).
* `LanePolling`: weak fairness of the loop, which polls every interval for as long
  as the process runs, and of a tick that has begun (fetches time out); not of
  starts, ticks or the market.
* `DataPlane`: weak fairness of the loop's steps, the polls it has spawned, a tick
  or reload that has begun, and of time.
* `ConfigReload`: weak fairness of the holder of the configuration lock and of the
  watcher's reload. `ConfigWatcher`: of its loop and of time.
* `PreviewStreams`: weak fairness of the loop and of what a task does by itself or
  with a venue that is up (`OwnStep`). Nothing is asked of a silent socket
  (`binance/stream.rs:445`) or of a handshake with a venue that is gone (`:369`),
  which have no timeout: `OutageIsShown` has as its premise that the worker is told
  of both, again and again. A second premise is that turns of the loop end, although
  a turn goes on while its queue is not empty and handling an event waits for the
  runtime's lock (`preview.rs:286`), which a tick may hold over requests to a venue:
  a worker adds a few events per delay of 300 ms or more, the loop removes all there
  are. `WantedIsSubscribed` needs neither.
* `JournalFile`: weak fairness of a thread's steps; strong fairness of getting a
  mutex that is free again and again.
* `Gateway` and `RemoteOrders`: weak fairness of a call's steps; the HTTP client
  ends every request after ten seconds.

## The proofs

The proofs hold for every set of bots, lanes, accounts, orders, threads and
configurations, every page size, limit, price and timeframe, and every bound on
faults and crashes. Each rests on an inductive invariant that is shown step by
step, one lemma per action, and from which the properties follow.

| Module | About | Theorems |
|---|---|---|
| `LifecycleProofs` | `Lifecycle` | `Invariance`, `TypeCorrect`, `BlockedLanesStayOut`, `KillSwitchIsComplete`, `RunningLanesAreRemembered`, `KillSwitchHolds`, `LiveLanesAreReconciled`, `ResumeRestoresPosition` |
| `LaneCycleProofs` | `LaneCycle`, `AccountLedger`, `OrderSizing` | `Invariance`, `TypeCorrect`, `ReservationsEnd`, `SizingAgreesWithLedger`, `PositionsStayTogether`, `PositionLimitHolds`, `TriggersExecuteOnce`, `TracesAreFinal`, `EntriesStayInBudget` |
| `LanePollingProofs` | `LanePolling`, `BarDispatch`, `BarBuilder` | `Invariance`, `TypeCorrect`, `RecoveryKeepsBearings`, `SimulatedBarsKeepBearings`, `StalledRecoveryFailsClosed`, `NeverTradesOverAGap`, `Refinement`, `VolumeConserved`, `BarsWellFormed` |
| `LaneProofs` | `SharedSymbol` | `JournalMatched` |
| `GuardProofs` | `Dashboard`, `ConfigRules`, `RiskGate` | `SelectionShown`, `DestructiveConfirmed`; `DataFromTheAccount`, `SavingIsIdempotent`, `SubmissionAsAsked`, `ValidIsBuilt`, `LimitsFit`; `CooldownInvariant`, `CooldownServed`, `RefusalsAreJust`, `EntriesStop` |
| `PreviewProofs` | `PreviewStreams` | `PreviewSessionsBounded`, `PreviewsStayInOrder` |
| `VenueProofs` | `RemoteOrders`, `Gateway` | `AcceptedFinal`, `SnapshotComplete`, `PurchaseCountedOnce`, `AtOnceIsReceived`; `ThrottleHolds`, `BackoffIsBounded` |
| `ServiceProofs` | `JournalFile`, `ConfigReload` | `AppendsAreDurable`, `ReadsAreCurrent`, `SchemaIsWhole`, `StampsGrow`; `Settled`, `GuardedWrite`, `WriteIsAllOrNothing`, `HistoryIsTrue`, `WritesPruneNothing` |

Why the properties need more than themselves:

* `Lifecycle`: the invariant relates the request in progress to the lanes. A start
  or resume in progress has only unblocked lanes left to visit and the kill
  switch off, a kill request has every running lane left to visit, a finalising
  reconciliation remembers whether its lane is blocked. `RestoreInv` adds that a
  lane that waits for its startup reconciliation holds nothing, and one that was
  assessed what the journal recorded.
* `LaneCycle`: the invariant says what each stage of the cycle may still rely on:
  the reservation held at `submit`, the fill not yet applied at `journal` and
  `state`, the execution not yet traced. `PositionsAgree` is only true between
  cycles; `Agreement` extends it through the cycle with the pending fill.
  `EntriesStayInBudget` is about sums over the lanes: an entry is submitted in the
  step that reserves it, and the room the ledger computed bounds the sums of what
  is open and reserved. That a sum changes by what its one changed term changes is
  proved over all finite sets, from the smallest set that would be an exception.
* `LanePolling`: the invariant says what a plan and its answer know of each other
  (a range starts after some bar, a bootstrap plan after none), and nothing about
  the lane they were made for, which may have moved on: the stale checks
  re-establish that relation in `FreshPage`. One lemma per action shows at once
  that the invariant is kept, that the step is one of `BarDispatch` and that it
  trades in order.
* `BarBuilder`: the volume of a bucket is what its confirmed bars and the bar under
  way hold (`VolumeInv`), and the bar's bucket holds the last trade's time, for
  times of either sign.
* `SharedSymbol`: `JournalMatched` needs that every lane, running or not, agrees with
  the record a reconciliation would choose for it (after a restart it may also
  hold nothing), and that an assessment still to be applied says what lane and
  records say. It assumes `Scanned`: a bot has no more
  rows than `RECONCILIATION_JOURNAL_SCAN_LIMIT`, the bound of the scan. Beyond it
  the property fails (known divergences).
* `RiskGate`: `RefusalsAreJust` rests on all lanes of the process being at one loss
  date with no more counted than the account lost on it (`LossInv`), whatever the
  ages of bars and however often the process restarts. `EntriesStop` needs the
  converse (`ExactInv`: all of it is counted, and nothing is lost on later dates),
  which is true as long as bars are in step with the clock and the process does
  not restart; the theorem says so, and the known divergences show that both are
  needed. Both are about sums over the lanes of an account. `CooldownServed` needs
  that `cooldown_until_ms` lies no further before the latest rejection and its
  cooldown than the age of a bar (`CooldownInv`, for ages that are numbers,
  `AgesOK`), because the clock that triggers follow only goes forward.
* `ConfigRules`: facts about every configuration that `validate` accepts.
  `LimitsFit` relates the percentages that the validation adds up to what the
  ledger allocates (`bot_allocated_usd` of `effective_cap_usd`, with any balance);
  that a sum of shares is the share of the sum is again an argument over finite
  sets. The
  premises `AccountsOK`, `IndicatorsOK` and `AmountsOK` say what the types of the
  code say of accounts, of the indicator manifest and of amounts.
* `Dashboard`: the selection is within the list shown (`SelectionInv`), and a prompt
  that waits for its second key is for an operation on a bot (`PromptInv`), over
  every refresh that may replace the list in between.
* `PreviewStreams`: whatever a session is told, queues or wants is a stream of its
  account, and the sessions the loop still has to drain are live (`SessionInv`);
  the bars of a queue are in order and none is older than what its lanes have
  evaluated (`QueueInv`).
* `RemoteOrders`: closed orders do not change and an order is posted once; what a
  snapshot has read so far is related to the orders as they were when it began and
  to those an answer did not list (`SnapshotInv`, `BooksInv`). `Gateway`: who changes a client holds the registry,
  so that what a readiness check found is still true when it resets the client
  (`GateInv`).
* `JournalFile`: an append that returned is in the file and not in a transaction
  that may be rolled back (`AckInv`); the version of the schema is written after
  its statements (`SchemaInv`). `ConfigReload`: what the holder of the lock has
  built and what it has installed so far (`WorkInv`, `InstallInv`); the generation
  a client holds is that of the bundle it read (`TokenInv`); both up to what a
  client that left has kept from being done. A request that has written its file
  leaves an event behind (`EventInv`), from which `WriteIsAllOrNothing` follows.

The assumptions are the named ASSUMEs of the modules and the premises named in
the theorems (types of the constants, finitely many lanes, a sane order of time
bounds); TLC evaluates them on the constants of the runs.

Model-checked only: everything about liveness (fairness is out of the prover's
reach); `BooksBalance`, which is exact only where every average divides;
`DecisionIsOfMarket`, which compares folds over the market's closes; the agreement
of backends and read models and the pages of bars, which are filtered and sorted
sequences; `WithinBudget`, which counts polls against quotients of intervals.

## Known divergences

Where the code does not do what a comment, a document or a test of the repository
says. The run `reprocess` shows the first; each of the others is a property of
the module named, which TLC refutes with the constants given. The properties of
the runs hold because their instances keep clear of these cases, as said here.

* `LaneCycle!ReprocessedBarSubmitsOnce`: the client order id contains the quantity
  (`openticker-connectors/src/helpers.rs:92`), so a bar that is processed again
  after a lost answer can be entered twice, if the second evaluation repeats the
  signal: a consensus of two indicators or a preview does, a single crossover that
  has seen the bar answers NoOp.
* `Lifecycle!KillSwitchPausesEveryLane` without its premise: the switch is set
  before its event is written (`lifecycle.rs:110`); when that or a later write
  fails, lanes keep running and a second request returns at once.
  `RunningLaneIsInSnapshot` without its premise: when the event of a stop fails,
  the lane's state is rolled back and its snapshot is not (`repo/journal.rs:41`).
* `Lifecycle!ManualReconciliationAdmitsStart` (a live bot with two symbols):
  reconciliation records are stored under the lane id and looked up under the bot
  id (`lifecycle.rs:237`), so the bot can never be started.
* `Lifecycle!RunningLaneKnowsItsPosition`: a bot that is paused or stopped with an
  open position comes back flat from a restart (`openticker-lane/src/build.rs:256`)
  and can be started again. `Lifecycle!UnresolvedLaneDoesNotRun`: the block an
  unresolved reconciliation puts on a bot does not survive a restart (`:264`).
* `LanePolling!BarsInOrder` (with `SimulateBar`): a bar simulated over HTTP is not
  compared with the last dispatched one (`processing/cycle.rs:281`), so the
  indicators can see an older bar after a newer one.
* `DataPlane!PicksUpFreshBars`: the close window is that of the bar already
  fetched (`openticker-dataplane/src/dataplane/entry.rs:124`).
* `ConfigReload!RunningBotsKeepTheirLanes`: a bot that starts while the next
  runtime is built is dropped by the swap (`config_ops.rs:235`).
  `KillSwitchHoldsUntilCleared`: every reload installs a runtime with the switch
  off (`construction.rs:135`). `OwnWritesAreSuppressed`: the event of a write is
  not recognised when the new bot is not last in the order of file names
  (`config_ops.rs:450`). `SettledOnOneBundle` without its exception: a client that
  leaves while `apply_bundle` waits for a lock (`config_ops.rs:301`) leaves a new
  runtime beside the old bundle; a later load of the old files is then answered
  "no_change" and does not bring the runtime back. `FailedWriteKeepsSnapshots`: a prebuild that fails has
  overwritten the snapshots of running bots (`config_write_handlers.rs:209`).
* `ConfigWatcher!NoiseDoesNotDefer`: irrelevant events extend the quiet window too,
  up to the cap (`config_watcher.rs:214`).
* `Journal!BackendsAgree` without `WithPositiveFee`: the in-memory backend drops a
  fee that is not positive (`in_memory.rs:275`), the file keeps it
  (`sqlite/journal.rs:569`).
* `Journal!PruneKeepsConfigured` (several symbols): the start-up prune deletes the
  rows written under the lane ids of configured bots (`construction.rs:92`).
* `ReadModels!ReportIsCurrent` (several symbols): the report looks lanes up under
  the bot id (`queries/handle.rs:144`). `FeedIsTail`: a retried order appears twice
  (`Retried`, `repo/journal.rs:258`) and a report pushes the record it read into
  the feed again (`queries/handle.rs:154`). `LatestIsNewest`: after a prune ids of
  journal and projection are not comparable (`operator_read_models.rs:603`).
  `PnlAccumulates`: what is realized between the build of a runtime and its swap
  is lost (`repo/bootstrap.rs:37`).
* `SharedSymbol!OwnSharesOnly` (two bots, closes): a manual close sells all the
  account holds of the symbol (`manual_ops.rs:61`). `ManualCloseCloses`: a second
  close at the same bar and price answers "already flat"
  (`openticker-lane/src/cycle.rs:258`). `RunningLaneMatchesJournal` (`ScanLimit`
  below the rows of the bot): the record of a rarely traded symbol is missed
  (`repo/accounting.rs:66`).
* `SignalPath!DecisionIsOfMarket` (with a failing write): a bar is evaluated again on
  engines that have it already (`openticker-lane/src/cycle.rs:309`).
* `RiskGate!EntriesStopAtLimit` (a lane a day behind; a restart): a bar of yesterday
  zeroes the losses of today (`processing/cycle.rs:455`), and so does a restart
  (`build.rs:261`). `CooldownIsServed` without the age of bars: a rejection of a
  bar older than one rejected before sets the cooldown back (`position.rs:363`).
* `Gateway!ThrottleServed`: a later, shorter window replaces a longer one
  (`openticker-connectors/src/types.rs:116`). `RoundTripsAreIndependent`: a
  readiness check waits for a client's lock while it holds the registry
  (`gateway.rs:157`).
* `RemoteOrders!AcceptedIsReceived` (Binance, a base-asset fee): an order that is
  polled to its end is reported without its fee
  (`connectors/binance/connector.rs:451`). `SnapshotMissesNothing` without its
  premise (Alpaca): only the newest 500 open orders are asked for
  (`connectors/alpaca/connector.rs:119`).
* `PreviewStreams!OutageIsShown` without its premise: a connection that falls silent
  is shown as connected while its socket stays open (`binance/stream.rs:445`).
* `LaneInventory!PositionHasQuantity`, `QuantityIsHeld`: a rest between
  `f64::EPSILON` and the tolerance leaves a position without quantity
  (`position.rs:309`), which a reconciliation takes for one share
  (`openticker-portfolio/src/reconciliation.rs:72`). `AnomalyIsMarked`: the marker
  is never set on the way from a fill (`position.rs:79`). `FeesAccumulate`: every
  fill starts again at no fees (`inventory.rs:94`).
* `Dashboard!ConfirmedIsSent`: a confirmed "engage" becomes "clear" when a refresh
  in between shows the switch as engaged (`dashboard/input.rs:142`).
* `BarPages!ConfirmedIsFinal` (Binance, recent bars): the clock is read after the
  answer (`connectors/binance/connector.rs:246`). `ExhaustedIsTrue` (split pages):
  a short first page ends the history (`connectors/alpaca/connector.rs:409`).

## Not modelled

Payloads, request signing, number formatting and rendering (pure I/O);
floating-point rounding, which is replaced by exact ratios or a tolerance; the
comment-preserving TOML edit, which is the replacement of the entity it renders,
and `.env` loading; the private order stream; latency metrics; exposure summaries
and other read-only endpoints; one-shot commands of the command line; poisoning of
the registry's mutex; the test kit. Errors and overflows that the notify backend
reports are no events of `ConfigWatcher`. A reload builds a new connector registry
(`construction.rs:127`), which begins without throttles: `ThrottleIsKept` is about
the life of one registry. `EveryCallReturns` says that calls do not block each other for good; a call that is
kept waiting by an endless stream of others is outside its bounds.
`PROJECT.json` lists the parts with what is
left out of each.
