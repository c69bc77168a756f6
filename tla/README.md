# TradeNodeX copy trading: the verification project

TradeNodeX copies the fills of a master account to the accounts of followers.
This directory keeps TLA+ specifications of the backend beside its code
(`src/copytrading_app/`), the TLC configurations that check them on small
instances, and proofs that TLAPS checks for every instance. Paths below are
relative to `src/copytrading_app/` unless they name a document.

## 1. The system

| component | state it keeps | operations | interacts with |
|---|---|---|---|
| Orchestrator and fan-out planner (`services/orchestrator.py`, `services/fanout_planner.py`) | rows of master event, signal, task (one session per call) | `handle_master_event`, `plan` | called by the API route `/internal/master-events` and by the stream supervisor, which commit; asks and fills the idempotency store; publishes to the queue |
| Task queue (`services/queues/`) | memory: one `asyncio.Queue` per lane and process; SQS: FIFO per message group, deduplication ids | `publish`, `consume` | written by planner and replay, read by the executor loops |
| Idempotency store (`services/idempotency.py`) | set of event keys; memory per process, or Redis with a time to live | `exists`, `remember` | orchestrator |
| Executor loops and account executor (`workers/executor.py`, `services/account_executor.py`) | attempt, task status, position snapshot; a session per message | consume, load, attempt, place order, refresh position, commit | queue, exchange, rate limiter |
| Replay (`Orchestrator.replay_signal`) | task and signal status | select FAILED and SKIPPED tasks, publish on the recovery lane | queue, API route that commits |
| Worker runtime (`workers/runtime.py`) | the process | gathers three loops, the supervisor and the heartbeat | the exception of one ends all |
| Stream supervisor (`services/private_streams.py`) | position cache per source, listener status | listen, poll, reconcile, emit | orchestrator, exchange streams |
| Scaling and normalizer (`services/scaling.py`, `services/signal_normalizer.py`) | none | quantities, sides, the action of a fill | orchestrator, planner |
| Exchange clients (`services/exchanges/`) | none | order, position, validation, cancellation per exchange | executor, supervisor, manual commands, registry |
| Reconciler (`services/reconciler.py`) | reconciliation rows, repair tasks | compare, repair | the recovery lane; no route or loop calls it |
| Registry routes (`api/routes.py`) | followers, sources, copy trades, their status and verdicts | create, update, pause, resume, validate, delete | planner and supervisor read it |
| Manual commands (`api/routes.py`) | trade logs | main order and attached orders, close, cancel | exchange |
| Rate limiter (`services/rate_limiter.py`) | tokens and time of the last refill per key | `acquire` | executor loops of a process |
| Instrument catalog (`services/instrument_catalog.py`) | entries and load time per exchange | `_ensure_loaded`, `resolve_symbol` | planner, exchange |
| Schema startup (`core/dependencies.py`) | tables and columns | `init_models` in every process | API and worker on one database |
| Heartbeat (`services/worker_status.py`) | a file | write, read | worker, dashboard |
| Trade log pages (`api/routes.py`, `repositories/signal_repository.py`) | the log table | page and count | operator, everything that logs |
| Dashboard stream (`api/routes.py`) | what was sent last | websocket loop | every table |

What is hard here is not in one function. Every `await` lets another session,
loop or process run: a session publishes commands before it commits; loops take
a message off its queue before they handle it; two processes ingest the same
fill, migrate the same database, or validate the same account; an operator
replays what a loop is executing, pauses what is being planned, closes what the
executor trades; a call to the exchange raises after the order was accepted; one
exception stops the worker with all its sessions; the memory queue and the
memory store die with their process; the lanes of one account overtake each
other. What has to come out of it: one copy of a fill per route, one order per
message, no status without its evidence, no session left waiting, a follower
that ends where the master is, and screens that tell what is so.

`PROJECT.json` lists every component with what is modelled of it, and every
hazard at the line where it bites with the properties that would catch it.

## 2. The modules

| module | models |
|---|---|
| `PipelineState` | variables and constants shared by the pipeline, `Publish` (both queue backends), initial state, type invariant |
| `Ingest` | `handle_master_event` with `plan`: one action per stretch of code between two points another party can observe |
| `Executor` | `run_executor_loop` with `execute_task` |
| `Replay` | `replay_signal` with its route |
| `CopyPipeline` | the three composed, with crashes, raising calls, expiring keys; the properties |
| `CopyContract` | the abstract specification: what is promised of the copies of a fill |
| `MasterStream` | `MasterStreamSupervisor`: source list, listeners, fallback, cache, emission, status; the properties |
| `MirrorContract` | the abstract specification: what is emitted follows the master's history |
| `SignalMath` | from a change of a position to a follower's command, as functions |
| `Adapters` | the seven exchange clients as functions: request to order, answer to verdict, rows to position |
| `FollowerBook` | `SignalMath` and `Adapters` composed over three lanes, the loops and the reconciler: one symbol of one follower |
| `ManualCommands` | `execute_command` with attached stop and target, close, cancel, over `Adapters` |
| `CopyRegistry` | the two rows and the route between them under overlapping requests, and the planner that reads them |
| `RateLimiter` | the token buckets the loops share |
| `SymbolMatching`, `InstrumentCatalog` | how symbols of two exchanges are matched; the cache of lists, its lock and its failed loads |
| `SchemaStartup` | `init_models` in several processes, SQLite and PostgreSQL |
| `WorkerHeartbeat` | the heartbeat file, its two-step write, the badge |
| `LogPages` | the trade log, read page by page while it grows |
| `DashboardStream` | the rounds of the event stream while rows are committed |
| `MCCopyPipeline`, `MCMasterStream`, `MCServices`, `MCDesk` | small instances for TLC |
| `CopyPipeline_proofs`, `OneOrder_proofs`, `CopyContract_proofs`, `MasterStream_proofs`, `CopyRegistry_proofs`, `Desk_proofs`, `Services_proofs` | theorems and their proofs |
| `Numbers_proofs` | lemmas on numbers that the last two cite |

The pieces meet in three places. An emission of `MasterStream` is a delivery of
`Ingest`, and an emission that is lost (`LoseEmission`) one whose session rolled
back. A message of `Executor` is a task of `FollowerBook`: `CopyPipeline` asks
how often it is executed and what becomes of its rows, with an order that is
accepted or not; `FollowerBook` asks what the executed quantities do to a
position, with a queue that works. The set of routes that `Ingest` plans is any
set; `CopyRegistry` says which it is.

### The pipeline

- A *delivery* is one call of `handle_master_event` in a session of its own; a
  *fill* (`Events`) is what the event key names, so two deliveries with the same
  `EventOf` are the same exchange event. `Host` says which process runs it.
- A signal row is named by the delivery that inserted it (`signal[d]`), a task
  row by that delivery and the route (`task[<<d, r>>]`): ids are fresh uuids.
  The value is the committed status, `"none"` without a committed row. Master
  event and signal are inserted and committed by one session and share the
  event key, so one variable stands for both.
- What a session has flushed and not committed is in `adopted` (the signal it
  works on: its own or a stored one), `made` (routes whose task it inserted)
  and `wanted` (the route whose insert it waits for). `seen` is the signal's
  status when it was read: SQLAlchemy writes a column only if the new value
  differs from the loaded one.
- Unique keys: a session waits (`EventHolders`, `TaskHolders`) while another
  holds the key uncommitted, and fails if the key was committed meanwhile. This
  is PostgreSQL, the database of `deployments/FARGATE_RUNBOOK.md`; with SQLite,
  which has one writer at a time, fewer interleavings are left.
- `queue[<<broker, lane, group>>]`: with the memory backend each process has a
  broker of its own and a lane is one sequence; with SQS there is one broker, a
  sequence per message group (account and symbol) and a deduplication `window`.
- `orders[m]` counts the orders the exchange accepted for message `m`; a message
  is named by its task and the session or replay that published it.
- `faults` counts crashes, rollbacks by exception and lost answers, up to
  `MaxFaults`.

`CheckIdempotency` is lines 39-42 of the orchestrator; `RejectUnknownSource`,
`LookupEvent`, `InsertEvent` follow the lookups and flushes of lines 44-62;
`ListRoutes` reads the active routes and decides which pass the filters of
`plan`; `LookupTask` and `InsertTask` are one turn of `plan`'s loop, split at the
unique key; `Remember` and `CommitIngest` are lines 75-76 and the caller's
commit. `AbortIngest` is an exception at any await, `DeadlockVictim` the
database's answer to sessions that wait in a cycle. `Consume` to
`CommitExecution` are one turn of `run_executor_loop`; the branch of a zero delta
is `SkipTask`. `BeginReplay`, `PublishReplay`, `CommitReplay`, `AbortReplay` are
`replay_signal`. `StopWorker` is what `asyncio.gather` makes of an exception, by
a crash (`WorkerCrash`) or by an exchange call that raises (`PlaceOrderRaises`,
with or without the order). External and modelled from how the code uses them:
the exchange's answer, the expiry of Redis keys (`ForgetFill`) and of the SQS
deduplication interval (`CloseWindow`), the database's deadlock detection.

### The stream supervisor

`hist[s][y]` is what the master's position in a symbol has been, in order. A
message or a REST answer is modelled by the *place* it has in that history, so
that what is told can be compared with what was true when it was made; the
quantities themselves are in `cache` (`_position_cache`) and in `copied`, the
sum of the changes the ingest took. `pc` and `mode` say where the source's task
is and whether the websocket or `_poll_positions` listens; `wire` is what the
websocket has not delivered; `stored` and `status` are columns of the row.

`Feed` describes an exchange by what its listener does: `rows` (a position
message lists the symbols that changed, all of them, or there is none),
`notice` (order messages lead to a REST call), `greets` (a subscription is
answered by a first message), `falls` (`_listen_with_poll_fallback`), `quiet`
(an error can look like an empty account). Coinbase has notices only, Binance
and Bybit only rows of changes without fallback, OKX, Kraken, BitMEX and Gate.io
both.

`Scan` is `run_forever`; `Connect` and `Receive` a listener; `Fetch` and
`FetchError` a REST call, from `_refresh_positions_from_rest` or
`_poll_positions`; `Compare`, `Reconcile` and `EndReconcile` the head, one turn
of the loop and the end of `_reconcile_positions`, each turn with its
`_emit_master_event`; `ListenerRaises`, `StartPolling`, `Retry` the fallback and
the back-off of `_monitor_source`; `WorkerCrash` a new process with an empty
cache. Outside: `MasterMoves` (external) and `EditSource`, which sets the
status column as `update_signal_source` does.

### The follower's book

`SignalMath` follows a change of the master's position through
`ResolveAction` and `BuildSignal` (`signal_normalizer.py`), `EffectiveScale`,
`ScaleTarget` and `ScaleDelta` (`scaling.py`), to the `Command` that `plan`
stores, or none (`Planned`). Quantities are integers in parts of `Den` of the
master's unit, so that products with a scale are exact and what is lost is lost
by `Normalized` alone, as in the code's decimals.

`Adapters` has one definition per client and operation: the order that
`place_order` sends for a request, the answers it takes for accepted, how the
rows of an account become a position or a list of positions, what a
cancellation reports and what a validation concludes. What an exchange does with
an order, which answers it gives and how it lists a position are external: an
`Outcome` is whether the order was taken, by how much the position moved, and the
answer. Answers may be a bad status, a good status with a body that refuses, the
same with the number of the refused order (Coinbase, BitMEX), and BitMEX's
`Canceled` about an order that traded before its rest found no counterparty
(`Parts`).

In `FollowerBook`, `MasterFill` is a change ingested and planned, `PlaceOrder`
and `ReadBack` the two halves of `execute_task` (placing and refreshing; other
lanes run in between, since no lock spans them), `Reconcile` is one turn of
`reconcile_signal`'s loop: any task, a repair too (it is a task of the signal),
compared with the position by a call of its own, within `Tolerance`, its repair
on the recovery lane. `Trade` is somebody else on the account. Ghosts count what rounding took (`misses`), whether
a target was rounded away (`lost`) and whether anything was refused or failed.

### Registry and manual commands

A request of `CopyRegistry` that reads a row and writes it after exchange calls
is a `session` with the columns as it loaded them; `Written` is what SQLAlchemy
flushes: the columns that differ from those loaded. `Create`, `Edit`,
`SetStatus`, `Delete` and `DeleteRoute` are the requests without a call in
between (an edit may move a follower to another exchange); `BeginValidation`/`CommitValidation` are the validation routes with
`credential_validation`; `BeginRoute`/`CommitRoute` and
`BeginUpdateRoute`/`CommitUpdateRoute` the copy-trade routes with
`_validate_copy_trade`. `ListRoutes` is what a delivery reads, `PlanTask` what
the planner makes of it later. `margin` stands for leverage, margin and hedge
mode, which the report compares together; `scope` for the pair scope of a
source and the symbol rule of a follower.

In `ManualCommands` a command is a chain of calls, its next one in `at`: the
main order, the position as the reference of percentages, the stop, the target,
the log; or the look at the position and the close, at the market or at the limit
price; or the cancellation. `seen` is the position that was read, and empty where
nothing was. `Fails` is an exception of any unguarded call, which rolls back the
log; `Raises` that of a call that places an order, which may have been taken all the
same.

### The services

`RateLimiter` counts tokens in quanta and time in polls: `Draw` is the body of
the lock, `Acquire` the first and `Poll` each later attempt. `InstrumentCatalog`
has the look before the lock, the look behind it (`EnterLoad`), and one load per
exchange (`LoadOne`) that answers or fails; `SymbolMatching` its pure part, with
a symbol as a sequence of parts. `SchemaStartup` has a transaction per process on
PostgreSQL and a commit per statement on SQLite; making what is there fails the
start. `WorkerHeartbeat` splits `write_text` where the file is empty.
`LogPages` splits a page at its two queries; a query numbers the rows in any way
that respects the keys of its sort column (`Orderings`), anew each time, since
nothing orders rows with equal keys (`signal_repository.py:269-271`).
`DashboardStream` splits a round at
its queries and keeps the log, task and counts that decide whether to send.

## 3. The runs

| run | instance | checks |
|---|---|---|
| `MCReplay` | 2 deliveries of a fill, one per process, 2 replays, SQS, 1 fault | `TypeOK`, `OneTaskPerFill`, `NoDuplicateCopies`, `OneOrderPerMessage`, `SettledIsBacked`, `FilledIsFinal` |
| `MCMemory` | 2 deliveries in the worker, 1 replay, memory, 2 faults | `NoDuplicateCopies`, `KeepsPromise` |
| `MCLive` | 3 deliveries in the API, 2 routes, 1 fault, fair | `EveryDeliveryEnds` |
| `MCRun` | 3 deliveries of 2 fills (one before its source is known, one with a zero delta), SQS, no fault, fair | `StoredCommandsRun`, `EveryFillIsStored`, `KeepsPromise` |
| `MCMirror` | Coinbase, 2 symbols, long, short or flat, 2 moves each, 3 failures, fair | `TypeOK`, `StatusTellsTheMode`, `MirrorsMaster`, `CatchesUp` |
| `MCPolled` | OKX, 2 symbols, 2 moves each, 2 failures, a lost emission, a restart, fair | `PollingHeals` |
| `MCServices` | six services, one scene each | `LimiterTypeOK`, `PacesEveryWindow`, `AnswersAreRecent`, `ResolvesToThePair`, `UpIsComplete`, `EveryProcessIsUp`, `BadgeTellsTheWorker`, `NothingIsSkipped`, `QuietRoundShowsTheRows` |
| `MCDesk` | registry (two scenes), manual commands on seven exchanges, eight follower accounts | `OneVerdict`, `RefusedAccountsRest`, `BadKeysAreRefused`, `RouteReportHolds`, `StopIsPlacedOrReported`, `LoggedIsWhatHappened`, `CloseNeverReverses`, `DriftStaysBounded`, `InOrderCopiesFill`, `ShrinkingFillsOnlyReduce`, `RepairReachesTarget`, `AnswersAreReadRight`, `PositionsAreReadRight` |
| `MCSerial`, `MCAttempt`, `MCPartial`, `MCPaused` | smallest instances, `MCPaused` that of `MCDesk` | statements of the user guide the code does not keep, see section 6 |

**Scenes.** `MCServices` and `MCDesk` hold several components that share no
variable and no step. The variable `scene` is chosen at the start and only the
component it names moves, so the run explores the sum of the components' state
spaces and says of each what a run of it alone would. The registry is taken in
two scenes: `accounts` (verdicts, keys, the planner, with an exact route that is
created and deleted, never updated) and `routes` (creation and updates of the
route, no validation). That loses nothing the properties could tell, because a
validation never looks at the route and a report never looks at a verdict; the
theorems of section 4 hold without the split.

**What the properties say.**

- `OneTaskPerFill`, `NoDuplicateCopies`: a redelivered fill is copied once per
  route, whatever is lost or rolled back.
- `OneOrderPerMessage`: deleting a message before handling it makes execution
  at-most-once.
- `SettledIsBacked`: a stored ACKED, FILLED or FAILED has a stored attempt, and
  ACKED or FILLED an order. `FilledIsFinal`: rows are not lost and FILLED is left
  through a replay only.
- `KeepsPromise`: the pipeline refines `CopyContract` under the mapping
  `CopyState`, which reads the state of an offer off queues, loops and orders.
- `EveryDeliveryEnds`, `EveryFillIsStored`, `StoredCommandsRun`: liveness.
- `MirrorsMaster`: the supervisor refines `MirrorContract`: what was emitted for
  a symbol adds up to a position the master had, and later emissions are of
  later positions, through broken reconciliations, reconnections and fallback.
  `MCMirror` takes errors to raise; an error that reads as an empty account
  (Coinbase's 404 is one) belongs to `MCPolled`.
- `CatchesUp`, `PollingHeals`: once the master stops, what was emitted adds up to
  its positions; whatever was misread, lost or forgotten, the cache of a polled
  source comes to them. `StatusTellsTheMode`: the status column names who listens.
- `DriftStaysBounded`: rounding each fill on its own costs at most a grain per
  fill that did not fit, in whatever order the lanes ran. A grain is the smallest
  order, up to whole steps: with steps of 5 and a minimum of 6 a change of 9 is
  lost, which is more than either. `InOrderCopiesFill`: a command that is not
  overtaken or disturbed is read back as FILLED on each exchange, so scaling,
  order, position and target agree on sign, unit and side, for a route whose
  share is positive (section 6).
- `ShrinkingFillsOnlyReduce`, `CloseNeverReverses`: what copies a reduction, and
  a manual close of a position read earlier, never turns or enlarges it, whoever
  else trades (Coinbase apart, whose client never says reduce-only).
- `RepairReachesTarget`: a repair, also one of a repair, ends at its task's target
  if nobody touched the account since the comparison. `PositionsAreReadRight`: both
  ways of reading rows agree with the exchange.
- `AnswersAreReadRight`: an accepted order has moved the position and a FAILED one
  has not. Two clients misread one answer each (section 6), and the property says
  which and in which direction; their other errors it would find, and all errors of
  the five others.
- `StopIsPlacedOrReported`: of an accepted order's stops, one with a price is always
  in the log, and one in percent is, or the log tells that the reference could not
  be read, or the reference was read and flat. A read that failed without a word in the
  log violates it (its mutant does that). `LoggedIsWhatHappened`: the log of an
  answered command lists as accepted the orders that were taken, with the same two
  exceptions.
- `OneVerdict`, `RouteReportHolds`: sessions that write only what they changed
  never mix two verdicts, nor leave a report of another mode.
  `RefusedAccountsRest`, `BadKeysAreRefused`: a refused account gets no task, and
  bad keys are never called verified.
- `PacesEveryWindow`: no window of time sees more calls than a full bucket and
  what flows in meanwhile, however many loops poll.
- `AnswersAreRecent`, `ResolvesToThePair`: no answer from a list that was never
  loaded or is too old, and the right pair with usable limits, for symbols whose
  base does not begin with the letters of a contract prefix (section 6).
- `UpIsComplete`, `EveryProcessIsUp`: processes that migrate one database at once
  serve only when it is complete, and come up in the end.
- `NothingIsSkipped`: who turns the pages to the last has seen every row there was
  when he began that has a place of its own among the rows (`HasItsPlace`), and rows
  that tie if they all fit on one page, whatever is appended between the queries.
  Rows that tie over more than a page have no place, and the code promises nothing of
  them (section 6).
- `BadgeTellsTheWorker`, `QuietRoundShowsTheRows`: what the operator is shown of the
  worker and of rows that change.

**Bounds.** In `MCMemory` a replay meets a queue that dies with its worker; in
`MCReplay` two of them race with each other and with a loop. Two deliveries are
what a race on a key needs and three what a cycle of waiting sessions needs
besides the session that stored the signal; two routes are what a cycle and a
partial fan-out need. One fault reaches every place a crash can hit, and the
memory run takes two. `MaxFaults` is the pipeline's only counter bound;
everything else is finite because deliveries and replays are. `MCReplay` takes
its two replays for symmetric, which is sound: it checks safety only, and no
definition tells replays apart. Symmetry is not used elsewhere.
For the supervisor two symbols are what a partial list and a reconciliation that
breaks in the middle need, two moves what a position that opens and closes
behind the listener's back needs; `MaxDrops`, `MaxLosses` and `MaxCrashes` bound
the failures, `MaxMoves` the master.
In the book three fills (`MaxFills`) let a position open, flip or grow and close
with all three on different lanes; positions are -1, 0 and 1 units, and 2 for
the account that copies half and only whole units. Fills and repairs
(`MaxRepairs`) are three together, and four on Kraken's account: a repair of a repair
needs one fill and two repairs, a stale target two fills and a repair. There is a
`Tolerance` of half a unit, and one disturbance (`MaxFaults`). Eight accounts cover the seven exchanges, exact
copies, a half scale, a scale whose grain does not divide it, and a symbol rule. Two
sessions of the registry are a race, and one edit (`MaxEdits`) the change under
one; the row may be deleted meanwhile. In the scene of the accounts one of the
sessions creates the route, exact and enabled, and the source is not edited and
validated only as long as there is no follower, because nothing reads its
verdict. In the scene of the routes the source keeps one environment and margin, with
which the follower's are compared. Two commands of six
requests (a percentage stop with a target, a stop price, an order that is a stop
itself, a close at the market, one at a limit, a cancellation; each pair once, since
the two commands are alike) for two units
(`Quantity`, so that an order can be filled in part), with two other trades,
refusals, parts or failures (`MaxOthers`), are what a stale position and a raising
call between two orders need.
The limiter has two loops on one bucket of two tokens with half a token a tick
(`MaxCalls`, `MaxClock`: five calls in six ticks, past the point where the bucket
is empty and where it is full again); the catalog two callers, three exchanges
and a time to live shorter than the run (`MaxMinute`), so that lists expire while
others load; startup two processes from every older schema with one stop
(`MaxStops`); the heartbeat a lag of one second and three starts (`MaxLag`,
`MaxStarts`); the log four rows of three `Times` on pages of two (`MaxRows`), so that
rows tie within a page and across its border; the dashboard two
tasks and five commits (`MaxTasks`, `MaxCommits`).
Where behaviours end because the deliveries, clocks or commits are used up, the
configurations switch deadlock checking off; that nothing is stuck before is
`EveryDeliveryEnds` and `EveryProcessIsUp`. Deadlock is checked for the
supervisor.

**Fairness.** Weak fairness of each ingest session, of each executor loop and of
a replay once it began: the event loop runs what is ready, every database,
queue and exchange call has a timeout or is answered, a worker that stopped is
started again by its service. No fairness on faults, on the expiry of keys, or
on the start of a replay. For the supervisor: of the first scan, and of each
source's task, whose calls end or raise and whose connection delivers what was
sent on it; none on the master, on the operator's edits or on failures. For
startup: of each process' start, which its service repeats
(`deployments/FARGATE_RUNBOOK.md`).

## 4. What is proved

`CopyPipeline_proofs` proves, for any finite or infinite sets of deliveries,
replays, routes and fills, any number of faults and both backends, from
`ConstantsOK` alone:

- `TypeCorrect`: `Spec => []TypeOK`. `TypeOK` is not inductive by itself: a
  loop reads `xmsg[l].task`, so `HandsFull` adds that a loop that is not idle
  holds a message, a replay that publishes has its signal, a session that
  inserts a task has its route.
- `OneTask`: `Spec => []OneTaskPerFill`, and `OneCopy`:
  `Spec => []NoDuplicateCopies`. The inductive invariant is `KeyInv`.
  `SignalInv` says that of all stored signals and all sessions that hold an
  uncommitted one there is one per fill, and that a session works on a signal of
  its own fill; `TaskKeyUnique` says the same of the task key. Both range over
  stored *and* flushed rows: the stored part alone does not survive a commit.
  `LoopSound`, `ReplaySound` and `OrderSound` say that what a loop or a replay
  works on is stored, hence an order belongs to a stored task, and two orders of
  planned commands for one copy to one task.
- `Backed`: `Spec => []SettledIsBacked`. `BackedInv` adds `AckedHasOrder` to
  `KeyInv` and the property: the commit stores what the loop was told by the
  exchange some steps earlier, so a loop that holds ACKED or FILLED must already
  have made an order for a task of its message.

`OneOrder_proofs` goes on from `KeyInv`, also from `ConstantsOK` alone:

- `OneOrder`: `Spec => []OneOrderPerMessage`. That a message has one order at most
  needs that it is in one place: `InOnePlace` says that it waits once or one loop
  holds it, `OrdersCounted` that nothing that waits or is not yet sent has an order.
  A publication could break the first, so `Traced` says that whatever is somewhere
  was published, and `FreshNext` that what a session or a replay publishes next was
  not. A crash only removes; that `Consume` deletes before it hands over is what
  keeps the rest.
- `FilledStays`: `Spec => FilledIsFinal`. A loop that commits could write over a
  FILLED task only for a second command. `FilledKept` says that the planner's
  command of a FILLED task is over (published, on no queue, in no loop), unless a
  replay selected the task; the task's own session cannot commit it again.

`CopyContract_proofs` proves `Implements`: `Spec => KeepsPromise`, the refinement of
`CopyContract`, for every instance. Under `PromiseInv` (`CommandInv`, and that a
message waits in its own group) the state of an offer is decided by whether one of
its messages has an order, is on its way or was published (`StatesAre`): an offer has
several messages, one per delivery of the fill, but at most one is of a stored task
(`OneStored`), so it is never carried out twice. Three lemmas give the contract's
steps: `LapseStep` (messages are lost or end), `CarryStep` (an order is placed, with a
crash or without) and `OfferStep` (a message is published, or dropped by the
deduplication); one lemma per party shows which of them its actions are.

`MasterStream_proofs` proves about the supervisor, from `StreamConstantsOK`:

- `StreamTypeCorrect`: `Spec => []TypeOK`. `TypeInv` adds `InRange`: a told or
  waiting place exists in the history, without which the cache could be set to
  anything.
- `StatusTells`: `Spec => []StatusTellsTheMode`, for every kind of feed and any
  failures and restarts. `StatusFits` adds that a task's place fits its mode, and
  what the status is during a reconciliation, whose end may leave it unset.
- `Mirrors`: `Spec => MirrorsMaster`, assuming `AllInOrder`. The assumption is
  what the code needs: no emission is lost, the worker does not restart, errors
  raise, and positions come by REST only, or by rows only that list everything
  (or the one symbol there is). `MirrorInv` says that the cache and the emitted
  sum both are the position at `upto`, that what is told and what waits on the
  wire is not behind it (`Forward`), and that REST answers and rows never mix
  (`OneWay`). Without the assumption the property fails, as `MCPartial` shows.

`CopyRegistry_proofs` proves, for any number of overlapping requests, any
exchanges and edits, with and without foreign keys (only the last one needs an
assumption, `ExchangesKnown`: the accounts are on the seven exchanges):

- `OneVerdictEver`: `RegistrySpec => []OneVerdict`. It is not inductive: a
  session writes the columns in which what it concludes differs from what it
  loaded. `VerdictsAgree` says the same of every verdict a request has loaded, and
  then columns that agree in the row, in the load and in the conclusion are
  written together (`WrittenAgrees`).
- `RefusedRest`: `RegistrySpec => []RefusedAccountsRest`. `RefusalsStay` says
  that a follower that was only refused reads FAILED, and that a request that
  loaded it then can have loaded PENDING or FAILED only; so writing FAILED over
  it, or leaving it because nothing differs, both keep it.
- `ReportsTrue`: `RegistrySpec => []RouteReportHolds`. `ReportsHold` says of every
  request under way that the reports it holds are those of the rows, as long as
  nothing was edited; whatever mode the row has when it is written, its report is
  taken for that mode.
- `BadKeysRefused`: `RegistrySpec => []BadKeysAreRefused`, over the clients of all
  seven exchanges: `RefusalsAreRead` says that no client of `Adapters` reads a
  refusal of the keys as a good answer. `KeysHold` says that while nothing was
  edited, a request that validates asks about the keys the row has, and had loaded
  nothing better than that.

`Desk_proofs` is about what reaches an exchange, for each of the seven. It begins
with the clients of `Adapters`: `OrdersAreSent` says that each client but Coinbase's
sends that an order only reduces, `ReducingOnlyReduces` what an exchange fills of
one, `OutcomesTell` that an answer read as accepted is of an order that was taken,
and one read as refused of an order that was not and moved nothing, but for the
two answers that are misread (section 6), `RowsAreRead` that the position read is the one there is.

For any number of manual commands at once, with any trades and failures beside
them, from `ManualConstantsOK`:

- `LogsAreTrue`: `ManualSpec => []LoggedIsWhatHappened`, and `StopsAreTold`:
  `ManualSpec => []StopIsPlacedOrReported`. The properties speak of ended commands;
  `ManualInv` says of a command under way that what it will answer is what the
  exchange did (`AnswersTrue`, with the exceptions of Coinbase and BitMEX) and, past the
  reference and past the stop, what the answer must hold of it (`StopsKept`): `seen`
  keeps a reference that was read apart from one that was not.
- `ClosesOnlyReduce`: `ManualSpec => CloseNeverReverses`, whatever was traded between
  the read and the order, and however the answer is read: what it says of the position
  is what the exchange fills of a reducing order, in whole or in part.

For the book, with any terms of a route (any scale, also one that is not positive;
any symbol rule, step and minimum), any fills, lanes in any order, refusals,
repairs and trades of others, from `DenIsPositive` and
`BookConstantsOK`:

- `DriftIsBounded`: `BookSpec => []DriftStaysBounded`. What makes it true is that both
  sides are sums. `AddsUp` says that, undisturbed, the position is the sum of the
  commands that were executed, whichever they were; `PlanAddsUp` that the planned
  commands sum up to the share of what the master has, within a grain for each fill
  of which a part was rounded away (`DeltaIsClose`, from `DroppedIsSmall`). When the
  lanes are empty every command was executed and the two sums are one. A sum is
  carried as the function of its partial sums, since it is not the order of the
  plan in which a position grows: `ExecutingAddsUp` shows that executing one more
  command, anywhere in it, adds that command's quantity to the total, and `SameSums`
  that two such functions with the same differences agree. `LaneHolds` says that a
  lane holds queued commands only and each once; without it one could be executed
  twice.
- `InOrderFills`: `BookSpec => InOrderCopiesFill`. `AimsAreMet` says that the commands up
  to any one sum up to its target as long as nothing was rounded; a command that runs
  in its place has all before it executed and none behind it, so the position is its
  target (`PrefixReachesAim`). That the loop then reads it so, with the side that
  belongs to the sign, is `TargetIsTheShare` and `RowsAreRead`.
- `ShrinkingReduces`, `RepairsReach`, `AnswersRead`: the three action properties of an
  order that is placed. They need of the past only that a command was made by the
  planner or the reconciler (`CommandHolds`): a shrinking one is told to reduce only, a
  repair's quantity is the difference it found, of a task or of another repair. For
  `RepairsReach` and `AnswersRead` the answers are all those of `Outcomes`, so the two
  misread ones are exceptions of the theorems too.
- `PositionsRead`: `BookSpec => []PositionsAreReadRight`, for any position.

`Services_proofs` is about the six services:

- `BucketsHold`: `LimiterSpec => []LimiterTypeOK`, and `Paces`: `LimiterSpec =>
  []PacesEveryWindow`, for any loops, keys, capacities and rates. The window of the
  property ends at a call; `NothingSavedUp` is the window that ends now and counts
  the tokens still in the bucket, and is what survives a draw, a wait and the cap.
- `AnswersRecent`: `CatalogSpec => []AnswersAreRecent`, for any callers, exchanges and
  lists. `ListsAsHeard` says that the entries are those of the last answer, which is no
  older than the time they count from; `LoadsInTime` that a loader has heard what it
  has loaded after it took that time, and holds the lock no longer than a load may
  take. That this is less than the time to live is assumed: seconds
  (`core/config.py:38`) against minutes. Were it not, an answer could be given from
  a list that had become too old while the others were loaded.
- `PairsAreFound`: `CatalogSpec => []ResolvesToThePair`, assuming `AllSpelled`: the
  symbols asked for and the rows of the lists are a base and a quote with a known
  prefix before and a known suffix behind, or without, and no listed base begins with
  the letters of a prefix. `MCServices` states it of its rows. `SymbolKey` is why keys
  are then pairs, `StrippedOfContract` what taking off prefix and suffix leaves,
  `KeyFindsThePair` that key and spelling find the rows of the pair and no others.
  Without the assumption the property fails: a contract on `INBTC` is taken for one
  on `BTC` (section 6).
- `ServesOnAll`: `SchemaSpec => []UpIsComplete`, for any processes, tables, columns and
  older versions, on both databases. `LookedFor` says that what a process has not still
  to make is committed or in its own transaction, hence committed when it is up.
- `BadgeIsHonest`: `HeartbeatSpec => []BadgeTellsTheWorker`, for any period, age and delay
  of the write.
- `PagesSkipNothing`: `LogSpec => []NothingIsSkipped`, for any table, filter, sort
  column, order and page size, and any order the database gives to rows that tie. A row
  without ties has the same number in every numbering, one more than the rows before
  it (`NumbersTellThePlace`). Rows that arrive only add to these, so what has a place
  and is not read yet is never on an earlier page (`Reached`); a row that loses its
  place to a later one that ties with it is not spoken of.
- `ShowsTheRows`: `DashboardSpec => []QuietRoundShowsTheRows`. `LogBeforeTasks` is the
  reason the code's order of queries matters: a snapshot whose log is still the newest
  has the tasks as they are. It holds of the round from the second query on and of
  what was sent.

`Numbers_proofs` has what these arguments need of numbers: the sign and order of
products and the rounding to whole steps; `HasLeast`, that a set of numbers has a
least one, by the well-foundedness of strict inclusion among the finite prefixes;
and `SameSums`, by the least place where two functions would differ. That is how an
induction is made here: the library's induction rules take an operator, which the
provers cannot instantiate.

Each proof is laid out as initial state, one lemma per party or action, and a
temporal step.

Only model-checked: liveness under fairness (`EveryDeliveryEnds`, `StoredCommandsRun`,
`EveryFillIsStored`, `CatchesUp`, `PollingHeals`, `EveryProcessIsUp`), since `ENABLED` is
beyond the proof system's backends. That removing separators from a symbol leaves its
other parts (`Normalized`, a recursion over the symbol) is part of `AllSpelled`.

## 5. Plan

Done: the pipeline, the supervisor, the arithmetic and the adapters composed in
the book, the registry, the manual commands and the services. Left:

1. Proofs: the pieces of the liveness arguments that are safety (what a session that
   waits is waiting for, what a scan has still to see).
2. Two rows of one symbol (hedge mode), in `Adapters` and `MasterStream`.
3. `MasterStream` composed with `Ingest`, so that an emission is lost exactly when
   its session rolls back.

## 6. Where the code and its documents disagree

- `SerialPerSlot` (`MCSerial`): `USER_GUIDE_CN.md:148` says that orders of one
  account on one symbol run serially. The lock is in an executor that is built
  for each message, so three loops run without it.
- `EveryTaskAttempted` (`MCAttempt`): `USER_GUIDE_CN.md:10` says that every task
  has an attempt. A loop that consumes the command before the task is committed
  drops it, with nothing having failed.
- `MirrorsMaster` (`MCPartial`): `USER_GUIDE_CN.md:7` says that the master's real
  position changes become signals. A position message that lists the symbol that
  changed is taken for all positions: every other cached symbol is emitted as
  closed.
- `PausedAccountsRest` (`MCPaused`): `USER_GUIDE_CN.md:106-113` has an active
  follower among the conditions of copying. The planner never looks at the status
  that pausing sets (`services/fanout_planner.py:37-47`).

Met while modelling and not given a run of their own. In the pipeline:

- When `place_order` raises, the attempt is rolled back: an order without a record
  (`USER_GUIDE_CN.md:149` says that every execution is recorded).
- With the memory backend the API publishes to a queue that no loop reads
  (`core/dependencies.py:48`); `USER_GUIDE_CN.md:30` has the worker consume it.
- A reduction to less than a grain gets no command (`fanout_planner.py:78-81`),
  and neither does the close of what is left, so dust stays open after the master
  is flat; `USER_GUIDE_CN.md:231-237` admits differences of the minimum size.
- A CLOSE that overtakes its OPEN is refused, then the OPEN executes.
- Nothing refuses a negative scale (`schemas/api.py`). The order then has the sign of
  the scaled change and the target the side of the master, so that what is executed
  is not what is compared.

In the supervisor:

- A source that is activated while another is watched is not listened to until the
  worker restarts, and one that is paused still is (`private_streams.py:42`).
- The position cache starts empty with each worker, so what was copied before a
  restart is emitted again as OPEN (`:26`); and it is set before the emission, so
  a change whose ingest failed is never emitted again (`:441`, `:497`).
- Where order messages and rows both come (OKX, Kraken, BitMEX, Gate.io), a row
  that waited while a REST call was answered is emitted after the newer answer
  (`:121`). An error taken for an empty account emits the close of everything
  (`exchanges/okx.py:166`, `exchanges/coinbase.py:133`). The Binance and Bybit
  listeners never fetch positions, so what changed outside a connection stays
  uncopied until the same symbol changes again (`:216`), and the Binance listen
  key is not renewed.

In the clients and commands:

- `STOP_MARKET` becomes a limit order without a trigger on OKX, Kraken, BitMEX,
  Gate.io and Coinbase, and a type Bybit does not have; Coinbase is never told that
  an order only reduces; an account's environment does not select the base URL of
  OKX, Binance and Bybit.
- Two answers are misread. A refusal that names the order with a good status counts as
  accepted at Coinbase (`exchanges/coinbase.py:76`: the `or` overrules `success`): a
  task is ACKED, or a command logged, for an order that does not exist. An order at
  BitMEX that traded and whose rest was cancelled comes back as `Canceled` and counts as
  failed (`exchanges/bitmex.py:72`): the position moved under a task that says FAILED,
  and after a manual order no stop is placed for what it opened.
- An exception of an attached order is not caught, so accepted orders lose their
  log, although the comment at `api/routes.py:1211` reports network failures to the
  audit. A percentage stop is left out in silence when the position is read flat. A
  cancellation is logged as accepted whatever the client reports.

In the registry and the services:

- Changing credentials does not reset a verdict, and editing an account does not
  remake the report of its routes; nor does moving a follower to another exchange. A
  route created disabled keeps the status
  PAUSED when its flag is set by the form (`api/routes.py:948`). Deleting an account
  with routes fails in the database although the page asks for confirmation.
- A repair's identifier is taken once per task, so reconciling a second time
  fails, and an old signal is repaired to a target that is outdated.
- Pages of the log are not consistent for rows that tie: `ORDER BY` has one column
  (`signal_repository.py:269-271`), so a row of an equal timestamp may change places
  with one across the border of a page and be missed, or be seen twice. Both filters
  of the screens offer `sort_by=pnl` (`api/routes.py:1127`); nobody gives a row
  a `pnl`, so in a log of more than one page every row ties.
- A failed load of a catalog is kept like a good one. Symbols whose base begins
  with a contract prefix (PI, PF, FF, FI, IN) lose these letters.
- The columns added as `DATETIME` do not exist on PostgreSQL: an old database
  there never gets them (`EveryProcessStarts` leaves this case out).
- A log that commits after one with a later time is not noticed by the stream
  before the next event; the badge may show UNKNOWN while the file is rewritten.

## 7. Not modelled

- Signing, HTTP and formatting in the exchange clients, their lists of instruments
  and the layouts of stream messages; accounts with two rows per symbol. What the
  models need of them is a free choice of outcomes.
- Market orders filled in part on an exchange other than BitMEX: their answers do not
  tell, so the client could not either.
- Further targets of a manual command (each is the same call again), its DCA stub,
  presets and the preview, which change nothing at an exchange.
- Currency rates (a cache for display), secrets (no state of the system), both web
  interfaces (clients of the API), scripts (run by hand), settings (constants).
- The content of log rows and of dashboard payloads, and request validation.
- The clock that names an emitted fill (`private_streams.py:444`): two changes of a
  symbol in a millisecond share a key; the model takes this for a lost emission.
