---------------------------- MODULE PipelineState ----------------------------
(***************************************************************************)
(* The state shared by the parts of the copy-trading pipeline: the rows    *)
(* that are committed in the database, the idempotency stores, the three   *)
(* task queues, and the session each part keeps open while it works.       *)
(*                                                                         *)
(*   Ingest    services/orchestrator.py handle_master_event, fanout_planner *)
(*   Executor  workers/executor.py, services/account_executor.py           *)
(*   Replay    services/orchestrator.py replay_signal                      *)
(*                                                                         *)
(* A row is committed or it is in one session only: what a session flushed *)
(* is visible to that session alone until its commit, and a unique index   *)
(* makes a second writer of the same key wait for the first (the database  *)
(* of the documented deployment, deployments/FARGATE_RUNBOOK.md, is        *)
(* PostgreSQL at its default isolation level).                             *)
(***************************************************************************)
EXTENDS Naturals, Sequences

CONSTANTS
    Deliveries,  \* arrivals of a master fill at the orchestrator, one session each
    Replays,     \* replay requests of the operator, one session each
    Routes,      \* copy trades of the signal source
    Events,      \* master fills: what an idempotency key names
    Registered,  \* the deliveries whose locator matches a stored signal source
    Accounts,    \* follower accounts
    Symbols,
    EventOf,     \* delivery -> the fill it carries
    Host,        \* delivery -> the process it runs in, "api" or "worker"
    AccountOf,   \* route -> follower account
    SymbolOf,    \* fill -> symbol
    ActionOf,    \* fill -> the action the normalizer derives from it
    Backend,     \* settings.queue_backend, "memory" or "sqs"
    None,        \* no row, no message, no route
    MaxFaults    \* bound on crashes, aborts and lost answers in one behaviour

Processes == {"api", "worker"}
Brokers == {"api", "worker", "shared"}
Lanes == {"normal", "risk", "recovery"}
Actions == {"OPEN", "INCREASE", "REDUCE", "CLOSE", "FLIP", "SYNC_TO_TARGET_POSITION"}

ASSUME ConstantsOK ==
    /\ Registered \subseteq Deliveries
    /\ EventOf \in [Deliveries -> Events]
    /\ Host \in [Deliveries -> Processes]
    /\ AccountOf \in [Routes -> Accounts]
    /\ SymbolOf \in [Events -> Symbols]
    /\ ActionOf \in [Events -> Actions]
    /\ Backend \in {"memory", "sqs"}
    /\ MaxFaults \in Nat
    /\ Deliveries \cap Replays = {}
    /\ None \notin Deliveries \cup Routes \cup Replays

\* A task row is named by the session that inserted it (its id is a fresh
\* uuid4) and the route it is for; a message by its task and the session that
\* published it.
Tasks == Deliveries \X Routes
Messages == [task : Tasks, via : Deliveries \cup Replays]
Slots == Accounts \X Symbols
TaskStatus == {"none", "DISPATCHED", "ACKED", "FILLED", "FAILED", "SKIPPED"}
SignalStatus == {"none", "DISPATCHED", "SKIPPED"}

VARIABLES
    signal,    \* committed signal row a delivery inserted: its status
    task,      \* committed execution task: its status
    attempts,  \* number of committed execution attempts of a task
    known,     \* idempotency store of each broker: the fills remembered there
    queue,     \* per broker, lane and message group: what is waiting
    window,    \* SQS deduplication ids accepted in the last five minutes
    pc, adopted, seen, todo, wanted, made,  \* ingest sessions
    xpc, xmsg, xseen, xresult,              \* the worker's three executor loops
    rpc, rsignal, rseen, rtodo, rsent,      \* replay sessions
    orders,    \* orders the exchange accepted on behalf of a message
    faults     \* faults so far

dbVars == <<signal, task, attempts>>
ingestVars == <<pc, adopted, seen, todo, wanted, made>>
workerVars == <<xpc, xmsg, xseen, xresult>>
replayVars == <<rpc, rsignal, rseen, rtodo, rsent>>
vars == <<dbVars, known, queue, window, ingestVars, workerVars, replayVars,
          orders, faults>>

\* With the memory backend every process has a queue and an idempotency store
\* of its own; with SQS both processes share one queue set and one Redis.
BrokerOf(p) == IF Backend = "sqs" THEN "shared" ELSE p

\* An SQS FIFO queue is in order per message group, the account and symbol of
\* the task; a queue in memory is one sequence per lane.
Groups == Slots \cup {<<>>}
Places == Brokers \X Lanes \X Groups

IngestSteps == {"new", "missed", "insertEvent", "list", "plan", "insertTask", "commit"}
IngestEnds == {"done", "duplicate", "aborted"}

\* An ingest session that has flushed rows and neither committed nor rolled back.
Open(d) == pc[d] \in {"list", "plan", "insertTask", "commit"}

SlotOf(t) == <<AccountOf[t[2]], SymbolOf[EventOf[t[1]]]>>

GroupOf(t) == IF Backend = "sqs" THEN SlotOf(t) ELSE <<>>

\* The unique key of a task: its signal and its copy trade (the action, the
\* symbol and the version are the signal's).
KeyOf(t) == <<adopted[t[1]], t[2]>>

\* TaskQueue.publish: an asyncio queue appends; an SQS FIFO queue accepts and
\* drops a message whose deduplication id it has seen within five minutes.
Publish(p, lane, m) ==
    LET place == <<BrokerOf(p), lane, GroupOf(m.task)>>
        id == <<lane, KeyOf(m.task)>>
    IN  IF Backend = "sqs" /\ id \in window
        THEN UNCHANGED <<queue, window>>
        ELSE /\ queue' = [queue EXCEPT ![place] = Append(@, m)]
             /\ window' = IF Backend = "sqs" THEN window \cup {id} ELSE window

PipelineInit ==
    /\ signal = [d \in Deliveries |-> "none"]
    /\ task = [t \in Tasks |-> "none"]
    /\ attempts = [t \in Tasks |-> 0]
    /\ known = [b \in Brokers |-> {}]
    /\ queue = [place \in Places |-> <<>>]
    /\ window = {}
    /\ pc = [d \in Deliveries |-> "new"]
    /\ adopted = [d \in Deliveries |-> None]
    /\ seen = [d \in Deliveries |-> "none"]
    /\ todo = [d \in Deliveries |-> {}]
    /\ wanted = [d \in Deliveries |-> None]
    /\ made = [d \in Deliveries |-> {}]
    /\ xpc = [l \in Lanes |-> "idle"]
    /\ xmsg = [l \in Lanes |-> None]
    /\ xseen = [l \in Lanes |-> "none"]
    /\ xresult = [l \in Lanes |-> "none"]
    /\ rpc = [rp \in Replays |-> "idle"]
    /\ rsignal = [rp \in Replays |-> None]
    /\ rseen = [rp \in Replays |-> "none"]
    /\ rtodo = [rp \in Replays |-> {}]
    /\ rsent = [rp \in Replays |-> {}]
    /\ orders = [m \in Messages |-> 0]
    /\ faults = 0

\* One type invariant for the whole pipeline.
TypeOK ==
    /\ signal \in [Deliveries -> SignalStatus]
    /\ task \in [Tasks -> TaskStatus]
    /\ attempts \in [Tasks -> Nat]
    /\ known \in [Brokers -> SUBSET Events]
    /\ queue \in [Places -> Seq(Messages)]
    /\ window \subseteq Lanes \X ((Deliveries \cup {None}) \X Routes)
    /\ pc \in [Deliveries -> IngestSteps \cup IngestEnds]
    /\ adopted \in [Deliveries -> Deliveries \cup {None}]
    /\ seen \in [Deliveries -> SignalStatus]
    /\ todo \in [Deliveries -> SUBSET Routes]
    /\ wanted \in [Deliveries -> Routes \cup {None}]
    /\ made \in [Deliveries -> SUBSET Routes]
    /\ xpc \in [Lanes -> {"idle", "fetched", "loaded", "placing", "acked", "commit"}]
    /\ xmsg \in [Lanes -> Messages \cup {None}]
    /\ xseen \in [Lanes -> TaskStatus]
    /\ xresult \in [Lanes -> TaskStatus]
    /\ rpc \in [Replays -> {"idle", "publishing", "done", "aborted"}]
    /\ rsignal \in [Replays -> Deliveries \cup {None}]
    /\ rseen \in [Replays -> SignalStatus]
    /\ rtodo \in [Replays -> SUBSET Tasks]
    /\ rsent \in [Replays -> SUBSET Tasks]
    /\ orders \in [Messages -> Nat]
    /\ faults \in 0..MaxFaults
=============================================================================
