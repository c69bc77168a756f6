----------------------------- MODULE CopyPipeline -----------------------------
(***************************************************************************)
(* The pipeline from a master fill to the followers' orders: the ingest     *)
(* sessions of the API and of the worker's stream listener, the worker's    *)
(* executor loops and the operator's replays, interleaved at every await    *)
(* that another party can see, with processes that crash and exchange calls *)
(* that raise.                                                              *)
(***************************************************************************)
EXTENDS Ingest, Executor, Replay

\* workers/runtime.py gathers the loops and the listener: the exception of one
\* (a secret, the database, the queue) ends them all, as a crash does. Sessions roll back, the stores of the process are lost, and
\* the process is started again.
StopWorker ==
    /\ xpc' = [l \in Lanes |-> "idle"]
    /\ xmsg' = [l \in Lanes |-> None]
    /\ Abort({d \in Deliveries : Host[d] = "worker" /\ pc[d] \in IngestSteps \ {"new"}})
    /\ queue' = [place \in Places |-> IF place[1] = "worker" THEN <<>> ELSE queue[place]]
    /\ known' = [known EXCEPT !["worker"] = {}]
    /\ UNCHANGED <<dbVars, window, adopted, seen, todo, made, xseen, xresult, replayVars>>

WorkerCrash ==
    /\ faults < MaxFaults
    /\ faults' = faults + 1
    /\ StopWorker
    /\ UNCHANGED orders

\* place_order raises (a timeout, a broken connection): the order may or may
\* not have reached the exchange, and nothing in the loop catches the error.
PlaceOrderRaises(l) ==
    /\ xpc[l] = "placing"
    /\ faults < MaxFaults
    /\ faults' = faults + 1
    /\ \/ UNCHANGED orders
       \/ orders' = [orders EXCEPT ![xmsg[l]] = @ + 1]
    /\ StopWorker

ApiCrash ==
    /\ faults < MaxFaults
    /\ faults' = faults + 1
    /\ Abort({d \in Deliveries : Host[d] = "api" /\ pc[d] \in IngestSteps \ {"new"}})
    /\ rpc' = [rp \in Replays |-> IF rpc[rp] = "publishing" THEN "aborted" ELSE rpc[rp]]
    /\ queue' = [place \in Places |-> IF place[1] = "api" THEN <<>> ELSE queue[place]]
    /\ known' = [known EXCEPT !["api"] = {}]
    /\ UNCHANGED <<dbVars, window, adopted, seen, todo, made, workerVars,
                   rsignal, rseen, rtodo, rsent, orders>>

\* The Redis key of a fill has a time to live; SQS forgets a deduplication id
\* after five minutes. Both are outside the code.
ForgetFill(e) ==
    /\ e \in known["shared"]
    /\ known' = [known EXCEPT !["shared"] = @ \ {e}]
    /\ UNCHANGED <<dbVars, queue, window, ingestVars, workerVars, replayVars,
                   orders, faults>>

CloseWindow(id) ==
    /\ id \in window
    /\ window' = window \ {id}
    /\ UNCHANGED <<dbVars, known, queue, ingestVars, workerVars, replayVars,
                   orders, faults>>

Init == PipelineInit

Next ==
    \/ \E d \in Deliveries : IngestStep(d) \/ AbortIngest(d)
    \/ \E l \in Lanes : ExecutorStep(l) \/ PlaceOrderRaises(l)
    \/ \E rp \in Replays : ReplayStep(rp) \/ AbortReplay(rp)
    \/ WorkerCrash
    \/ ApiCrash
    \/ \E e \in Events : ForgetFill(e)
    \/ \E id \in window : CloseWindow(id)

Spec == Init /\ [][Next]_vars

\* The event loops run what is ready, the database and the exchange answer
\* (every call has a timeout), and a process that died is started again. A
\* replay begins only if an operator asks for it, and nothing has to fail.
Fairness ==
    /\ \A d \in Deliveries : WF_vars(IngestStep(d))
    /\ \A l \in Lanes : WF_vars(ExecutorStep(l))
    /\ \A rp \in Replays : WF_vars(PublishReplay(rp) \/ CommitReplay(rp))

FairSpec == Spec /\ Fairness

-----------------------------------------------------------------------------
SameCopy(t, u) == EventOf[t[1]] = EventOf[u[1]] /\ t[2] = u[2]
Planned(t) == [task |-> t, via |-> t[1]]
MessagesOf(t) == {[task |-> t, via |-> v] : v \in Deliveries \cup Replays}

\* However often a fill is delivered, concurrently, after a rollback or with
\* the idempotency key lost, at most one execution task of it is stored for a
\* route (the unique keys of master event, signal and task together).
OneTaskPerFill ==
    \A t, u \in Tasks :
        task[t] # "none" /\ task[u] # "none" /\ SameCopy(t, u) => t = u

\* However often a fill is delivered, the commands the planner sends for it
\* make the exchange accept at most one order for a route: the command of a
\* session that rolled back is never executed next to that of its retry.
NoDuplicateCopies ==
    \A t, u \in Tasks :
        orders[Planned(t)] > 0 /\ orders[Planned(u)] > 0 /\ SameCopy(t, u) => t = u

\* A message is taken off its queue before it is handled, so a crash between
\* the order and the commit never makes the worker send the order again: one
\* message, one order, and a replayed one only if a replay selected the task.
OneOrderPerMessage ==
    \A m \in Messages :
        /\ orders[m] <= 1
        /\ orders[m] = 1 /\ m.via \in Replays => m.task \in rsent[m.via]

\* No status without its evidence: a stored ACKED, FILLED or FAILED task has a
\* stored attempt, and an ACKED or FILLED one an order at the exchange.
SettledIsBacked ==
    \A t \in Tasks :
        /\ task[t] \in {"ACKED", "FILLED", "FAILED"} => attempts[t] > 0
        /\ task[t] \in {"ACKED", "FILLED"} => \E m \in MessagesOf(t) : orders[m] > 0

\* A stored task is never lost, and a task that was FILLED leaves that status
\* only if an operator's replay had selected it.
FilledIsFinal ==
    [][\A t \in Tasks :
          /\ task[t] # "none" => task'[t] # "none"
          /\ task[t] = "FILLED" /\ task'[t] # "FILLED" =>
                \E rp \in Replays : t \in rsent[rp]]_vars

\* Every delivered fill comes to an end: sessions that wait for each other's
\* unique keys are not left waiting.
EveryDeliveryEnds == \A d \in Deliveries : <>(pc[d] \in IngestEnds)

\* When nothing fails, a fill of a known source is stored: "duplicate" is said,
\* and a session rolled back, only when another delivery stores the fill.
EveryFillIsStored ==
    \A d \in Registered : <>(\E s \in Deliveries : EventOf[s] = EventOf[d] /\ signal[s] # "none")

\* When nothing fails, a command that is still on a queue of the worker when
\* its task is stored is executed or, for a zero delta, skipped.
StoredCommandsRun ==
    \A t \in Tasks :
        (\E l \in Lanes : \E i \in DOMAIN queue[<<BrokerOf("worker"), l, GroupOf(t)>>] :
            /\ queue[<<BrokerOf("worker"), l, GroupOf(t)>>][i] = Planned(t)
            /\ task[t] = "DISPATCHED")
        ~> (attempts[t] > 0 \/ task[t] = "SKIPPED")

-----------------------------------------------------------------------------
(* The contract, with the planner's commands and each replay's as sources.  *)

CommandsOf(source, e, r) ==
    LET copies == {<<d, r>> : d \in {x \in Deliveries : EventOf[x] = e}}
    IN  IF source = None THEN {Planned(t) : t \in copies}
        ELSE {[task |-> t, via |-> source] : t \in copies}

\* A message that can still become an order: the session that stores its task
\* has not rolled back, and it is on a queue or in a loop before the exchange.
Outstanding(m) ==
    /\ pc[m.task[1]] # "aborted"
    /\ \/ \E b \in Brokers, l \in Lanes :
             LET waiting == queue[<<b, l, GroupOf(m.task)>>]
             IN  \E i \in DOMAIN waiting : waiting[i] = m
       \/ \E l \in Lanes : xmsg[l] = m /\ xpc[l] \in {"fetched", "loaded", "placing"}

Published(m) == \/ m.via = m.task[1] /\ m.task[2] \in made[m.via]
                \/ m.via \in Replays /\ m.task \in rsent[m.via]

CopyState(source, e, r) ==
    LET ms == CommandsOf(source, e, r)
        ordered == {m \in ms : orders[m] > 0}
    IN  IF \E m, n \in ordered : m # n \/ orders[m] > 1 THEN "copied twice"
        ELSE IF ordered # {} THEN "copied"
        ELSE IF \E m \in ms : Outstanding(m) THEN "out"
        ELSE IF \E m \in ms : Published(m) THEN "lapsed"
        ELSE "none"

Promise == INSTANCE CopyContract WITH
    Planner <- None,
    copy <- [c \in (Replays \cup {None}) \X Events \X Routes |->
                CopyState(c[1], c[2], c[3])]

\* The pipeline implements the contract: every step of any session, loop,
\* replay or crash offers a copy, carries one out, lets some lapse or does
\* nothing to them.
KeepsPromise == Promise!Contract

-----------------------------------------------------------------------------
(* What the documentation says and the code does not do.                   *)

\* USER_GUIDE_CN.md: one account's orders on one symbol are executed serially.
\* The lock that would ensure it belongs to an executor built per message.
SerialPerSlot ==
    \A k, l \in Lanes :
        /\ k # l
        /\ xpc[k] \in {"placing", "acked"}
        /\ xpc[l] \in {"placing", "acked"}
        => SlotOf(xmsg[k].task) # SlotOf(xmsg[l].task)

\* USER_GUIDE_CN.md: a task is generated for every follower and every task has
\* an attempt; with no fault at all a stored task is eventually attempted.
EveryTaskAttempted ==
    \A t \in Tasks : task[t] # "none" ~> attempts[t] > 0
=============================================================================
