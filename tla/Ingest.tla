-------------------------------- MODULE Ingest --------------------------------
(***************************************************************************)
(* Orchestrator.handle_master_event with the fan-out it calls, one session  *)
(* per delivery of a master fill: the API route or the stream listener      *)
(* that called it commits at the end and rolls back on any exception.       *)
(***************************************************************************)
EXTENDS PipelineState

\* The signals of the fill that other sessions can see.
Stored(d) == {s \in Deliveries : EventOf[s] = EventOf[d] /\ signal[s] # "none"}

\* Mutant of TaskStored: the key names the session's own signal row.
OwnTaskStored(d, r) == task[<<d, r>>] # "none"

\* get_task_by_key: a committed task of the session's signal for this route.
\* The session's own tasks are of other routes: a route is listed once.
TaskStored(d, r) == \E o \in Deliveries : /\ task[<<o, r>>] # "none"
                                          /\ adopted[o] = adopted[d]

\* Mutant of TaskHolders: a session keeps its keys after it ended.
TaskHoldersLeaked(d) == {o \in Deliveries \ {d} :
                           adopted[o] = adopted[d] /\ wanted[d] \in made[o]}

\* Sessions that hold the unique key d is about to insert, uncommitted.
EventHolders(d) == {o \in Deliveries \ {d} :
                      Open(o) /\ adopted[o] = o /\ EventOf[o] = EventOf[d]}
TaskHolders(d) == {o \in Deliveries \ {d} :
                      Open(o) /\ adopted[o] = adopted[d] /\ wanted[d] \in made[o]}
Holders(d) == CASE pc[d] = "insertEvent" -> EventHolders(d)
                [] pc[d] = "insertTask" -> TaskHolders(d)
                [] OTHER -> {}

\* Mutant of QueueForAction: a lane that no loop reads.
UnreadLane(a) == IF a \in {"CLOSE", "REDUCE", "FLIP"} THEN "risk" ELSE "default"

\* _queue_for_action: what reduces exposure has a lane of its own.
QueueForAction(a) == IF a \in {"CLOSE", "REDUCE", "FLIP"} THEN "risk" ELSE "normal"

\* Rolling a session back leaves only the messages it published.
Abort(ds) == /\ pc' = [d \in Deliveries |-> IF d \in ds THEN "aborted" ELSE pc[d]]
             /\ wanted' = [d \in Deliveries |-> IF d \in ds THEN None ELSE wanted[d]]

\* Mutant of CheckIdempotency: the fill is claimed by whoever asks first.
ClaimFill(d) ==
    /\ pc[d] = "new"
    /\ pc' = [pc EXCEPT ![d] = IF EventOf[d] \in known[BrokerOf(Host[d])]
                               THEN "duplicate" ELSE "missed"]
    /\ known' = [known EXCEPT ![BrokerOf(Host[d])] = @ \cup {EventOf[d]}]
    /\ UNCHANGED <<dbVars, queue, window, adopted, seen, todo, wanted, made,
                   workerVars, replayVars, orders, faults>>

\* The idempotency store is asked before anything is read or written.
CheckIdempotency(d) ==
    /\ pc[d] = "new"
    /\ pc' = [pc EXCEPT ![d] = IF EventOf[d] \in known[BrokerOf(Host[d])]
                               THEN "duplicate" ELSE "missed"]
    /\ UNCHANGED <<dbVars, known, queue, window, adopted, seen, todo, wanted, made,
                   workerVars, replayVars, orders, faults>>

\* No signal source has the payload's locator: ValueError.
RejectUnknownSource(d) ==
    /\ pc[d] = "missed"
    /\ d \notin Registered
    /\ Abort({d})
    /\ UNCHANGED <<dbVars, known, queue, window, adopted, seen, todo, made,
                   workerVars, replayVars, orders, faults>>

\* The master event and its signal are looked up among the committed rows.
LookupEvent(d) ==
    /\ pc[d] = "missed"
    /\ d \in Registered
    /\ \/ /\ Stored(d) = {}
          /\ pc' = [pc EXCEPT ![d] = "insertEvent"]
          /\ UNCHANGED <<adopted, seen>>
       \/ \E s \in Stored(d) :
             /\ adopted' = [adopted EXCEPT ![d] = s]
             /\ seen' = [seen EXCEPT ![d] = signal[s]]
             /\ pc' = [pc EXCEPT ![d] = "list"]
    /\ UNCHANGED <<dbVars, known, queue, window, todo, wanted, made,
                   workerVars, replayVars, orders, faults>>

\* Mutant of InsertEvent: the rows have no unique key.
InsertEventUnkeyed(d) ==
    /\ pc[d] = "insertEvent"
    /\ adopted' = [adopted EXCEPT ![d] = d]
    /\ pc' = [pc EXCEPT ![d] = "list"]
    /\ UNCHANGED <<dbVars, known, queue, window, seen, todo, wanted, made,
                   workerVars, replayVars, orders, faults>>

\* create_master_event and create_signal flush under their unique keys: they
\* wait for a session that holds the key and fail if it commits.
InsertEvent(d) ==
    /\ pc[d] = "insertEvent"
    /\ EventHolders(d) = {}
    /\ \/ /\ Stored(d) = {}
          /\ adopted' = [adopted EXCEPT ![d] = d]
          /\ pc' = [pc EXCEPT ![d] = "list"]
          /\ UNCHANGED wanted
       \/ /\ Stored(d) # {}
          /\ Abort({d})
          /\ UNCHANGED adopted
    /\ UNCHANGED <<dbVars, known, queue, window, seen, todo, made,
                   workerVars, replayVars, orders, faults>>

\* list_active_copy_trades_for_source, and the filters of plan that drop a
\* route. The registry is edited by other requests: any set of routes may pass.
ListRoutes(d) ==
    /\ pc[d] = "list"
    /\ \E passing \in SUBSET Routes : todo' = [todo EXCEPT ![d] = passing]
    /\ pc' = [pc EXCEPT ![d] = "plan"]
    /\ UNCHANGED <<dbVars, known, queue, window, adopted, seen, wanted, made,
                   workerVars, replayVars, orders, faults>>

\* One turn of plan's loop up to get_task_by_key; the routes come unordered.
LookupTask(d) ==
    /\ pc[d] = "plan"
    /\ \E r \in todo[d] :
          /\ todo' = [todo EXCEPT ![d] = @ \ {r}]
          /\ IF TaskStored(d, r)
             THEN UNCHANGED <<pc, wanted>>
             ELSE /\ pc' = [pc EXCEPT ![d] = "insertTask"]
                  /\ wanted' = [wanted EXCEPT ![d] = r]
    /\ UNCHANGED <<dbVars, known, queue, window, adopted, seen, made,
                   workerVars, replayVars, orders, faults>>

\* create_task flushes under the task's unique key and its command is
\* published at once, long before the commit.
InsertTask(d) ==
    /\ pc[d] = "insertTask"
    /\ TaskHolders(d) = {}
    /\ \/ /\ ~TaskStored(d, wanted[d])
          /\ made' = [made EXCEPT ![d] = @ \cup {wanted[d]}]
          /\ wanted' = [wanted EXCEPT ![d] = None]
          /\ pc' = [pc EXCEPT ![d] = "plan"]
          /\ Publish(Host[d], QueueForAction(ActionOf[EventOf[d]]),
                     [task |-> <<d, wanted[d]>>, via |-> d])
       \/ /\ TaskStored(d, wanted[d])
          /\ Abort({d})
          /\ UNCHANGED <<made, queue, window>>
    /\ UNCHANGED <<dbVars, known, adopted, seen, todo,
                   workerVars, replayVars, orders, faults>>

\* The loop is over: the signal's status is set in the session and the fill
\* is remembered in the store, which no rollback undoes.
Remember(d) ==
    /\ pc[d] = "plan"
    /\ todo[d] = {}
    /\ known' = [known EXCEPT ![BrokerOf(Host[d])] = @ \cup {EventOf[d]}]
    /\ pc' = [pc EXCEPT ![d] = "commit"]
    /\ UNCHANGED <<dbVars, queue, window, adopted, seen, todo, wanted, made,
                   workerVars, replayVars, orders, faults>>

\* An unchanged attribute is not written: the status read with the signal is
\* compared with the one set.
CommitIngest(d) ==
    /\ pc[d] = "commit"
    /\ LET status == IF made[d] # {} THEN "DISPATCHED" ELSE "SKIPPED"
       IN  signal' = IF status = seen[d] THEN signal
                     ELSE [signal EXCEPT ![adopted[d]] = status]
    /\ task' = [t \in Tasks |-> IF t[1] = d /\ t[2] \in made[d] THEN "DISPATCHED"
                                ELSE task[t]]
    /\ pc' = [pc EXCEPT ![d] = "done"]
    /\ UNCHANGED <<attempts, known, queue, window, adopted, seen, todo, wanted, made,
                   workerVars, replayVars, orders, faults>>

\* Any await of the session may raise (the queue, the store, the database).
AbortIngest(d) ==
    /\ pc[d] \in IngestSteps \ {"new"}
    /\ faults < MaxFaults
    /\ faults' = faults + 1
    /\ Abort({d})
    /\ UNCHANGED <<dbVars, known, queue, window, adopted, seen, todo, made,
                   workerVars, replayVars, orders>>

\* Sessions that adopted the same signal insert its tasks in any order and may
\* wait for each other in a cycle: the database rolls one of them back.
DeadlockVictim(d) ==
    /\ \E S \in SUBSET Deliveries :
          /\ d \in S
          /\ \A x \in S : Holders(x) \cap S # {}
          /\ \A y \in S : \E x \in S : y \in Holders(x)
    /\ Abort({d})
    /\ UNCHANGED <<dbVars, known, queue, window, adopted, seen, todo, made,
                   workerVars, replayVars, orders, faults>>

IngestStep(d) ==
    \/ CheckIdempotency(d) \/ RejectUnknownSource(d) \/ LookupEvent(d)
    \/ InsertEvent(d) \/ ListRoutes(d) \/ LookupTask(d) \/ InsertTask(d)
    \/ Remember(d) \/ CommitIngest(d) \/ DeadlockVictim(d)
=============================================================================
