------------------------------- MODULE Executor -------------------------------
(***************************************************************************)
(* run_executor_loop and AccountExecutor.execute_task. The worker runs one  *)
(* loop per lane, concurrently; every message gets a session and an         *)
(* AccountExecutor of its own, so the executor's lock table is always empty *)
(* when it is asked and keeps no two loops apart. Waiting for the rate      *)
(* limiter's token has no effect on the state here (RateLimiter is a        *)
(* component of its own) and is part of OpenAttempt.                        *)
(***************************************************************************)
EXTENDS PipelineState

\* Mutant of Consume: the message stays on the queue while it is handled.
ConsumeKept(l) ==
    /\ xpc[l] = "idle"
    /\ \E group \in Groups :
          LET place == <<BrokerOf("worker"), l, group>>
          IN  /\ queue[place] # <<>>
              /\ xmsg' = [xmsg EXCEPT ![l] = Head(queue[place])]
    /\ xpc' = [xpc EXCEPT ![l] = "fetched"]
    /\ UNCHANGED <<dbVars, known, queue, window, ingestVars, xseen, xresult,
                   replayVars, orders, faults>>

\* queue.consume: the message is deleted from the queue before it is handled.
Consume(l) ==
    /\ xpc[l] = "idle"
    /\ \E group \in Groups :
          LET place == <<BrokerOf("worker"), l, group>>
          IN  /\ queue[place] # <<>>
              /\ xmsg' = [xmsg EXCEPT ![l] = Head(queue[place])]
              /\ queue' = [queue EXCEPT ![place] = Tail(@)]
    /\ xpc' = [xpc EXCEPT ![l] = "fetched"]
    /\ UNCHANGED <<dbVars, known, window, ingestVars, xseen, xresult,
                   replayVars, orders, faults>>

\* Mutant of DropMessage: a task that is dispatched is taken for one in hand.
DropDispatched(l) ==
    /\ xpc[l] = "fetched"
    /\ task[xmsg[l].task] \in {"none", "DISPATCHED"}
    /\ xpc' = [xpc EXCEPT ![l] = "idle"]
    /\ xmsg' = [xmsg EXCEPT ![l] = None]
    /\ UNCHANGED <<dbVars, known, queue, window, ingestVars, xseen, xresult,
                   replayVars, orders, faults>>

\* No committed row has the task's id: the message is gone for good.
DropMessage(l) ==
    /\ xpc[l] = "fetched"
    /\ task[xmsg[l].task] = "none"
    /\ xpc' = [xpc EXCEPT ![l] = "idle"]
    /\ xmsg' = [xmsg EXCEPT ![l] = None]
    /\ UNCHANGED <<dbVars, known, queue, window, ingestVars, xseen, xresult,
                   replayVars, orders, faults>>

\* The row is loaded whatever its status is.
LoadTask(l) ==
    /\ xpc[l] = "fetched"
    /\ task[xmsg[l].task] # "none"
    /\ xseen' = [xseen EXCEPT ![l] = task[xmsg[l].task]]
    /\ xpc' = [xpc EXCEPT ![l] = "loaded"]
    /\ UNCHANGED <<dbVars, known, queue, window, ingestVars, xmsg, xresult,
                   replayVars, orders, faults>>

\* A fill that left the master's position where it was has a zero delta.
ZeroDelta(m) == ActionOf[EventOf[m.task[1]]] = "SYNC_TO_TARGET_POSITION"

SkipTask(l) ==
    /\ xpc[l] = "loaded"
    /\ ZeroDelta(xmsg[l])
    /\ xresult' = [xresult EXCEPT ![l] = "SKIPPED"]
    /\ xpc' = [xpc EXCEPT ![l] = "commit"]
    /\ UNCHANGED <<dbVars, known, queue, window, ingestVars, xmsg, xseen,
                   replayVars, orders, faults>>

\* Mutant of OpenAttempt: a dry run that reports success.
DryRun(l) ==
    /\ xpc[l] = "loaded"
    /\ ~ZeroDelta(xmsg[l])
    /\ xresult' = [xresult EXCEPT ![l] = "ACKED"]
    /\ xpc' = [xpc EXCEPT ![l] = "commit"]
    /\ UNCHANGED <<dbVars, known, queue, window, ingestVars, xmsg, xseen,
                   replayVars, orders, faults>>

\* The attempt row is flushed, not committed, before the order is sent.
OpenAttempt(l) ==
    /\ xpc[l] = "loaded"
    /\ ~ZeroDelta(xmsg[l])
    /\ xpc' = [xpc EXCEPT ![l] = "placing"]
    /\ UNCHANGED <<dbVars, known, queue, window, ingestVars, xmsg, xseen, xresult,
                   replayVars, orders, faults>>

\* The exchange (outside the code) accepts the order or answers with an error.
PlaceOrder(l) ==
    /\ xpc[l] = "placing"
    /\ \/ /\ orders' = [orders EXCEPT ![xmsg[l]] = @ + 1]
          /\ xresult' = [xresult EXCEPT ![l] = "ACKED"]
          /\ xpc' = [xpc EXCEPT ![l] = "acked"]
       \/ /\ xresult' = [xresult EXCEPT ![l] = "FAILED"]
          /\ xpc' = [xpc EXCEPT ![l] = "commit"]
          /\ UNCHANGED orders
    /\ UNCHANGED <<dbVars, known, queue, window, ingestVars, xmsg, xseen,
                   replayVars, faults>>

\* fetch_position after an accepted order: the position is the expected one,
\* or it is not, or the call raised, which only logs a warning.
RefreshPosition(l) ==
    /\ xpc[l] = "acked"
    /\ \E outcome \in {"ACKED", "FILLED"} :
          xresult' = [xresult EXCEPT ![l] = outcome]
    /\ xpc' = [xpc EXCEPT ![l] = "commit"]
    /\ UNCHANGED <<dbVars, known, queue, window, ingestVars, xmsg, xseen,
                   replayVars, orders, faults>>

\* The loop's commit: the attempt and the status, which is written if it differs from
\* the one that was loaded; FILLED always does, since ACKED was flushed before it.
CommitExecution(l) ==
    /\ xpc[l] = "commit"
    /\ LET t == xmsg[l].task
       IN  /\ task' = IF xresult[l] = xseen[l] /\ xresult[l] # "FILLED" THEN task
                      ELSE [task EXCEPT ![t] = xresult[l]]
           /\ attempts' = IF xresult[l] = "SKIPPED" THEN attempts
                          ELSE [attempts EXCEPT ![t] = @ + 1]
    /\ xpc' = [xpc EXCEPT ![l] = "idle"]
    /\ xmsg' = [xmsg EXCEPT ![l] = None]
    /\ UNCHANGED <<signal, known, queue, window, ingestVars, xseen, xresult,
                   replayVars, orders, faults>>

ExecutorStep(l) ==
    \/ Consume(l) \/ DropMessage(l) \/ LoadTask(l) \/ SkipTask(l) \/ OpenAttempt(l)
    \/ PlaceOrder(l) \/ RefreshPosition(l) \/ CommitExecution(l)
=============================================================================
