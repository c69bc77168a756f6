-------------------------------- MODULE Replay --------------------------------
(***************************************************************************)
(* Orchestrator.replay_signal, called by an API route that commits after    *)
(* it: the failed and skipped tasks of a signal are sent again on the       *)
(* recovery lane.                                                           *)
(***************************************************************************)
EXTENDS PipelineState

\* The signal and its tasks are loaded once; an unknown signal is a 404.
BeginReplay(rp) ==
    /\ rpc[rp] = "idle"
    /\ \E s \in Deliveries :
          /\ signal[s] # "none"
          /\ rsignal' = [rsignal EXCEPT ![rp] = s]
          /\ rseen' = [rseen EXCEPT ![rp] = signal[s]]
          /\ rtodo' = [rtodo EXCEPT ![rp] =
                          {t \in Tasks : /\ adopted[t[1]] = s
                                         /\ task[t] \in {"FAILED", "SKIPPED"}}]
    /\ rpc' = [rpc EXCEPT ![rp] = "publishing"]
    /\ UNCHANGED <<dbVars, known, queue, window, ingestVars, workerVars, rsent,
                   orders, faults>>

\* The new status stays in the session; the message is visible at once.
PublishReplay(rp) ==
    /\ rpc[rp] = "publishing"
    /\ \E t \in rtodo[rp] :
          /\ rtodo' = [rtodo EXCEPT ![rp] = @ \ {t}]
          /\ rsent' = [rsent EXCEPT ![rp] = @ \cup {t}]
          /\ Publish("api", "recovery", [task |-> t, via |-> rp])
    /\ UNCHANGED <<dbVars, known, ingestVars, workerVars, rpc, rsignal, rseen,
                   orders, faults>>

\* Every replayed task was read FAILED or SKIPPED, so its new status is
\* written, over whatever the worker has committed meanwhile.
CommitReplay(rp) ==
    /\ rpc[rp] = "publishing"
    /\ rtodo[rp] = {}
    /\ task' = [t \in Tasks |-> IF t \in rsent[rp] THEN "DISPATCHED" ELSE task[t]]
    /\ signal' = IF rseen[rp] = "DISPATCHED" THEN signal
                 ELSE [signal EXCEPT ![rsignal[rp]] = "DISPATCHED"]
    /\ rpc' = [rpc EXCEPT ![rp] = "done"]
    /\ UNCHANGED <<attempts, known, queue, window, ingestVars, workerVars,
                   rsignal, rseen, rtodo, rsent, orders, faults>>

AbortReplay(rp) ==
    /\ rpc[rp] = "publishing"
    /\ faults < MaxFaults
    /\ faults' = faults + 1
    /\ rpc' = [rpc EXCEPT ![rp] = "aborted"]
    /\ UNCHANGED <<dbVars, known, queue, window, ingestVars, workerVars,
                   rsignal, rseen, rtodo, rsent, orders>>

ReplayStep(rp) == BeginReplay(rp) \/ PublishReplay(rp) \/ CommitReplay(rp)
=============================================================================
