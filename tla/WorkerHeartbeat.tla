---------------------------- MODULE WorkerHeartbeat ----------------------------
(***************************************************************************)
(* services/worker_status.py and workers/runtime.py: the worker writes a    *)
(* file every few seconds, the API reads it for the dashboard. Writing is   *)
(* two steps, the file is emptied and then filled, and the reader may come   *)
(* between them. A second is a tick.                                        *)
(***************************************************************************)
EXTENDS Integers

CONSTANTS
    Interval,   \* seconds between two beats
    MaxAge,     \* seconds a beat counts as recent
    MaxLag,     \* bound on the seconds the event loop delays a beat
    MaxStarts   \* bound on the starts of the worker

ASSUME HeartbeatConstantsOK ==
    /\ Interval \in Nat \ {0} /\ MaxAge \in Nat /\ MaxLag \in Nat
    /\ MaxStarts \in Nat

VARIABLES
    worker,  \* "dead", "alive", or "writing": alive between the two steps
    starts,
    file,    \* "absent", "empty" or "beat"
    age,     \* seconds since the beat in the file was made, capped
    idle,    \* seconds since the worker's last beat began, or its start
    beaten,  \* ghost: whether it has beaten since its start
    dead,    \* seconds since the worker ended, capped
    shown    \* what the dashboard showed in the last step, {} if it was not read

heartbeatVars == <<worker, starts, file, age, idle, beaten, dead, shown>>

Cap(n) == IF n > MaxAge + 1 THEN MaxAge + 1 ELSE n

HeartbeatInit ==
    /\ worker = "dead" /\ starts = 0
    /\ file = "absent" /\ age = 0 /\ idle = 0 /\ beaten = FALSE /\ dead = MaxAge + 1
    /\ shown = {}

\* heartbeat_loop beats before it sleeps for the first time.
StartBeating ==
    /\ worker = "dead" /\ starts < MaxStarts
    /\ worker' = "alive" /\ starts' = starts + 1
    /\ idle' = Interval /\ beaten' = FALSE /\ dead' = 0
    /\ shown' = {}
    /\ UNCHANGED <<file, age>>

\* write_text opens the file, which empties it, ...
BeatBegins ==
    /\ worker = "alive" /\ idle >= Interval
    /\ worker' = "writing"
    /\ file' = "empty" /\ idle' = 0
    /\ shown' = {}
    /\ UNCHANGED <<starts, age, beaten, dead>>

\* ... and fills it.
BeatEnds ==
    /\ worker = "writing"
    /\ worker' = "alive"
    /\ file' = "beat" /\ age' = 0 /\ beaten' = TRUE
    /\ shown' = {}
    /\ UNCHANGED <<starts, idle, dead>>

\* The loop ends with the process, before, in or after a beat; the file stays.
StopBeating ==
    /\ worker # "dead"
    /\ worker' = "dead" /\ dead' = 0
    /\ shown' = {}
    /\ UNCHANGED <<starts, file, age, idle, beaten>>

\* Mutant of Status: a file from a time gone by counts.
StatusUnaged ==
    CASE file = "absent" -> "OFFLINE"
      [] file = "empty" -> "UNKNOWN"
      [] file = "beat" -> "RUNNING"

\* read_worker_status.
Status ==
    CASE file = "absent" -> "OFFLINE"
      [] file = "empty" -> "UNKNOWN"
      [] file = "beat" -> IF age <= MaxAge THEN "RUNNING" ELSE "STALE"

ReadStatus ==
    /\ shown' = {Status}
    /\ UNCHANGED <<worker, starts, file, age, idle, beaten, dead>>

Second ==
    /\ worker # "dead" => idle < Interval + MaxLag
    /\ worker # "writing"
    /\ age' = Cap(age + 1)
    /\ idle' = IF worker = "dead" THEN idle ELSE idle + 1
    /\ dead' = IF worker = "dead" THEN Cap(dead + 1) ELSE 0
    /\ shown' = {}
    /\ UNCHANGED <<worker, starts, file, beaten>>

HeartbeatNext ==
    StartBeating \/ BeatBegins \/ BeatEnds \/ StopBeating \/ ReadStatus \/ Second

HeartbeatSpec == HeartbeatInit /\ [][HeartbeatNext]_heartbeatVars

-----------------------------------------------------------------------------
\* The dashboard's worker badge: RUNNING is not shown of a worker that ended
\* longer than the maximal age ago, whatever it left in the file, and one that
\* has beaten is never shown as stale or offline while it lives, if a beat and the
\* longest delay of one are within that age. (It may be shown as UNKNOWN: between
\* the two steps of a beat the file is empty.)
\* worker_status.py:15-30.
BadgeTellsTheWorker ==
    /\ "RUNNING" \in shown => dead <= MaxAge
    /\ shown \cap {"STALE", "OFFLINE"} # {} =>
          worker = "dead" \/ Interval + MaxLag > MaxAge \/ ~ beaten
=============================================================================
