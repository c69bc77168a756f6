---------------------------- MODULE DashboardStream ----------------------------
(***************************************************************************)
(* GET /ws/stream (api/routes.py): every two seconds, or when the browser   *)
(* says something, the rows a dashboard shows are read, one query after the *)
(* other, and sent when the newest log, the newest task or a count differs  *)
(* from what was sent last. Executors, the API and the streams commit in    *)
(* between.                                                                 *)
(***************************************************************************)
EXTENDS Integers, Sequences

CONSTANTS MaxTasks,    \* bound: tasks planned
          MaxCommits   \* bound: commits

VARIABLES
    statuses, \* per task, in the order they were planned, what its row says
    newest,   \* the log with the latest time
    others,   \* a number of sources, routes or followers
    commits,
    late,     \* ghost: the last log committed is not the newest by its time
    query,     \* the next query of the stream
    round,   \* what it has read in this round
    sent,     \* what it compares with: log, task and counts sent last
    screen,   \* what the browser shows
    quiet     \* ghost: nothing was committed since the round began

dashboardVars == <<statuses, newest, others, commits, late, query, round, sent, screen, quiet>>

Nothing == [log |-> -1, tasks |-> <<>>, others |-> -1]
Key(p) == [log |-> p.log, task |-> Len(p.tasks), others |-> p.others]

DashboardInit ==
    /\ statuses = <<>> /\ newest = 0 /\ others = 0 /\ commits = 0 /\ late = FALSE
    /\ query = "logs" /\ round = Nothing /\ sent = Key(Nothing) /\ screen = Nothing
    /\ quiet = TRUE

Commit ==
    /\ commits < MaxCommits /\ commits' = commits + 1
    /\ quiet' = FALSE
    /\ UNCHANGED <<query, round, sent, screen>>

\* Every commit that plans or executes a task holds a log of it.
Logged == newest' = newest + 1 /\ late' = FALSE

\* The time of a log is taken before its commit: another may have overtaken it.
LoggedLate == UNCHANGED newest /\ late' = TRUE

PlanTask ==
    /\ Commit /\ Len(statuses) < MaxTasks
    /\ statuses' = Append(statuses, "DISPATCHED")
    /\ Logged /\ UNCHANGED others

ExecuteTask ==
    /\ Commit
    /\ \E t \in DOMAIN statuses, s \in {"ACKED", "FAILED"} :
          statuses[t] = "DISPATCHED" /\ statuses' = [statuses EXCEPT ![t] = s]
    /\ (Logged \/ LoggedLate) /\ UNCHANGED others

ChangeRegistry ==
    /\ Commit
    /\ \E d \in {-1, 1} : others + d \in 0..2 /\ others' = others + d
    /\ UNCHANGED <<statuses, newest, late>>

\* The queries of a round, in the code's order: logs, tasks, then the rest.
Query(now, then) == query = now /\ query' = then

ReadNewestLog ==
    /\ Query("logs", "tasks")
    /\ round' = [Nothing EXCEPT !.log = newest]
    /\ quiet' = TRUE
    /\ UNCHANGED <<statuses, newest, others, commits, late, sent, screen>>

ReadTasks ==
    /\ Query("tasks", "others")
    /\ round' = [round EXCEPT !.tasks = statuses]
    /\ UNCHANGED <<statuses, newest, others, commits, late, sent, screen, quiet>>

\* Mutant of ReadOthers: the newest log is the last thing read.
ReadOthersAndLog ==
    /\ Query("others", "send")
    /\ round' = [round EXCEPT !.others = others, !.log = newest]
    /\ UNCHANGED <<statuses, newest, others, commits, late, sent, screen, quiet>>

ReadOthers ==
    /\ Query("others", "send")
    /\ round' = [round EXCEPT !.others = others]
    /\ UNCHANGED <<statuses, newest, others, commits, late, sent, screen, quiet>>

SendIfChanged ==
    /\ Query("send", "wait")
    /\ IF Key(round) # sent THEN screen' = round /\ sent' = Key(round)
       ELSE UNCHANGED <<screen, sent>>
    /\ UNCHANGED <<statuses, newest, others, commits, late, round, quiet>>

\* Two seconds, or a message of the browser, and the next round.
NextRound ==
    /\ Query("wait", "logs")
    /\ UNCHANGED <<statuses, newest, others, commits, late, round, sent, screen, quiet>>

\* The browser connects again: a stream of its own that has sent nothing.
Reconnect ==
    /\ query' = "logs" /\ round' = Nothing /\ sent' = Key(Nothing) /\ screen' = Nothing
    /\ UNCHANGED <<statuses, newest, others, commits, late, quiet>>

DashboardNext ==
    \/ PlanTask \/ ExecuteTask \/ ChangeRegistry
    \/ ReadNewestLog \/ ReadTasks \/ ReadOthers \/ SendIfChanged \/ NextRound \/ Reconnect

DashboardSpec == DashboardInit /\ [][DashboardNext]_dashboardVars

-----------------------------------------------------------------------------
\* A round in which nothing is committed ends with the browser showing the rows as
\* they are, whatever was committed between the queries of the rounds before it - as
\* long as logs become visible in the order of their times.
QuietRoundShowsTheRows ==
    query = "wait" /\ quiet /\ ~ late
        => screen = [log |-> newest, tasks |-> statuses, others |-> others]
=============================================================================
