----------------------------- MODULE CopyRegistry -----------------------------
(***************************************************************************)
(* The operator's registry: a signal source, a follower account and the     *)
(* copy trade between them, edited, validated, paused and deleted by API    *)
(* requests that interleave at every await, and read by the planner, which  *)
(* lists the routes of a source first and plans their tasks later.          *)
(***************************************************************************)
EXTENDS Adapters, FiniteSets

CONSTANTS
    Sessions,         \* concurrent API requests that read a row and write it later
    ExchangeOf,       \* the exchange the source and the follower are created for
    ForeignKeys,      \* whether the database enforces them (SQLite is not asked to)
    MaxEdits          \* bound on changes of the two rows

ASSUME ExchangesKnown == ExchangeOf \in [{"source", "follower"} -> AllExchanges]

VARIABLES
    row,      \* the source's and the follower's row
    route,    \* the copy trade's row
    session,  \* per request: what it does and the rows as it loaded them
    listed,   \* what a delivery listed, and the task it planned from it, or None
    edits,    \* number of changes of a row since the start
    judged    \* verdicts the follower was ever given

rowVars == <<row, route, edits, judged>>
registryVars == <<row, route, session, listed, edits, judged>>

Kinds == {"source", "follower"}
\* A follower can be edited to be an account on another exchange.
ExchangesOf(k) ==
    IF k = "source" THEN {ExchangeOf["source"]} ELSE {ExchangeOf[x] : x \in Kinds}
Columns == {"validation", "credential", "ready", "permission", "connectivity"}
All(v) == [c \in Columns |-> v]
Modes == {"EXACT", "SCALE"}
None == [state |-> "none"]

\* What a request can change: margin stands for leverage, margin mode and hedge
\* mode, scope for the pairs of a source and for the follower's symbol rule.
Fields == [exchange : ExchangesOf("follower"), env : {"testnet", "live"}, margin : {1, 2},
           key : {"good", "bad"}, passphrase : BOOLEAN, scope : BOOLEAN]
NewRow(k) == [state |-> "there", status |-> "ACTIVE", exchange |-> ExchangeOf[k],
              env |-> "testnet", margin |-> 1, key |-> "good", passphrase |-> FALSE,
              scope |-> TRUE, verdict |-> All("PENDING")]

RegistryInit ==
    /\ row = [k \in Kinds |-> None]
    /\ route = None
    /\ session = [v \in Sessions |-> None]
    /\ listed = None
    /\ edits = 0
    /\ judged = {}

There(r) == r.state = "there"
Idle(v) == session[v] = None
Finish(v) == session' = [session EXCEPT ![v] = None]

\* A session writes the columns that differ from what it loaded, and no other.
Written(now, loaded, new) ==
    [c \in DOMAIN now |-> IF new[c] # loaded[c] THEN new[c] ELSE now[c]]

Create(k) ==
    /\ row[k].state = "none"
    /\ \E f \in Fields :
          row' = [row EXCEPT ![k] =
                     [NewRow(k) EXCEPT !.env = f.env, !.margin = f.margin, !.key = f.key]]
    /\ UNCHANGED <<route, session, listed, edits, judged>>

\* A PATCH or an upserted symbol rule: the verdict of the old row stays. A source
\* keeps the environment and the exchange it was created for.
Edit(k) ==
    /\ There(row[k])
    /\ edits < MaxEdits
    /\ \E f \in Fields :
          LET new == [x \in DOMAIN row[k] |-> IF x \in DOMAIN f THEN f[x] ELSE row[k][x]]
          IN  /\ Cardinality({x \in DOMAIN f : f[x] # row[k][x]}) = 1
              /\ k = "source" => f.env = row[k].env
              /\ f.exchange \in ExchangesOf(k)
              /\ row' = [row EXCEPT ![k] = new]
    /\ edits' = edits + 1
    /\ UNCHANGED <<route, session, listed, judged>>

SetStatus(status) ==
    /\ There(row["follower"])
    /\ row' = [row EXCEPT !["follower"].status = status]
    /\ UNCHANGED <<route, session, listed, edits, judged>>

\* The keys are read with the row; the exchange is asked about them later.
BeginValidation(v, k) ==
    /\ Idle(v) /\ There(row[k])
    /\ session' = [session EXCEPT ![v] =
                      [state |-> "validating", kind |-> k, loaded |-> row[k].verdict,
                       exchange |-> row[k].exchange, key |-> row[k].key, passphrase |-> row[k].passphrase]]
    /\ UNCHANGED <<rowVars, listed>>

\* Without a passphrase the exchange is not asked, and two columns stay open.
Verdicts(s) ==
    IF s.exchange = "OKX" /\ ~ s.passphrase
    THEN {[c \in Columns |-> IF c \in {"permission", "connectivity"} THEN "PENDING"
                             ELSE "FAILED"]}
    ELSE {All(IF Validates(s.exchange, a) THEN "VERIFIED" ELSE "FAILED") :
             a \in UNION {CallAnswers(s.exchange, good) : good \in {FALSE, s.key = "good"}}}

\* Mutant of UpdateValidation: the column a screen calls trading ready is set
\* by a verdict that is good and left alone by one that is not.
UpdateValidationUnready(k, loaded, new) ==
    [row EXCEPT ![k].verdict = Written(row[k].verdict, loaded,
        IF new["validation"] = "FAILED" THEN [new EXCEPT !["ready"] = loaded["ready"]] ELSE new)]

UpdateValidation(k, loaded, new) ==
    [row EXCEPT ![k].verdict = Written(row[k].verdict, loaded, new)]

\* A row deleted meanwhile takes no verdict.
CommitValidation(v) ==
    /\ session[v].state = "validating"
    /\ LET k == session[v].kind
       IN  IF ~ There(row[k]) THEN UNCHANGED <<row, judged>>
           ELSE \E new \in Verdicts(session[v]) :
                   /\ row' = UpdateValidation(k, session[v].loaded, new)
                   /\ judged' = IF k = "follower" THEN judged \cup {new["validation"]} ELSE judged
    /\ Finish(v)
    /\ UNCHANGED <<route, listed, edits>>

\* The report about a route: one environment and, for an exact copy, equal margin terms.
ValidateCopyTrade(mode, source, follower) ==
    IF source.env = follower.env /\ (mode = "EXACT" => source.margin = follower.margin)
    THEN "VERIFIED" ELSE "FAILED"

Reports == [m \in Modes |-> ValidateCopyTrade(m, row["source"], row["follower"])]

\* The source and the follower are looked up, and the row is written later.
BeginRoute(v, mode, enabled) ==
    /\ Idle(v) /\ There(row["source"]) /\ There(row["follower"])
    /\ session' = [session EXCEPT ![v] =
          [state |-> "creating",
           new |-> [state |-> "there", enabled |-> enabled,
                    status |-> IF enabled THEN "ACTIVE" ELSE "PAUSED",
                    mode |-> mode, verdict |-> Reports[mode]]]]
    /\ UNCHANGED <<rowVars, listed>>

\* One route per source and follower; a database that enforces foreign keys
\* refuses a route to a row that was deleted meanwhile.
CommitRoute(v) ==
    /\ session[v].state = "creating"
    /\ route' = IF There(route) \/ (ForeignKeys /\ \E k \in Kinds : ~ There(row[k]))
                THEN route ELSE session[v].new
    /\ Finish(v)
    /\ UNCHANGED <<row, listed, edits, judged>>

\* What a PATCH can change; the form of the web page sends the flag, not the status.
RouteValues == [enabled |-> BOOLEAN, mode |-> Modes, status |-> {"ACTIVE", "PAUSED"}]

BeginUpdateRoute(v, field, value) ==
    /\ Idle(v) /\ There(route)
    /\ session' = [session EXCEPT ![v] =
          [state |-> "updating", loaded |-> route, reports |-> Reports,
           new |-> [route EXCEPT ![field] = value]]]
    /\ UNCHANGED <<rowVars, listed>>

\* Mutant of Reported: the report is made before the updates are applied.
ReportedBefore(now, s) == [now EXCEPT !.verdict = s.reports[s.loaded.mode]]

Reported(now, s) == [now EXCEPT !.verdict = s.reports[now.mode]]

\* The row is written, read again, and reported on with the accounts as loaded.
CommitUpdateRoute(v) ==
    /\ session[v].state = "updating"
    /\ route' = IF There(route)
                THEN Reported(Written(route, session[v].loaded, session[v].new), session[v])
                ELSE route
    /\ Finish(v)
    /\ UNCHANGED <<row, listed, edits, judged>>

DeleteRoute ==
    /\ There(route)
    /\ route' = None
    /\ UNCHANGED <<row, session, listed, edits, judged>>

\* The session would null the route's key, which the database refuses.
Delete(k) ==
    /\ There(row[k])
    /\ ~ There(route)
    /\ row' = [row EXCEPT ![k].state = "deleted"]
    /\ UNCHANGED <<route, session, listed, edits, judged>>

Lists == There(route) /\ route.enabled /\ route.status = "ACTIVE"

\* A delivery lists the routes with their accounts in one go.
ListRoutes ==
    /\ listed.state # "listed"
    /\ There(row["source"])
    /\ Lists
    /\ listed' = [state |-> "listed", there |-> There(row["follower"]),
                  scope |-> row["source"].scope /\ row["follower"].scope,
                  status |-> row["follower"].status,
                  validation |-> row["follower"].verdict["validation"], judged |-> judged]
    /\ UNCHANGED <<rowVars, session>>

\* Mutant of Eligible: the account's verdict is not looked at.
EligibleUnjudged(l) == l.there /\ l.scope

Eligible(l) == l.there /\ l.scope /\ l.validation # "FAILED"

\* The planner goes on with the rows as they were listed.
PlanTask ==
    /\ listed.state = "listed"
    /\ listed' = IF Eligible(listed) THEN [listed EXCEPT !.state = "planned"] ELSE None
    /\ UNCHANGED <<rowVars, session>>

RegistryNext ==
    \/ \E k \in Kinds : Create(k) \/ Edit(k) \/ Delete(k)
    \/ \E status \in {"ACTIVE", "PAUSED"} : SetStatus(status)
    \/ \E v \in Sessions :
          \/ \E k \in Kinds : BeginValidation(v, k)
          \/ CommitValidation(v)
          \/ \E mode \in Modes, enabled \in BOOLEAN : BeginRoute(v, mode, enabled)
          \/ CommitRoute(v)
          \/ \E field \in DOMAIN RouteValues :
                \E value \in RouteValues[field] : BeginUpdateRoute(v, field, value)
          \/ CommitUpdateRoute(v)
    \/ DeleteRoute
    \/ ListRoutes
    \/ PlanTask

RegistrySpec == RegistryInit /\ [][RegistryNext]_registryVars

-----------------------------------------------------------------------------
\* However validations overlap, the column the screens call trading ready and
\* the credentials' column say what the planner obeys, and without a passphrase
\* in play the five columns are one verdict: sessions that write only what they
\* changed never mix two verdicts.
OneVerdict ==
    \A k \in Kinds : There(row[k]) =>
        LET v == row[k].verdict
        IN  /\ v["ready"] = v["validation"] /\ v["credential"] = v["validation"]
            /\ v["connectivity"] = v["permission"]
            /\ "OKX" \notin ExchangesOf(k) => v["permission"] = v["validation"]

\* An account that was judged and only ever refused, whatever was edited or
\* validated at the same time, gets no task from routes listed afterwards.
RefusedAccountsRest == listed.state = "planned" => listed.judged # {"FAILED"}

\* A key that the exchange never accepted is never called verified: each client tells
\* a refusal by what its exchange answers, not by the status of the answer alone.
BadKeysAreRefused ==
    \A k \in Kinds :
        There(row[k]) /\ edits = 0 /\ row[k].key = "bad"
            => \A c \in Columns : row[k].verdict[c] # "VERIFIED"

\* As long as the source and the follower are not edited, a route's report is
\* the one of its mode, however creations and updates of it overlap.
RouteReportHolds ==
    There(route) /\ edits = 0 =>
        route.verdict = ValidateCopyTrade(route.mode, row["source"], row["follower"])

\* USER_GUIDE_CN.md: copying starts when the follower is active. The planner
\* never looks at the status that pausing an account sets.
PausedAccountsRest == listed.state = "planned" => listed.status = "ACTIVE"
=============================================================================
