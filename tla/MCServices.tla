------------------------------ MODULE MCServices ------------------------------
(***************************************************************************)
(* Small instances of the services beside the pipeline. They share no       *)
(* variable and no step, so a run that takes one of them at a time, its      *)
(* scene, says of each what a run of it alone would.                        *)
(***************************************************************************)
EXTENDS RateLimiter, InstrumentCatalog, SchemaStartup, WorkerHeartbeat, LogPages,
        DashboardStream

CONSTANTS l1, l2, k1, c1, c2

VARIABLE scene

\* One bucket of two tokens that takes two ticks for a token.
TwoTokens == [k \in Keys |-> 2]
HalfAToken == [k \in Keys |-> 1]

\* Rows as seven exchanges spell them, some with limits that cannot be used.
Row(e, symbol, base, quote, typed, steps, mins) ==
    [exchange |-> e, symbol |-> symbol, base |-> base, quote |-> quote,
     typed |-> typed, steps |-> steps, mins |-> mins]
OkxBtc == Row("OKX", <<"BTC", "-", "USDT", "-", "SWAP">>, <<"BTC">>, <<"USDT">>,
              FALSE, <<Absent, 2>>, <<Unusable>>)
OkxInj == Row("OKX", <<"IN", "J", "-", "USDT", "-", "SWAP">>, <<"IN", "J">>, <<"USDT">>,
              FALSE, <<Absent>>, <<Absent>>)
GateBtc == Row("GATEIO", <<"BTC", "_", "USDT">>, <<"BTC">>, <<"USDT">>,
               TRUE, <<Absent, Unusable, 3>>, <<Absent, 2>>)
GateBtcUsd == Row("GATEIO", <<"BTC", "_", "USD">>, <<"BTC">>, <<"USD">>, TRUE, <<3>>, <<2>>)
GateNameless == Row("GATEIO", <<>>, <<"BTC">>, <<"USD">>, TRUE, <<3>>, <<2>>)
KrakenBtc == Row("KRAKEN", <<"PF", "_", "XBT", "USD">>, <<"XBT">>, <<"USD">>,
                 FALSE, <<Absent>>, <<Absent>>)
Listed == [e \in Exchanges |-> CASE e = "OKX" -> <<OkxBtc, OkxInj>>
                                 [] e = "GATEIO" -> <<GateNameless, GateBtc, GateBtcUsd>>
                                 [] e = "KRAKEN" -> <<KrakenBtc>>]
Endings == [e \in Exchanges |-> IF e = "OKX" THEN <<"-", "USDT", "-", "SWAP">> ELSE <<>>]
ThreeQuestions == {[from |-> OkxBtc, to |-> "GATEIO"], [from |-> KrakenBtc, to |-> "GATEIO"],
                   [from |-> GateBtcUsd, to |-> "KRAKEN"]}
OneOfEach == [step |-> 1, min |-> 1]

\* The rows above are spelled as PairsAreFound of Services_proofs takes them to be.
ASSUME RowsAreSpelled == AllSpelled

TwoTables == <<"sources", "snapshots">>
ThreeColumns == <<"reasons", "validated_at", "margin">>
Placed == [reasons |-> "sources", validated_at |-> "sources", margin |-> "snapshots"]

MCInit ==
    /\ scene \in {"limiter", "catalog", "schema", "heartbeat", "log", "dashboard"}
    /\ LimiterInit
    /\ CatalogInit
    /\ IF scene = "schema" THEN SchemaInit
       ELSE /\ database = "sqlite" /\ schema = {} /\ stops = 0
            /\ made = [p \in Processes |-> {}]
            /\ plan = [p \in Processes |-> {}]
            /\ phase = [p \in Processes |-> "off"]
    /\ HeartbeatInit
    /\ IF scene = "log"
       THEN /\ LogInit
            \* Kinds and ids are only names; without a filter rows are as of one kind.
            /\ filter = {"signal"} /\ \A r, s \in log : r.id < s.id => r.time <= s.time
       ELSE /\ log = {} /\ written = 0 /\ filter = {} /\ sort = "pnl" /\ order = "asc"
            /\ page = 1 /\ rows = {} /\ awaiting = FALSE
            /\ before = {} /\ read = {}
    /\ DashboardInit

MCNext ==
    \/ /\ scene = "limiter" /\ LimiterNext
       /\ UNCHANGED <<scene, catalogVars, schemaVars, heartbeatVars, logVars, dashboardVars>>
    \/ /\ scene = "catalog" /\ CatalogNext
       /\ UNCHANGED <<scene, limiterVars, schemaVars, heartbeatVars, logVars, dashboardVars>>
    \/ /\ scene = "schema" /\ SchemaNext
       /\ UNCHANGED <<scene, limiterVars, catalogVars, heartbeatVars, logVars, dashboardVars>>
    \/ /\ scene = "heartbeat" /\ HeartbeatNext
       /\ UNCHANGED <<scene, limiterVars, catalogVars, schemaVars, logVars, dashboardVars>>
    \/ /\ scene = "log" /\ LogNext
       /\ UNCHANGED <<scene, limiterVars, catalogVars, schemaVars, heartbeatVars, dashboardVars>>
    \/ /\ scene = "dashboard" /\ DashboardNext
       /\ UNCHANGED <<scene, limiterVars, catalogVars, schemaVars, heartbeatVars, logVars>>

MCSpec ==
    /\ MCInit
    /\ [][MCNext]_<<scene, limiterVars, catalogVars, schemaVars, heartbeatVars, logVars,
                    dashboardVars>>
    /\ SchemaFairness

\* Every process of the scene in which processes start is up in the end.
EveryProcessIsUp == scene = "schema" => EveryProcessStarts
=============================================================================
