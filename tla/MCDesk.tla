-------------------------------- MODULE MCDesk --------------------------------
(***************************************************************************)
(* Small instances of the registry, the manual commands and the follower's   *)
(* book, one at a time: they share no variable and no step. The registry is  *)
(* taken in two scenes, because a validation never looks at the route and     *)
(* what becomes of a route's report never at a verdict.                      *)
(***************************************************************************)
EXTENDS CopyRegistry, ManualCommands, FollowerBook

VARIABLE scene

-----------------------------------------------------------------------------
(* The book: five exchanges with an exact copy, and three scaled ones.      *)

Terms(mode, scale, rule, step, min) ==
    [mode |-> mode, scale |-> scale, rule |-> rule, limits |-> [step |-> step, min |-> min]]
EightAccounts ==
    {<<e, Terms("EXACT", 1, 0, 2, 2)>> : e \in AllExchanges \ {"BYBIT", "BINANCE"}} \cup
    {<<"BYBIT", Terms("SCALE", 1, 0, 2, 2)>>, <<"OKX", Terms("SCALE", 3, 0, 2, 3)>>,
     <<"BINANCE", Terms("SCALE", 1, 4, 2, 2)>>}
FromShortToLong == {-1, 0, 1, 2}

(* The commands: an order with a percentage stop and a target, one with a    *)
(* stop price, one that is a stop itself, a close at market, one at a limit, *)
(* and a cancellation.                                                       *)

Ask(action, type, limit, stop, percent, target) ==
    [action |-> action, type |-> type, limit |-> limit, byLimit |-> limit, stop |-> stop,
     percent |-> percent, target |-> target]
Cancellation == Ask("CANCEL_ORDERS", "MARKET", FALSE, FALSE, FALSE, FALSE)
Numbered ==
    <<Ask("BUY", "MARKET", FALSE, FALSE, TRUE, TRUE), Ask("SELL", "LIMIT", TRUE, TRUE, FALSE, FALSE),
      Ask("BUY", "STOP_MARKET", FALSE, TRUE, TRUE, FALSE),
      Ask("CLOSE_POSITION", "MARKET", FALSE, FALSE, FALSE, FALSE),
      Ask("CLOSE_POSITION", "MARKET", TRUE, FALSE, FALSE, FALSE), Cancellation>>
SixRequests == {Numbered[i] : i \in DOMAIN Numbered}
\* Each pair of requests once: the two commands are alike.
EachPairOnce == \E i \in DOMAIN Numbered : \E j \in i .. Len(Numbered) :
                   asked[1] = Numbered[i] /\ asked[2] = Numbered[j]

-----------------------------------------------------------------------------
DeskInit ==
    /\ scene \in {"accounts", "routes", "manual", "book"}
    /\ RegistryInit
    /\ IF scene = "manual" THEN ManualInit /\ EachPairOnce
       ELSE /\ venue = "OKX" /\ position = 0 /\ working = 0 /\ others = 0
            /\ asked = [c \in CommandIds |-> Cancellation]
            /\ at = [c \in CommandIds |-> "off"] /\ seen = [c \in CommandIds |-> <<>>]
            /\ placed = [c \in CommandIds |-> <<>>] /\ answer = [c \in CommandIds |-> <<>>]
            /\ logged = [c \in CommandIds |-> <<>>]
    /\ IF scene = "book" THEN BookInit
       ELSE /\ exchange = "OKX" /\ terms = Terms("EXACT", 1, 0, 2, 2)
            /\ master = 0 /\ net = 0 /\ tasks = <<>> /\ lanes = [l \in Lanes |-> <<>>]
            /\ busy = [l \in Lanes |-> 0]
            /\ fills = 0 /\ faults = 0 /\ misses = 0 /\ lost = FALSE /\ disturbed = FALSE

TwoExchanges == [source |-> "BYBIT", follower |-> "OKX"]

\* Verdicts and what the planner obeys: one session creates an exact route, enabled, and
\* none changes it. The source is not edited, and is validated as long as there is no
\* follower, because nothing reads its verdict.
AccountsNext ==
    /\ RegistryNext
    /\ \A k \in Kinds : There(row'[k]) => row'[k].env = "testnet" /\ row'[k].margin = 1
    /\ edits' # edits => row'["source"] = row["source"]
    /\ \A v \in Sessions : /\ session'[v].state # "updating"
                           /\ session'[v].state = "creating" =>
                                 v = 1 /\ session'[v].new.enabled /\ session'[v].new.mode = "EXACT"
    /\ There(row'["follower"]) =>
          /\ There(row'["source"]) => row'["source"].verdict = All("PENDING")
          /\ \A v \in Sessions : session'[v].state = "validating" => session'[v].kind = "follower"

\* Reports: no row is edited or validated, and nothing is planned. The report compares
\* the follower's columns with the source's, so the source keeps one value of each.
RoutesNext ==
    /\ RegistryNext
    /\ listed' = listed /\ edits' = edits
    /\ There(row'["source"]) => row'["source"].env = "testnet" /\ row'["source"].margin = 1
    /\ \A k \in Kinds : There(row'[k]) => row'[k].status = "ACTIVE" /\ row'[k].key = "good"
    /\ \A v \in Sessions : session'[v].state # "validating"

\* The master of one account goes to two units, the others' to one; fills
\* and repairs are three together, and four on one of the exact copies.
CopiesNext ==
    /\ BookNext
    /\ exchange # "BYBIT" => Abs(master') <= 1
    /\ Cardinality(Repairs') + fills' <= IF exchange = "KRAKEN" THEN 4 ELSE 3

DeskNext ==
    \/ scene = "accounts" /\ AccountsNext /\ UNCHANGED <<scene, manualVars, bookVars>>
    \/ scene = "routes" /\ RoutesNext /\ UNCHANGED <<scene, manualVars, bookVars>>
    \/ scene = "manual" /\ ManualNext /\ UNCHANGED <<scene, registryVars, bookVars>>
    \/ scene = "book" /\ CopiesNext /\ UNCHANGED <<scene, registryVars, manualVars>>

DeskSpec == DeskInit /\ [][DeskNext]_<<scene, registryVars, manualVars, bookVars>>
=============================================================================
