----------------------------- MODULE FollowerBook -----------------------------
(***************************************************************************)
(* One symbol of one follower: the fills of the master become commands,     *)
(* the loops of the three lanes execute them on an exchange that keeps one  *)
(* signed position per symbol, and the reconciler repairs what differs.     *)
(* Nothing keeps the loops apart (the executor's lock is one per message).  *)
(* The queue, its crashes and its redeliveries are CopyPipeline's.          *)
(***************************************************************************)
EXTENDS Adapters, SignalMath, FiniteSets

CONSTANTS Accounts,   \* pairs of an exchange and the terms of a route
          Sizes,      \* bound: positions of the master
          MaxFills,   \* bound: fills of the master
          Tolerance,  \* a position this near to its target is left alone
          MaxRepairs, \* bound: repairs
          MaxFaults   \* bound: refused orders, failed reads and trades of others

\* A scale may be any number, nothing checks it; limits are positive (Constraints of
\* SymbolMatching).
ASSUME BookConstantsOK ==
    /\ Sizes \subseteq Int /\ Tolerance \in Nat
    /\ \A a \in Accounts : /\ a[1] \in AllExchanges
                           /\ a[2].limits.step \in Nat \ {0} /\ a[2].limits.min \in Nat \ {0}
                           /\ a[2].scale \in Int /\ a[2].rule \in Int

VARIABLES exchange, terms,
          master,    \* the master's position
          net,       \* the follower's, on the exchange
          tasks,     \* the stored commands, in the order they were planned
          lanes,     \* per lane the tasks published to it
          busy,      \* per lane the task whose order was accepted, 0 for none
          fills, faults,
          misses,    \* ghost: fills of which a part was rounded away
          lost,      \* ghost: a fill got no command because its target was rounded away
          disturbed  \* ghost: an order was refused, cut or filled in part, a read failed, or others traded

bookVars == <<exchange, terms, master, net, tasks, lanes, busy, fills, faults, misses, lost, disturbed>>

Lanes == {"NORMAL_EXEC", "RISK_PRIORITY", "RECOVERY"}
Repairs == {t \in DOMAIN tasks : tasks[t].of # 0}
Drained == \A l \in Lanes : lanes[l] = <<>> /\ busy[l] = 0

BookInit ==
    /\ \E a \in Accounts : exchange = a[1] /\ terms = a[2]
    /\ master = 0 /\ net = 0
    /\ tasks = <<>> /\ lanes = [l \in Lanes |-> <<>>] /\ busy = [l \in Lanes |-> 0]
    /\ fills = 0 /\ faults = 0 /\ misses = 0
    /\ lost = FALSE /\ disturbed = FALSE

\* Ghost of a task: the master reduced or closed its position.
Shrinks(q, r) == Abs(r) < Abs(q) /\ q * r >= 0

Stored(c, of, found, shrinks) ==
    /\ tasks' = Append(tasks, [command |-> c, of |-> of, found |-> found, shrinks |-> shrinks,
                               status |-> "QUEUED"])
    /\ lanes' = [lanes EXCEPT ![c.lane] = Append(@, Len(tasks) + 1)]

\* A change of the master's position is ingested and planned for this route.
MasterFill(q) ==
    LET c == Command(terms, BuildSignal(master, q))
    IN  /\ fills < MaxFills
        /\ fills' = fills + 1 /\ master' = q
        /\ misses' = IF c.delta = Sourced(terms, q - master) THEN misses ELSE misses + 1
        /\ lost' = (lost \/ (TargetRoundedAway(c) /\ c.delta # 0))
        /\ IF Planned(c) THEN Stored(c, 0, 0, Shrinks(master, q)) ELSE UNCHANGED <<tasks, lanes>>
        /\ UNCHANGED <<exchange, terms, net, busy, faults, disturbed>>

\* The market order a task becomes.
OrderOf(c) ==
    Sent(exchange, FALSE,
         Request(IF c.delta < 0 THEN "SELL" ELSE "BUY", Abs(c.delta), c.reduce, c.side,
                 "MARKET", FALSE, FALSE))

\* A loop takes a message and places its order. A status of PLACED is not stored:
\* the session goes on to read the position.
PlaceOrder(l) ==
    /\ busy[l] = 0 /\ lanes[l] # <<>>
    /\ LET t == Head(lanes[l])
           c == tasks[t].command
           order == OrderOf(c)
       IN  IF c.delta = 0
           THEN /\ tasks' = [tasks EXCEPT ![t].status = "SKIPPED"]
                /\ UNCHANGED <<net, busy, faults, disturbed>>
           ELSE \E o \in Outcomes(exchange, order, net) :
                  /\ faults' = IF o.answer = Success \/ ~ Takes(order, net) THEN faults
                               ELSE faults + 1
                  /\ faults' <= MaxFaults
                  /\ net' = net + o.moved
                  /\ disturbed' = (disturbed \/ ~ o.taken \/ o.moved # order.size)
                  /\ tasks' = [tasks EXCEPT ![t].status =
                                  IF Accepted(exchange, o.answer) THEN "PLACED" ELSE "FAILED"]
                  /\ busy' = [busy EXCEPT ![l] = IF Accepted(exchange, o.answer) THEN t ELSE 0]
    /\ lanes' = [lanes EXCEPT ![l] = Tail(@)]
    /\ UNCHANGED <<exchange, terms, master, fills, misses, lost>>

\* The position is read back: the task is done when it is the target. The call may fail.
ReadBack(l) ==
    /\ busy[l] # 0
    /\ \E done \in BOOLEAN :
          /\ faults' = IF done THEN faults ELSE faults + 1
          /\ faults' <= MaxFaults
          /\ disturbed' = (disturbed \/ ~ done)
          /\ tasks' = [tasks EXCEPT ![busy[l]].status =
                IF done /\ Position(exchange, Rows(exchange, net))
                              = ExpectedQuantity(tasks[busy[l]].command)
                THEN "FILLED" ELSE "ACKED"]
    /\ busy' = [busy EXCEPT ![l] = 0]
    /\ UNCHANGED <<exchange, terms, master, net, lanes, fills, misses, lost>>

\* Mutant of RepairDelta: the difference is taken the other way round.
RepairDeltaReversed(c, found) == found - ExpectedQuantity(c)

RepairDelta(c, found) == ExpectedQuantity(c) - found

\* The position is compared with the task's target, whatever has been planned since,
\* each task's by a call of its own; repairs are tasks of the signal and compared too.
\* The repair's identifier is taken once per task.
Reconcile(t) ==
    LET c == tasks[t].command
        found == Position(exchange, Rows(exchange, net))
    IN  /\ Cardinality(Repairs) < MaxRepairs
        /\ Abs(RepairDelta(c, found)) > Tolerance
        /\ \A r \in Repairs : tasks[r].of # t
        /\ Stored([c EXCEPT !.delta = RepairDelta(c, found), !.lane = "RECOVERY"], t, found,
                  tasks[t].shrinks)
        /\ UNCHANGED <<exchange, terms, master, net, busy, fills, faults, misses, lost, disturbed>>

\* Somebody else trades on the account.
Trade(d) ==
    /\ faults < MaxFaults
    /\ faults' = faults + 1 /\ net' = net + d /\ disturbed' = TRUE
    /\ UNCHANGED <<exchange, terms, master, tasks, lanes, busy, fills, misses, lost>>

BookNext ==
    \/ \E q \in Sizes : MasterFill(q)
    \/ \E l \in Lanes : PlaceOrder(l) \/ ReadBack(l)
    \/ \E t \in DOMAIN tasks : Reconcile(t)
    \/ \E d \in {-Den, Den} : Trade(d)

BookSpec == BookInit /\ [][BookNext]_bookVars

-----------------------------------------------------------------------------
\* The order of the task is accepted, as its client reads the answer.
PlacedNow(t) == /\ t \in DOMAIN tasks /\ tasks[t].status = "QUEUED"
                /\ tasks'[t].status = "PLACED"

\* Rounding each fill on its own never costs more than one grain per fill that
\* did not fit: with everything executed, nothing refused and no repair, the
\* follower is that close to its share of the master's position, and exactly
\* there when every fill fitted, whatever order the lanes ran in. A grain is the
\* smallest order, up to whole steps. (A reduction
\* whose target is rounded away gets no command at all and is apart.)
Grain == ((terms.limits.min + terms.limits.step - 1) \div terms.limits.step) * terms.limits.step
DriftStaysBounded ==
    Drained /\ ~ disturbed /\ ~ lost /\ Repairs = {}
        => Abs(net - Sourced(terms, master)) <= misses * Grain

\* A command that runs after all planned before it and before all planned after
\* it, with nothing rounded or disturbed, is read back as done: scaling, order, position
\* and target agree on the sign, the unit and the side for every exchange. (With a
\* scale that is not positive, which nothing refuses, order and target disagree.)
InOrderCopiesFill ==
    [][\A t \in DOMAIN tasks :
          /\ tasks[t].status = "PLACED" /\ tasks'[t].status # "PLACED" /\ Sourced(terms, 1) > 0
          /\ ~ disturbed' /\ ~ lost /\ misses = 0 /\ Repairs = {}
          /\ \A u \in DOMAIN tasks : IF u > t THEN tasks[u].status = "QUEUED"
                                     ELSE u < t => tasks[u].status \notin {"QUEUED", "PLACED"}
          => tasks'[t].status = "FILLED"]_bookVars

\* What is copied from a master that reduces or closes, and its repair, never
\* enlarges or turns the follower's position, in whatever order the lanes run and
\* whoever else trades, on the exchanges that are told an order only reduces (the
\* Coinbase client does not say so).
ShrinkingFillsOnlyReduce ==
    [][\A t \in DOMAIN tasks :
          PlacedNow(t) /\ tasks[t].shrinks /\ exchange # "COINBASE"
          => Abs(net') <= Abs(net) /\ net * net' >= 0]_bookVars

\* A repair whose account nobody touched since it was compared brings the
\* position to the target of its task (unless it may only reduce, or is an order
\* Coinbase refused with its number, which the client calls accepted).
RepairReachesTarget ==
    [][\A t \in Repairs :
          /\ PlacedNow(t) /\ tasks[t].found = net /\ ~ tasks[t].command.reduce
          /\ exchange = "COINBASE" => net' # net
          => net' = ExpectedQuantity(tasks[t].command)]_bookVars

\* What a task is told about its order is what became of the position, for every
\* exchange's way of answering: one whose position is read back has moved it, one
\* that FAILED has not. Two clients misread one answer each: Coinbase's calls a
\* refusal that names its order accepted, BitMEX's calls an order failed that
\* traded before its rest was cancelled.
AnswersAreReadRight ==
    [][\A t \in DOMAIN tasks :
          tasks[t].status = "QUEUED" =>
              /\ PlacedNow(t) => net' # net \/ exchange = "COINBASE"
              /\ tasks'[t].status = "FAILED" => net' = net \/ exchange = "BITMEX"]_bookVars

\* The position of the symbol and the list of open positions say the same, and
\* what the exchange holds.
PositionsAreReadRight ==
    LET rows == Rows(exchange, net)
    IN  /\ Position(exchange, rows) = net
        /\ OpenPositions(exchange, rows) = IF net = 0 THEN {} ELSE {net}
=============================================================================
