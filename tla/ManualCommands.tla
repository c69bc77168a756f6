---------------------------- MODULE ManualCommands ----------------------------
(***************************************************************************)
(* The commands of the command builder on one account and symbol: orders    *)
(* with an attached stop and targets, closing the position, cancelling the  *)
(* working orders. A command is a chain of exchange calls without a lock:   *)
(* other commands and the executor trade in between.                        *)
(***************************************************************************)
EXTENDS Adapters, FiniteSets

CONSTANTS Venues,     \* the exchanges tried
          Requests,   \* bound: the commands tried, one per slot of CommandIds
          CommandIds,
          Quantity,   \* the size every order is asked for
          MaxOthers   \* bound: trades of others, refusals and parts, per run

ASSUME ManualConstantsOK ==
    /\ Venues \subseteq AllExchanges
    /\ Requests \subseteq
          [action : {"BUY", "SELL", "CLOSE_POSITION", "CANCEL_ORDERS"},
           type : {"MARKET", "LIMIT", "STOP_MARKET"},
           limit : BOOLEAN, byLimit : BOOLEAN,
           stop : BOOLEAN, percent : BOOLEAN, target : BOOLEAN]
    /\ Quantity \in Nat \ {0}

VARIABLES venue, position,
          working, \* how many orders of the symbol wait on the exchange
          asked,   \* what each command was asked to do
          at,      \* the next call of each command, or how it ended
          seen,    \* the position a command has read, <<>> while it has none
          placed,  \* the orders of a command the exchange took
          answer,  \* what a command will answer and log: per order, was it accepted
          logged,  \* per command the log it wrote, <<>> before
          others

manualVars == <<venue, position, working, asked, at, seen, placed, answer, logged, others>>

\* A request: the action, the type of order, whether a limit price, the flag to close by
\* it, a stop price, a stop percentage and a target are given.
Opens(a) == a.action \in {"BUY", "SELL"}
OwnSide(a) == a.action
OppositeSide(a) == IF a.action = "BUY" THEN "SELL" ELSE "BUY"
Leg(a) == IF a.action = "BUY" THEN "LONG" ELSE "SHORT"

FirstCall(a) == CASE Opens(a) -> "main" [] a.action = "CLOSE_POSITION" -> "look"
                  [] a.action = "CANCEL_ORDERS" -> "cancel"

ManualInit ==
    /\ venue \in Venues /\ position \in {-Quantity, 0, Quantity} /\ working = 0
    /\ asked \in [CommandIds -> Requests]
    /\ at = [c \in CommandIds |-> FirstCall(asked[c])]
    /\ seen = [c \in CommandIds |-> <<>>]
    /\ placed = [c \in CommandIds |-> <<>>]
    /\ answer = [c \in CommandIds |-> <<>>]
    /\ logged = [c \in CommandIds |-> <<>>]
    /\ others = 0

\* What came of an order of c on the exchange.
Booked(c, order, name, o) ==
    /\ position' = position + o.moved
    /\ working' = IF o.taken /\ Waits(order) THEN working + 1 ELSE working
    /\ placed' = IF o.taken THEN [placed EXCEPT ![c] = Append(@, name)] ELSE placed

\* One call of place_order for c: the exchange takes the order or refuses it, and
\* the answer is read by its client.
Placing(c, r, name) ==
    LET order == Sent(venue, FALSE, r)
    IN  \E o \in Outcomes(venue, order, position) :
            /\ others' = IF o.answer = Success \/ ~ Takes(order, position) THEN others
                         ELSE others + 1
            /\ others' <= MaxOthers
            /\ Booked(c, order, name, o)
            /\ answer' = [answer EXCEPT ![c] = Append(@, <<name, Accepted(venue, o.answer)>>)]

\* The call raises: the request fails, and what it would have logged is rolled back.
Fails(c) ==
    /\ others < MaxOthers /\ others' = others + 1
    /\ at' = [at EXCEPT ![c] = "failed"]
    /\ UNCHANGED <<venue, asked, seen, answer, logged>>

\* So may the order's, which may have been taken all the same.
Raises(c, r, name) ==
    LET order == Sent(venue, FALSE, r)
    IN  /\ \E o \in Outcomes(venue, order, position) : Booked(c, order, name, o)
        /\ Fails(c)

MainOrder(c) ==
    Request(OwnSide(asked[c]), Quantity, FALSE, Leg(asked[c]), asked[c].type,
            asked[c].limit, asked[c].stop)

PlaceMain(c) ==
    /\ at[c] = "main"
    /\ \/ /\ Placing(c, MainOrder(c), "MAIN")
          /\ at' = [at EXCEPT ![c] =
                IF ~ answer'[c][1][2] THEN "log"
                ELSE IF asked[c].percent \/ asked[c].target THEN "reference" ELSE "stop"]
          /\ UNCHANGED <<venue, asked, seen, logged>>
       \/ Raises(c, MainOrder(c), "MAIN")

\* Mutant of FetchReference: the call that raises is passed over in silence.
FetchReferenceQuietly(c) ==
    /\ at[c] = "reference"
    /\ \/ /\ seen' = [seen EXCEPT ![c] = <<Position(venue, Rows(venue, position))>>]
          /\ UNCHANGED others
       \/ /\ others < MaxOthers /\ others' = others + 1
          /\ UNCHANGED seen
    /\ at' = [at EXCEPT ![c] = "stop"]
    /\ UNCHANGED <<venue, position, working, asked, placed, answer, logged>>

\* The position is the reference of the percentages; only this call is guarded.
FetchReference(c) ==
    /\ at[c] = "reference"
    /\ \/ /\ seen' = [seen EXCEPT ![c] = <<Position(venue, Rows(venue, position))>>]
          /\ UNCHANGED <<answer, others>>
       \/ /\ others < MaxOthers /\ others' = others + 1
          /\ answer' = [answer EXCEPT ![c] = Append(@, <<"POSITION_REFERENCE", FALSE>>)]
          /\ UNCHANGED seen
    /\ at' = [at EXCEPT ![c] = "stop"]
    /\ UNCHANGED <<venue, position, working, asked, placed, logged>>

\* A reference price is known when there is a position to have one.
ReferenceRead(c) == seen[c] # <<>>
ReferenceKnown(c) == ReferenceRead(c) /\ seen[c][1] # 0

\* A stop price, unless it is the order's own trigger; else a percentage of the reference.
StopPriced(a) == a.stop /\ a.type # "STOP_MARKET"
StopWanted(c) == StopPriced(asked[c]) \/ (asked[c].percent /\ ReferenceKnown(c))

StopOrder(c) ==
    Request(OppositeSide(asked[c]), Quantity, TRUE, Leg(asked[c]), "STOP_MARKET", FALSE, TRUE)

PlaceStop(c) ==
    /\ at[c] = "stop"
    /\ \/ /\ ~ StopWanted(c)
          /\ at' = [at EXCEPT ![c] = "target"]
          /\ UNCHANGED <<venue, position, working, asked, seen, placed, answer, logged, others>>
       \/ /\ StopWanted(c)
          /\ Placing(c, StopOrder(c), "STOP_LOSS")
          /\ at' = [at EXCEPT ![c] = "target"]
          /\ UNCHANGED <<venue, asked, seen, logged>>
       \/ StopWanted(c) /\ Raises(c, StopOrder(c), "STOP_LOSS")

TargetOrder(c) ==
    Request(OppositeSide(asked[c]), Quantity, TRUE, Leg(asked[c]), "LIMIT", TRUE, FALSE)

PlaceTarget(c) ==
    /\ at[c] = "target"
    /\ \/ /\ ~ asked[c].target \/ ~ ReferenceRead(c)
          /\ UNCHANGED <<position, working, placed, answer, others>>
          /\ at' = [at EXCEPT ![c] = "log"]
          /\ UNCHANGED <<venue, asked, seen, logged>>
       \/ /\ asked[c].target /\ ReferenceRead(c) /\ ~ ReferenceKnown(c)
          /\ answer' = [answer EXCEPT ![c] = Append(@, <<"TAKE_PROFIT", FALSE>>)]
          /\ at' = [at EXCEPT ![c] = "log"]
          /\ UNCHANGED <<venue, position, working, asked, seen, placed, logged, others>>
       \/ /\ asked[c].target /\ ReferenceRead(c) /\ ReferenceKnown(c)
          /\ Placing(c, TargetOrder(c), "TAKE_PROFIT")
          /\ at' = [at EXCEPT ![c] = "log"]
          /\ UNCHANGED <<venue, asked, seen, logged>>
       \/ asked[c].target /\ ReferenceRead(c) /\ ReferenceKnown(c)
          /\ Raises(c, TargetOrder(c), "TAKE_PROFIT")

\* Mutant of AnswerLogged: the log is written with what the main order answered.
AnswerLoggedMain(c) == SelectSeq(answer[c], LAMBDA e : e[1] = "MAIN")

AnswerLogged(c) == answer[c]

WriteLog(c) ==
    /\ at[c] = "log"
    /\ logged' = [logged EXCEPT ![c] = AnswerLogged(c)]
    /\ at' = [at EXCEPT ![c] = "done"]
    /\ UNCHANGED <<venue, position, working, asked, seen, placed, answer, others>>

LookToClose(c) ==
    /\ at[c] = "look"
    /\ \/ /\ seen' = [seen EXCEPT ![c] = <<Position(venue, Rows(venue, position))>>]
          /\ \/ /\ seen'[c] = <<0>>
                /\ logged' = [logged EXCEPT ![c] = <<<<"NOTHING_OPEN", TRUE>>>>]
                /\ at' = [at EXCEPT ![c] = "done"]
             \/ /\ seen'[c] # <<0>> /\ UNCHANGED logged
                /\ at' = [at EXCEPT ![c] = "close"]
          /\ UNCHANGED <<venue, position, working, asked, placed, answer, others>>
       \/ Fails(c) /\ UNCHANGED <<position, working, placed>>

\* An order against the position that was read, at the limit price if the flag is set.
ClosingOrder(a, q, reduce) ==
    Request(IF q > 0 THEN "SELL" ELSE "BUY", Abs(q), reduce, IF q > 0 THEN "LONG" ELSE "SHORT",
            IF a.byLimit /\ a.limit THEN "LIMIT" ELSE a.type, a.byLimit /\ a.limit, a.stop)

\* Mutant of CloseOrder: an order for the size that was read, whatever it is by now.
CloseOrderOpen(c) == ClosingOrder(asked[c], seen[c][1], FALSE)

CloseOrder(c) == ClosingOrder(asked[c], seen[c][1], TRUE)

PlaceClose(c) ==
    /\ at[c] = "close"
    /\ \/ /\ Placing(c, CloseOrder(c), "CLOSE")
          /\ at' = [at EXCEPT ![c] = "log"]
          /\ UNCHANGED <<venue, asked, seen, logged>>
       \/ Raises(c, CloseOrder(c), "CLOSE")

\* The answer carries the client's report; the log says accepted whatever it is. A call
\* that raises may have cancelled all the same.
CancelOrders(c) ==
    /\ at[c] = "cancel"
    /\ \E done \in BOOLEAN :
         /\ working' = IF done THEN 0 ELSE working
         /\ \/ /\ \E a \in CallAnswers(venue, done) :
                     answer' = [answer EXCEPT ![c] =
                                   <<<<"CANCEL", CancelReported(venue, working, a)>>>>]
               /\ done \/ others < MaxOthers
               /\ others' = IF done THEN others ELSE others + 1
               /\ logged' = [logged EXCEPT ![c] = <<<<"CANCEL", TRUE>>>>]
               /\ at' = [at EXCEPT ![c] = "done"]
               /\ UNCHANGED <<venue, asked, seen>>
            \/ Fails(c)
    /\ UNCHANGED <<position, placed>>

\* The executor, or somebody else, trades on the account.
OtherTrade(d) ==
    /\ others < MaxOthers /\ others' = others + 1
    /\ position' = position + d
    /\ UNCHANGED <<venue, working, asked, at, seen, placed, answer, logged>>

ManualNext ==
    \/ \E c \in CommandIds : \/ PlaceMain(c) \/ FetchReference(c) \/ PlaceStop(c) \/ PlaceTarget(c)
                             \/ WriteLog(c) \/ LookToClose(c) \/ PlaceClose(c) \/ CancelOrders(c)
    \/ \E d \in {-1, 1} : OtherTrade(d)

ManualSpec == ManualInit /\ [][ManualNext]_manualVars

-----------------------------------------------------------------------------
InLog(c, name) == \E i \in DOMAIN logged[c] : logged[c][i][1] = name

\* Closing never turns a position into the opposite one and never enlarges it, though
\* the position may have moved since it was read, on the exchanges that are told an
\* order only reduces (the Coinbase client does not say so).
CloseNeverReverses ==
    [][\A c \in CommandIds :
          at[c] = "close" /\ at'[c] # "close" /\ venue # "COINBASE"
          => Abs(position') <= Abs(position) /\ position * position' >= 0]_manualVars

\* A stop that was asked for with an order that was accepted is placed - one with a
\* price always, one in percent unless the log tells that its reference could not be
\* read. (A reference that was read and was flat already is passed over in
\* silence: seen tells the two apart.)
StopIsPlacedOrReported ==
    \A c \in CommandIds :
        at[c] = "done" /\ Opens(asked[c]) /\ <<"MAIN", TRUE>> = logged[c][1] =>
            /\ StopPriced(asked[c]) => InLog(c, "STOP_LOSS")
            /\ asked[c].percent =>
                  InLog(c, "STOP_LOSS") \/ InLog(c, "POSITION_REFERENCE") \/ seen[c] = <<0>>

\* Of its orders, the log of an answered command lists as accepted those the exchange
\* took - all of them and no other, but for the answer Coinbase's client and the answer
\* BitMEX's client misreads.
LoggedIsWhatHappened ==
    \A c \in CommandIds : at[c] = "done" =>
        LET taken == {placed[c][i] : i \in DOMAIN placed[c]}
            told == {logged[c][i][1] : i \in {j \in DOMAIN logged[c] : logged[c][j][2]}}
                       \ {"NOTHING_OPEN", "CANCEL"}
        IN  /\ told \subseteq taken \/ venue = "COINBASE"
            /\ taken \subseteq told \/ venue = "BITMEX"
=============================================================================
