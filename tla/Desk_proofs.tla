------------------------------ MODULE Desk_proofs ------------------------------
(***************************************************************************)
(* Proofs about what reaches an exchange: the clients (Adapters), for every  *)
(* exchange and order; ManualCommands, for any commands at once and any      *)
(* trades and failures beside them; FollowerBook, for any terms of a route,  *)
(* any fills and any order of the three lanes.                              *)
(***************************************************************************)
EXTENDS ManualCommands, FollowerBook, Numbers_proofs

-----------------------------------------------------------------------------
(* Answers, rows and orders, as each client has them.                             *)

\* What an answer says is yes or no, whoever reads it.
Answer(a) == a.http \in BOOLEAN /\ a.done \in BOOLEAN /\ a.id \in BOOLEAN
LEMMA AnswersAreRead ==
    ASSUME NEW e \in AllExchanges, NEW a, Answer(a) PROVE Accepted(e, a) \in BOOLEAN
<1>1. CASE e \in {"OKX", "BYBIT", "KRAKEN", "BITMEX"}
  BY <1>1 DEF Accepted, OkxAccepts, BybitAccepts, KrakenAccepts, BitmexAccepts
<1>2. CASE e \in {"BINANCE", "GATEIO"}
  BY <1>2 DEF Answer, Accepted, BinanceAccepts, GateioAccepts
<1>3. CASE e = "COINBASE"
  BY <1>3 DEF Accepted, CoinbaseAccepts
<1> QED
  BY <1>1, <1>2, <1>3 DEF AllExchanges

LEMMA AnswersGiven ==
    /\ Answer(Success) /\ Answer(NotDone) /\ Success # NotDone
    /\ \A e \in AllExchanges : \A a \in Refusals(e) : Answer(a) /\ a # Success
<1>1. Answer(Success) /\ Answer(NotDone) /\ Success.done = TRUE /\ NotDone.done = FALSE
  BY DEF Answer, Success, NotDone
<1>2. ASSUME NEW e \in AllExchanges, NEW a \in Refusals(e) PROVE Answer(a) /\ a.done = FALSE
  <2>1. \/ a = [http |-> FALSE, done |-> FALSE, id |-> FALSE]
        \/ a = [http |-> TRUE, done |-> FALSE, id |-> FALSE]
    BY <1>2 DEF Refusals
  <2>2. a.http \in BOOLEAN /\ a.done = FALSE /\ a.id = FALSE
    <3>1. CASE a = [http |-> FALSE, done |-> FALSE, id |-> FALSE]
      <4>1. a.http = FALSE /\ a.done = FALSE /\ a.id = FALSE
        BY <3>1
      <4> QED
        BY <4>1
    <3>2. CASE a = [http |-> TRUE, done |-> FALSE, id |-> FALSE]
      <4>1. a.http = TRUE /\ a.done = FALSE /\ a.id = FALSE
        BY <3>2
      <4> QED
        BY <4>1
    <3> QED
      BY <2>1, <3>1, <3>2
  <2> QED
    BY <2>2 DEF Answer
<1> QED
  BY <1>1, <1>2

\* An order that was taken whole is accepted, and no refusal is, but one that Coinbase
\* gave a number.
LEMMA SuccessIsRead == ASSUME NEW e \in AllExchanges PROVE Accepted(e, Success)
  BY DEF Success, AllExchanges, Accepted, OkxAccepts, BinanceAccepts, BybitAccepts,
     CoinbaseAccepts, KrakenAccepts, BitmexAccepts, GateioAccepts

LEMMA OrderRefusalsAreRead ==
    ASSUME NEW e \in AllExchanges, NEW a \in OrderRefusals(e), e # "COINBASE"
    PROVE  ~ Accepted(e, a)
<1>1. \/ a = [http |-> FALSE, done |-> FALSE, id |-> FALSE]
      \/ /\ a = [http |-> TRUE, done |-> FALSE, id |-> FALSE]
         /\ e \in {"OKX", "BYBIT", "COINBASE", "KRAKEN"}
      \/ a = NotDone /\ e = "BITMEX"
  BY DEF OrderRefusals, Refusals
<1>2. CASE a = [http |-> FALSE, done |-> FALSE, id |-> FALSE]
  <2>1. a.http = FALSE /\ a.done = FALSE /\ a.id = FALSE
    BY <1>2
  <2> QED
    BY <2>1 DEF AllExchanges, Accepted, OkxAccepts, BinanceAccepts, BybitAccepts,
       CoinbaseAccepts, KrakenAccepts, BitmexAccepts, GateioAccepts
<1>3. CASE a = [http |-> TRUE, done |-> FALSE, id |-> FALSE]
           /\ e \in {"OKX", "BYBIT", "COINBASE", "KRAKEN"}
  <2>1. a.http = TRUE /\ a.done = FALSE /\ a.id = FALSE
    BY <1>3
  <2> QED
    BY <1>3, <2>1 DEF AllExchanges, Accepted, OkxAccepts, BybitAccepts, KrakenAccepts
<1>4. CASE a = NotDone /\ e = "BITMEX"
  <2>1. a.done = FALSE
    BY <1>4 DEF NotDone
  <2> QED
    BY <1>4, <2>1 DEF Accepted, BitmexAccepts
<1> QED
  BY <1>1, <1>2, <1>3, <1>4

\* A part of an order moves the position the same way, and less.
LEMMA PartsAreBetween ==
    ASSUME NEW e, NEW order, order.size \in Int, NEW n \in Int, NEW m \in Parts(e, order, n)
    PROVE  /\ e = "BITMEX" /\ m \in Int /\ FilledSize(order, n) \in Int
           /\ \/ 0 < m /\ m < FilledSize(order, n)
              \/ FilledSize(order, n) < m /\ m < 0
<1> DEFINE whole == FilledSize(order, n)
<1>1. whole \in Int
  BY DEF FilledSize
<1> HIDE DEF whole
<1>2. e = "BITMEX" /\ m \in Int /\ m * whole > 0 /\ m # whole /\ -Abs(whole) <= m /\ m <= Abs(whole)
  <2>1. -Abs(whole) \in Int /\ Abs(whole) \in Int
    BY <1>1 DEF Abs
  <2> QED
    BY <2>1 DEF Parts, whole
<1>3. (m > 0 /\ whole > 0) \/ (m < 0 /\ whole < 0)
  <2>1. -whole \in Int /\ m * (-whole) < 0
    BY <1>1, <1>2
  <2>2. (m > 0 /\ -whole < 0) \/ (m < 0 /\ -whole > 0)
    BY <1>2, <2>1, ProductSign
  <2> QED
    BY <1>1, <2>2
<1> QED
  BY <1>1, <1>2, <1>3 DEF Abs, whole

\* What is told of an order is what became of it, but for one answer of Coinbase's and
\* one of BitMEX's.
LEMMA OutcomesTell ==
    ASSUME NEW e \in AllExchanges, NEW order, order.size \in Int, NEW n \in Int,
           NEW o \in Outcomes(e, order, n)
    PROVE  /\ o.taken \in BOOLEAN /\ o.moved \in Int /\ Accepted(e, o.answer) \in BOOLEAN
           /\ o.taken => Takes(order, n)
           /\ ~ o.taken => o.moved = 0 /\ o.answer # Success
           /\ o.taken => o.moved = FilledSize(order, n) \/ o.moved \in Parts(e, order, n)
           /\ o.taken /\ e # "BITMEX" => o.moved = FilledSize(order, n) /\ Accepted(e, o.answer)
           /\ Accepted(e, o.answer) /\ e # "COINBASE" =>
                 o.taken /\ o.moved = FilledSize(order, n)
<1>1. CASE \E a \in OrderRefusals(e) : o = Outcome(FALSE, 0, a)
  <2>1. PICK a \in OrderRefusals(e) : o = Outcome(FALSE, 0, a)
    BY <1>1
  <2>2. o.taken = FALSE /\ o.moved = 0 /\ o.answer = a
    BY <2>1 DEF Outcome
  <2>3. Answer(a) /\ a # Success
    BY AnswersGiven DEF OrderRefusals
  <2>4. Accepted(e, a) \in BOOLEAN
    BY <2>3, AnswersAreRead
  <2>5. e # "COINBASE" => ~ Accepted(e, a)
    BY OrderRefusalsAreRead
  <2>6. o.taken \in BOOLEAN /\ ~ o.taken
    BY <2>2
  <2>7. o.moved \in Int /\ o.answer # Success
    BY <2>2, <2>3
  <2>8. /\ Accepted(e, o.answer) \in BOOLEAN
        /\ e # "COINBASE" => ~ Accepted(e, o.answer)
    BY <2>2, <2>4, <2>5, Zenon
  <2> QED
    BY <2>2, <2>6, <2>7, <2>8
<1>2. CASE Takes(order, n) /\ o = Outcome(TRUE, FilledSize(order, n), Success)
  <2>1. o.taken = TRUE /\ o.moved = FilledSize(order, n) /\ o.answer = Success
    BY <1>2 DEF Outcome
  <2>2. FilledSize(order, n) \in Int
    BY DEF FilledSize
  <2>3. Accepted(e, Success) \in BOOLEAN /\ Accepted(e, Success)
    BY AnswersGiven, AnswersAreRead, SuccessIsRead
  <2>4. o.taken \in BOOLEAN /\ o.taken
    BY <2>1
  <2>5. o.moved \in Int
    BY <2>1, <2>2
  <2>6. Accepted(e, o.answer) \in BOOLEAN /\ Accepted(e, o.answer)
    BY <2>1, <2>3, Zenon
  <2> QED
    BY <1>2, <2>1, <2>4, <2>5, <2>6
<1>3. CASE Takes(order, n) /\ \E m \in Parts(e, order, n) : o = Outcome(TRUE, m, NotDone)
  <2>1. PICK m \in Parts(e, order, n) : o = Outcome(TRUE, m, NotDone)
    BY <1>3
  <2>2. o.taken = TRUE /\ o.moved = m /\ o.answer = NotDone
    BY <2>1 DEF Outcome
  <2>3. e = "BITMEX" /\ m \in Int
    BY PartsAreBetween
  <2>4. ~ Accepted(e, NotDone)
    BY <2>3 DEF Accepted, BitmexAccepts, NotDone
  <2>5. o.taken \in BOOLEAN /\ o.taken
    BY <2>2
  <2>6. o.moved \in Int /\ o.moved \in Parts(e, order, n)
    BY <2>2, <2>3
  <2>7. Accepted(e, o.answer) \in BOOLEAN /\ ~ Accepted(e, o.answer)
    <3>1. Accepted(e, NotDone) \in BOOLEAN
      BY AnswersGiven, AnswersAreRead
    <3> QED
      BY <2>2, <2>4, <3>1, Zenon
  <2> QED
    BY <1>3, <2>3, <2>5, <2>6, <2>7
<1> QED
  BY <1>1, <1>2, <1>3 DEF Outcomes

\* The row of a position is read as the position, whatever the exchange's row of it.
LEMMA RowsAreRead ==
    ASSUME NEW e \in AllExchanges, NEW q \in Int PROVE Position(e, Rows(e, q)) = q
<1>1. CASE e = "OKX"
  BY <1>1 DEF Position, Rows, OkxPosition, FirstRow, NegatedIf
<1>2. CASE e = "BYBIT"
  <2> DEFINE r == [size |-> Abs(q),
                   side |-> IF q > 0 THEN "Buy" ELSE IF q < 0 THEN "Sell" ELSE ""]
  <2>1. Rows(e, q) = <<r>>
    BY <1>2 DEF Rows
  <2> HIDE DEF r
  <2>2. Position(e, <<r>>) = BybitSigned(r)
    BY <1>2 DEF Position, BybitPosition, FirstRow
  <2>3. BybitSigned(r) = q
    <3>1. CASE q > 0
      BY <3>1 DEF BybitSigned, Abs, r
    <3>2. CASE q < 0
      BY <3>2 DEF BybitSigned, Abs, r
    <3>3. CASE q = 0
      BY <3>3 DEF BybitSigned, Abs, r
    <3> QED
      BY <3>1, <3>2, <3>3
  <2> QED
    BY <2>1, <2>2, <2>3
<1>3. CASE e = "COINBASE"
  BY <1>3 DEF Position, Rows, CoinbasePosition, FirstRow, CoinbaseSigned, Abs
<1>4. CASE e = "KRAKEN"
  BY <1>4 DEF Position, Rows, KrakenPosition, FirstRow, NegatedIf, Abs
<1>5. CASE e = "BINANCE"
  BY <1>5 DEF Position, Rows, BinancePosition, FirstRow, AsTold
<1>6. CASE e = "BITMEX"
  BY <1>6 DEF Position, Rows, BitmexPosition, FirstRow, AsTold
<1>7. CASE e = "GATEIO"
  BY <1>7 DEF Position, Rows, GateioPosition, FirstRow, AsTold
<1> QED
  BY <1>1, <1>2, <1>3, <1>4, <1>5, <1>6, <1>7 DEF AllExchanges

\* The order a request becomes has its side and size, and only reduces when the
\* request says so, unless the exchange is not told.
LEMMA OrdersAreSent ==
    ASSUME NEW e \in AllExchanges, NEW r
    PROVE  /\ Sent(e, FALSE, r).size = IF r.side = "BUY" THEN r.quantity ELSE -r.quantity
           /\ e # "COINBASE" => Sent(e, FALSE, r).reduce = r.reduce
  BY DEF AllExchanges, Sent, Order, OkxOrder, BinanceOrder, BybitOrder, CoinbaseOrder, KrakenOrder,
     BitmexOrder, GateioOrder

\* External: what is filled of an order that only reduces, whole or in part, never turns
\* a position.
LEMMA ReducingOnlyReduces ==
    ASSUME NEW e \in AllExchanges, NEW order, order.size \in Int, order.reduce = TRUE,
           NEW n \in Int, NEW o \in Outcomes(e, order, n)
    PROVE  Abs(n + o.moved) <= Abs(n) /\ n * (n + o.moved) >= 0
<1>1. /\ o.moved \in Int /\ (o.taken => Takes(order, n)) /\ (~ o.taken => o.moved = 0)
      /\ o.taken => o.moved = FilledSize(order, n) \/ o.moved \in Parts(e, order, n)
  BY OutcomesTell
<1> DEFINE now == n + o.moved
<1>2. now \in Int
  BY <1>1
<1>3. CASE ~ o.taken
  BY <1>1, <1>3, SameSign DEF Abs
<1>4. CASE o.taken
  <2>1. (order.size > 0 /\ n < 0) \/ (order.size < 0 /\ n > 0)
    BY <1>1, <1>4, ProductSign DEF Takes
  <2>2. /\ FilledSize(order, n) \in Int
        /\ n > 0 => FilledSize(order, n) <= 0 /\ -n <= FilledSize(order, n)
        /\ n < 0 => 0 <= FilledSize(order, n) /\ FilledSize(order, n) <= -n
    BY <2>1 DEF FilledSize, Abs
  <2>3. \/ o.moved = FilledSize(order, n)
        \/ 0 < o.moved /\ o.moved < FilledSize(order, n)
        \/ FilledSize(order, n) < o.moved /\ o.moved < 0
    BY <1>1, <1>4, PartsAreBetween
  <2>4. /\ n > 0 => now >= 0 /\ now <= n
        /\ n < 0 => now <= 0 /\ now >= n
        /\ n # 0
    BY <1>1, <2>1, <2>2, <2>3
  <2> HIDE DEF now
  <2>5. n * now >= 0
    BY <1>2, <2>4, SameSign
  <2>6. Abs(now) <= Abs(n)
    BY <1>2, <2>4 DEF Abs
  <2> QED
    BY <2>5, <2>6 DEF now
<1> QED
  BY <1>3, <1>4

\* The list of open positions has the position, or nothing when there is none.
LEMMA OpenRowsAreRead ==
    ASSUME NEW e \in AllExchanges, NEW q \in Int
    PROVE  OpenPositions(e, Rows(e, q)) = IF q = 0 THEN {} ELSE {q}
<1>1. CASE e = "OKX"
  BY <1>1 DEF OpenPositions, Rows, OkxOpen, OpenRows, NegatedIf
<1>2. CASE e = "BYBIT"
  <2> DEFINE r == [size |-> Abs(q),
                   side |-> IF q > 0 THEN "Buy" ELSE IF q < 0 THEN "Sell" ELSE ""]
  <2>1. Rows(e, q) = <<r>> /\ r.size = Abs(q)
    BY <1>2 DEF Rows
  <2> HIDE DEF r
  <2>2. BybitSigned(r) = q
    <3>1. CASE q > 0
      BY <3>1 DEF BybitSigned, Abs, r
    <3>2. CASE q < 0
      BY <3>2 DEF BybitSigned, Abs, r
    <3>3. CASE q = 0
      BY <3>3 DEF BybitSigned, Abs, r
    <3> QED
      BY <3>1, <3>2, <3>3
  <2>3. Abs(q) = 0 <=> q = 0
    BY DEF Abs
  <2>4. OpenPositions(e, <<r>>) = {BybitSigned(<<r>>[i]) : i \in {j \in DOMAIN <<r>> : <<r>>[j].size # 0}}
    BY <1>2 DEF OpenPositions, BybitOpen, OpenRows
  <2>5. DOMAIN <<r>> = {1} /\ <<r>>[1] = r
    OBVIOUS
  <2>6. OpenPositions(e, <<r>>) = IF q = 0 THEN {} ELSE {q}
    BY <2>1, <2>2, <2>3, <2>4, <2>5
  <2> QED
    BY <2>1, <2>6
<1>3. CASE e = "COINBASE"
  BY <1>3 DEF OpenPositions, Rows, CoinbaseOpen, OpenRows, CoinbaseSigned, Abs
<1>4. CASE e = "KRAKEN"
  BY <1>4 DEF OpenPositions, Rows, KrakenOpen, OpenRows, NegatedIf, Abs
<1>5. CASE e \in {"BINANCE", "BITMEX", "GATEIO"}
  <2> DEFINE r == [size |-> q, side |-> ""]
  <2>1. Rows(e, q) = <<r>> /\ r.size = q
    BY <1>5 DEF Rows
  <2> HIDE DEF r
  <2>2. OpenPositions(e, <<r>>) = {<<r>>[i].size : i \in {j \in DOMAIN <<r>> : <<r>>[j].size # 0}}
    BY <1>5 DEF OpenPositions, BinanceOpen, BitmexOpen, GateioOpen, OpenRows, AsTold
  <2>3. DOMAIN <<r>> = {1} /\ <<r>>[1] = r
    OBVIOUS
  <2>4. OpenPositions(e, <<r>>) = IF q = 0 THEN {} ELSE {q}
    BY <2>1, <2>2, <2>3
  <2> QED
    BY <2>1, <2>4
<1> QED
  BY <1>1, <1>2, <1>3, <1>4, <1>5 DEF AllExchanges

\* A market order without a stop is one for every exchange.
LEMMA MarketOrders ==
    ASSUME NEW e \in AllExchanges, NEW r, r.type = "MARKET", r.stop = FALSE
    PROVE  /\ ~ Waits(Sent(e, FALSE, r))
           /\ Sent(e, FALSE, r).reduce \in {r.reduce, FALSE}
<1>1. e = "BINANCE" => Sent(e, FALSE, r).kind = "market"
  BY DEF Sent, BinanceOrder, Order
<1>2. e = "BYBIT" => Sent(e, FALSE, r).kind = "market"
  BY DEF Sent, BybitOrder, Order
<1>3. Sent(e, FALSE, r).kind = "market" /\ Sent(e, FALSE, r).reduce \in {r.reduce, FALSE}
  BY <1>1, <1>2 DEF AllExchanges, Sent, Order, OkxOrder, BinanceOrder, BybitOrder, CoinbaseOrder,
     KrakenOrder, BitmexOrder, GateioOrder, MarketOrLimit
<1>4. Sent(e, FALSE, r).trigger = FALSE
  BY DEF AllExchanges, Sent, Order, OkxOrder, BinanceOrder, BybitOrder, CoinbaseOrder,
     KrakenOrder, BitmexOrder, GateioOrder
<1> QED
  BY <1>3, <1>4 DEF Waits

-----------------------------------------------------------------------------
(* Manual commands: the invariant and its lemmas.                           *)

Orders == {"MAIN", "STOP_LOSS", "TAKE_PROFIT", "CLOSE"}
Entry == (Orders \cup {"POSITION_REFERENCE", "NOTHING_OPEN", "CANCEL"}) \X BOOLEAN
OpeningSteps == {"main", "reference", "stop", "target"}
Places == OpeningSteps \cup {"look", "close", "cancel", "log", "done", "failed"}

Seen == {<<>>} \cup {<<q>> : q \in Int}

ManualTypes ==
    /\ venue \in AllExchanges
    /\ position \in Int
    /\ working \in Nat
    /\ asked \in [CommandIds -> Requests]
    /\ at \in [CommandIds -> Places]
    /\ seen \in [CommandIds -> Seen]
    /\ placed \in [CommandIds -> Seq(Orders)]
    /\ answer \in [CommandIds -> Seq(Entry)]
    /\ logged \in [CommandIds -> Seq(Entry)]

\* What a list of orders names, and what an answer calls accepted.
Named(orders) == {orders[i] : i \in DOMAIN orders}
AcceptedIn(entries) == {entries[i][1] : i \in {j \in DOMAIN entries : entries[j][2]}}
Mentions(entries, name) == \E i \in DOMAIN entries : entries[i][1] = name

(* A command that has not ended has told of its orders what became of them, *)
(* as far as its client reads that, and the steps that come before an order *)
(* come without one.                                                        *)

Agreeing(taken, told) ==
    /\ told \subseteq taken \/ venue = "COINBASE"
    /\ taken \subseteq told \/ venue = "BITMEX"
AnswersTrue(c) ==
    /\ at[c] \in {"main", "look", "cancel"} => placed[c] = <<>> /\ answer[c] = <<>>
    /\ at[c] = "close" => seen[c] # <<>>
    /\ at[c] \notin {"done", "failed"} =>
          /\ Agreeing(Named(placed[c]), AcceptedIn(answer[c]))
          /\ \A i \in DOMAIN answer[c] : answer[c][i][1] \notin {"NOTHING_OPEN", "CANCEL"}
    /\ at[c] = "done" =>
          Agreeing(Named(placed[c]), AcceptedIn(logged[c]) \ {"NOTHING_OPEN", "CANCEL"})

(* Past its step, the stop of an accepted order is placed, or its reference  *)
(* was flat or could not be read, and of that the answer tells.              *)

StopKept(c, entries) ==
    entries[1] = <<"MAIN", TRUE>> =>
        /\ StopPriced(asked[c]) => Mentions(entries, "STOP_LOSS")
        /\ asked[c].percent =>
              \/ Mentions(entries, "STOP_LOSS") \/ Mentions(entries, "POSITION_REFERENCE")
              \/ seen[c] = <<0>>
ReferenceTold(c) ==
    asked[c].percent => seen[c] # <<>> \/ Mentions(answer[c], "POSITION_REFERENCE")
StopsKept(c) ==
    /\ Opens(asked[c]) => at[c] \in OpeningSteps \cup {"log", "done", "failed"}
    /\ at[c] \in OpeningSteps \ {"main"} => Len(answer[c]) > 0
    /\ Opens(asked[c]) /\ at[c] = "log" => Len(answer[c]) > 0
    /\ at[c] = "stop" => ReferenceTold(c)
    /\ Opens(asked[c]) /\ at[c] \in {"target", "log"} => StopKept(c, answer[c])
    /\ Opens(asked[c]) /\ at[c] = "done" => StopKept(c, logged[c])

\* What was read is a position.
LEMMA SeenTells ==
    ASSUME NEW s \in Seen, s # <<>> PROVE s[1] \in Int /\ s = <<s[1]>>
  BY DEF Seen

ManualInv == ManualTypes /\ \A c \in CommandIds : AnswersTrue(c) /\ StopsKept(c)

\* An entry more.
LEMMA AnswerGrows ==
    ASSUME NEW s \in Seq(Entry), NEW e \in Entry, NEW t, t = Append(s, e)
    PROVE  /\ t \in Seq(Entry)
           /\ e[2] => AcceptedIn(t) = AcceptedIn(s) \cup {e[1]}
           /\ ~ e[2] => AcceptedIn(t) = AcceptedIn(s)
           /\ Mentions(t, e[1])
           /\ \A m : Mentions(s, m) => Mentions(t, m)
           /\ Len(t) > 0
           /\ Len(s) > 0 => t[1] = s[1]
           /\ \A i \in DOMAIN t : t[i] = e \/ \E j \in DOMAIN s : s[j] = t[i]
<1>1. /\ t \in Seq(Entry) /\ Len(t) = Len(s) + 1 /\ Len(s) \in Nat
      /\ DOMAIN t = 1 .. Len(s) + 1 /\ DOMAIN s = 1 .. Len(s)
      /\ \A i \in DOMAIN s : t[i] = s[i]
      /\ t[Len(s) + 1] = e
  OBVIOUS
<1>2. /\ e[2] => AcceptedIn(t) = AcceptedIn(s) \cup {e[1]}
      /\ ~ e[2] => AcceptedIn(t) = AcceptedIn(s)
  BY <1>1 DEF AcceptedIn
<1>3. Mentions(t, e[1]) /\ \A m : Mentions(s, m) => Mentions(t, m)
  BY <1>1 DEF Mentions
<1>4. \A i \in DOMAIN t : t[i] = e \/ \E j \in DOMAIN s : s[j] = t[i]
  BY <1>1
<1> QED
  BY <1>1, <1>2, <1>3, <1>4

\* An accepted entry more.
LEMMA AcceptedGrows ==
    ASSUME NEW s \in Seq(Entry), NEW e \in Entry, e[2], NEW t, t = Append(s, e)
    PROVE  AcceptedIn(t) = AcceptedIn(s) \cup {e[1]}
<1>1. /\ DOMAIN t = 1 .. Len(s) + 1 /\ DOMAIN s = 1 .. Len(s) /\ Len(s) \in Nat
      /\ \A i \in DOMAIN s : t[i] = s[i]
      /\ t[Len(s) + 1] = e
  OBVIOUS
<1> QED
  BY <1>1 DEF AcceptedIn

\* An order more.
LEMMA OrdersGrow ==
    ASSUME NEW s \in Seq(Orders), NEW n \in Orders
    PROVE  Append(s, n) \in Seq(Orders) /\ Named(Append(s, n)) = Named(s) \cup {n}
<1> DEFINE t == Append(s, n)
<1>1. /\ t \in Seq(Orders) /\ Len(t) = Len(s) + 1 /\ Len(s) \in Nat
      /\ DOMAIN t = 1 .. Len(s) + 1 /\ DOMAIN s = 1 .. Len(s)
      /\ \A i \in DOMAIN s : t[i] = s[i]
      /\ t[Len(s) + 1] = n
  OBVIOUS
<1> HIDE DEF t
<1>2. Named(t) = Named(s) \cup {n}
  BY <1>1 DEF Named
<1> QED
  BY <1>1, <1>2 DEF t

-----------------------------------------------------------------------------
(* One call of place_order, by whichever command.                           *)

IsRequest(r) == r.quantity \in Int

\* The size of an order is a number.
LEMMA SentTypes ==
    ASSUME ManualTypes, NEW r, IsRequest(r) PROVE Sent(venue, FALSE, r).size \in Int
<1>1. venue \in AllExchanges /\ r.quantity \in Int /\ -r.quantity \in Int
  BY DEF ManualTypes, IsRequest
<1> QED
  BY <1>1, OrdersAreSent

\* What an order leaves on the exchange.
LEMMA BookedKeepsTypes ==
    ASSUME ManualTypes, NEW c \in CommandIds, NEW order, order.size \in Int,
           NEW name \in Orders, NEW o \in Outcomes(venue, order, position),
           Booked(c, order, name, o)
    PROVE  /\ position' \in Int /\ working' \in Nat
           /\ placed' \in [CommandIds -> Seq(Orders)]
           /\ o.taken => Named(placed'[c]) = Named(placed[c]) \cup {name}
           /\ ~ o.taken => Named(placed'[c]) = Named(placed[c])
           /\ \A d \in CommandIds \ {c} : placed'[d] = placed[d]
<1>1. /\ position \in Int /\ working \in Nat /\ placed \in [CommandIds -> Seq(Orders)]
      /\ venue \in AllExchanges
  BY DEF ManualTypes
<1>2. o.moved \in Int /\ o.taken \in BOOLEAN
  BY <1>1, OutcomesTell
<1>3. position' \in Int /\ working' \in Nat
  BY <1>1, <1>2 DEF Booked
<1>4. CASE o.taken
  <2>1. placed[c] \in Seq(Orders) /\ placed' = [placed EXCEPT ![c] = Append(placed[c], name)]
    BY <1>1, <1>4 DEF Booked
  <2>2. Append(placed[c], name) \in Seq(Orders) /\ placed'[c] = Append(placed[c], name)
    BY <1>1, <2>1, OrdersGrow
  <2>3. Named(placed'[c]) = Named(placed[c]) \cup {name}
    BY <2>1, <2>2, OrdersGrow
  <2>4. placed' \in [CommandIds -> Seq(Orders)] /\ \A d \in CommandIds \ {c} : placed'[d] = placed[d]
    BY <1>1, <2>1, <2>2
  <2> QED
    BY <1>3, <1>4, <2>3, <2>4
<1>5. CASE ~ o.taken
  BY <1>1, <1>3, <1>5 DEF Booked
<1> QED
  BY <1>2, <1>4, <1>5

\* What a call tells of its order is what became of it.
LEMMA PlacingTells ==
    ASSUME ManualInv, NEW c \in CommandIds, NEW r, IsRequest(r), NEW name \in Orders,
           Placing(c, r, name), at[c] \notin {"done", "failed"}
    PROVE  /\ position' \in Int /\ working' \in Nat
           /\ placed' \in [CommandIds -> Seq(Orders)] /\ answer' \in [CommandIds -> Seq(Entry)]
           /\ Agreeing(Named(placed'[c]), AcceptedIn(answer'[c]))
           /\ \A i \in DOMAIN answer'[c] : answer'[c][i][1] \notin {"NOTHING_OPEN", "CANCEL"}
           /\ Mentions(answer'[c], name)
           /\ \A m : Mentions(answer[c], m) => Mentions(answer'[c], m)
           /\ Len(answer'[c]) > 0
           /\ Len(answer[c]) > 0 => answer'[c][1] = answer[c][1]
           /\ \A d \in CommandIds \ {c} : placed'[d] = placed[d] /\ answer'[d] = answer[d]
<1>1. /\ ManualTypes /\ venue \in AllExchanges /\ answer \in [CommandIds -> Seq(Entry)]
      /\ Agreeing(Named(placed[c]), AcceptedIn(answer[c]))
      /\ \A i \in DOMAIN answer[c] : answer[c][i][1] \notin {"NOTHING_OPEN", "CANCEL"}
  BY DEF ManualInv, ManualTypes, AnswersTrue
<1> DEFINE order == Sent(venue, FALSE, r)
<1>2. PICK o \in Outcomes(venue, order, position) :
         /\ Booked(c, order, name, o)
         /\ answer' = [answer EXCEPT ![c] = Append(answer[c], <<name, Accepted(venue, o.answer)>>)]
  BY DEF Placing
<1> DEFINE ok == Accepted(venue, o.answer)
           e == <<name, ok>>
           t == Append(answer[c], e)
<1>5. order.size \in Int /\ position \in Int
  BY <1>1, SentTypes DEF ManualTypes
<1> HIDE DEF order
<1>3. /\ o.taken \in BOOLEAN /\ ok \in BOOLEAN
      /\ ok => o.taken \/ venue = "COINBASE"
      /\ o.taken => ok \/ venue = "BITMEX"
  BY <1>1, <1>5, OutcomesTell
<1> HIDE DEF ok
<1>4. e \in Entry /\ answer[c] \in Seq(Entry) /\ e[1] = name /\ e[2] = ok
  BY <1>1, <1>3 DEF Entry
<1>6. Booked(c, order, name, o) /\ answer' = [answer EXCEPT ![c] = t]
  BY <1>2 DEF ok
<1>6a. t = Append(answer[c], e)
  OBVIOUS
<1> HIDE DEF e, t
<1>7. /\ position' \in Int /\ working' \in Nat /\ placed' \in [CommandIds -> Seq(Orders)]
      /\ o.taken => Named(placed'[c]) = Named(placed[c]) \cup {name}
      /\ ~ o.taken => Named(placed'[c]) = Named(placed[c])
      /\ \A d \in CommandIds \ {c} : placed'[d] = placed[d]
  BY <1>1, <1>5, <1>6, BookedKeepsTypes
<1>8. /\ t \in Seq(Entry)
      /\ e[2] => AcceptedIn(t) = AcceptedIn(answer[c]) \cup {e[1]}
      /\ ~ e[2] => AcceptedIn(t) = AcceptedIn(answer[c])
      /\ Mentions(t, e[1]) /\ \A m : Mentions(answer[c], m) => Mentions(t, m)
      /\ Len(t) > 0 /\ (Len(answer[c]) > 0 => t[1] = answer[c][1])
      /\ \A i \in DOMAIN t : t[i] = e \/ \E j \in DOMAIN answer[c] : answer[c][j] = t[i]
  <2>1. e \in Entry /\ answer[c] \in Seq(Entry) /\ t = Append(answer[c], e)
    BY <1>4, <1>6a
  <2>2. t \in Seq(Entry)
    BY <2>1, AnswerGrows
  <2>3. /\ e[2] => AcceptedIn(t) = AcceptedIn(answer[c]) \cup {e[1]}
        /\ ~ e[2] => AcceptedIn(t) = AcceptedIn(answer[c])
    <3>1. CASE e[2]
      <4>1. AcceptedIn(t) = AcceptedIn(answer[c]) \cup {e[1]}
        BY <2>1, <3>1, AcceptedGrows
      <4> QED
        BY <3>1, <4>1, Zenon
    <3>2. CASE ~ e[2]
      <4>1. AcceptedIn(t) = AcceptedIn(answer[c])
        BY <2>1, <3>2, AnswerGrows, ZenonT(60)
      <4> QED
        BY <3>2, <4>1, Zenon
    <3> QED
      BY <3>1, <3>2, Zenon
  <2>4. Mentions(t, e[1])
    BY <2>1, AnswerGrows
  <2>5. \A m : Mentions(answer[c], m) => Mentions(t, m)
    BY <2>1, AnswerGrows
  <2>6. Len(t) > 0 /\ (Len(answer[c]) > 0 => t[1] = answer[c][1])
    BY <2>1, AnswerGrows
  <2>7. \A i \in DOMAIN t : t[i] = e \/ \E j \in DOMAIN answer[c] : answer[c][j] = t[i]
    BY <2>1, AnswerGrows
  <2> QED
    BY <2>2, <2>3, <2>4, <2>5, <2>6, <2>7
<1>9. /\ answer' \in [CommandIds -> Seq(Entry)] /\ answer'[c] = t
      /\ \A d \in CommandIds \ {c} : answer'[d] = answer[d]
  BY <1>1, <1>6, <1>8
<1>10. \A i \in DOMAIN t : t[i][1] \notin {"NOTHING_OPEN", "CANCEL"}
  BY <1>1, <1>4, <1>8 DEF Orders
<1>11. Agreeing(Named(placed'[c]), AcceptedIn(t))
  BY <1>1, <1>3, <1>4, <1>7, <1>8 DEF Agreeing
<1> QED
  BY <1>4, <1>7, <1>8, <1>9, <1>10, <1>11

-----------------------------------------------------------------------------
(* Each action of a command, and what leaves the others alone.              *)

\* The commands a step leaves alone keep what they had told.
LEMMA OtherCommandsKeep ==
    ASSUME ManualInv, NEW c \in CommandIds, asked' = asked, venue' = venue,
           \A d \in CommandIds \ {c} :
               /\ at'[d] = at[d] /\ seen'[d] = seen[d] /\ placed'[d] = placed[d]
               /\ answer'[d] = answer[d] /\ logged'[d] = logged[d]
    PROVE  \A d \in CommandIds \ {c} : AnswersTrue(d)' /\ StopsKept(d)'
<1> TAKE d \in CommandIds \ {c}
<1>1. AnswersTrue(d) /\ StopsKept(d)
  BY DEF ManualInv
<1>2. AnswersTrue(d)'
  BY <1>1 DEF AnswersTrue, Agreeing
<1>3. StopsKept(d)'
  BY <1>1 DEF StopsKept, StopKept, StopPriced, ReferenceTold, Opens
<1> QED
  BY <1>2, <1>3

\* A command that fails has nothing to tell.
LEMMA FailsKeeps ==
    ASSUME ManualInv, NEW c \in CommandIds, Fails(c), position' \in Int, working' \in Nat,
           placed' \in [CommandIds -> Seq(Orders)],
           \A d \in CommandIds \ {c} : placed'[d] = placed[d]
    PROVE  ManualInv'
<1>1. /\ ManualTypes /\ at' = [at EXCEPT ![c] = "failed"]
      /\ UNCHANGED <<venue, asked, seen, answer, logged>>
  BY DEF Fails, ManualInv
<1>2. at' \in [CommandIds -> Places] /\ at'[c] = "failed" /\ \A d \in CommandIds \ {c} : at'[d] = at[d]
  BY <1>1 DEF ManualTypes, Places
<1>3. ManualTypes'
  BY <1>1, <1>2 DEF ManualTypes
<1>4. AnswersTrue(c)' /\ StopsKept(c)'
  BY <1>2 DEF AnswersTrue, StopsKept, OpeningSteps
<1>5. \A d \in CommandIds \ {c} : AnswersTrue(d)' /\ StopsKept(d)'
  BY <1>1, <1>2, OtherCommandsKeep
<1> QED
  BY <1>3, <1>4, <1>5 DEF ManualInv

LEMMA RaisesKeeps ==
    ASSUME ManualInv, NEW c \in CommandIds, NEW r, IsRequest(r), NEW name \in Orders,
           Raises(c, r, name)
    PROVE  ManualInv'
<1> DEFINE order == Sent(venue, FALSE, r)
<1>1. PICK o \in Outcomes(venue, order, position) : Booked(c, order, name, o)
  BY DEF Raises
<1>2. ManualTypes /\ Fails(c) /\ order.size \in Int
  BY SentTypes DEF Raises, ManualInv
<1> HIDE DEF order
<1>3. /\ position' \in Int /\ working' \in Nat /\ placed' \in [CommandIds -> Seq(Orders)]
      /\ \A d \in CommandIds \ {c} : placed'[d] = placed[d]
  BY <1>1, <1>2, BookedKeepsTypes
<1> QED
  BY <1>2, <1>3, FailsKeeps

\* A step that changes nothing but the one command: what it must still satisfy.
LEMMA CommandStep ==
    ASSUME ManualInv, NEW c \in CommandIds, asked' = asked, venue' = venue,
           position' \in Int, working' \in Nat,
           placed' \in [CommandIds -> Seq(Orders)], answer' \in [CommandIds -> Seq(Entry)],
           logged' \in [CommandIds -> Seq(Entry)], seen' \in [CommandIds -> Seen],
           at' \in [CommandIds -> Places],
           \A d \in CommandIds \ {c} :
               /\ at'[d] = at[d] /\ seen'[d] = seen[d] /\ placed'[d] = placed[d]
               /\ answer'[d] = answer[d] /\ logged'[d] = logged[d],
           AnswersTrue(c)', StopsKept(c)'
    PROVE  ManualInv'
<1>1. ManualTypes'
  BY DEF ManualInv, ManualTypes
<1>2. \A d \in CommandIds \ {c} : AnswersTrue(d)' /\ StopsKept(d)'
  BY OtherCommandsKeep
<1> QED
  BY <1>1, <1>2 DEF ManualInv

\* What the main order answered decides whether a stop is owed.
LEMMA PlaceMainKeeps ==
    ASSUME ManualInv, NEW c \in CommandIds, PlaceMain(c) PROVE ManualInv'
<1>1. IsRequest(MainOrder(c)) /\ "MAIN" \in Orders
  BY ManualConstantsOK DEF IsRequest, MainOrder, Request, Orders
<1>2. CASE Raises(c, MainOrder(c), "MAIN")
  BY <1>1, <1>2, RaisesKeeps
<1>3. CASE Placing(c, MainOrder(c), "MAIN") /\ ~ Raises(c, MainOrder(c), "MAIN")
  <2>1. /\ at[c] = "main"
        /\ at' = [at EXCEPT ![c] = IF ~ answer'[c][1][2] THEN "log"
                      ELSE IF asked[c].percent \/ asked[c].target THEN "reference" ELSE "stop"]
        /\ UNCHANGED <<venue, asked, seen, logged>>
    BY <1>3 DEF PlaceMain
  <2>2. /\ position' \in Int /\ working' \in Nat
        /\ placed' \in [CommandIds -> Seq(Orders)] /\ answer' \in [CommandIds -> Seq(Entry)]
        /\ Agreeing(Named(placed'[c]), AcceptedIn(answer'[c]))
        /\ \A i \in DOMAIN answer'[c] : answer'[c][i][1] \notin {"NOTHING_OPEN", "CANCEL"}
        /\ Len(answer'[c]) > 0
        /\ \A d \in CommandIds \ {c} : placed'[d] = placed[d] /\ answer'[d] = answer[d]
    BY <1>1, <1>3, <2>1, PlacingTells
  <2>3. /\ at' \in [CommandIds -> Places] /\ at'[c] \in {"log", "reference", "stop"}
        /\ \A d \in CommandIds \ {c} : at'[d] = at[d]
        /\ at'[c] = "log" => ~ answer'[c][1][2]
        /\ at'[c] = "stop" => ~ asked[c].percent
    BY <2>1 DEF ManualInv, ManualTypes, Places, OpeningSteps
  <2>4. AnswersTrue(c)'
    BY <2>1, <2>2, <2>3 DEF AnswersTrue, Agreeing
  <2>5. at'[c] = "log" => answer'[c][1] # <<"MAIN", TRUE>>
    <3>1. <<"MAIN", TRUE>>[2]
      OBVIOUS
    <3> QED
      BY <2>3, <3>1, Zenon
  <2>6. StopsKept(c)'
    BY <2>1, <2>2, <2>3, <2>5 DEF StopsKept, StopKept, ReferenceTold, OpeningSteps
  <2> QED
    BY <2>1, <2>2, <2>3, <2>4, <2>6, CommandStep DEF ManualInv, ManualTypes
<1> QED
  BY <1>2, <1>3 DEF PlaceMain

\* The reference is read, or that it could not be is told.
LEMMA FetchReferenceKeeps ==
    ASSUME ManualInv, NEW c \in CommandIds, FetchReference(c) PROVE ManualInv'
<1>1. /\ at[c] = "reference" /\ at' = [at EXCEPT ![c] = "stop"]
      /\ UNCHANGED <<venue, position, working, asked, placed, logged>>
      /\ ManualTypes /\ AnswersTrue(c) /\ StopsKept(c)
  BY DEF FetchReference, ManualInv
<1>2. at' \in [CommandIds -> Places] /\ at'[c] = "stop" /\ \A d \in CommandIds \ {c} : at'[d] = at[d]
  BY <1>1 DEF ManualTypes, Places, OpeningSteps
<1>3. CASE /\ seen' = [seen EXCEPT ![c] = <<Position(venue, Rows(venue, position))>>]
           /\ UNCHANGED <<answer, others>>
  <2>1. /\ seen' \in [CommandIds -> Seen] /\ seen'[c] # <<>>
        /\ \A d \in CommandIds \ {c} : seen'[d] = seen[d]
    BY <1>1, <1>3, RowsAreRead DEF ManualTypes, Seen
  <2>2. AnswersTrue(c)' /\ StopsKept(c)'
    BY <1>1, <1>2, <1>3, <2>1 DEF AnswersTrue, Agreeing, StopsKept, ReferenceTold, OpeningSteps
  <2> QED
    BY <1>1, <1>2, <1>3, <2>1, <2>2, CommandStep DEF ManualTypes
<1>4. CASE /\ answer' = [answer EXCEPT ![c] = Append(@, <<"POSITION_REFERENCE", FALSE>>)]
           /\ UNCHANGED seen
  <2> DEFINE e == <<"POSITION_REFERENCE", FALSE>>
             t == Append(answer[c], e)
  <2>1. answer[c] \in Seq(Entry) /\ e \in Entry /\ t = Append(answer[c], e)
        /\ e[1] = "POSITION_REFERENCE"
    BY <1>1 DEF ManualTypes, Entry
  <2>2. ~ e[2]
    OBVIOUS
  <2>3. answer' = [answer EXCEPT ![c] = t]
    BY <1>4
  <2> HIDE DEF e, t
  <2>4. /\ t \in Seq(Entry) /\ Len(t) > 0 /\ Mentions(t, "POSITION_REFERENCE")
        /\ \A i \in DOMAIN t : t[i] = e \/ \E j \in DOMAIN answer[c] : answer[c][j] = t[i]
    <3>1. Mentions(t, e[1])
      BY <2>1, AnswerGrows
    <3>2. /\ t \in Seq(Entry) /\ Len(t) > 0
          /\ \A i \in DOMAIN t : t[i] = e \/ \E j \in DOMAIN answer[c] : answer[c][j] = t[i]
      BY <2>1, AnswerGrows
    <3> QED
      BY <2>1, <3>1, <3>2
  <2>5. AcceptedIn(t) = AcceptedIn(answer[c])
    BY <2>1, <2>2, AnswerGrows, ZenonT(60)
  <2>6. /\ answer' \in [CommandIds -> Seq(Entry)] /\ answer'[c] = t
        /\ \A d \in CommandIds \ {c} : answer'[d] = answer[d]
    BY <1>1, <2>3, <2>4 DEF ManualTypes
  <2>7. AnswersTrue(c)'
    BY <1>1, <1>2, <2>1, <2>4, <2>5, <2>6 DEF AnswersTrue, Agreeing
  <2>8. StopsKept(c)'
    BY <1>1, <1>2, <2>4, <2>6 DEF StopsKept, ReferenceTold, OpeningSteps
  <2> QED
    BY <1>1, <1>2, <1>4, <2>6, <2>7, <2>8, CommandStep DEF ManualTypes
<1> QED
  BY <1>3, <1>4 DEF FetchReference

\* The stop is placed, unless there is no reference to set it by.
LEMMA PlaceStopKeeps ==
    ASSUME ManualInv, NEW c \in CommandIds, PlaceStop(c) PROVE ManualInv'
<1>1. IsRequest(StopOrder(c)) /\ "STOP_LOSS" \in Orders
  BY ManualConstantsOK DEF IsRequest, StopOrder, Request, Orders
<1>2. CASE Raises(c, StopOrder(c), "STOP_LOSS")
  BY <1>1, <1>2, RaisesKeeps
<1>3. at[c] = "stop" /\ ManualTypes /\ AnswersTrue(c) /\ StopsKept(c)
  BY DEF PlaceStop, ManualInv
<1>4. CASE /\ ~ StopWanted(c) /\ at' = [at EXCEPT ![c] = "target"]
           /\ UNCHANGED <<venue, position, working, asked, seen, placed, answer, logged, others>>
  <2>1. at' \in [CommandIds -> Places] /\ at'[c] = "target" /\ \A d \in CommandIds \ {c} : at'[d] = at[d]
    BY <1>3, <1>4 DEF ManualTypes, Places, OpeningSteps
  <2>2. /\ ~ StopPriced(asked[c])
        /\ asked[c].percent => seen[c] = <<0>> \/ Mentions(answer[c], "POSITION_REFERENCE")
    <3>1. ~ StopPriced(asked[c]) /\ (asked[c].percent => seen[c] = <<>> \/ seen[c][1] = 0)
      BY <1>4 DEF StopWanted, ReferenceKnown, ReferenceRead
    <3>2. asked[c].percent => seen[c] # <<>> \/ Mentions(answer[c], "POSITION_REFERENCE")
      BY <1>3 DEF StopsKept, ReferenceTold
    <3>3. seen[c] # <<>> => seen[c] = <<seen[c][1]>>
      BY <1>3, SeenTells DEF ManualTypes
    <3> QED
      BY <3>1, <3>2, <3>3
  <2>3. AnswersTrue(c)' /\ StopsKept(c)'
    BY <1>3, <1>4, <2>1, <2>2 DEF AnswersTrue, Agreeing, StopsKept, StopKept, OpeningSteps
  <2> QED
    BY <1>3, <1>4, <2>1, <2>3, CommandStep DEF ManualTypes
<1>5. CASE /\ Placing(c, StopOrder(c), "STOP_LOSS") /\ at' = [at EXCEPT ![c] = "target"]
           /\ UNCHANGED <<venue, asked, seen, logged>>
  <2>1. at' \in [CommandIds -> Places] /\ at'[c] = "target" /\ \A d \in CommandIds \ {c} : at'[d] = at[d]
    BY <1>3, <1>5 DEF ManualTypes, Places, OpeningSteps
  <2>2. /\ position' \in Int /\ working' \in Nat
        /\ placed' \in [CommandIds -> Seq(Orders)] /\ answer' \in [CommandIds -> Seq(Entry)]
        /\ Agreeing(Named(placed'[c]), AcceptedIn(answer'[c]))
        /\ \A i \in DOMAIN answer'[c] : answer'[c][i][1] \notin {"NOTHING_OPEN", "CANCEL"}
        /\ Mentions(answer'[c], "STOP_LOSS") /\ Len(answer'[c]) > 0
        /\ \A d \in CommandIds \ {c} : placed'[d] = placed[d] /\ answer'[d] = answer[d]
    BY <1>1, <1>3, <1>5, PlacingTells
  <2>3. AnswersTrue(c)' /\ StopsKept(c)'
    BY <1>5, <2>1, <2>2 DEF AnswersTrue, Agreeing, StopsKept, StopKept, OpeningSteps
  <2> QED
    BY <1>3, <1>5, <2>1, <2>2, <2>3, CommandStep DEF ManualTypes
<1> QED
  BY <1>2, <1>4, <1>5 DEF PlaceStop

\* What was told of the stop stays told when the target is placed.
LEMMA PlaceTargetKeeps ==
    ASSUME ManualInv, NEW c \in CommandIds, PlaceTarget(c) PROVE ManualInv'
<1>1. IsRequest(TargetOrder(c)) /\ "TAKE_PROFIT" \in Orders
  BY ManualConstantsOK DEF IsRequest, TargetOrder, Request, Orders
<1>2. CASE Raises(c, TargetOrder(c), "TAKE_PROFIT")
  BY <1>1, <1>2, RaisesKeeps
<1>3. at[c] = "target" /\ ManualTypes /\ AnswersTrue(c) /\ StopsKept(c)
  BY DEF PlaceTarget, ManualInv
<1>4. Len(answer[c]) > 0 /\ (Opens(asked[c]) => StopKept(c, answer[c]))
  BY <1>3 DEF StopsKept, OpeningSteps
<1>5. ASSUME at' = [at EXCEPT ![c] = "log"]
      PROVE  at' \in [CommandIds -> Places] /\ at'[c] = "log" /\ \A d \in CommandIds \ {c} : at'[d] = at[d]
  BY <1>3, <1>5 DEF ManualTypes, Places
<1>6. CASE /\ at' = [at EXCEPT ![c] = "log"]
           /\ UNCHANGED <<position, working, placed, answer, others>>
           /\ UNCHANGED <<venue, asked, seen, logged>>
  <2>1. at' \in [CommandIds -> Places] /\ at'[c] = "log" /\ \A d \in CommandIds \ {c} : at'[d] = at[d]
    BY <1>5, <1>6
  <2>2. AnswersTrue(c)' /\ StopsKept(c)'
    BY <1>3, <1>4, <1>6, <2>1 DEF AnswersTrue, Agreeing, StopsKept, StopKept, StopPriced, Opens, OpeningSteps
  <2> QED
    BY <1>3, <1>6, <2>1, <2>2, CommandStep DEF ManualTypes
<1>7. CASE /\ at' = [at EXCEPT ![c] = "log"]
           /\ answer' = [answer EXCEPT ![c] = Append(@, <<"TAKE_PROFIT", FALSE>>)]
           /\ UNCHANGED <<venue, position, working, asked, seen, placed, logged, others>>
  <2>1. at' \in [CommandIds -> Places] /\ at'[c] = "log" /\ \A d \in CommandIds \ {c} : at'[d] = at[d]
    BY <1>5, <1>7
  <2> DEFINE e == <<"TAKE_PROFIT", FALSE>>
             t == Append(answer[c], e)
  <2>2. answer[c] \in Seq(Entry) /\ e \in Entry /\ t = Append(answer[c], e) /\ e[1] = "TAKE_PROFIT"
    BY <1>3 DEF ManualTypes, Entry, Orders
  <2>3. ~ e[2]
    OBVIOUS
  <2>4. answer' = [answer EXCEPT ![c] = t]
    BY <1>7
  <2> HIDE DEF e, t
  <2>5. /\ t \in Seq(Entry) /\ Len(t) > 0 /\ t[1] = answer[c][1]
        /\ \A m : Mentions(answer[c], m) => Mentions(t, m)
        /\ \A i \in DOMAIN t : t[i] = e \/ \E j \in DOMAIN answer[c] : answer[c][j] = t[i]
    <3>1. t \in Seq(Entry) /\ Len(t) > 0 /\ t[1] = answer[c][1]
      BY <1>4, <2>2, AnswerGrows
    <3>2. \A m : Mentions(answer[c], m) => Mentions(t, m)
      BY <2>2, AnswerGrows
    <3>3. \A i \in DOMAIN t : t[i] = e \/ \E j \in DOMAIN answer[c] : answer[c][j] = t[i]
      BY <2>2, AnswerGrows
    <3> QED
      BY <3>1, <3>2, <3>3
  <2>6. AcceptedIn(t) = AcceptedIn(answer[c])
    BY <2>2, <2>3, AnswerGrows, ZenonT(60)
  <2>7. /\ answer' \in [CommandIds -> Seq(Entry)] /\ answer'[c] = t
        /\ \A d \in CommandIds \ {c} : answer'[d] = answer[d]
    BY <1>3, <2>4, <2>5 DEF ManualTypes
  <2>8. AnswersTrue(c)'
    <3>1. /\ Agreeing(Named(placed[c]), AcceptedIn(answer[c])) /\ placed' = placed /\ venue' = venue
          /\ \A i \in DOMAIN answer[c] : answer[c][i][1] \notin {"NOTHING_OPEN", "CANCEL"}
      BY <1>3, <1>7 DEF AnswersTrue
    <3>2. \A i \in DOMAIN t : t[i][1] \notin {"NOTHING_OPEN", "CANCEL"}
      BY <2>2, <2>5, <3>1
    <3> QED
      BY <2>1, <2>6, <2>7, <3>1, <3>2 DEF AnswersTrue, Agreeing
  <2>9. StopsKept(c)'
    BY <1>3, <1>4, <1>7, <2>1, <2>5, <2>7 DEF StopsKept, StopKept, StopPriced, Opens, OpeningSteps
  <2> QED
    BY <1>3, <1>7, <2>1, <2>7, <2>8, <2>9, CommandStep DEF ManualTypes
<1>8. CASE /\ Placing(c, TargetOrder(c), "TAKE_PROFIT") /\ at' = [at EXCEPT ![c] = "log"]
           /\ UNCHANGED <<venue, asked, seen, logged>>
  <2>1. at' \in [CommandIds -> Places] /\ at'[c] = "log" /\ \A d \in CommandIds \ {c} : at'[d] = at[d]
    BY <1>5, <1>8
  <2>2. /\ position' \in Int /\ working' \in Nat
        /\ placed' \in [CommandIds -> Seq(Orders)] /\ answer' \in [CommandIds -> Seq(Entry)]
        /\ Agreeing(Named(placed'[c]), AcceptedIn(answer'[c]))
        /\ \A i \in DOMAIN answer'[c] : answer'[c][i][1] \notin {"NOTHING_OPEN", "CANCEL"}
        /\ \A m : Mentions(answer[c], m) => Mentions(answer'[c], m)
        /\ Len(answer'[c]) > 0 /\ answer'[c][1] = answer[c][1]
        /\ \A d \in CommandIds \ {c} : placed'[d] = placed[d] /\ answer'[d] = answer[d]
    BY <1>1, <1>3, <1>4, <1>8, PlacingTells
  <2>3. AnswersTrue(c)'
    BY <1>8, <2>1, <2>2 DEF AnswersTrue, Agreeing
  <2>4. StopsKept(c)'
    BY <1>4, <1>8, <2>1, <2>2 DEF StopsKept, StopKept, StopPriced, Opens, OpeningSteps
  <2> QED
    BY <1>3, <1>8, <2>1, <2>2, <2>3, <2>4, CommandStep DEF ManualTypes
<1> QED
  BY <1>2, <1>6, <1>7, <1>8 DEF PlaceTarget

\* The log says what the answer said.
LEMMA WriteLogKeeps ==
    ASSUME ManualInv, NEW c \in CommandIds, WriteLog(c) PROVE ManualInv'
<1>1. /\ at[c] = "log" /\ logged' = [logged EXCEPT ![c] = answer[c]]
      /\ at' = [at EXCEPT ![c] = "done"]
      /\ UNCHANGED <<venue, position, working, asked, seen, placed, answer, others>>
      /\ ManualTypes /\ AnswersTrue(c) /\ StopsKept(c)
  BY DEF WriteLog, AnswerLogged, ManualInv
<1>2. at' \in [CommandIds -> Places] /\ at'[c] = "done" /\ \A d \in CommandIds \ {c} : at'[d] = at[d]
  BY <1>1 DEF ManualTypes, Places
<1>3. /\ logged' \in [CommandIds -> Seq(Entry)] /\ logged'[c] = answer[c]
      /\ \A d \in CommandIds \ {c} : logged'[d] = logged[d]
  BY <1>1 DEF ManualTypes
<1>4. /\ Agreeing(Named(placed[c]), AcceptedIn(answer[c]))
      /\ \A i \in DOMAIN answer[c] : answer[c][i][1] \notin {"NOTHING_OPEN", "CANCEL"}
  BY <1>1 DEF AnswersTrue
<1>5. AcceptedIn(answer[c]) \ {"NOTHING_OPEN", "CANCEL"} = AcceptedIn(answer[c])
  BY <1>4 DEF AcceptedIn
<1>6. AnswersTrue(c)'
  BY <1>1, <1>2, <1>3, <1>4, <1>5 DEF AnswersTrue, Agreeing
<1>7. StopsKept(c)'
  BY <1>1, <1>2, <1>3 DEF StopsKept, StopKept, StopPriced, Opens, OpeningSteps
<1> QED
  BY <1>1, <1>2, <1>3, <1>6, <1>7, CommandStep DEF ManualTypes

\* A list of one entry.
LEMMA OneEntry ==
    ASSUME NEW e \in Entry, e[2] PROVE <<e>> \in Seq(Entry) /\ AcceptedIn(<<e>>) = {e[1]}
  BY DEF AcceptedIn

\* Looking places no order, and logs only that nothing is open.
LEMMA LookToCloseKeeps ==
    ASSUME ManualInv, NEW c \in CommandIds, LookToClose(c) PROVE ManualInv'
<1>0. CASE Fails(c) /\ UNCHANGED <<position, working, placed>>
  BY <1>0, FailsKeeps DEF ManualInv, ManualTypes
<1> DEFINE q == Position(venue, Rows(venue, position))
<1> SUFFICES ASSUME seen' = [seen EXCEPT ![c] = <<q>>],
                    UNCHANGED <<venue, position, working, asked, placed, answer, others>>,
                    \/ /\ logged' = [logged EXCEPT ![c] = <<<<"NOTHING_OPEN", TRUE>>>>]
                       /\ at' = [at EXCEPT ![c] = "done"]
                    \/ at' = [at EXCEPT ![c] = "close"] /\ UNCHANGED logged
             PROVE  ManualInv'
  BY <1>0 DEF LookToClose
<1>1. /\ at[c] = "look" /\ seen' = [seen EXCEPT ![c] = <<q>>]
      /\ UNCHANGED <<venue, position, working, asked, placed, answer, others>>
      /\ ManualTypes /\ AnswersTrue(c) /\ StopsKept(c)
  BY DEF LookToClose, ManualInv
<1>2. /\ seen' \in [CommandIds -> Seen] /\ seen'[c] # <<>>
      /\ \A d \in CommandIds \ {c} : seen'[d] = seen[d]
  BY <1>1, RowsAreRead DEF ManualTypes, Seen
<1>3. ~ Opens(asked[c]) /\ ~ Opens(asked[c])'
  BY <1>1 DEF StopsKept, OpeningSteps, Opens
<1>4. placed[c] = <<>> /\ Named(placed[c]) = {}
  BY <1>1 DEF AnswersTrue, Named
<1>5. CASE logged' = [logged EXCEPT ![c] = <<<<"NOTHING_OPEN", TRUE>>>>] /\ at' = [at EXCEPT ![c] = "done"]
  <2> DEFINE e == <<"NOTHING_OPEN", TRUE>>
  <2>1. e \in Entry /\ e[1] = "NOTHING_OPEN"
    BY DEF Entry
  <2>2. e[2]
    OBVIOUS
  <2>3. logged' = [logged EXCEPT ![c] = <<e>>]
    BY <1>5
  <2> HIDE DEF e
  <2>4. <<e>> \in Seq(Entry) /\ AcceptedIn(<<e>>) = {"NOTHING_OPEN"}
    BY <2>1, <2>2, OneEntry
  <2>5. /\ logged' \in [CommandIds -> Seq(Entry)] /\ logged'[c] = <<e>>
        /\ \A d \in CommandIds \ {c} : logged'[d] = logged[d]
    BY <1>1, <2>3, <2>4 DEF ManualTypes
  <2>6. at' \in [CommandIds -> Places] /\ at'[c] = "done" /\ \A d \in CommandIds \ {c} : at'[d] = at[d]
    BY <1>1, <1>5 DEF ManualTypes, Places
  <2>7. AnswersTrue(c)' /\ StopsKept(c)'
    BY <1>1, <1>3, <1>4, <2>4, <2>5, <2>6 DEF AnswersTrue, Agreeing, StopsKept, OpeningSteps
  <2> QED
    BY <1>1, <1>2, <2>5, <2>6, <2>7, CommandStep DEF ManualTypes
<1>6. CASE at' = [at EXCEPT ![c] = "close"] /\ UNCHANGED logged
  <2>1. at' \in [CommandIds -> Places] /\ at'[c] = "close" /\ \A d \in CommandIds \ {c} : at'[d] = at[d]
    BY <1>1, <1>6 DEF ManualTypes, Places
  <2>2. AnswersTrue(c)' /\ StopsKept(c)'
    BY <1>1, <1>2, <1>3, <1>6, <2>1 DEF AnswersTrue, Agreeing, StopsKept, OpeningSteps
  <2> QED
    BY <1>1, <1>2, <1>6, <2>1, <2>2, CommandStep DEF ManualTypes
<1> QED
  BY <1>5, <1>6

\* The order that closes is told of like any other.
LEMMA PlaceCloseKeeps ==
    ASSUME ManualInv, NEW c \in CommandIds, PlaceClose(c) PROVE ManualInv'
<1>1. at[c] = "close" /\ ManualTypes /\ AnswersTrue(c) /\ StopsKept(c)
  BY DEF PlaceClose, ManualInv
<1>2. IsRequest(CloseOrder(c)) /\ "CLOSE" \in Orders
  <2>1. seen[c][1] \in Int
    BY <1>1, SeenTells DEF ManualTypes, AnswersTrue
  <2> QED
    BY <2>1 DEF IsRequest, CloseOrder, ClosingOrder, Request, Orders, Abs
<1>3. CASE Raises(c, CloseOrder(c), "CLOSE")
  BY <1>2, <1>3, RaisesKeeps
<1>4. CASE /\ Placing(c, CloseOrder(c), "CLOSE") /\ at' = [at EXCEPT ![c] = "log"]
           /\ UNCHANGED <<venue, asked, seen, logged>>
  <2>1. at' \in [CommandIds -> Places] /\ at'[c] = "log" /\ \A d \in CommandIds \ {c} : at'[d] = at[d]
    BY <1>1, <1>4 DEF ManualTypes, Places
  <2>2. /\ position' \in Int /\ working' \in Nat
        /\ placed' \in [CommandIds -> Seq(Orders)] /\ answer' \in [CommandIds -> Seq(Entry)]
        /\ Agreeing(Named(placed'[c]), AcceptedIn(answer'[c]))
        /\ \A i \in DOMAIN answer'[c] : answer'[c][i][1] \notin {"NOTHING_OPEN", "CANCEL"}
        /\ \A d \in CommandIds \ {c} : placed'[d] = placed[d] /\ answer'[d] = answer[d]
    BY <1>1, <1>2, <1>4, PlacingTells
  <2>3. ~ Opens(asked[c]) /\ ~ Opens(asked[c])'
    BY <1>1, <1>4 DEF StopsKept, OpeningSteps, Opens
  <2>4. AnswersTrue(c)' /\ StopsKept(c)'
    BY <1>4, <2>1, <2>2, <2>3 DEF AnswersTrue, Agreeing, StopsKept, OpeningSteps
  <2> QED
    BY <1>1, <1>4, <2>1, <2>2, <2>4, CommandStep DEF ManualTypes
<1> QED
  BY <1>3, <1>4 DEF PlaceClose

\* What a client reports of a cancellation is yes or no.
LEMMA CancelIsReported ==
    ASSUME NEW e \in AllExchanges, NEW good \in BOOLEAN, NEW a \in CallAnswers(e, good), NEW n \in Nat
    PROVE  CancelReported(e, n, a) \in BOOLEAN
<1>1. a.http \in BOOLEAN /\ a.done \in BOOLEAN
  BY AnswersGiven DEF CallAnswers, Answer
<1>2. CASE e \in {"OKX", "COINBASE"}
  <2>1. OkxCancel(n, a) \in BOOLEAN /\ CoinbaseCancel(n, a) \in BOOLEAN
    BY DEF OkxCancel, CoinbaseCancel
  <2>2. \/ e = "OKX" /\ CancelReported(e, n, a) = OkxCancel(n, a)
        \/ e = "COINBASE" /\ CancelReported(e, n, a) = CoinbaseCancel(n, a)
    BY <1>2 DEF CancelReported
  <2> QED
    BY <2>1, <2>2
<1>3. CASE e \in {"KRAKEN", "BITMEX", "GATEIO"}
  <2>1. KrakenCancel(n, a) \in BOOLEAN
    BY DEF KrakenCancel
  <2>2. BitmexCancel(n, a) \in BOOLEAN /\ GateioCancel(n, a) \in BOOLEAN
    BY <1>1 DEF BitmexCancel, GateioCancel
  <2>3. \/ e = "KRAKEN" /\ CancelReported(e, n, a) = KrakenCancel(n, a)
        \/ e = "BITMEX" /\ CancelReported(e, n, a) = BitmexCancel(n, a)
        \/ e = "GATEIO" /\ CancelReported(e, n, a) = GateioCancel(n, a)
    BY <1>3 DEF CancelReported
  <2> QED
    BY <2>1, <2>2, <2>3
<1>4. CASE e \in {"BINANCE", "BYBIT"}
  BY <1>4 DEF CancelReported
<1> QED
  BY <1>2, <1>3, <1>4 DEF AllExchanges

\* A cancellation is logged without an order.
LEMMA CancelOrdersKeeps ==
    ASSUME ManualInv, NEW c \in CommandIds, CancelOrders(c) PROVE ManualInv'
<1>a. ManualTypes /\ at[c] = "cancel" /\ UNCHANGED <<position, placed>> /\ working' \in Nat
  BY DEF CancelOrders, ManualInv, ManualTypes
<1>b. CASE Fails(c)
  BY <1>a, <1>b, FailsKeeps DEF ManualTypes
<1> SUFFICES ASSUME ~ Fails(c) PROVE ManualInv'
  BY <1>b
<1>1. /\ at[c] = "cancel" /\ at' = [at EXCEPT ![c] = "done"]
      /\ logged' = [logged EXCEPT ![c] = <<<<"CANCEL", TRUE>>>>]
      /\ UNCHANGED <<venue, position, asked, seen, placed>>
      /\ ManualTypes /\ AnswersTrue(c) /\ StopsKept(c)
  BY DEF CancelOrders, ManualInv
<1>2. PICK good \in BOOLEAN : \E a \in CallAnswers(venue, good) :
         answer' = [answer EXCEPT ![c] = <<<<"CANCEL", CancelReported(venue, working, a)>>>>]
  BY DEF CancelOrders
<1>3. PICK a \in CallAnswers(venue, good) :
         answer' = [answer EXCEPT ![c] = <<<<"CANCEL", CancelReported(venue, working, a)>>>>]
  BY <1>2
<1>4. working' \in Nat
  BY <1>a
<1>5. answer' \in [CommandIds -> Seq(Entry)] /\ \A d \in CommandIds \ {c} : answer'[d] = answer[d]
  <2>1. <<"CANCEL", CancelReported(venue, working, a)>> \in Entry
    <3>1. CancelReported(venue, working, a) \in BOOLEAN
      BY <1>1, CancelIsReported DEF ManualTypes
    <3> QED
      BY <3>1 DEF Entry
  <2>2. <<<<"CANCEL", CancelReported(venue, working, a)>>>> \in Seq(Entry)
    BY <2>1
  <2> QED
    BY <1>1, <1>3, <2>2 DEF ManualTypes
<1>6. ~ Opens(asked[c]) /\ ~ Opens(asked[c])'
  BY <1>1 DEF StopsKept, OpeningSteps, Opens
<1>7. placed[c] = <<>> /\ Named(placed[c]) = {}
  BY <1>1 DEF AnswersTrue, Named
<1> DEFINE e == <<"CANCEL", TRUE>>
<1>8. e \in Entry /\ e[1] = "CANCEL"
  BY DEF Entry
<1>9. e[2]
  OBVIOUS
<1>10. logged' = [logged EXCEPT ![c] = <<e>>]
  BY <1>1
<1> HIDE DEF e
<1>11. <<e>> \in Seq(Entry) /\ AcceptedIn(<<e>>) = {"CANCEL"}
  BY <1>8, <1>9, OneEntry
<1>12. /\ logged' \in [CommandIds -> Seq(Entry)] /\ logged'[c] = <<e>>
       /\ \A d \in CommandIds \ {c} : logged'[d] = logged[d]
  BY <1>1, <1>10, <1>11 DEF ManualTypes
<1>13. at' \in [CommandIds -> Places] /\ at'[c] = "done" /\ \A d \in CommandIds \ {c} : at'[d] = at[d]
  BY <1>1 DEF ManualTypes, Places
<1>14. AnswersTrue(c)' /\ StopsKept(c)'
  BY <1>1, <1>6, <1>7, <1>11, <1>12, <1>13 DEF AnswersTrue, Agreeing, StopsKept, OpeningSteps
<1> QED
  BY <1>1, <1>4, <1>5, <1>12, <1>13, <1>14, CommandStep DEF ManualTypes

\* What others trade tells nothing of a command.
LEMMA OtherTradeKeeps ==
    ASSUME ManualInv, NEW d \in {-1, 1}, OtherTrade(d) PROVE ManualInv'
<1>1. ManualTypes'
  BY DEF ManualInv, ManualTypes, OtherTrade
<1>2. ASSUME NEW c \in CommandIds PROVE AnswersTrue(c)' /\ StopsKept(c)'
  BY DEF ManualInv, AnswersTrue, Agreeing, StopsKept, StopKept, StopPriced, ReferenceTold, Opens,
     OtherTrade
<1> QED
  BY <1>1, <1>2 DEF ManualInv

-----------------------------------------------------------------------------
(* The invariant, and what follows.                                         *)

\* A command starts with nothing done.
LEMMA ManualStarts == ManualInit => ManualInv
<1> SUFFICES ASSUME ManualInit PROVE ManualInv
  OBVIOUS
<1>1. asked \in [CommandIds -> Requests] /\ Requests \subseteq
          [action : {"BUY", "SELL", "CLOSE_POSITION", "CANCEL_ORDERS"},
           type : {"MARKET", "LIMIT", "STOP_MARKET"},
           limit : BOOLEAN, byLimit : BOOLEAN,
           stop : BOOLEAN, percent : BOOLEAN, target : BOOLEAN]
  BY ManualConstantsOK DEF ManualInit
<1>2. \A c \in CommandIds : at[c] = FirstCall(asked[c])
  BY DEF ManualInit
<1>3. ASSUME NEW c \in CommandIds
      PROVE  at[c] \in {"main", "look", "cancel"} /\ (Opens(asked[c]) => at[c] = "main")
  <2>1. asked[c].action \in {"BUY", "SELL", "CLOSE_POSITION", "CANCEL_ORDERS"}
    BY <1>1, <1>3
  <2> QED
    BY <1>2, <1>3, <2>1 DEF FirstCall, Opens
<1>4. ManualTypes
  <2>1. venue \in AllExchanges /\ position \in Int /\ working \in Nat
    BY ManualConstantsOK DEF ManualInit
  <2>2. at \in [CommandIds -> Places]
    BY <1>3 DEF ManualInit, Places, OpeningSteps
  <2>3. /\ seen \in [CommandIds -> Seen] /\ placed \in [CommandIds -> Seq(Orders)]
        /\ answer \in [CommandIds -> Seq(Entry)] /\ logged \in [CommandIds -> Seq(Entry)]
    BY DEF ManualInit, Seen
  <2> QED
    BY <1>1, <2>1, <2>2, <2>3 DEF ManualTypes
<1>5. ASSUME NEW c \in CommandIds PROVE AnswersTrue(c) /\ StopsKept(c)
  <2>1. placed[c] = <<>> /\ answer[c] = <<>>
    BY DEF ManualInit
  <2>2. Named(placed[c]) = AcceptedIn(answer[c])
    BY <2>1 DEF Named, AcceptedIn
  <2>3. AnswersTrue(c)
    BY <1>3, <2>1, <2>2 DEF AnswersTrue, Agreeing
  <2>4. StopsKept(c)
    BY <1>3 DEF StopsKept, OpeningSteps
  <2> QED
    BY <2>3, <2>4
<1> QED
  BY <1>4, <1>5 DEF ManualInv

\* Every step keeps the invariant.
LEMMA ManualStep == ManualInv /\ [ManualNext]_manualVars => ManualInv'
<1> SUFFICES ASSUME ManualInv, [ManualNext]_manualVars PROVE ManualInv'
  OBVIOUS
<1>1. CASE UNCHANGED manualVars
  <2>1. ManualTypes'
    BY <1>1 DEF ManualInv, ManualTypes, manualVars
  <2>2. ASSUME NEW c \in CommandIds PROVE AnswersTrue(c)' /\ StopsKept(c)'
    BY <1>1 DEF ManualInv, AnswersTrue, Agreeing, StopsKept, StopKept, StopPriced, ReferenceTold,
       Opens, manualVars
  <2> QED
    BY <2>1, <2>2 DEF ManualInv
<1>2. ASSUME NEW c \in CommandIds, PlaceMain(c) PROVE ManualInv'
  BY <1>2, PlaceMainKeeps
<1>3. ASSUME NEW c \in CommandIds, FetchReference(c) PROVE ManualInv'
  BY <1>3, FetchReferenceKeeps
<1>4. ASSUME NEW c \in CommandIds, PlaceStop(c) PROVE ManualInv'
  BY <1>4, PlaceStopKeeps
<1>5. ASSUME NEW c \in CommandIds, PlaceTarget(c) PROVE ManualInv'
  BY <1>5, PlaceTargetKeeps
<1>6. ASSUME NEW c \in CommandIds, WriteLog(c) PROVE ManualInv'
  BY <1>6, WriteLogKeeps
<1>7. ASSUME NEW c \in CommandIds, LookToClose(c) PROVE ManualInv'
  BY <1>7, LookToCloseKeeps
<1>8. ASSUME NEW c \in CommandIds, PlaceClose(c) PROVE ManualInv'
  BY <1>8, PlaceCloseKeeps
<1>9. ASSUME NEW c \in CommandIds, CancelOrders(c) PROVE ManualInv'
  BY <1>9, CancelOrdersKeeps
<1>10. ASSUME NEW d \in {-1, 1}, OtherTrade(d) PROVE ManualInv'
  BY <1>10, OtherTradeKeeps
<1> QED
  BY <1>1, <1>2, <1>3, <1>4, <1>5, <1>6, <1>7, <1>8, <1>9, <1>10 DEF ManualNext

\* At every step of a command, what it will answer is what the exchange did, and a stop
\* it owes is placed or told of.
THEOREM CommandsTell == ManualSpec => []ManualInv
<1>1. ManualInit => ManualInv
  BY ManualStarts
<1>2. ManualInv /\ [ManualNext]_manualVars => ManualInv'
  BY ManualStep
<1> QED
  BY <1>1, <1>2, PTL DEF ManualSpec

\* Of its orders, the log of an answered command lists as accepted exactly those the
\* exchange took, however many commands run at once - but for the one answer that
\* Coinbase's client, and the one that BitMEX's, misreads.
THEOREM LogsAreTrue == ManualSpec => []LoggedIsWhatHappened
<1>1. ManualInv => LoggedIsWhatHappened
  BY DEF ManualInv, AnswersTrue, Agreeing, LoggedIsWhatHappened, Named, AcceptedIn
<1> QED
  BY <1>1, CommandsTell, PTL

\* A stop asked for with an accepted order is placed if it has a price, and one in percent
\* is placed or its reference is reported as not read, or was read as flat: a
\* reference that could not be read is never passed over in silence.
THEOREM StopsAreTold == ManualSpec => []StopIsPlacedOrReported
<1>1. ASSUME ManualInv, NEW c \in CommandIds, at[c] = "done", Opens(asked[c]),
             <<"MAIN", TRUE>> = logged[c][1]
      PROVE  /\ StopPriced(asked[c]) => InLog(c, "STOP_LOSS")
             /\ asked[c].percent =>
                   InLog(c, "STOP_LOSS") \/ InLog(c, "POSITION_REFERENCE") \/ seen[c] = <<0>>
  BY <1>1 DEF ManualInv, StopsKept, StopKept, Mentions, InLog
<1>2. ManualInv => StopIsPlacedOrReported
  BY <1>1 DEF StopIsPlacedOrReported
<1> QED
  BY <1>2, CommandsTell, PTL

\* What a close does to the position it finds.
LEMMA CloseReduces ==
    ASSUME ManualInv, NEW c \in CommandIds, at[c] = "close", venue # "COINBASE",
           NEW o \in Outcomes(venue, Sent(venue, FALSE, CloseOrder(c)), position),
           position' = position + o.moved
    PROVE  Abs(position') <= Abs(position) /\ position * position' >= 0
<1> DEFINE order == Sent(venue, FALSE, CloseOrder(c))
<1>1. /\ ManualTypes /\ venue \in AllExchanges /\ position \in Int /\ seen[c][1] \in Int
  BY SeenTells DEF ManualInv, ManualTypes, AnswersTrue
<1>2. CloseOrder(c).reduce = TRUE /\ IsRequest(CloseOrder(c))
  BY <1>1 DEF CloseOrder, ClosingOrder, Request, IsRequest, Abs
<1>3. order.size \in Int /\ order.reduce = TRUE
  BY <1>1, <1>2, OrdersAreSent, SentTypes
<1>4. o \in Outcomes(venue, order, position)
  OBVIOUS
<1> HIDE DEF order
<1> QED
  BY <1>1, <1>3, <1>4, ReducingOnlyReduces

\* Closing never turns nor enlarges a position, however it has moved since it was read,
\* on every exchange that is told an order only reduces.
THEOREM ClosesOnlyReduce == ManualSpec => CloseNeverReverses
<1>1. ASSUME ManualInv, ManualNext, NEW c \in CommandIds, at[c] = "close", at'[c] # "close",
             venue # "COINBASE"
      PROVE  Abs(position') <= Abs(position) /\ position * position' >= 0
  <2>1. at \in [CommandIds -> Places]
    BY <1>1 DEF ManualInv, ManualTypes
  <2>2. PlaceClose(c)
    BY <1>1, <2>1 DEF ManualNext, PlaceMain, FetchReference, PlaceStop, PlaceTarget, WriteLog,
       LookToClose, PlaceClose, CancelOrders, OtherTrade, Raises, Fails
  <2>3. PICK o \in Outcomes(venue, Sent(venue, FALSE, CloseOrder(c)), position) :
           Booked(c, Sent(venue, FALSE, CloseOrder(c)), "CLOSE", o)
    BY <2>2 DEF PlaceClose, Placing, Raises
  <2>4. position' = position + o.moved
    BY <2>3 DEF Booked
  <2> QED
    BY <1>1, <2>3, <2>4, CloseReduces
<1> DEFINE A == \A c \in CommandIds :
                   at[c] = "close" /\ at'[c] # "close" /\ venue # "COINBASE"
                   => Abs(position') <= Abs(position) /\ position * position' >= 0
<1>2. ManualInv /\ [ManualNext]_manualVars => [A]_manualVars
  BY <1>1
<1> QED
  BY <1>2, CommandsTell, PTL DEF ManualSpec, CloseNeverReverses

-----------------------------------------------------------------------------
(* The follower's book: its invariant.                                      *)

\* What a task is: its command, the repair it may be of, and how far it is.
BookCommand == [action : {"OPEN", "CLOSE", "FLIP", "INCREASE", "REDUCE", "SYNC_TO_TARGET_POSITION"},
                lane : Lanes, side : {"LONG", "SHORT", "FLAT"}, target : Nat, delta : Int,
                reduce : BOOLEAN]
BookTask == [command : BookCommand, of : Nat, found : Int, shrinks : BOOLEAN,
             status : {"QUEUED", "PLACED", "FILLED", "ACKED", "FAILED", "SKIPPED"}]

BookTypes ==
    /\ exchange \in AllExchanges
    /\ terms.limits.step \in Nat \ {0} /\ terms.limits.min \in Nat \ {0}
    /\ terms.scale \in Int /\ terms.rule \in Int
    /\ master \in Int /\ net \in Int /\ misses \in Nat
    /\ tasks \in Seq(BookTask)
    /\ lanes \in [Lanes -> Seq(Nat)]
    /\ busy \in [Lanes -> Nat]

(* A lane holds its queued tasks, each once, and works on one it has placed. *)

Holds(ts, l, lane, on) ==
    /\ \A i \in DOMAIN lane : /\ lane[i] \in DOMAIN ts /\ ts[lane[i]].command.lane = l
                             /\ ts[lane[i]].status = "QUEUED"
    /\ \A i, j \in DOMAIN lane : lane[i] = lane[j] => i = j
    /\ \A t \in DOMAIN ts : ts[t].command.lane = l /\ ts[t].status = "QUEUED" =>
          \E i \in DOMAIN lane : lane[i] = t
    /\ on # 0 => /\ on \in DOMAIN ts /\ ts[on].command.lane = l
                /\ ts[on].status = "PLACED"
LaneHolds(l) == Holds(tasks, l, lanes[l], busy[l])

(* A command of a fill that shrinks only reduces; a repair's is what was     *)
(* missing when it was compared.                                            *)

CommandHolds(t) ==
    /\ tasks[t].shrinks => tasks[t].command.reduce
    /\ tasks[t].of # 0 =>
          tasks[t].command.delta = ExpectedQuantity(tasks[t].command) - tasks[t].found

(* The follower's position is what the executed commands add up to.          *)

Executed(t) == IF tasks[t].status = "QUEUED" THEN 0 ELSE tasks[t].command.delta
AddsUp(f) ==
    /\ f \in [0 .. Len(tasks) -> Int] /\ f[0] = 0
    /\ \A i \in 1 .. Len(tasks) : f[i] = f[i - 1] + Executed(i)
    /\ net = f[Len(tasks)]
NetAddsUp == ~ disturbed => \E f : AddsUp(f)

(* What is planned adds up to the share of the master's position, but for    *)
(* a grain per fill that did not fit.                                       *)

PlanAddsUp(g) ==
    /\ g \in [0 .. Len(tasks) -> Int] /\ g[0] = 0
    /\ \A i \in 1 .. Len(tasks) : g[i] = g[i - 1] + tasks[i].command.delta
    /\ Abs(g[Len(tasks)] - Sourced(terms, master)) <= misses * Grain
PlanFollows == ~ lost /\ Repairs = {} => \E g : PlanAddsUp(g)

(* While every fill fits, each command leads from the target of the one      *)
(* before to its own, and the last one is the share.                         *)

Aim(i) == IF i = 0 THEN 0 ELSE ExpectedQuantity(tasks[i].command)
WholeSteps(x) == \E k \in Int : x = k * terms.limits.step
AimsAreMet ==
    ~ lost /\ misses = 0 /\ Repairs = {} /\ Sourced(terms, 1) > 0 =>
        /\ \A i \in 1 .. Len(tasks) : Aim(i) = Aim(i - 1) + tasks[i].command.delta
        /\ Aim(Len(tasks)) = Sourced(terms, master) /\ WholeSteps(Sourced(terms, master))

BookInv ==
    /\ BookTypes
    /\ \A l \in Lanes : LaneHolds(l)
    /\ \A t \in DOMAIN tasks : CommandHolds(t)
    /\ NetAddsUp /\ PlanFollows /\ AimsAreMet

-----------------------------------------------------------------------------
(* Scaling and rounding.                                                    *)

\* The terms of a route, as far as the arithmetic needs them.
GoodTerms(route) ==
    /\ route.limits.step \in Nat \ {0} /\ route.limits.min \in Nat \ {0}
    /\ route.scale \in Int /\ route.rule \in Int
GrainOf(limits) == ((limits.min + limits.step - 1) \div limits.step) * limits.step

\* A share is the position times a factor.
LEMMA SharesAreScaled ==
    ASSUME NEW route, GoodTerms(route)
    PROVE  \E k \in Int : \A q \in Int : Sourced(route, q) = q * k
<1> DEFINE k == IF route.mode = "EXACT" THEN Den ELSE EffectiveScale(route)
<1>1. k \in Int
  BY DenIsPositive DEF GoodTerms, EffectiveScale
<1>2. \A q \in Int : Sourced(route, q) = q * k
  BY DEF Sourced
<1> QED
  BY <1>1, <1>2

\* So shares add up, and keep the sign and the magnitude of the position.
LEMMA SharesAddUp ==
    ASSUME NEW route, GoodTerms(route), NEW q \in Int, NEW m \in Int
    PROVE  /\ Sourced(route, q) \in Int
           /\ Sourced(route, 0) = 0
           /\ Sourced(route, q - m) = Sourced(route, q) - Sourced(route, m)
           /\ Magnitude(Sourced(route, Magnitude(q))) = Magnitude(Sourced(route, q))
           /\ Sourced(route, 1) > 0 =>
                 /\ q > 0 => Sourced(route, q) > 0
                 /\ q < 0 => Sourced(route, q) < 0
<1>1. PICK k \in Int : \A x \in Int : Sourced(route, x) = x * k
  BY SharesAreScaled
<1>2. /\ Sourced(route, q) = q * k /\ Sourced(route, m) = m * k /\ q * k \in Int
      /\ Sourced(route, 0) = 0 /\ Sourced(route, 1) = k
  BY <1>1
<1>3. Sourced(route, q - m) = q * k - m * k
  <2>1. q - m \in Int /\ (q - m) * k = q * k - m * k
    OBVIOUS
  <2> QED
    BY <1>1, <2>1
<1>4. Magnitude(Sourced(route, Magnitude(q))) = Magnitude(Sourced(route, q))
  <2>1. CASE q >= 0
    BY <2>1 DEF Magnitude
  <2>2. CASE q < 0
    <3>1. -q \in Int /\ Magnitude(q) = -q
      BY <2>2 DEF Magnitude
    <3>2. Sourced(route, Magnitude(q)) = (-q) * k /\ (-q) * k = -(q * k)
      BY <1>1, <3>1
    <3> QED
      BY <1>2, <3>2 DEF Magnitude
  <2> QED
    BY <2>1, <2>2
<1>5. k > 0 => (q > 0 => q * k > 0) /\ (q < 0 => q * k < 0)
  OBVIOUS
<1> QED
  BY <1>2, <1>3, <1>4, <1>5

\* Rounding leaves whole steps, and whole steps as they are.
LEMMA RoundingTells ==
    ASSUME NEW limits, limits.step \in Nat \ {0}, limits.min \in Nat \ {0}, NEW q \in Nat
    PROVE  /\ Normalized(q, limits) \in Nat
           /\ \E k \in Nat : Normalized(q, limits) = k * limits.step
           /\ Normalized(q, limits) <= q /\ q - Normalized(q, limits) <= GrainOf(limits)
           /\ GrainOf(limits) \in Nat
           /\ \A k \in Nat : q = k * limits.step =>
                 Normalized(q, limits) = 0 \/ Normalized(q, limits) = q
<1> DEFINE s == limits.step
           r == (q \div s) * s
<1>0. s \in Nat \ {0} /\ limits.min \in Nat \ {0}
  OBVIOUS
<1>1. /\ GrainOf(limits) \in Nat /\ r \in Nat
      /\ q < limits.min \/ r < limits.min => q <= GrainOf(limits)
      /\ r <= q /\ q - r <= GrainOf(limits)
  BY <1>0, DroppedIsSmall DEF GrainOf
<1>2. Normalized(q, limits) = IF q < limits.min \/ r < limits.min THEN 0 ELSE r
  BY DEF Normalized
<1>3. \A k \in Nat : q = k * s => r = q
  BY <1>0, WholeStepsStay
<1>4. q \div s \in Nat /\ 0 = 0 * s
  BY <1>0, RoundsDown
<1>5. \E k \in Nat : Normalized(q, limits) = k * s
  <2>1. CASE q < limits.min \/ r < limits.min
    BY <1>2, <1>4, <2>1
  <2>2. CASE ~ (q < limits.min \/ r < limits.min)
    BY <1>2, <1>4, <2>2
  <2> QED
    BY <2>1, <2>2
<1> HIDE DEF r
<1> QED
  BY <1>1, <1>2, <1>3, <1>5

\* The scaled difference is whole steps, and within a grain of the share.
LEMMA DeltaIsClose ==
    ASSUME NEW route, GoodTerms(route), NEW d \in Int
    PROVE  /\ ScaleDelta(route, d) \in Int
           /\ GrainOf(route.limits) \in Nat
           /\ \E k \in Int : ScaleDelta(route, d) = k * route.limits.step
           /\ Abs(ScaleDelta(route, d) - Sourced(route, d)) <= GrainOf(route.limits)
<1>1. Sourced(route, d) \in Int
  BY SharesAddUp
<1> DEFINE s == Sourced(route, d)
           n == Normalized(Magnitude(s), route.limits)
<1>2. Magnitude(s) \in Nat
  BY <1>1 DEF Magnitude
<1>3. /\ n \in Nat /\ n <= Magnitude(s) /\ Magnitude(s) - n <= GrainOf(route.limits)
      /\ GrainOf(route.limits) \in Nat
      /\ \E k \in Nat : n = k * route.limits.step
  BY <1>2, RoundingTells DEF GoodTerms
<1>4. ScaleDelta(route, d) = IF s < 0 THEN -n ELSE n
  BY DEF ScaleDelta
<1> HIDE DEF n, s
<1>5. s \in Int /\ s = Sourced(route, d)
  BY <1>1 DEF s
<1>6. \E k \in Int : ScaleDelta(route, d) = k * route.limits.step
  <2>1. PICK k \in Nat : n = k * route.limits.step
    BY <1>3
  <2>2. -n = (-k) * route.limits.step /\ -k \in Int
    BY <2>1 DEF GoodTerms
  <2> QED
    BY <1>4, <2>1, <2>2
<1>7. Abs(ScaleDelta(route, d) - s) <= GrainOf(route.limits)
  BY <1>3, <1>4, <1>5 DEF Abs, Magnitude
<1> QED
  BY <1>3, <1>4, <1>5, <1>6, <1>7

\* The magnitude of whole steps is whole steps.
LEMMA WholeMagnitude ==
    ASSUME NEW k \in Int, NEW step \in Nat \ {0}
    PROVE  \E j \in Nat : Magnitude(k * step) = j * step
<1>1. /\ k >= 0 => k * step >= 0
      /\ k < 0 => k * step < 0
      /\ (-k) * step = -(k * step)
  OBVIOUS
<1>2. CASE k >= 0
  BY <1>1, <1>2 DEF Magnitude
<1>3. CASE k < 0
  <2>1. Magnitude(k * step) = (-k) * step /\ -k \in Nat
    BY <1>1, <1>3 DEF Magnitude
  <2> QED
    BY <2>1
<1> QED
  BY <1>2, <1>3

\* A share of whole steps is what a command that keeps its target aims at.
LEMMA TargetIsTheShare ==
    ASSUME NEW route, GoodTerms(route), Sourced(route, 1) > 0, NEW m \in Int, NEW q \in Int,
           NEW k \in Int, Sourced(route, q) = k * route.limits.step,
           ~ TargetRoundedAway(Command(route, BuildSignal(m, q)))
    PROVE  ExpectedQuantity(Command(route, BuildSignal(m, q))) = Sourced(route, q)
<1> DEFINE c == Command(route, BuildSignal(m, q))
           s == Sourced(route, q)
           step == route.limits.step
<1>1. /\ s \in Int /\ Sourced(route, 0) = 0
      /\ q > 0 => s > 0
      /\ q < 0 => s < 0
      /\ Magnitude(Sourced(route, Magnitude(q))) = Magnitude(s)
  BY SharesAddUp
<1>2. c.side = ResolveSide(q) /\ c.target = Normalized(Magnitude(s), route.limits)
  BY <1>1 DEF Command, BuildSignal, ScaleTarget
<1>3. CASE q = 0
  BY <1>1, <1>2, <1>3 DEF ResolveSide, ExpectedQuantity
<1>4. CASE q # 0
  <2>1. c.target # 0 /\ c.side = IF q > 0 THEN "LONG" ELSE "SHORT"
    BY <1>2, <1>4 DEF ResolveSide, TargetRoundedAway
  <2>2. PICK j \in Nat : Magnitude(s) = j * step
    BY WholeMagnitude DEF GoodTerms
  <2>3. c.target = Magnitude(s)
    <3>1. Magnitude(s) \in Nat
      BY <1>1 DEF Magnitude
    <3>2. Normalized(Magnitude(s), route.limits) \in {0, Magnitude(s)}
      BY <2>2, <3>1, RoundingTells DEF GoodTerms
    <3> QED
      BY <1>2, <2>1, <3>2
  <2> HIDE DEF c, s
  <2>4. s \in Int /\ (q > 0 => s > 0) /\ (q < 0 => s < 0)
    BY <1>1
  <2>5. ExpectedQuantity(c) = s
    BY <1>4, <2>1, <2>3, <2>4 DEF ExpectedQuantity, Magnitude
  <2> QED
    BY <2>5 DEF c, s
<1> QED
  BY <1>3, <1>4

\* The command of a fill: its fields, its distance from the share, and that one whose
\* fill shrinks the master's position only reduces.
LEMMA CommandIs ==
    ASSUME NEW route, GoodTerms(route), NEW m \in Int, NEW q \in Int
    PROVE  LET c == Command(route, BuildSignal(m, q))
           IN  /\ c \in BookCommand
               /\ c.delta = ScaleDelta(route, q - m)
               /\ Shrinks(m, q) => c.reduce = TRUE
<1> DEFINE b == BuildSignal(m, q)
           c == Command(route, b)
<1>1. /\ b.action = ResolveAction(m, q) /\ b.side = ResolveSide(q)
      /\ b.target = Magnitude(q) /\ b.delta = q - m
  BY DEF BuildSignal
<1> HIDE DEF b
<1>2. c = [action |-> ResolveAction(m, q), lane |-> LaneOf(ResolveAction(m, q)),
           side |-> ResolveSide(q), target |-> ScaleTarget(route, Magnitude(q)),
           delta |-> ScaleDelta(route, q - m), reduce |-> ReducesOnly(ResolveAction(m, q))]
  BY <1>1 DEF Command
<1> DEFINE a == ResolveAction(m, q)
<1>3. a \in {"OPEN", "CLOSE", "FLIP", "INCREASE", "REDUCE", "SYNC_TO_TARGET_POSITION"}
  BY DEF ResolveAction
<1>4. Shrinks(m, q) => a \in {"CLOSE", "REDUCE"}
  <2> SUFFICES ASSUME Shrinks(m, q) PROVE a \in {"CLOSE", "REDUCE"}
    OBVIOUS
  <2>1. m # 0 /\ Magnitude(q) < Magnitude(m) /\ m * q >= 0
    BY DEF Shrinks, Abs, Magnitude
  <2>2. CASE q = 0
    BY <2>1, <2>2 DEF ResolveAction
  <2>3. CASE q # 0
    <3>1. (m > 0 /\ q > 0) \/ (m < 0 /\ q < 0)
      <4>1. m > 0 /\ q < 0 => m * q < 0
        OBVIOUS
      <4>2. m < 0 /\ q > 0 => m * q < 0
        OBVIOUS
      <4> QED
        BY <2>1, <2>3, <4>1, <4>2
    <3>2. m * q > 0
      BY <3>1
    <3>3. ~ (Magnitude(q) > Magnitude(m))
      BY <2>1 DEF Magnitude
    <3> HIDE DEF a
    <3>4. a = "REDUCE"
      BY <2>1, <2>3, <3>1, <3>2, <3>3 DEF ResolveAction, a
    <3> QED
      BY <3>4
  <2> QED
    BY <2>2, <2>3
<1> HIDE DEF a
<1>5. LaneOf(a) \in Lanes /\ ReducesOnly(a) \in BOOLEAN /\ ResolveSide(q) \in {"LONG", "SHORT", "FLAT"}
  BY DEF LaneOf, Lanes, ReducesOnly, ResolveSide
<1>6. ScaleDelta(route, q - m) \in Int
  BY DeltaIsClose
<1>7. ScaleTarget(route, Magnitude(q)) \in Nat
  <2>1. Magnitude(q) \in Int
    BY DEF Magnitude
  <2>2. Sourced(route, Magnitude(q)) \in Int
    BY <2>1, SharesAddUp
  <2>3. Magnitude(Sourced(route, Magnitude(q))) \in Nat
    BY <2>2 DEF Magnitude
  <2> QED
    BY <2>3, RoundingTells DEF ScaleTarget, GoodTerms
<1>8. c \in BookCommand
  BY <1>2, <1>3, <1>5, <1>6, <1>7 DEF BookCommand, a
<1>9. Shrinks(m, q) => c.reduce = TRUE
  <2>1. c.reduce = ReducesOnly(a)
    BY <1>2 DEF a
  <2>2. a \in {"CLOSE", "REDUCE"} => ReducesOnly(a) = TRUE
    BY DEF ReducesOnly
  <2> QED
    BY <1>4, <2>1, <2>2
<1> QED
  BY <1>2, <1>8, <1>9 DEF b

Statuses == {"QUEUED", "PLACED", "FILLED", "ACKED", "FAILED", "SKIPPED"}

\* One task gets the status s, and nothing else changes of the tasks.
Relabelled(t, s) ==
    /\ tasks' \in Seq(BookTask) /\ Len(tasks') = Len(tasks) /\ DOMAIN tasks' = DOMAIN tasks
    /\ \A i \in DOMAIN tasks :
          /\ tasks'[i].command = tasks[i].command /\ tasks'[i].of = tasks[i].of
          /\ tasks'[i].found = tasks[i].found /\ tasks'[i].shrinks = tasks[i].shrinks
          /\ tasks'[i].status = IF i = t THEN s ELSE tasks[i].status

\* A task is added.
Added(task) ==
    /\ task \in BookTask
    /\ tasks' \in Seq(BookTask) /\ Len(tasks') = Len(tasks) + 1
    /\ DOMAIN tasks' = 1 .. Len(tasks) + 1
    /\ \A i \in DOMAIN tasks : tasks'[i] = tasks[i]
    /\ tasks'[Len(tasks) + 1] = task

\* What a task is, field by field.
LEMMA TaskFields ==
    ASSUME NEW ts \in Seq(BookTask), NEW t \in DOMAIN ts
    PROVE  /\ ts[t] \in BookTask /\ ts[t].command \in BookCommand /\ ts[t].of \in Nat
           /\ ts[t].found \in Int /\ ts[t].shrinks \in BOOLEAN /\ ts[t].status \in Statuses
           /\ ts[t].command.delta \in Int /\ ts[t].command.target \in Nat
           /\ ts[t].command.reduce \in BOOLEAN /\ ts[t].command.lane \in Lanes
           /\ ExpectedQuantity(ts[t].command) \in Int
           /\ DOMAIN ts = 1 .. Len(ts) /\ Len(ts) \in Nat
<1>1. ts[t] \in BookTask
  OBVIOUS
<1>2. /\ ts[t].command \in BookCommand /\ ts[t].of \in Nat
      /\ ts[t].found \in Int /\ ts[t].shrinks \in BOOLEAN /\ ts[t].status \in Statuses
  BY <1>1 DEF BookTask, Statuses
<1>3. /\ ts[t].command.delta \in Int /\ ts[t].command.target \in Nat
      /\ ts[t].command.reduce \in BOOLEAN /\ ts[t].command.lane \in Lanes
  BY <1>2 DEF BookCommand
<1>4. ExpectedQuantity(ts[t].command) \in Int
  BY <1>3 DEF ExpectedQuantity
<1>5. DOMAIN ts = 1 .. Len(ts) /\ Len(ts) \in Nat
  OBVIOUS
<1> QED
  BY <1>1, <1>2, <1>3, <1>4, <1>5

\* A sequence of which one member is replaced.
LEMMA ReplacedStays ==
    ASSUME NEW S, NEW ts \in Seq(S), NEW t \in DOMAIN ts, NEW e \in S,
           NEW u, u = [ts EXCEPT ![t] = e]
    PROVE  u \in Seq(S) /\ Len(u) = Len(ts) /\ DOMAIN u = DOMAIN ts
<1>1. DOMAIN ts = 1 .. Len(ts) /\ Len(ts) \in Nat /\ ts \in [1 .. Len(ts) -> S]
  OBVIOUS
<1>2. [ts EXCEPT ![t] = e] \in [1 .. Len(ts) -> S]
  BY <1>1
<1> QED
  BY <1>1, <1>2

\* A status is set.
LEMMA SettingTells ==
    ASSUME BookTypes, NEW t \in DOMAIN tasks, NEW s \in Statuses,
           tasks' = [tasks EXCEPT ![t].status = s]
    PROVE  Relabelled(t, s)
<1>1. tasks[t] \in BookTask
  BY TaskFields DEF BookTypes
<1> DEFINE task == [tasks[t] EXCEPT !.status = s]
<1>2. /\ task \in BookTask /\ task.command = tasks[t].command /\ task.of = tasks[t].of
      /\ task.found = tasks[t].found /\ task.shrinks = tasks[t].shrinks /\ task.status = s
  BY <1>1 DEF BookTask, Statuses
<1>3. tasks' = [tasks EXCEPT ![t] = task]
  OBVIOUS
<1> HIDE DEF task
<1>4. tasks' \in Seq(BookTask) /\ Len(tasks') = Len(tasks) /\ DOMAIN tasks' = DOMAIN tasks
  <2>1. tasks \in Seq(BookTask) /\ task \in BookTask
    BY <1>2 DEF BookTypes
  <2> QED
    BY <1>3, <2>1, ReplacedStays
<1>5. \A i \in DOMAIN tasks : tasks'[i] = IF i = t THEN task ELSE tasks[i]
  BY <1>3 DEF BookTypes
<1> QED
  BY <1>2, <1>4, <1>5 DEF Relabelled

\* A task is stored.
LEMMA StoringTells ==
    ASSUME BookTypes, NEW c \in BookCommand, NEW of \in Nat, NEW found \in Int,
           NEW shrinks \in BOOLEAN, Stored(c, of, found, shrinks)
    PROVE  /\ Added([command |-> c, of |-> of, found |-> found, shrinks |-> shrinks,
                     status |-> "QUEUED"])
           /\ lanes' = [lanes EXCEPT ![c.lane] = Append(@, Len(tasks) + 1)]
<1> DEFINE task == [command |-> c, of |-> of, found |-> found, shrinks |-> shrinks,
                    status |-> "QUEUED"]
<1>1. task \in BookTask
  BY DEF BookTask
<1>2. tasks' = Append(tasks, task)
  BY DEF Stored
<1> HIDE DEF task
<1>3. /\ tasks' \in Seq(BookTask) /\ Len(tasks') = Len(tasks) + 1
      /\ DOMAIN tasks' = 1 .. Len(tasks) + 1
      /\ \A i \in DOMAIN tasks : tasks'[i] = tasks[i]
      /\ tasks'[Len(tasks) + 1] = task
  BY <1>1, <1>2 DEF BookTypes
<1>4. Added(task)
  BY <1>1, <1>3 DEF Added
<1> QED
  BY <1>4 DEF task, Stored

-----------------------------------------------------------------------------
(* What a change of a status leaves as it was.                              *)

\* A change of a status leaves the repairs, the commands and what is planned as they
\* were.
LEMMA RelabellingKeeps ==
    ASSUME BookInv, NEW t \in DOMAIN tasks, NEW s \in Statuses, Relabelled(t, s),
           UNCHANGED <<terms, master, misses, lost>>
    PROVE  /\ Repairs' = Repairs
           /\ \A u \in DOMAIN tasks' : CommandHolds(u)'
           /\ PlanFollows' /\ AimsAreMet'
<1> USE DEF Relabelled
<1>0. tasks \in Seq(BookTask) /\ DOMAIN tasks = 1 .. Len(tasks) /\ Len(tasks) \in Nat
  BY DEF BookInv, BookTypes
<1>1. Repairs' = Repairs
  BY DEF Repairs
<1>2. \A u \in DOMAIN tasks' : CommandHolds(u)'
  BY DEF BookInv, CommandHolds
<1>3. PlanFollows'
  <2> SUFFICES ASSUME ~ lost', Repairs' = {} PROVE \E g : PlanAddsUp(g)'
    BY DEF PlanFollows
  <2>1. PICK g : PlanAddsUp(g)
    BY <1>1 DEF BookInv, PlanFollows
  <2>2. PlanAddsUp(g)'
    BY <1>0, <2>1 DEF PlanAddsUp, Grain
  <2> QED
    BY <2>2
<1>4. \A i \in 0 .. Len(tasks) : Aim(i)' = Aim(i)
  BY <1>0 DEF Aim
<1>5. AimsAreMet'
  <2> SUFFICES ASSUME (~ lost /\ misses = 0 /\ Repairs = {} /\ Sourced(terms, 1) > 0)'
               PROVE  (/\ \A i \in 1 .. Len(tasks) : Aim(i) = Aim(i - 1) + tasks[i].command.delta
                       /\ Aim(Len(tasks)) = Sourced(terms, master)
                       /\ WholeSteps(Sourced(terms, master)))'
    BY DEF AimsAreMet
  <2>1. /\ \A i \in 1 .. Len(tasks) : Aim(i) = Aim(i - 1) + tasks[i].command.delta
        /\ Aim(Len(tasks)) = Sourced(terms, master)
        /\ WholeSteps(Sourced(terms, master))
    BY <1>1 DEF BookInv, AimsAreMet
  <2>2. WholeSteps(Sourced(terms, master))'
    BY <2>1 DEF WholeSteps
  <2>3. Aim(Len(tasks))' = Sourced(terms, master)'
    <3>1. Aim(Len(tasks))' = Aim(Len(tasks))
      BY <1>0 DEF Aim
    <3> QED
      BY <2>1, <3>1
  <2>4. ASSUME NEW i \in 1 .. Len(tasks)
        PROVE  Aim(i)' = Aim(i - 1)' + tasks'[i].command.delta
    BY <1>0, <1>4, <2>1
  <2>5. Len(tasks') = Len(tasks)
    OBVIOUS
  <2> QED
    BY <2>2, <2>3, <2>4, <2>5
<1> QED
  BY <1>1, <1>2, <1>3, <1>5

\* The position goes on being what the executed commands add up to: the order of a
\* command brings its difference, or the follower is disturbed.
LEMMA ExecutingAddsUp ==
    ASSUME BookInv, NEW t \in DOMAIN tasks, NEW s \in Statuses, Relabelled(t, s),
           tasks[t].status = "QUEUED", s # "QUEUED", disturbed => disturbed',
           ~ disturbed' => net' = net + tasks[t].command.delta
    PROVE  NetAddsUp'
<1> SUFFICES ASSUME ~ disturbed' PROVE \E f : AddsUp(f)'
  BY DEF NetAddsUp
<1>0. /\ tasks \in Seq(BookTask) /\ DOMAIN tasks = 1 .. Len(tasks) /\ Len(tasks) \in Nat
      /\ net \in Int
  BY DEF BookInv, BookTypes
<1>1. PICK f : AddsUp(f)
  BY DEF BookInv, NetAddsUp
<1> DEFINE d == tasks[t].command.delta
<1>g. PICK g : g = [i \in 0 .. Len(tasks) |-> IF i < t THEN f[i] ELSE f[i] + d]
  OBVIOUS
<1>2. d \in Int /\ \A i \in DOMAIN tasks : tasks[i].command.delta \in Int
  BY <1>0, TaskFields
<1>3. /\ f \in [0 .. Len(tasks) -> Int] /\ f[0] = 0 /\ net = f[Len(tasks)]
      /\ \A i \in 1 .. Len(tasks) : f[i] = f[i - 1] + Executed(i)
  BY <1>1 DEF AddsUp
<1>4. t \in 1 .. Len(tasks)
  BY <1>0
<1>5. /\ g \in [0 .. Len(tasks) -> Int] /\ g[0] = 0 /\ g[Len(tasks)] = net + d
  BY <1>0, <1>g, <1>2, <1>3, <1>4
<1>6. ASSUME NEW i \in 1 .. Len(tasks) PROVE g[i] = g[i - 1] + Executed(i)'
  <2>1. /\ tasks'[i].command.delta = tasks[i].command.delta
        /\ tasks'[i].status = IF i = t THEN s ELSE tasks[i].status
    BY <1>0 DEF Relabelled
  <2>2. Executed(i)' = IF i = t THEN d ELSE Executed(i)
    BY <2>1 DEF Executed
  <2>3. f[i] = f[i - 1] + Executed(i) /\ f[i] \in Int /\ f[i - 1] \in Int /\ i - 1 \in 0 .. Len(tasks)
    BY <1>3
  <2>4. Executed(t) = 0
    BY DEF Executed
  <2>5. /\ g[i] = IF i < t THEN f[i] ELSE f[i] + d
        /\ g[i - 1] = IF i - 1 < t THEN f[i - 1] ELSE f[i - 1] + d
    BY <1>g, <2>3
  <2>6. Executed(i) \in Int
    BY <1>0, <1>2 DEF Executed
  <2> HIDE DEF d
  <2>7. CASE i = t
    BY <1>2, <1>4, <2>2, <2>3, <2>4, <2>5, <2>7
  <2>8. CASE i < t
    BY <1>2, <1>4, <2>2, <2>3, <2>5, <2>8
  <2>9. CASE i > t
    BY <1>2, <1>4, <2>2, <2>3, <2>5, <2>6, <2>9
  <2> QED
    BY <1>4, <2>7, <2>8, <2>9
<1>7. Len(tasks') = Len(tasks) /\ net' = net + d
  BY DEF Relabelled
<1> HIDE DEF d
<1>8. AddsUp(g)'
  BY <1>5, <1>6, <1>7 DEF AddsUp
<1> QED
  BY <1>8

\* A task goes on to be executed.
LEMMA ExecutedAddsUp ==
    ASSUME BookInv, NEW t \in DOMAIN tasks, NEW s \in Statuses, Relabelled(t, s),
           tasks[t].status # "QUEUED", s # "QUEUED", disturbed => disturbed',
           ~ disturbed' => net' = net
    PROVE  NetAddsUp'
<1> SUFFICES ASSUME ~ disturbed' PROVE \E f : AddsUp(f)'
  BY DEF NetAddsUp
<1>1. PICK f : AddsUp(f)
  BY DEF BookInv, NetAddsUp
<1>2. \A i \in 1 .. Len(tasks) : Executed(i)' = Executed(i)
  <2>1. DOMAIN tasks = 1 .. Len(tasks)
    BY DEF BookInv, BookTypes
  <2>2. ASSUME NEW i \in 1 .. Len(tasks) PROVE Executed(i)' = Executed(i)
    <3>1. /\ tasks'[i].command = tasks[i].command
          /\ tasks'[i].status = IF i = t THEN s ELSE tasks[i].status
      BY <2>1 DEF Relabelled
    <3>2. tasks'[i].status = "QUEUED" <=> tasks[i].status = "QUEUED"
      BY <3>1
    <3> QED
      BY <3>1, <3>2 DEF Executed
  <2> QED
    BY <2>2
<1>3. AddsUp(f)'
  BY <1>1, <1>2 DEF AddsUp, Relabelled
<1> QED
  BY <1>3

\* The first of a lane is taken, and the rest moves up.
LEMMA TailTells ==
    ASSUME NEW q \in Seq(Nat), q # <<>>
    PROVE  /\ Tail(q) \in Seq(Nat) /\ Len(q) \in Nat \ {0} /\ DOMAIN q = 1 .. Len(q)
           /\ DOMAIN Tail(q) = 1 .. Len(q) - 1
           /\ \A i \in DOMAIN Tail(q) : i + 1 \in DOMAIN q /\ Tail(q)[i] = q[i + 1]
           /\ Head(q) = q[1] /\ 1 \in DOMAIN q
  OBVIOUS

\* Two lists of tasks with the same commands, where one task got another status.
OneMoved(ts, us, t, s) ==
    /\ t \in DOMAIN ts /\ DOMAIN us = DOMAIN ts
    /\ \A i \in DOMAIN ts : /\ us[i].command = ts[i].command
                            /\ us[i].status = IF i = t THEN s ELSE ts[i].status

\* A lane takes its first task, which is queued no longer.
LEMMA TakenFromLane ==
    ASSUME NEW ts, NEW us, NEW t, NEW s, OneMoved(ts, us, t, s), s # "QUEUED",
           NEW l, NEW q \in Seq(Nat), q # <<>>, t = Head(q), Holds(ts, l, q, 0),
           NEW on, on = 0 \/ (on = t /\ s = "PLACED")
    PROVE  Holds(us, l, Tail(q), on)
<1> USE DEF OneMoved
<1> DEFINE r == Tail(q)
<1>1. /\ Len(q) \in Nat \ {0} /\ DOMAIN q = 1 .. Len(q)
      /\ DOMAIN r = 1 .. Len(q) - 1
      /\ \A i \in DOMAIN r : i + 1 \in DOMAIN q /\ r[i] = q[i + 1]
      /\ t = q[1] /\ 1 \in DOMAIN q
  BY TailTells
<1>2. /\ \A i \in DOMAIN q : /\ q[i] \in DOMAIN ts /\ ts[q[i]].command.lane = l
                             /\ ts[q[i]].status = "QUEUED"
      /\ \A i, j \in DOMAIN q : q[i] = q[j] => i = j
      /\ \A u \in DOMAIN ts : ts[u].command.lane = l /\ ts[u].status = "QUEUED" =>
            \E i \in DOMAIN q : q[i] = u
  BY DEF Holds
<1>3. \A i \in DOMAIN r : i \in Nat \ {0} /\ i + 1 \in DOMAIN q /\ r[i] = q[i + 1] /\ i + 1 # 1
  BY <1>1
<1> HIDE DEF r
<1>4. \A i \in DOMAIN r : r[i] # t /\ r[i] \in DOMAIN ts
  BY <1>1, <1>2, <1>3
<1>5. \A i \in DOMAIN r : /\ r[i] \in DOMAIN us /\ us[r[i]].command.lane = l
                          /\ us[r[i]].status = "QUEUED"
  BY <1>2, <1>3, <1>4
<1>6. \A i, j \in DOMAIN r : r[i] = r[j] => i = j
  BY <1>2, <1>3
<1>7. ASSUME NEW u \in DOMAIN us, us[u].command.lane = l, us[u].status = "QUEUED"
      PROVE  \E i \in DOMAIN r : r[i] = u
  <2>1. u \in DOMAIN ts /\ ts[u].command.lane = l /\ ts[u].status = "QUEUED" /\ u # t
    BY <1>7
  <2>2. PICK i \in DOMAIN q : q[i] = u
    BY <1>2, <2>1
  <2>3. i # 1
    BY <1>1, <2>1, <2>2
  <2>4. i - 1 \in 1 .. Len(q) - 1 /\ (i - 1) + 1 = i
    BY <1>1, <2>3
  <2>5. i - 1 \in DOMAIN r /\ r[i - 1] = q[i]
    BY <1>1, <1>3, <2>4
  <2> QED
    BY <2>2, <2>5
<1>8. on # 0 => on \in DOMAIN us /\ us[on].command.lane = l /\ us[on].status = "PLACED"
  <2> SUFFICES ASSUME on # 0 PROVE us[t].command.lane = l /\ us[t].status = "PLACED" /\ on = t
    OBVIOUS
  <2>1. ts[t].command.lane = l
    BY <1>1, <1>2
  <2> QED
    BY <2>1
<1> QED
  BY <1>5, <1>6, <1>7, <1>8 DEF Holds, r

\* A lane is done with the task it worked on.
LEMMA LaneIsFree ==
    ASSUME NEW ts, NEW us, NEW t, NEW s, OneMoved(ts, us, t, s), s # "QUEUED",
           ts[t].status = "PLACED", NEW l, NEW q, Holds(ts, l, q, t)
    PROVE  Holds(us, l, q, 0)
<1>1. \A i \in DOMAIN q : q[i] \in DOMAIN ts /\ q[i] # t
  BY DEF Holds
<1>2. \A u \in DOMAIN us : us[u].status = "QUEUED" => u \in DOMAIN ts /\ ts[u].status = "QUEUED"
  BY DEF OneMoved
<1> QED
  BY <1>1, <1>2 DEF OneMoved, Holds

\* The other lanes do not see it.
LEMMA OtherLanesStay ==
    ASSUME NEW ts, NEW us, NEW t, NEW s, OneMoved(ts, us, t, s), s # "QUEUED",
           NEW l, ts[t].command.lane # l, NEW q, NEW on, Holds(ts, l, q, on)
    PROVE  Holds(us, l, q, on)
<1>1. \A i \in DOMAIN q : q[i] \in DOMAIN ts /\ q[i] # t
  BY DEF Holds
<1>2. on # 0 => on # t
  BY DEF Holds
<1>3. \A u \in DOMAIN us : us[u].status = "QUEUED" => u \in DOMAIN ts /\ ts[u].status = "QUEUED"
  BY DEF OneMoved
<1> QED
  BY <1>1, <1>2, <1>3 DEF OneMoved, Holds

\* Two lists of tasks, where one has a task more.
OneMore(ts, us, n, task) ==
    /\ n \notin DOMAIN ts /\ DOMAIN us = DOMAIN ts \cup {n}
    /\ us[n] = task /\ \A i \in DOMAIN ts : us[i] = ts[i]

\* A new task joins the end of its lane.
LEMMA LaneGrows ==
    ASSUME NEW ts, NEW us, NEW n \in Nat, NEW task, OneMore(ts, us, n, task), task.status = "QUEUED",
           NEW q \in Seq(Nat), NEW on, Holds(ts, task.command.lane, q, on)
    PROVE  Holds(us, task.command.lane, Append(q, n), on)
<1> USE DEF OneMore
<1> DEFINE r == Append(q, n)
           l == task.command.lane
<1>1. /\ \A i \in DOMAIN r : (i \in DOMAIN q /\ r[i] = q[i]) \/ (i = Len(q) + 1 /\ r[i] = n)
      /\ \A i \in DOMAIN q : i \in DOMAIN r /\ r[i] = q[i]
      /\ Len(q) + 1 \in DOMAIN r /\ r[Len(q) + 1] = n
  OBVIOUS
<1> HIDE DEF r, l
<1>2. \A i \in DOMAIN q : q[i] \in DOMAIN ts /\ q[i] # n
  BY DEF Holds
<1>3. \A i \in DOMAIN r : /\ r[i] \in DOMAIN us /\ us[r[i]].command.lane = l
                          /\ us[r[i]].status = "QUEUED"
  BY <1>1 DEF Holds, l
<1>4. \A i, j \in DOMAIN r : r[i] = r[j] => i = j
  BY <1>1, <1>2 DEF Holds
<1>5. ASSUME NEW u \in DOMAIN us, us[u].command.lane = l, us[u].status = "QUEUED"
      PROVE  \E i \in DOMAIN r : r[i] = u
  <2>1. CASE u = n
    BY <1>1, <2>1
  <2>2. CASE u # n
    <3>1. u \in DOMAIN ts /\ ts[u].command.lane = l /\ ts[u].status = "QUEUED"
      BY <1>5, <2>2
    <3>2. PICK i \in DOMAIN q : q[i] = u
      BY <3>1 DEF Holds, l
    <3> QED
      BY <1>1, <3>2
  <2> QED
    BY <2>1, <2>2
<1>6. on # 0 => on \in DOMAIN us /\ us[on].command.lane = l /\ us[on].status = "PLACED"
  BY DEF Holds, l
<1> QED
  BY <1>3, <1>4, <1>5, <1>6 DEF Holds, r, l

\* The other lanes do not see it.
LEMMA OtherLanesKeep ==
    ASSUME NEW ts, NEW us, NEW n, NEW task, OneMore(ts, us, n, task),
           NEW l, l # task.command.lane, NEW q, NEW on, Holds(ts, l, q, on)
    PROVE  Holds(us, l, q, on)
  BY DEF OneMore, Holds

\* The order of a command: its signed size is the difference, it is a market order, and
\* it only reduces when the command does.
LEMMA OrderTells ==
    ASSUME NEW c \in BookCommand, exchange \in AllExchanges
    PROVE  /\ OrderOf(c).size = c.delta /\ ~ Waits(OrderOf(c))
           /\ OrderOf(c).reduce \in {c.reduce, FALSE}
           /\ exchange # "COINBASE" => OrderOf(c).reduce = c.reduce
<1> DEFINE r == Request(IF c.delta < 0 THEN "SELL" ELSE "BUY", Abs(c.delta), c.reduce, c.side,
                        "MARKET", FALSE, FALSE)
<1>1. /\ r.type = "MARKET" /\ r.stop = FALSE /\ r.reduce = c.reduce /\ r.quantity = Abs(c.delta)
      /\ r.side = IF c.delta < 0 THEN "SELL" ELSE "BUY"
  BY DEF Request
<1>2. OrderOf(c) = Sent(exchange, FALSE, r)
  BY DEF OrderOf
<1> HIDE DEF r
<1>3. OrderOf(c).size = IF r.side = "BUY" THEN r.quantity ELSE -r.quantity
  BY <1>2, OrdersAreSent
<1>4. c.delta \in Int
  BY DEF BookCommand
<1>5. OrderOf(c).size = c.delta
  BY <1>1, <1>3, <1>4 DEF Abs
<1>6. ~ Waits(OrderOf(c)) /\ OrderOf(c).reduce \in {c.reduce, FALSE}
  BY <1>1, <1>2, MarketOrders
<1>7. exchange # "COINBASE" => OrderOf(c).reduce = c.reduce
  <2>1. exchange # "COINBASE" => Sent(exchange, FALSE, r).reduce = r.reduce
    BY OrdersAreSent
  <2> QED
    BY <1>1, <1>2, <2>1
<1> QED
  BY <1>5, <1>6, <1>7

\* What is filled of a market order that is taken: something, and all of it unless it
\* only reduces.
LEMMA FillTells ==
    ASSUME NEW order, order.size \in Int \ {0}, ~ Waits(order), order.reduce \in BOOLEAN,
           NEW n \in Int
    PROVE  /\ FilledSize(order, n) \in Int
           /\ Takes(order, n) => FilledSize(order, n) # 0
           /\ ~ order.reduce => FilledSize(order, n) = order.size
<1>1. FilledSize(order, n) = IF order.reduce /\ Abs(order.size) > Abs(n) THEN -n ELSE order.size
  BY DEF FilledSize
<1>2. ASSUME Takes(order, n), order.reduce PROVE n # 0
  <2>1. order.size * n < 0
    BY <1>2 DEF Takes
  <2> QED
    BY <2>1
<1> QED
  BY <1>1, <1>2

\* What a lane does with its first task.
PlacedAs(l, t, s) ==
    LET order == OrderOf(tasks[t].command)
    IN  /\ t = Head(lanes[l]) /\ s \in Statuses \ {"QUEUED"}
        /\ tasks[t].status = "QUEUED" /\ tasks[t].command.lane = l
        /\ lanes[l] # <<>> /\ busy[l] = 0
        /\ Relabelled(t, s)
        /\ lanes' = [lanes EXCEPT ![l] = Tail(@)]
        /\ \/ busy' = busy
           \/ s = "PLACED" /\ busy' = [busy EXCEPT ![l] = t]
        /\ \/ s = "SKIPPED" /\ net' = net
           \/ /\ tasks[t].command.delta # 0 /\ s \in {"PLACED", "FAILED"}
              /\ \E o \in Outcomes(exchange, order, net) :
                    net' = net + o.moved /\ (s = "PLACED" <=> Accepted(exchange, o.answer))
        /\ disturbed => disturbed'
        /\ ~ disturbed' => net' = net + tasks[t].command.delta
        /\ UNCHANGED <<exchange, terms, master, fills, misses, lost>>

\* A step of a lane is one of those.
LEMMA TakingTells ==
    ASSUME BookInv, NEW l \in Lanes, PlaceOrder(l)
    PROVE  \E t \in DOMAIN tasks : \E s \in Statuses \ {"QUEUED"} : PlacedAs(l, t, s)
<1>1. /\ lanes[l] \in Seq(Nat) /\ lanes[l] # <<>> /\ busy[l] = 0 /\ net \in Int
      /\ exchange \in AllExchanges /\ busy \in [Lanes -> Nat]
  BY DEF BookInv, BookTypes, PlaceOrder
<1>2. PICK t \in Nat : t = Head(lanes[l])
  BY <1>1
<1>3. t \in DOMAIN tasks /\ tasks[t].status = "QUEUED" /\ tasks[t].command.lane = l
  <2>1. t = lanes[l][1] /\ 1 \in DOMAIN lanes[l]
    BY <1>1, <1>2, TailTells
  <2>2. Holds(tasks, l, lanes[l], busy[l])
    BY DEF BookInv, LaneHolds
  <2> QED
    BY <2>1, <2>2 DEF Holds
<1>4. tasks[t].command \in BookCommand /\ tasks[t].command.delta \in Int
      /\ tasks[t].command.reduce \in BOOLEAN
  BY <1>3, TaskFields DEF BookInv, BookTypes
<1> DEFINE c == tasks[t].command
           order == OrderOf(c)
<1>5. order.size = c.delta
  BY <1>1, <1>4, OrderTells
<1>6. /\ lanes' = [lanes EXCEPT ![l] = Tail(@)]
      /\ UNCHANGED <<exchange, terms, master, fills, misses, lost>>
  BY DEF PlaceOrder
<1>7. BookTypes
  BY DEF BookInv
<1>8. CASE c.delta = 0
  <2>1. /\ tasks' = [tasks EXCEPT ![t].status = "SKIPPED"]
        /\ net' = net /\ busy' = busy /\ (disturbed' = disturbed)
    BY <1>2, <1>8 DEF PlaceOrder
  <2>2. Relabelled(t, "SKIPPED")
    BY <1>3, <1>7, <2>1, SettingTells DEF Statuses
  <2>3. disturbed => disturbed'
    BY <2>1
  <2>4. net' = net + c.delta
    BY <1>1, <1>8, <2>1
  <2>5. PlacedAs(l, t, "SKIPPED")
    <3> HIDE DEF c, order
    <3> QED
      BY <1>1, <1>2, <1>3, <1>6, <2>1, <2>2, <2>3, <2>4 DEF PlacedAs, Statuses, c
  <2> QED
    BY <1>3, <2>5 DEF Statuses
<1>9. CASE c.delta # 0
  <2>1. PICK o \in Outcomes(exchange, order, net) :
           /\ net' = net + o.moved
           /\ disturbed' = (disturbed \/ ~ o.taken \/ o.moved # order.size)
           /\ tasks' = [tasks EXCEPT ![t].status =
                           IF Accepted(exchange, o.answer) THEN "PLACED" ELSE "FAILED"]
           /\ busy' = [busy EXCEPT ![l] = IF Accepted(exchange, o.answer) THEN t ELSE 0]
    BY <1>2, <1>9 DEF PlaceOrder
  <2>2. disturbed => disturbed'
    BY <2>1
  <2>3. ~ disturbed' => net' = net + c.delta
    BY <1>5, <2>1
  <2> DEFINE s == IF Accepted(exchange, o.answer) THEN "PLACED" ELSE "FAILED"
  <2>4. s \in {"PLACED", "FAILED"} /\ (s = "PLACED" <=> Accepted(exchange, o.answer))
    OBVIOUS
  <2>5. tasks' = [tasks EXCEPT ![t].status = s]
    BY <2>1
  <2>6. busy' = busy \/ (s = "PLACED" /\ busy' = [busy EXCEPT ![l] = t])
    BY <1>1, <2>1
  <2> HIDE DEF s
  <2>7. Relabelled(t, s)
    BY <1>3, <1>7, <2>4, <2>5, SettingTells DEF Statuses
  <2>8. \E x \in Outcomes(exchange, order, net) :
           net' = net + x.moved /\ (s = "PLACED" <=> Accepted(exchange, x.answer))
    BY <2>1, <2>4
  <2>9. s \in Statuses \ {"QUEUED"}
    BY <2>4 DEF Statuses
  <2>10. PlacedAs(l, t, s)
    BY <1>1, <1>2, <1>3, <1>6, <1>9, <2>2, <2>3, <2>4, <2>6, <2>7, <2>8, <2>9 DEF PlacedAs
  <2> QED
    BY <1>3, <2>9, <2>10
<1> QED
  BY <1>8, <1>9

\* What reading a position back does.
ReadAs(l, t, s) ==
    /\ t = busy[l] /\ t # 0 /\ s \in {"FILLED", "ACKED"}
    /\ tasks[t].status = "PLACED" /\ tasks[t].command.lane = l
    /\ Relabelled(t, s)
    /\ busy' = [busy EXCEPT ![l] = 0]
    /\ disturbed => disturbed'
    /\ ~ disturbed' => s = IF net = ExpectedQuantity(tasks[t].command) THEN "FILLED" ELSE "ACKED"
    /\ UNCHANGED <<exchange, terms, master, net, lanes, fills, misses, lost>>

\* A reading is one of those.
LEMMA ReadingTells ==
    ASSUME BookInv, NEW l \in Lanes, ReadBack(l)
    PROVE  \E t \in DOMAIN tasks : \E s \in Statuses : ReadAs(l, t, s)
<1>1. /\ busy[l] # 0 /\ busy[l] \in Nat /\ net \in Int /\ exchange \in AllExchanges
  BY DEF BookInv, BookTypes, ReadBack
<1>2. PICK t \in Nat : t = busy[l]
  BY <1>1
<1>3. t \in DOMAIN tasks /\ tasks[t].status = "PLACED" /\ tasks[t].command.lane = l
  BY <1>1, <1>2 DEF BookInv, LaneHolds, Holds
<1>4. PICK done \in BOOLEAN :
         /\ disturbed' = (disturbed \/ ~ done)
         /\ tasks' = [tasks EXCEPT ![t].status =
               IF done /\ Position(exchange, Rows(exchange, net)) = ExpectedQuantity(tasks[t].command)
               THEN "FILLED" ELSE "ACKED"]
  BY <1>2 DEF ReadBack
<1>5. Position(exchange, Rows(exchange, net)) = net
  BY <1>1, RowsAreRead
<1> DEFINE s == IF done /\ net = ExpectedQuantity(tasks[t].command) THEN "FILLED" ELSE "ACKED"
<1>6. tasks' = [tasks EXCEPT ![t].status = s] /\ s \in Statuses /\ s \in {"FILLED", "ACKED"}
  BY <1>4, <1>5 DEF Statuses
<1>7. ~ disturbed' => s = IF net = ExpectedQuantity(tasks[t].command) THEN "FILLED" ELSE "ACKED"
  BY <1>4
<1>8. disturbed => disturbed'
  BY <1>4
<1> HIDE DEF s
<1>9. Relabelled(t, s)
  BY <1>3, <1>6, SettingTells DEF BookInv
<1>10. /\ busy' = [busy EXCEPT ![l] = 0]
       /\ UNCHANGED <<exchange, terms, master, net, lanes, fills, misses, lost>>
  BY DEF ReadBack
<1>11. ReadAs(l, t, s)
  BY <1>1, <1>2, <1>3, <1>6, <1>7, <1>8, <1>9, <1>10 DEF ReadAs
<1> QED
  BY <1>3, <1>6, <1>11

\* A change of a status, for the lanes.
LEMMA MovedAsSet ==
    ASSUME NEW t \in DOMAIN tasks, NEW s, Relabelled(t, s)
    PROVE  OneMoved(tasks, tasks', t, s)
  BY DEF Relabelled, OneMoved

-----------------------------------------------------------------------------
\* Placing an order keeps the invariant.
LEMMA PlaceOrderKeeps ==
    ASSUME BookInv, NEW l \in Lanes, PlaceOrder(l) PROVE BookInv'
<1>1. PICK t \in DOMAIN tasks, s \in Statuses \ {"QUEUED"} : PlacedAs(l, t, s)
  BY TakingTells
<1> USE DEF PlacedAs
<1>0. BookTypes
  BY DEF BookInv
<1>2. Relabelled(t, s) /\ OneMoved(tasks, tasks', t, s)
  BY <1>1, MovedAsSet
<1>3. PlanFollows' /\ AimsAreMet' /\ \A u \in DOMAIN tasks' : CommandHolds(u)'
  BY <1>1, <1>2, RelabellingKeeps
<1>4. NetAddsUp'
  BY <1>1, <1>2, ExecutingAddsUp
<1>5. net' \in Int
  <2>1. tasks[t].command \in BookCommand /\ tasks[t].command.delta \in Int
    BY <1>0, TaskFields DEF BookTypes
  <2>2. exchange \in AllExchanges /\ net \in Int
    BY <1>0 DEF BookTypes
  <2>3. OrderOf(tasks[t].command).size \in Int
    BY <2>1, <2>2, OrderTells
  <2>4. \A o \in Outcomes(exchange, OrderOf(tasks[t].command), net) : o.moved \in Int
    BY <2>2, <2>3, OutcomesTell
  <2> QED
    BY <1>1, <2>2, <2>4
<1>6. /\ lanes \in [Lanes -> Seq(Nat)] /\ busy \in [Lanes -> Nat] /\ lanes[l] \in Seq(Nat)
      /\ lanes[l] # <<>>
  BY <1>0, <1>1 DEF BookTypes
<1>7. Tail(lanes[l]) \in Seq(Nat)
  BY <1>6
<1>8. /\ lanes' \in [Lanes -> Seq(Nat)] /\ lanes'[l] = Tail(lanes[l])
      /\ \A k \in Lanes : k # l => lanes'[k] = lanes[k]
  BY <1>1, <1>6, <1>7
<1>9. /\ busy' \in [Lanes -> Nat] /\ (busy'[l] = 0 \/ (busy'[l] = t /\ s = "PLACED"))
      /\ \A k \in Lanes : k # l => busy'[k] = busy[k]
  <2>1. t \in Nat
    BY <1>0 DEF BookTypes
  <2> QED
    BY <1>1, <1>6, <2>1
<1>10. BookTypes'
  BY <1>0, <1>1, <1>2, <1>5, <1>8, <1>9 DEF BookTypes, Relabelled
<1>11. ASSUME NEW k \in Lanes PROVE LaneHolds(k)'
  <2>1. Holds(tasks, k, lanes[k], busy[k])
    BY DEF BookInv, LaneHolds
  <2>2. CASE k = l
    <3>1. Holds(tasks, l, lanes[l], 0) /\ t = Head(lanes[l])
      BY <1>1, <2>1, <2>2
    <3>2. Holds(tasks', l, Tail(lanes[l]), busy'[l])
      BY <1>2, <1>6, <1>9, <3>1, TakenFromLane
    <3> QED
      BY <1>8, <2>2, <3>2 DEF LaneHolds
  <2>3. CASE k # l
    <3>1. tasks[t].command.lane # k
      BY <1>1, <2>3
    <3>2. Holds(tasks', k, lanes[k], busy[k])
      BY <1>2, <2>1, <3>1, OtherLanesStay
    <3> QED
      BY <1>8, <1>9, <2>3, <3>2 DEF LaneHolds
  <2> QED
    BY <2>2, <2>3
<1> QED
  BY <1>3, <1>4, <1>10, <1>11 DEF BookInv

\* Reading a position back keeps it.
LEMMA ReadBackKeeps ==
    ASSUME BookInv, NEW l \in Lanes, ReadBack(l) PROVE BookInv'
<1>1. PICK t \in DOMAIN tasks, s \in Statuses : ReadAs(l, t, s)
  BY ReadingTells
<1> USE DEF ReadAs
<1>0. BookTypes
  BY DEF BookInv
<1>2. Relabelled(t, s) /\ OneMoved(tasks, tasks', t, s) /\ s # "QUEUED"
  BY <1>1, MovedAsSet
<1>3. PlanFollows' /\ AimsAreMet' /\ \A u \in DOMAIN tasks' : CommandHolds(u)'
  BY <1>1, <1>2, RelabellingKeeps
<1>4. NetAddsUp'
  BY <1>1, <1>2, ExecutedAddsUp
<1>5. /\ busy' \in [Lanes -> Nat] /\ busy'[l] = 0 /\ \A k \in Lanes : k # l => busy'[k] = busy[k]
  BY <1>0, <1>1 DEF BookTypes
<1>6. BookTypes'
  BY <1>0, <1>1, <1>2, <1>5 DEF BookTypes, Relabelled
<1>7. ASSUME NEW k \in Lanes PROVE LaneHolds(k)'
  <2>1. Holds(tasks, k, lanes[k], busy[k]) /\ lanes' = lanes
    BY <1>1 DEF BookInv, LaneHolds
  <2>2. CASE k = l
    <3>1. Holds(tasks, l, lanes[l], t) /\ tasks[t].status = "PLACED"
      BY <1>1, <2>1, <2>2
    <3>2. Holds(tasks', l, lanes[l], 0)
      BY <1>2, <3>1, LaneIsFree
    <3> QED
      BY <1>5, <2>1, <2>2, <3>2 DEF LaneHolds
  <2>3. CASE k # l
    <3>1. tasks[t].command.lane # k
      BY <1>1, <2>3
    <3>2. Holds(tasks', k, lanes[k], busy[k])
      BY <1>2, <2>1, <3>1, OtherLanesStay
    <3> QED
      BY <1>5, <2>1, <2>3, <3>2 DEF LaneHolds
  <2> QED
    BY <2>2, <2>3
<1> QED
  BY <1>3, <1>4, <1>6, <1>7 DEF BookInv

\* What a new task leaves as it was, and what it adds.
LEMMA AddingKeeps ==
    ASSUME BookInv, NEW task, Added(task), task.status = "QUEUED",
           task.shrinks => task.command.reduce,
           task.of # 0 => task.command.delta = ExpectedQuantity(task.command) - task.found,
           lanes' = [lanes EXCEPT ![task.command.lane] = Append(@, Len(tasks) + 1)],
           busy' = busy, net' = net, UNCHANGED disturbed
    PROVE  /\ tasks' \in Seq(BookTask) /\ lanes' \in [Lanes -> Seq(Nat)]
           /\ \A l \in Lanes : LaneHolds(l)'
           /\ \A u \in DOMAIN tasks' : CommandHolds(u)'
           /\ NetAddsUp'
           /\ task.of # 0 => Repairs' # {}
           /\ Repairs' = {} => Repairs = {}
<1>n. PICK n : n = Len(tasks) + 1
  OBVIOUS
<1>0. /\ lanes \in [Lanes -> Seq(Nat)] /\ tasks \in Seq(BookTask)
      /\ DOMAIN tasks = 1 .. Len(tasks) /\ Len(tasks) \in Nat
  BY DEF BookInv, BookTypes
<1>1. /\ n \in Nat /\ n \notin DOMAIN tasks /\ n \in DOMAIN tasks'
      /\ DOMAIN tasks' = DOMAIN tasks \cup {n} /\ tasks'[n] = task
      /\ \A i \in DOMAIN tasks : tasks'[i] = tasks[i]
      /\ tasks' \in Seq(BookTask) /\ Len(tasks') = n
  BY <1>0, <1>n DEF Added
<1>2. OneMore(tasks, tasks', n, task)
  BY <1>1 DEF OneMore
<1> DEFINE k == task.command.lane
<1>3. k \in Lanes
  BY DEF Added, BookTask, BookCommand
<1>4. lanes' = [lanes EXCEPT ![k] = Append(lanes[k], n)]
  BY <1>n
<1> HIDE DEF k
<1>5. lanes[k] \in Seq(Nat) /\ Append(lanes[k], n) \in Seq(Nat)
  BY <1>0, <1>1, <1>3
<1>6. /\ lanes' \in [Lanes -> Seq(Nat)] /\ lanes'[k] = Append(lanes[k], n)
      /\ \A l \in Lanes : l # k => lanes'[l] = lanes[l]
  BY <1>0, <1>3, <1>4, <1>5
<1>7. ASSUME NEW l \in Lanes PROVE LaneHolds(l)'
  <2>1. Holds(tasks, l, lanes[l], busy[l])
    BY DEF BookInv, LaneHolds
  <2>2. CASE l = k
    <3>1. Holds(tasks, k, lanes[k], busy[k])
      BY <2>1, <2>2
    <3>2. Holds(tasks', k, Append(lanes[k], n), busy[k])
      BY <1>1, <1>2, <1>5, <3>1, LaneGrows DEF k
    <3> QED
      BY <1>6, <2>2, <3>2 DEF LaneHolds
  <2>3. CASE l # k
    <3>1. Holds(tasks', l, lanes[l], busy[l])
      BY <1>2, <2>1, <2>3, OtherLanesKeep DEF k
    <3> QED
      BY <1>6, <2>3, <3>1 DEF LaneHolds
  <2> QED
    BY <2>2, <2>3
<1>8. ASSUME NEW u \in DOMAIN tasks' PROVE CommandHolds(u)'
  <2>1. CASE u = n
    BY <1>1, <2>1 DEF CommandHolds
  <2>2. CASE u # n
    <3>1. u \in DOMAIN tasks /\ tasks'[u] = tasks[u] /\ CommandHolds(u)
      BY <1>1, <2>2 DEF BookInv
    <3> QED
      BY <3>1 DEF CommandHolds
  <2> QED
    BY <2>1, <2>2
<1>9. NetAddsUp'
  <2> SUFFICES ASSUME ~ disturbed' PROVE \E f : AddsUp(f)'
    BY DEF NetAddsUp
  <2>1. PICK f : AddsUp(f)
    BY DEF BookInv, NetAddsUp
  <2>h. PICK h : h = [i \in 0 .. n |-> IF i = n THEN f[n - 1] ELSE f[i]]
    OBVIOUS
  <2>2. /\ f \in [0 .. n - 1 -> Int] /\ f[0] = 0 /\ net = f[n - 1] /\ n - 1 = Len(tasks)
        /\ \A i \in 1 .. n - 1 : f[i] = f[i - 1] + Executed(i)
    BY <1>0, <1>n, <2>1 DEF AddsUp
  <2>3. \A i \in 1 .. n - 1 : Executed(i)' = Executed(i)
    BY <1>0, <1>1, <2>2 DEF Executed
  <2>4. Executed(n)' = 0
    BY <1>1 DEF Executed
  <2>5. n \in Nat \ {0}
    BY <1>0, <1>n
  <2>6. /\ h \in [0 .. n -> Int] /\ h[0] = 0 /\ h[n] = net
    BY <2>h, <2>2, <2>5
  <2>7. ASSUME NEW i \in 1 .. n PROVE h[i] = h[i - 1] + Executed(i)'
    <3>1. CASE i = n
      BY <2>h, <2>2, <2>4, <2>5, <3>1
    <3>2. CASE i # n
      <4>1. i \in 1 .. n - 1 /\ i - 1 \in 0 .. n /\ i - 1 # n
        BY <2>5, <3>2
      <4>2. h[i] = f[i] /\ h[i - 1] = f[i - 1]
        BY <2>h, <3>2, <4>1
      <4> QED
        BY <2>2, <2>3, <4>1, <4>2
    <3> QED
      BY <3>1, <3>2
  <2>8. AddsUp(h)'
    BY <1>1, <2>6, <2>7 DEF AddsUp
  <2> QED
    BY <2>8
<1>10. (task.of # 0 => Repairs' # {}) /\ (Repairs' = {} => Repairs = {})
  <2>1. task.of # 0 => n \in Repairs'
    BY <1>1 DEF Repairs
  <2>2. \A t \in Repairs : t \in Repairs'
    BY <1>1 DEF Repairs
  <2> QED
    BY <2>1, <2>2
<1> QED
  BY <1>1, <1>6, <1>7, <1>8, <1>9, <1>10

\* A fill of the master: what it does, whether it is planned or not.
FilledAs(q, c) ==
    /\ c = Command(terms, BuildSignal(master, q)) /\ q \in Int /\ master' = q
    /\ UNCHANGED <<exchange, terms, net, busy, faults, disturbed>>
    /\ misses' = IF c.delta = Sourced(terms, q - master) THEN misses ELSE misses + 1
    /\ lost => lost'
    /\ TargetRoundedAway(c) /\ c.delta # 0 => lost'
    /\ \/ ~ Planned(c) /\ tasks' = tasks /\ lanes' = lanes
       \/ /\ Planned(c)
          /\ Added([command |-> c, of |-> 0, found |-> 0, shrinks |-> Shrinks(master, q),
                    status |-> "QUEUED"])
          /\ lanes' = [lanes EXCEPT ![c.lane] = Append(@, Len(tasks) + 1)]

\* A step of the master is one of those.
LEMMA FillingTells ==
    ASSUME BookInv, NEW q \in Sizes, MasterFill(q)
    PROVE  \E c \in BookCommand : FilledAs(q, c)
<1> DEFINE c == Command(terms, BuildSignal(master, q))
<1>1. q \in Int /\ master \in Int /\ GoodTerms(terms)
  BY BookConstantsOK DEF BookInv, BookTypes, GoodTerms
<1>2. c \in BookCommand
  BY <1>1, CommandIs
<1>3. /\ misses' = IF c.delta = Sourced(terms, q - master) THEN misses ELSE misses + 1
      /\ lost' = (lost \/ (TargetRoundedAway(c) /\ c.delta # 0))
      /\ master' = q /\ UNCHANGED <<exchange, terms, net, busy, faults, disturbed>>
      /\ IF Planned(c) THEN Stored(c, 0, 0, Shrinks(master, q)) ELSE UNCHANGED <<tasks, lanes>>
  BY DEF MasterFill
<1> HIDE DEF c
<1>4. Planned(c) =>
         /\ Added([command |-> c, of |-> 0, found |-> 0, shrinks |-> Shrinks(master, q),
                   status |-> "QUEUED"])
         /\ lanes' = [lanes EXCEPT ![c.lane] = Append(@, Len(tasks) + 1)]
  <2> SUFFICES ASSUME Planned(c)
               PROVE  /\ Added([command |-> c, of |-> 0, found |-> 0,
                                shrinks |-> Shrinks(master, q), status |-> "QUEUED"])
                      /\ lanes' = [lanes EXCEPT ![c.lane] = Append(@, Len(tasks) + 1)]
    OBVIOUS
  <2>1. Stored(c, 0, 0, Shrinks(master, q))
    BY <1>3
  <2>2. Shrinks(master, q) \in BOOLEAN
    BY DEF Shrinks
  <2>3. BookTypes
    BY DEF BookInv
  <2> QED
    BY <1>2, <2>1, <2>2, <2>3, StoringTells
<1>5. ~ Planned(c) => tasks' = tasks /\ lanes' = lanes
  BY <1>3
<1>6. (lost => lost') /\ (TargetRoundedAway(c) /\ c.delta # 0 => lost')
  BY <1>3
<1>7. FilledAs(q, c)
  BY <1>1, <1>3, <1>4, <1>5, <1>6 DEF FilledAs, c
<1> QED
  BY <1>2, <1>7

\* A command that is not planned has no difference, or its target was lost.
LEMMA UnplannedIsNothing ==
    ASSUME NEW c \in BookCommand, ~ Planned(c), ~ (TargetRoundedAway(c) /\ c.delta # 0)
    PROVE  c.delta = 0
  BY DEF Planned, DeltaRoundedAway, BookCommand

\* One grain more.
LEMMA OneTimesMore ==
    ASSUME NEW m \in Nat, NEW g \in Nat
    PROVE  m * g \in Nat /\ (m + 1) * g = m * g + g
  OBVIOUS

\* A fill keeps the plan within a grain per fill that did not fit.
LEMMA FillFollows ==
    ASSUME BookInv, NEW q, NEW c \in BookCommand, FilledAs(q, c),
           Repairs' = {} => Repairs = {}
    PROVE  PlanFollows'
<1> SUFFICES ASSUME ~ lost', Repairs' = {} PROVE \E g : PlanAddsUp(g)'
  BY DEF PlanFollows
<1>0. /\ tasks \in Seq(BookTask) /\ DOMAIN tasks = 1 .. Len(tasks) /\ Len(tasks) \in Nat
      /\ misses \in Nat /\ master \in Int /\ q \in Int /\ GoodTerms(terms)
  BY DEF BookInv, BookTypes, FilledAs, GoodTerms
<1>1. ~ lost /\ ~ (TargetRoundedAway(c) /\ c.delta # 0)
  BY DEF FilledAs
<1>2. PICK g : PlanAddsUp(g)
  BY <1>1 DEF BookInv, PlanFollows
<1>n. PICK n : n = Len(tasks)
  OBVIOUS
<1> DEFINE e == Sourced(terms, q - master)
           G == GrainOf(terms.limits)
<1>3. /\ c.delta \in Int /\ G \in Nat /\ Abs(c.delta - e) <= G
      /\ e = Sourced(terms, q) - Sourced(terms, master)
      /\ Sourced(terms, q) \in Int /\ Sourced(terms, master) \in Int
  <2>1. q - master \in Int
    BY <1>0
  <2>2. c.delta = ScaleDelta(terms, q - master)
    BY <1>0, CommandIs DEF FilledAs
  <2>3. ScaleDelta(terms, q - master) \in Int /\ G \in Nat /\ Abs(ScaleDelta(terms, q - master) - e) <= G
    BY <1>0, <2>1, DeltaIsClose
  <2>4. e = Sourced(terms, q) - Sourced(terms, master)
    BY <1>0, SharesAddUp
  <2>5. Sourced(terms, q) \in Int /\ Sourced(terms, master) \in Int
    BY <1>0, SharesAddUp
  <2> QED
    BY <2>2, <2>3, <2>4, <2>5
<1>4. /\ g \in [0 .. n -> Int] /\ g[0] = 0
      /\ \A i \in 1 .. n : g[i] = g[i - 1] + tasks[i].command.delta
      /\ Abs(g[n] - Sourced(terms, master)) <= misses * G
  BY <1>n, <1>2 DEF PlanAddsUp, Grain, GrainOf
<1>5. g[n] \in Int /\ n \in Nat
  BY <1>0, <1>n, <1>4
<1>y. PICK y : y = g[n] + c.delta
  OBVIOUS
<1>6. Abs(y - Sourced(terms, q)) <= misses' * G
  <2>1. misses * G \in Nat /\ (misses + 1) * G = misses * G + G
    BY <1>0, <1>3, OneTimesMore
  <2> DEFINE x == g[n]
             A == Sourced(terms, master)
             B == Sourced(terms, q)
             M == misses * G
  <2>2. misses' * G = IF c.delta = e THEN M ELSE M + G
    BY <2>1 DEF FilledAs
  <2>3. /\ x \in Int /\ A \in Int /\ B \in Int /\ M \in Nat
        /\ Abs(x - A) <= M /\ e = B - A
    BY <1>3, <1>4, <1>5, <2>1
  <2> HIDE DEF x, A, B, M, e, G
  <2>4. CASE c.delta = e
    <3>1. y - B = x - A
      BY <1>y, <1>3, <2>3, <2>4 DEF x
    <3> QED
      BY <2>2, <2>3, <2>4, <3>1 DEF B
  <2>5. CASE c.delta # e
    <3>1. Abs(y - B) <= M + G
      BY <1>y, <1>3, <2>3 DEF Abs, x
    <3> QED
      BY <2>2, <2>5, <3>1 DEF B
  <2> QED
    BY <2>4, <2>5
<1>7. Sourced(terms, master)' = Sourced(terms, q) /\ Grain' = G
  BY DEF FilledAs, Sourced, EffectiveScale, Grain, GrainOf
<1>8. CASE ~ Planned(c)
  <2>1. c.delta = 0 /\ tasks' = tasks
    BY <1>1, <1>8, UnplannedIsNothing DEF FilledAs
  <2>2. Abs(g[n] - Sourced(terms, q)) <= misses' * G
    <3>1. y = g[n]
      BY <1>y, <1>5, <2>1
    <3> QED
      BY <1>6, <3>1
  <2> HIDE DEF G
  <2>3. PlanAddsUp(g)'
    BY <1>n, <1>4, <1>7, <2>1, <2>2 DEF PlanAddsUp
  <2> QED
    BY <2>3
<1>9. CASE Planned(c)
  <2>1. /\ Len(tasks') = n + 1 /\ tasks'[n + 1].command = c
        /\ \A i \in 1 .. n : tasks'[i] = tasks[i]
    <3>1. PICK task : Added(task) /\ task.command = c
      BY <1>9 DEF FilledAs
    <3> QED
      BY <1>0, <1>n, <3>1 DEF Added
  <2>h. PICK h : h = [i \in 0 .. n + 1 |-> IF i = n + 1 THEN g[n] + c.delta ELSE g[i]]
    OBVIOUS
  <2>2. h \in [0 .. n + 1 -> Int] /\ h[0] = 0 /\ h[n + 1] = g[n] + c.delta
    BY <2>h, <1>3, <1>4, <1>5
  <2>3. ASSUME NEW i \in 1 .. n + 1 PROVE h[i] = h[i - 1] + tasks'[i].command.delta
    <3>1. CASE i = n + 1
      BY <2>h, <1>5, <2>1, <3>1
    <3>2. CASE i # n + 1
      <4>1. i \in 1 .. n /\ i - 1 \in 0 .. n + 1 /\ i - 1 # n + 1
        BY <1>5, <3>2
      <4>2. h[i] = g[i] /\ h[i - 1] = g[i - 1] /\ tasks'[i] = tasks[i]
        BY <2>h, <2>1, <3>2, <4>1
      <4> QED
        BY <1>4, <4>1, <4>2
    <3> QED
      BY <3>1, <3>2
  <2> HIDE DEF G
  <2>4. PlanAddsUp(h)'
    <3>1. Abs(h[n + 1] - Sourced(terms, q)) <= misses' * G
      BY <1>y, <1>6, <2>2
    <3>2. /\ h \in [0 .. Len(tasks') -> Int] /\ h[0] = 0
          /\ \A i \in 1 .. Len(tasks') : h[i] = h[i - 1] + tasks'[i].command.delta
          /\ h[Len(tasks')] = h[n + 1]
      BY <2>1, <2>2, <2>3
    <3> QED
      BY <1>7, <3>1, <3>2 DEF PlanAddsUp
  <2> QED
    BY <2>4
<1> QED
  BY <1>8, <1>9

\* While every fill fits, the command of a fill leads from the last target to its own.
LEMMA FillAims ==
    ASSUME BookInv, NEW q, NEW c \in BookCommand, FilledAs(q, c),
           Repairs' = {} => Repairs = {}
    PROVE  AimsAreMet'
<1> SUFFICES ASSUME (~ lost /\ misses = 0 /\ Repairs = {} /\ Sourced(terms, 1) > 0)'
             PROVE  (/\ \A i \in 1 .. Len(tasks) : Aim(i) = Aim(i - 1) + tasks[i].command.delta
                     /\ Aim(Len(tasks)) = Sourced(terms, master)
                     /\ WholeSteps(Sourced(terms, master)))'
  BY DEF AimsAreMet
<1>0. /\ tasks \in Seq(BookTask) /\ DOMAIN tasks = 1 .. Len(tasks) /\ Len(tasks) \in Nat
      /\ misses \in Nat /\ master \in Int /\ q \in Int /\ GoodTerms(terms)
  BY DEF BookInv, BookTypes, FilledAs, GoodTerms
<1>1. ~ lost /\ ~ (TargetRoundedAway(c) /\ c.delta # 0)
  BY DEF FilledAs
<1>2. misses = 0 /\ c.delta = Sourced(terms, q - master)
  BY <1>0 DEF FilledAs
<1>3. Repairs = {}
  OBVIOUS
<1>4. Sourced(terms, 1) > 0
  BY DEF FilledAs, Sourced, EffectiveScale
<1>n. PICK n : n = Len(tasks)
  OBVIOUS
<1> DEFINE A == Sourced(terms, master)
           B == Sourced(terms, q)
<1>5. /\ \A i \in 1 .. n : Aim(i) = Aim(i - 1) + tasks[i].command.delta
      /\ Aim(n) = A /\ WholeSteps(A)
  BY <1>n, <1>1, <1>2, <1>3, <1>4 DEF BookInv, AimsAreMet
<1>6. A \in Int /\ B \in Int /\ c.delta = B - A
  <2>1. A \in Int
    BY <1>0, SharesAddUp
  <2>2. B \in Int
    BY <1>0, SharesAddUp
  <2>3. Sourced(terms, q - master) = B - A
    BY <1>0, SharesAddUp
  <2> QED
    BY <1>2, <2>1, <2>2, <2>3
<1>7. WholeSteps(B)
  <2>1. PICK j \in Int : A = j * terms.limits.step
    BY <1>5 DEF WholeSteps
  <2>2. PICK k \in Int : c.delta = k * terms.limits.step
    <3>1. q - master \in Int
      BY <1>0
    <3>2. c.delta = ScaleDelta(terms, q - master)
      <4>1. c = Command(terms, BuildSignal(master, q))
        BY DEF FilledAs
      <4> QED
        BY <1>0, <4>1, CommandIs
    <3> QED
      BY <1>0, <3>1, <3>2, DeltaIsClose
  <2> DEFINE s == terms.limits.step
  <2>3. s \in Nat
    BY <1>0 DEF GoodTerms
  <2>4. A = j * s /\ c.delta = k * s
    BY <2>1, <2>2
  <2> HIDE DEF s
  <2>5. (j + k) * s = j * s + k * s /\ j + k \in Int /\ j * s \in Int /\ k * s \in Int
    BY <2>3
  <2>6. B = (j + k) * s
    BY <1>6, <2>4, <2>5
  <2> QED
    BY <2>5, <2>6 DEF WholeSteps, s
<1>8. Sourced(terms, master)' = B /\ WholeSteps(Sourced(terms, master))'
  <2>1. Sourced(terms, master)' = B
    BY DEF FilledAs, Sourced, EffectiveScale
  <2>2. PICK k \in Int : B = k * terms.limits.step
    BY <1>7 DEF WholeSteps
  <2>3. Sourced(terms, master)' = k * terms'.limits.step
    BY <2>1, <2>2 DEF FilledAs
  <2> QED
    BY <2>1, <2>3 DEF WholeSteps
<1>9. CASE ~ Planned(c)
  <2>1. c.delta = 0 /\ tasks' = tasks
    BY <1>1, <1>9, UnplannedIsNothing DEF FilledAs
  <2>2. A = B
    BY <1>6, <2>1
  <2>3. /\ Aim(Len(tasks))' = Aim(n)
        /\ \A i \in 1 .. n : Aim(i)' = Aim(i) /\ Aim(i - 1)' = Aim(i - 1)
    BY <1>n, <2>1 DEF Aim
  <2> HIDE DEF A, B
  <2> QED
    BY <1>n, <1>5, <1>8, <2>1, <2>2, <2>3
<1>10. CASE Planned(c)
  <2>1. /\ Len(tasks') = n + 1 /\ tasks'[n + 1].command = c
        /\ \A i \in 1 .. n : tasks'[i] = tasks[i]
    <3>1. PICK task : Added(task) /\ task.command = c
      BY <1>10 DEF FilledAs
    <3> QED
      BY <1>0, <1>n, <3>1 DEF Added
  <2>2. ExpectedQuantity(c) = B
    <3>1. ~ TargetRoundedAway(c)
      BY <1>10 DEF Planned
    <3>2. PICK k \in Int : B = k * terms.limits.step
      BY <1>7 DEF WholeSteps
    <3>3. c = Command(terms, BuildSignal(master, q))
      BY DEF FilledAs
    <3> QED
      BY <1>0, <1>4, <3>1, <3>2, <3>3, TargetIsTheShare
  <2>3. \A i \in 0 .. n : Aim(i)' = Aim(i)
    BY <2>1 DEF Aim
  <2>4. Aim(n + 1)' = B
    <3>1. n + 1 # 0
      BY <1>0, <1>n
    <3> QED
      BY <2>1, <2>2, <3>1 DEF Aim
  <2>5. Aim(Len(tasks))' = B
    <3>1. Len(tasks') # 0 /\ tasks'[Len(tasks')].command = c
      BY <1>0, <1>n, <2>1
    <3> QED
      BY <2>2, <3>1 DEF Aim
  <2>6. ASSUME NEW i \in 1 .. n + 1 PROVE Aim(i)' = Aim(i - 1)' + tasks'[i].command.delta
    <3>1. CASE i = n + 1
      <4>1. i - 1 = n /\ n \in 0 .. n
        BY <1>0, <1>n, <3>1
      <4>2. Aim(i - 1)' = A
        BY <1>5, <2>3, <4>1
      <4>3. Aim(i)' = B /\ tasks'[i].command.delta = c.delta
        BY <2>1, <2>4, <3>1
      <4> HIDE DEF A, B
      <4> QED
        BY <1>6, <4>2, <4>3
    <3>2. CASE i # n + 1
      <4>1. i \in 1 .. n /\ i \in 0 .. n /\ i - 1 \in 0 .. n
        BY <1>0, <1>n, <3>2
      <4> QED
        BY <1>5, <2>1, <2>3, <4>1
    <3> QED
      BY <3>1, <3>2
  <2> HIDE DEF A, B
  <2> QED
    BY <1>8, <2>1, <2>5, <2>6
<1> QED
  BY <1>9, <1>10

\* A fill of the master keeps the invariant.
LEMMA MasterFillKeeps ==
    ASSUME BookInv, NEW q \in Sizes, MasterFill(q) PROVE BookInv'
<1>1. PICK c \in BookCommand : FilledAs(q, c)
  BY FillingTells
<1>0. BookTypes /\ q \in Int /\ master \in Int /\ GoodTerms(terms)
  BY BookConstantsOK DEF BookInv, BookTypes, GoodTerms
<1>2. /\ master' \in Int /\ misses' \in Nat
      /\ UNCHANGED <<exchange, terms, net, busy, disturbed>>
  BY <1>0, <1>1 DEF FilledAs, BookTypes
<1>3. CASE ~ Planned(c)
  <2>1. tasks' = tasks /\ lanes' = lanes
    BY <1>1, <1>3 DEF FilledAs
  <2>2. Repairs' = Repairs
    BY <2>1 DEF Repairs
  <2>3. PlanFollows' /\ AimsAreMet'
    BY <1>1, <2>2, FillFollows, FillAims
  <2>4. BookTypes'
    BY <1>0, <1>2, <2>1 DEF BookTypes
  <2>5. NetAddsUp'
    BY <1>2, <2>1 DEF BookInv, NetAddsUp, AddsUp, Executed
  <2>6. \A l \in Lanes : LaneHolds(l)'
    BY <1>2, <2>1 DEF BookInv, LaneHolds
  <2>7. \A u \in DOMAIN tasks' : CommandHolds(u)'
    BY <1>2, <2>1 DEF BookInv, CommandHolds
  <2> QED
    BY <2>3, <2>4, <2>5, <2>6, <2>7 DEF BookInv
<1>4. CASE Planned(c)
  <2> DEFINE task == [command |-> c, of |-> 0, found |-> 0, shrinks |-> Shrinks(master, q),
                      status |-> "QUEUED"]
  <2>1. /\ Added(task) /\ task.status = "QUEUED" /\ task.of = 0 /\ task.command = c
        /\ task.shrinks = Shrinks(master, q)
        /\ lanes' = [lanes EXCEPT ![c.lane] = Append(@, Len(tasks) + 1)]
    BY <1>1, <1>4 DEF FilledAs
  <2> HIDE DEF task
  <2>2. task.shrinks => task.command.reduce
    <3>1. c = Command(terms, BuildSignal(master, q))
      BY <1>1 DEF FilledAs
    <3>2. Shrinks(master, q) => c.reduce = TRUE
      BY <1>0, <3>1, CommandIs
    <3> QED
      BY <2>1, <3>2
  <2>3. lanes' = [lanes EXCEPT ![task.command.lane] = Append(@, Len(tasks) + 1)]
    BY <2>1
  <2>4. /\ tasks' \in Seq(BookTask) /\ lanes' \in [Lanes -> Seq(Nat)]
        /\ \A l \in Lanes : LaneHolds(l)'
        /\ \A u \in DOMAIN tasks' : CommandHolds(u)'
        /\ NetAddsUp'
        /\ Repairs' = {} => Repairs = {}
    BY <1>2, <2>1, <2>2, <2>3, AddingKeeps
  <2>5. PlanFollows' /\ AimsAreMet'
    BY <1>1, <2>4, FillFollows, FillAims
  <2>6. BookTypes'
    BY <1>0, <1>2, <2>4 DEF BookTypes
  <2> QED
    BY <2>4, <2>5, <2>6 DEF BookInv
<1> QED
  BY <1>3, <1>4

\* A repair: the command of a task with what was missing.
LEMMA RepairTells ==
    ASSUME NEW c \in BookCommand, NEW d \in Int
    PROVE  LET r == [c EXCEPT !.delta = d, !.lane = "RECOVERY"]
           IN  /\ r \in BookCommand /\ r.delta = d /\ r.reduce = c.reduce
               /\ ExpectedQuantity(r) = ExpectedQuantity(c)
<1>r. PICK r : r = [c EXCEPT !.delta = d, !.lane = "RECOVERY"]
  OBVIOUS
<1>1. /\ r.action = c.action /\ r.lane = "RECOVERY" /\ r.side = c.side /\ r.target = c.target
      /\ r.delta = d /\ r.reduce = c.reduce
      /\ r = [action |-> c.action, lane |-> "RECOVERY", side |-> c.side, target |-> c.target,
              delta |-> d, reduce |-> c.reduce]
  BY <1>r DEF BookCommand
<1>2. "RECOVERY" \in Lanes
  BY DEF Lanes
<1>3. r \in BookCommand
  BY <1>1, <1>2 DEF BookCommand
<1>4. r.delta = d /\ r.reduce = c.reduce /\ ExpectedQuantity(r) = ExpectedQuantity(c)
  BY <1>1 DEF ExpectedQuantity
<1> QED
  BY <1>r, <1>3, <1>4

\* A repair keeps it: once there is one, nothing is claimed of the plan.
LEMMA ReconcileKeeps ==
    ASSUME BookInv, NEW t \in DOMAIN tasks, Reconcile(t) PROVE BookInv'
<1>0. BookTypes /\ tasks \in Seq(BookTask) /\ net \in Int /\ exchange \in AllExchanges
  BY DEF BookInv, BookTypes
<1>1. /\ tasks[t].command \in BookCommand /\ tasks[t].shrinks \in BOOLEAN
      /\ ExpectedQuantity(tasks[t].command) \in Int /\ t \in Nat \ {0}
  <2>1. /\ tasks[t].command \in BookCommand /\ tasks[t].shrinks \in BOOLEAN
        /\ ExpectedQuantity(tasks[t].command) \in Int /\ DOMAIN tasks = 1 .. Len(tasks)
    BY <1>0, TaskFields
  <2> QED
    BY <2>1
<1>2. Position(exchange, Rows(exchange, net)) = net
  BY <1>0, RowsAreRead
<1>3. PICK d \in Int : d = RepairDelta(tasks[t].command, net)
  BY <1>0, <1>1 DEF RepairDelta
<1>4. PICK r : r = [tasks[t].command EXCEPT !.delta = d, !.lane = "RECOVERY"]
  OBVIOUS
<1>5. /\ r \in BookCommand /\ r.delta = d /\ r.reduce = tasks[t].command.reduce
      /\ ExpectedQuantity(r) = ExpectedQuantity(tasks[t].command)
  <2>1. PICK c \in BookCommand : c = tasks[t].command
    BY <1>1
  <2>2. r = [c EXCEPT !.delta = d, !.lane = "RECOVERY"]
    BY <1>4, <2>1
  <2>3. /\ r \in BookCommand /\ r.delta = d /\ r.reduce = c.reduce
        /\ ExpectedQuantity(r) = ExpectedQuantity(c)
    BY <2>2, RepairTells
  <2> QED
    BY <2>1, <2>3
<1>6. /\ Stored(r, t, net, tasks[t].shrinks)
      /\ UNCHANGED <<exchange, terms, master, net, busy, fills, faults, misses, lost, disturbed>>
  BY <1>2, <1>3, <1>4 DEF Reconcile
<1> DEFINE task == [command |-> r, of |-> t, found |-> net, shrinks |-> tasks[t].shrinks,
                    status |-> "QUEUED"]
<1>7. /\ Added(task)
      /\ lanes' = [lanes EXCEPT ![r.lane] = Append(@, Len(tasks) + 1)]
  BY <1>0, <1>1, <1>5, <1>6, StoringTells
<1>8. /\ task.command = r /\ task.of = t /\ task.found = net /\ task.shrinks = tasks[t].shrinks
      /\ task.status = "QUEUED"
  OBVIOUS
<1> HIDE DEF task
<1>9. task.shrinks => task.command.reduce
  <2>1. CommandHolds(t)
    BY DEF BookInv
  <2>2. tasks[t].shrinks => tasks[t].command.reduce
    BY <2>1 DEF CommandHolds
  <2> QED
    BY <1>5, <1>8, <2>2
<1>10. task.of # 0 => task.command.delta = ExpectedQuantity(task.command) - task.found
  BY <1>3, <1>5, <1>8 DEF RepairDelta
<1>11. lanes' = [lanes EXCEPT ![task.command.lane] = Append(@, Len(tasks) + 1)]
  BY <1>7, <1>8
<1>12. /\ tasks' \in Seq(BookTask) /\ lanes' \in [Lanes -> Seq(Nat)]
       /\ \A l \in Lanes : LaneHolds(l)'
       /\ \A u \in DOMAIN tasks' : CommandHolds(u)'
       /\ NetAddsUp' /\ Repairs' # {}
  BY <1>1, <1>6, <1>7, <1>8, <1>9, <1>10, <1>11, AddingKeeps
<1>13. PlanFollows' /\ AimsAreMet'
  BY <1>12 DEF PlanFollows, AimsAreMet
<1>14. BookTypes'
  BY <1>0, <1>6, <1>12 DEF BookTypes
<1> QED
  BY <1>12, <1>13, <1>14 DEF BookInv

\* The trade of somebody else keeps it: nothing is claimed of the sum any more.
LEMMA TradeKeeps ==
    ASSUME BookInv, NEW d \in {-Den, Den}, Trade(d) PROVE BookInv'
<1>1. /\ UNCHANGED <<exchange, terms, master, tasks, lanes, busy, fills, misses, lost>>
      /\ net' = net + d /\ disturbed'
  BY DEF Trade
<1>2. BookTypes'
  BY <1>1, DenIsPositive DEF BookInv, BookTypes
<1>3. Repairs' = Repairs
  BY <1>1 DEF Repairs
<1>4. NetAddsUp'
  BY <1>1 DEF NetAddsUp
<1>5. PlanFollows'
  BY <1>1, <1>3 DEF BookInv, PlanFollows, PlanAddsUp, Grain, Sourced, EffectiveScale
<1>6. AimsAreMet'
  BY <1>1, <1>3 DEF BookInv, AimsAreMet, Aim, WholeSteps, Sourced, EffectiveScale
<1>7. (\A l \in Lanes : LaneHolds(l)') /\ \A u \in DOMAIN tasks' : CommandHolds(u)'
  BY <1>1 DEF BookInv, LaneHolds, CommandHolds
<1> QED
  BY <1>2, <1>4, <1>5, <1>6, <1>7 DEF BookInv

\* The invariant holds at first.
LEMMA BookStarts == BookInit => BookInv
<1> SUFFICES ASSUME BookInit PROVE BookInv
  OBVIOUS
<1>1. PICK a \in Accounts : exchange = a[1] /\ terms = a[2]
  BY DEF BookInit
<1>2. /\ exchange \in AllExchanges /\ GoodTerms(terms)
  BY <1>1, BookConstantsOK DEF GoodTerms
<1>3. /\ master = 0 /\ net = 0 /\ tasks = <<>> /\ lanes = [l \in Lanes |-> <<>>]
      /\ busy = [l \in Lanes |-> 0] /\ misses = 0
  BY DEF BookInit
<1>4. BookTypes
  <2>1. tasks \in Seq(BookTask) /\ <<>> \in Seq(Nat)
    BY <1>3
  <2> QED
    BY <1>2, <1>3, <2>1 DEF BookTypes, GoodTerms
<1>5. DOMAIN tasks = {} /\ Len(tasks) = 0
  BY <1>3
<1>6. \A l \in Lanes : LaneHolds(l)
  <2>1. \A l \in Lanes : lanes[l] = <<>> /\ busy[l] = 0
    BY <1>3
  <2>2. \A l : Holds(tasks, l, <<>>, 0)
    BY <1>5 DEF Holds
  <2> QED
    BY <2>1, <2>2 DEF LaneHolds
<1>7. PICK f : f = [i \in 0 .. 0 |-> 0]
  OBVIOUS
<1>8. f \in [0 .. 0 -> Int] /\ f[0] = 0
  BY <1>7
<1>9. Sourced(terms, 0) = 0 /\ Sourced(terms, master) = 0
  <2>1. Sourced(terms, 0) = 0
    BY <1>2, SharesAddUp
  <2> QED
    BY <1>3, <2>1
<1>10. NetAddsUp
  <2>1. AddsUp(f)
    BY <1>3, <1>5, <1>8 DEF AddsUp
  <2> QED
    BY <2>1 DEF NetAddsUp
<1>11. PlanFollows
  <2>1. misses * Grain = 0
    <3>1. Grain = GrainOf(terms.limits)
      BY DEF Grain, GrainOf
    <3>2. Grain \in Nat
      BY <1>2, <3>1, DeltaIsClose
    <3> QED
      BY <1>3, <3>2
  <2>2. Abs(f[Len(tasks)] - Sourced(terms, master)) <= misses * Grain
    <3>1. f[Len(tasks)] - Sourced(terms, master) = 0
      BY <1>5, <1>8, <1>9
    <3> QED
      BY <2>1, <3>1 DEF Abs
  <2>3. PlanAddsUp(f)
    BY <1>5, <1>8, <2>2 DEF PlanAddsUp
  <2> QED
    BY <2>3 DEF PlanFollows
<1>12. AimsAreMet
  <2>1. 0 = 0 * terms.limits.step
    BY <1>2 DEF GoodTerms
  <2>2. WholeSteps(0)
    BY <2>1 DEF WholeSteps
  <2> QED
    BY <1>5, <1>9, <2>2 DEF AimsAreMet, Aim
<1> QED
  BY <1>4, <1>5, <1>6, <1>10, <1>11, <1>12 DEF BookInv

\* And when nothing happens.
LEMMA BookStays == BookInv /\ UNCHANGED bookVars => BookInv'
<1> SUFFICES ASSUME BookInv, UNCHANGED bookVars PROVE BookInv'
  OBVIOUS
<1> USE DEF bookVars
<1>1. BookTypes' /\ Repairs' = Repairs
  BY DEF BookInv, BookTypes, Repairs
<1>2. (\A l \in Lanes : LaneHolds(l)') /\ \A u \in DOMAIN tasks' : CommandHolds(u)'
  BY DEF BookInv, LaneHolds, CommandHolds
<1>3. NetAddsUp'
  BY DEF BookInv, NetAddsUp, AddsUp, Executed
<1>4. PlanFollows'
  BY <1>1 DEF BookInv, PlanFollows, PlanAddsUp, Grain, Sourced, EffectiveScale
<1>5. AimsAreMet'
  BY <1>1 DEF BookInv, AimsAreMet, Aim, WholeSteps, Sourced, EffectiveScale
<1> QED
  BY <1>1, <1>2, <1>3, <1>4, <1>5 DEF BookInv

\* And after every step.
LEMMA BookStep == BookInv /\ [BookNext]_bookVars => BookInv'
<1> SUFFICES ASSUME BookInv, [BookNext]_bookVars PROVE BookInv'
  OBVIOUS
<1>1. CASE \E q \in Sizes : MasterFill(q)
  BY <1>1, MasterFillKeeps
<1>2. CASE \E l \in Lanes : PlaceOrder(l)
  BY <1>2, PlaceOrderKeeps
<1>3. CASE \E l \in Lanes : ReadBack(l)
  BY <1>3, ReadBackKeeps
<1>4. CASE \E t \in DOMAIN tasks : Reconcile(t)
  BY <1>4, ReconcileKeeps
<1>5. CASE \E d \in {-Den, Den} : Trade(d)
  BY <1>5, TradeKeeps
<1>6. CASE UNCHANGED bookVars
  BY <1>6, BookStays
<1> QED
  BY <1>1, <1>2, <1>3, <1>4, <1>5, <1>6 DEF BookNext

\* The invariant of the book: the lanes hold their queued tasks once each, the
\* follower's position is the sum of the executed commands (FollowerBook's tasks and the
\* exchange), and the planned ones sum up to the share, within the grains.
THEOREM BookAddsUp == BookSpec => []BookInv
<1>1. BookInit => BookInv
  BY BookStarts
<1>2. BookInv /\ [BookNext]_bookVars => BookInv'
  BY BookStep
<1> QED
  BY <1>1, <1>2, PTL DEF BookSpec

\* PositionsAreReadRight, for every exchange and position: get_position and
\* list_positions of a client read what the exchange holds.
THEOREM PositionsRead == BookSpec => []PositionsAreReadRight
<1>1. BookInv => PositionsAreReadRight
  <2> SUFFICES ASSUME BookInv PROVE PositionsAreReadRight
    OBVIOUS
  <2>1. exchange \in AllExchanges /\ net \in Int
    BY DEF BookInv, BookTypes
  <2> QED
    BY <2>1, RowsAreRead, OpenRowsAreRead DEF PositionsAreReadRight
<1> QED
  BY <1>1, BookAddsUp, PTL

\* DriftStaysBounded, for any terms and fills: rounding every fill on its own
\* (scale_delta_quantity) costs at most a grain per fill that did not fit, in whatever order
\* the lanes ran.
THEOREM DriftIsBounded == BookSpec => []DriftStaysBounded
<1>1. BookInv => DriftStaysBounded
  <2> SUFFICES ASSUME BookInv, Drained, ~ disturbed, ~ lost, Repairs = {}
               PROVE  Abs(net - Sourced(terms, master)) <= misses * Grain
    BY DEF DriftStaysBounded
  <2>1. PICK f : AddsUp(f)
    BY DEF BookInv, NetAddsUp
  <2>2. PICK g : PlanAddsUp(g)
    BY DEF BookInv, PlanFollows
  <2>3. tasks \in Seq(BookTask) /\ DOMAIN tasks = 1 .. Len(tasks) /\ Len(tasks) \in Nat
    BY DEF BookInv, BookTypes
  <2>4. ASSUME NEW t \in DOMAIN tasks PROVE tasks[t].status # "QUEUED"
    <3> SUFFICES ASSUME tasks[t].status = "QUEUED" PROVE FALSE
      OBVIOUS
    <3>1. PICK l \in Lanes : tasks[t].command.lane = l
      BY <2>3, TaskFields
    <3>2. Holds(tasks, l, lanes[l], busy[l]) /\ lanes[l] = <<>>
      BY DEF BookInv, LaneHolds, Drained
    <3>3. \E i \in DOMAIN lanes[l] : lanes[l][i] = t
      BY <3>1, <3>2 DEF Holds
    <3> QED
      BY <3>2, <3>3
  <2>5. \A i \in 1 .. Len(tasks) : Executed(i) = tasks[i].command.delta
    BY <2>3, <2>4 DEF Executed
  <2>6. PICK n \in Nat : n = Len(tasks)
    BY <2>3
  <2>7. /\ f \in [0 .. n -> Int] /\ g \in [0 .. n -> Int] /\ f[0] = g[0]
        /\ \A i \in 1 .. n : /\ f[i] = f[i - 1] + tasks[i].command.delta
                             /\ g[i] = g[i - 1] + tasks[i].command.delta
    BY <2>1, <2>2, <2>5, <2>6 DEF AddsUp, PlanAddsUp
  <2>8. \A i \in 1 .. n : tasks[i].command.delta \in Int
    BY <2>3, <2>6, TaskFields
  <2>9. \A i \in 1 .. n : f[i] - f[i - 1] = g[i] - g[i - 1]
    <3> SUFFICES ASSUME NEW i \in 1 .. n PROVE f[i] - f[i - 1] = g[i] - g[i - 1]
      OBVIOUS
    <3>1. i - 1 \in 0 .. n /\ i \in 0 .. n
      BY <2>6
    <3>2. f[i] \in Int /\ f[i - 1] \in Int /\ g[i] \in Int /\ g[i - 1] \in Int
      BY <2>7, <3>1
    <3>3. PICK x \in Int : x = tasks[i].command.delta
      BY <2>8
    <3>4. f[i] = f[i - 1] + x /\ g[i] = g[i - 1] + x
      BY <2>7, <3>3
    <3> QED
      BY <3>2, <3>4
  <2>10. f[n] = g[n]
    BY <2>7, <2>9, SameSums
  <2> QED
    BY <2>1, <2>2, <2>6, <2>10 DEF AddsUp, PlanAddsUp
<1> QED
  BY <1>1, BookAddsUp, PTL

\* A task is queued no longer: a lane has taken it.
LEMMA WhatIsTaken ==
    ASSUME BookInv, [BookNext]_bookVars, NEW t \in DOMAIN tasks,
           tasks[t].status = "QUEUED", tasks'[t].status # "QUEUED"
    PROVE  \E l \in Lanes : \E s \in Statuses \ {"QUEUED"} :
              PlacedAs(l, t, s) /\ tasks'[t].status = s
<1>1. CASE \E q \in Sizes : MasterFill(q)
  <2>1. PICK q \in Sizes, c \in BookCommand : FilledAs(q, c)
    BY <1>1, FillingTells
  <2>2. tasks'[t] = tasks[t]
    BY <2>1 DEF FilledAs, Added
  <2> QED
    BY <2>2
<1>2. CASE \E l \in Lanes : PlaceOrder(l)
  <2>1. PICK l \in Lanes : \E u \in DOMAIN tasks : \E s \in Statuses \ {"QUEUED"} : PlacedAs(l, u, s)
    BY <1>2, TakingTells
  <2>2. PICK u \in DOMAIN tasks, s \in Statuses \ {"QUEUED"} : PlacedAs(l, u, s)
    BY <2>1
  <2>3. tasks'[t].status = IF t = u THEN s ELSE tasks[t].status
    BY <2>2 DEF PlacedAs, Relabelled
  <2> QED
    BY <2>2, <2>3
<1>3. CASE \E l \in Lanes : ReadBack(l)
  <2>1. PICK l \in Lanes : \E u \in DOMAIN tasks : \E s \in Statuses : ReadAs(l, u, s)
    BY <1>3, ReadingTells
  <2>2. PICK u \in DOMAIN tasks, s \in Statuses : ReadAs(l, u, s)
    BY <2>1
  <2>3. t # u /\ tasks'[t].status = IF t = u THEN s ELSE tasks[t].status
    BY <2>2 DEF ReadAs, Relabelled
  <2> QED
    BY <2>3
<1>4. CASE \E u \in DOMAIN tasks : Reconcile(u)
  <2>1. tasks \in Seq(BookTask) /\ \E task : tasks' = Append(tasks, task)
    BY <1>4 DEF BookInv, BookTypes, Reconcile, Stored
  <2>2. tasks'[t] = tasks[t]
    BY <2>1
  <2> QED
    BY <2>2
<1>5. CASE (\E d \in {-Den, Den} : Trade(d)) \/ UNCHANGED bookVars
  BY <1>5 DEF Trade, bookVars
<1> QED
  BY <1>1, <1>2, <1>3, <1>4, <1>5 DEF BookNext

\* A task is on the exchange no longer: its position was read back.
LEMMA WhatIsRead ==
    ASSUME BookInv, [BookNext]_bookVars, NEW t \in DOMAIN tasks,
           tasks[t].status = "PLACED", tasks'[t].status # "PLACED"
    PROVE  \E l \in Lanes : \E s \in Statuses : ReadAs(l, t, s) /\ tasks'[t].status = s
<1>1. CASE \E q \in Sizes : MasterFill(q)
  <2>1. PICK q \in Sizes, c \in BookCommand : FilledAs(q, c)
    BY <1>1, FillingTells
  <2>2. tasks'[t] = tasks[t]
    BY <2>1 DEF FilledAs, Added
  <2> QED
    BY <2>2
<1>2. CASE \E l \in Lanes : PlaceOrder(l)
  <2>1. PICK l \in Lanes : \E u \in DOMAIN tasks : \E s \in Statuses \ {"QUEUED"} : PlacedAs(l, u, s)
    BY <1>2, TakingTells
  <2>2. PICK u \in DOMAIN tasks, s \in Statuses \ {"QUEUED"} : PlacedAs(l, u, s)
    BY <2>1
  <2>3. t # u /\ tasks'[t].status = IF t = u THEN s ELSE tasks[t].status
    BY <2>2 DEF PlacedAs, Relabelled
  <2> QED
    BY <2>3
<1>3. CASE \E l \in Lanes : ReadBack(l)
  <2>1. PICK l \in Lanes : \E u \in DOMAIN tasks : \E s \in Statuses : ReadAs(l, u, s)
    BY <1>3, ReadingTells
  <2>2. PICK u \in DOMAIN tasks, s \in Statuses : ReadAs(l, u, s)
    BY <2>1
  <2>3. tasks'[t].status = IF t = u THEN s ELSE tasks[t].status
    BY <2>2 DEF ReadAs, Relabelled
  <2> QED
    BY <2>2, <2>3
<1>4. CASE \E u \in DOMAIN tasks : Reconcile(u)
  <2>1. tasks \in Seq(BookTask) /\ \E task : tasks' = Append(tasks, task)
    BY <1>4 DEF BookInv, BookTypes, Reconcile, Stored
  <2>2. tasks'[t] = tasks[t]
    BY <2>1
  <2> QED
    BY <2>2
<1>5. CASE (\E d \in {-Den, Den} : Trade(d)) \/ UNCHANGED bookVars
  BY <1>5 DEF Trade, bookVars
<1> QED
  BY <1>1, <1>2, <1>3, <1>4, <1>5 DEF BookNext

\* The order of a task that its client calls accepted: it is taken whole, but for one of
\* Coinbase's refusals.
LEMMA WhatIsFilled ==
    ASSUME BookInv, [BookNext]_bookVars, NEW t \in DOMAIN tasks, PlacedNow(t)
    PROVE  \E order : \E o \in Outcomes(exchange, order, net) :
              /\ order.size = tasks[t].command.delta /\ order.size \in Int \ {0}
              /\ ~ Waits(order) /\ order.reduce \in BOOLEAN
              /\ order.reduce => tasks[t].command.reduce
              /\ exchange # "COINBASE" => order.reduce = tasks[t].command.reduce
              /\ exchange \in AllExchanges /\ net \in Int /\ net' = net + o.moved
              /\ IF o.taken THEN Takes(order, net) /\ o.moved = FilledSize(order, net)
                 ELSE exchange = "COINBASE" /\ o.moved = 0
<1>1. PICK l \in Lanes : PlacedAs(l, t, "PLACED")
  <2>1. tasks[t].status = "QUEUED" /\ tasks'[t].status = "PLACED"
    BY DEF PlacedNow
  <2>2. PICK l \in Lanes, s \in Statuses \ {"QUEUED"} : PlacedAs(l, t, s) /\ tasks'[t].status = s
    BY <2>1, WhatIsTaken
  <2> QED
    BY <2>1, <2>2
<1>2. PICK order : order = OrderOf(tasks[t].command)
  OBVIOUS
<1>3. net \in Int /\ exchange \in AllExchanges /\ tasks \in Seq(BookTask)
  BY DEF BookInv, BookTypes
<1>4. PICK c \in BookCommand : c = tasks[t].command
  BY <1>3, TaskFields
<1>5. c.delta \in Int /\ c.reduce \in BOOLEAN
  BY DEF BookCommand
<1>6. /\ order.size = c.delta /\ ~ Waits(order) /\ order.reduce \in {c.reduce, FALSE}
      /\ exchange # "COINBASE" => order.reduce = c.reduce
  BY <1>2, <1>3, <1>4, OrderTells
<1>7. PICK o \in Outcomes(exchange, order, net) :
         c.delta # 0 /\ net' = net + o.moved /\ Accepted(exchange, o.answer)
  BY <1>1, <1>2, <1>4 DEF PlacedAs
<1>8. IF o.taken THEN Takes(order, net) /\ o.moved = FilledSize(order, net)
      ELSE exchange = "COINBASE" /\ o.moved = 0
  <2>1. order.size \in Int
    BY <1>5, <1>6
  <2>2. /\ o.taken \in BOOLEAN
        /\ o.taken => Takes(order, net)
        /\ ~ o.taken => o.moved = 0
        /\ o.taken /\ exchange # "BITMEX" => o.moved = FilledSize(order, net)
        /\ exchange # "COINBASE" => o.taken /\ o.moved = FilledSize(order, net)
    BY <1>3, <1>7, <2>1, OutcomesTell
  <2> QED
    BY <2>2
<1> QED
  BY <1>3, <1>4, <1>5, <1>6, <1>7, <1>8

\* ShrinkingFillsOnlyReduce: the reduce-only flag of a command (reduce_only_for_action)
\* and of its repair keeps the follower from growing or turning while the master shrinks.
THEOREM ShrinkingReduces == BookSpec => ShrinkingFillsOnlyReduce
<1> DEFINE A == \A t \in DOMAIN tasks :
                   PlacedNow(t) /\ tasks[t].shrinks /\ exchange # "COINBASE"
                   => Abs(net') <= Abs(net) /\ net * net' >= 0
<1>1. ASSUME BookInv, [BookNext]_bookVars PROVE A
  <2> SUFFICES ASSUME NEW t \in DOMAIN tasks, PlacedNow(t), tasks[t].shrinks, exchange # "COINBASE"
               PROVE  Abs(net') <= Abs(net) /\ net * net' >= 0
    OBVIOUS
  <2>1. PICK order : \E o \in Outcomes(exchange, order, net) :
           /\ order.size \in Int /\ order.reduce \in BOOLEAN
           /\ exchange # "COINBASE" => order.reduce = tasks[t].command.reduce
           /\ exchange \in AllExchanges /\ net \in Int /\ net' = net + o.moved
    BY <1>1, WhatIsFilled
  <2>o. PICK o \in Outcomes(exchange, order, net) : net' = net + o.moved
    BY <2>1
  <2>2. order.reduce = TRUE
    <3>1. CommandHolds(t)
      BY <1>1 DEF BookInv
    <3>2. tasks[t].command.reduce
      BY <3>1 DEF CommandHolds
    <3> QED
      BY <2>1, <3>2
  <2>3. Abs(net + o.moved) <= Abs(net) /\ net * (net + o.moved) >= 0
    BY <2>1, <2>2, ReducingOnlyReduces
  <2> QED
    BY <2>o, <2>3
<1>2. BookInv /\ [BookNext]_bookVars => [A]_bookVars
  BY <1>1
<1> QED
  BY <1>2, BookAddsUp, PTL DEF BookSpec, ShrinkingFillsOnlyReduce

\* RepairReachesTarget: the difference the reconciler computes is what was missing
\* (reconcile_order), for the repairs of tasks and the repairs of repairs.
THEOREM RepairsReach == BookSpec => RepairReachesTarget
<1> DEFINE A == \A t \in Repairs :
                   /\ PlacedNow(t) /\ tasks[t].found = net /\ ~ tasks[t].command.reduce
                   /\ exchange = "COINBASE" => net' # net
                   => net' = ExpectedQuantity(tasks[t].command)
<1>1. ASSUME BookInv, [BookNext]_bookVars PROVE A
  <2> SUFFICES ASSUME NEW t \in Repairs, PlacedNow(t), tasks[t].found = net,
                      ~ tasks[t].command.reduce, exchange = "COINBASE" => net' # net
               PROVE  net' = ExpectedQuantity(tasks[t].command)
    OBVIOUS
  <2>0. t \in DOMAIN tasks /\ tasks[t].of # 0
    BY DEF Repairs
  <2>1. PICK order : \E o \in Outcomes(exchange, order, net) :
           /\ order.size = tasks[t].command.delta /\ order.size \in Int \ {0}
           /\ ~ Waits(order) /\ order.reduce \in BOOLEAN
           /\ order.reduce => tasks[t].command.reduce
           /\ net \in Int /\ net' = net + o.moved
           /\ IF o.taken THEN o.moved = FilledSize(order, net)
              ELSE exchange = "COINBASE" /\ o.moved = 0
    BY <1>1, <2>0, WhatIsFilled
  <2>o. PICK o \in Outcomes(exchange, order, net) :
           /\ net' = net + o.moved
           /\ IF o.taken THEN o.moved = FilledSize(order, net)
              ELSE exchange = "COINBASE" /\ o.moved = 0
    BY <2>1
  <2>2. FilledSize(order, net) = order.size
    BY <2>1, FillTells
  <2>3. o.moved = order.size
    BY <2>1, <2>o, <2>2
  <2>4. tasks[t].command.delta = ExpectedQuantity(tasks[t].command) - tasks[t].found
    BY <1>1, <2>0 DEF BookInv, CommandHolds
  <2>5. ExpectedQuantity(tasks[t].command) \in Int
    BY <1>1, <2>0, TaskFields DEF BookInv, BookTypes
  <2> QED
    BY <2>1, <2>o, <2>3, <2>4, <2>5
<1>2. BookInv /\ [BookNext]_bookVars => [A]_bookVars
  BY <1>1
<1> QED
  BY <1>2, BookAddsUp, PTL DEF BookSpec, RepairReachesTarget

\* AnswersAreReadRight: with every answer an exchange may give of an order, a task whose
\* position is read back has moved it and one that FAILED has not, but for the refusals
\* that Coinbase's place_order calls accepted and the part fills that BitMEX's calls
\* failed.
THEOREM AnswersRead == BookSpec => AnswersAreReadRight
<1> DEFINE A == \A t \in DOMAIN tasks :
                   tasks[t].status = "QUEUED" =>
                       /\ PlacedNow(t) => net' # net \/ exchange = "COINBASE"
                       /\ tasks'[t].status = "FAILED" => net' = net \/ exchange = "BITMEX"
<1>1. ASSUME BookInv, [BookNext]_bookVars PROVE A
  <2> SUFFICES ASSUME NEW t \in DOMAIN tasks, tasks[t].status = "QUEUED"
               PROVE  /\ PlacedNow(t) => net' # net \/ exchange = "COINBASE"
                      /\ tasks'[t].status = "FAILED" => net' = net \/ exchange = "BITMEX"
    OBVIOUS
  <2>1. ASSUME PlacedNow(t), exchange # "COINBASE" PROVE net' # net
    <3>1. PICK order : \E o \in Outcomes(exchange, order, net) :
             /\ order.size \in Int \ {0} /\ ~ Waits(order) /\ order.reduce \in BOOLEAN
             /\ net \in Int /\ net' = net + o.moved
             /\ Takes(order, net) /\ o.moved = FilledSize(order, net)
      BY <1>1, <2>1, WhatIsFilled
    <3>2. FilledSize(order, net) \in Int /\ FilledSize(order, net) # 0
      BY <3>1, FillTells
    <3> QED
      BY <3>1, <3>2
  <2>2. ASSUME tasks'[t].status = "FAILED", exchange # "BITMEX" PROVE net' = net
    <3>1. PICK l \in Lanes, s \in Statuses \ {"QUEUED"} : PlacedAs(l, t, s) /\ tasks'[t].status = s
      BY <1>1, <2>2, WhatIsTaken
    <3>2. PlacedAs(l, t, "FAILED")
      BY <2>2, <3>1
    <3>3. exchange \in AllExchanges /\ net \in Int /\ tasks \in Seq(BookTask)
      BY <1>1 DEF BookInv, BookTypes
    <3>4. PICK order : order = OrderOf(tasks[t].command)
      OBVIOUS
    <3>5. PICK o \in Outcomes(exchange, order, net) :
             net' = net + o.moved /\ ~ Accepted(exchange, o.answer)
      BY <3>2, <3>4 DEF PlacedAs
    <3>6. order.size \in Int
      <4>1. tasks[t].command \in BookCommand /\ tasks[t].command.delta \in Int
        BY <3>3, TaskFields
      <4> QED
        BY <3>3, <3>4, <4>1, OrderTells
    <3>7. /\ o.taken /\ exchange # "BITMEX" => Accepted(exchange, o.answer)
          /\ ~ o.taken => o.moved = 0
      BY <3>3, <3>6, OutcomesTell
    <3> QED
      BY <2>2, <3>3, <3>5, <3>7
  <2> QED
    BY <2>1, <2>2
<1>2. BookInv /\ [BookNext]_bookVars => [A]_bookVars
  BY <1>1
<1> QED
  BY <1>2, BookAddsUp, PTL DEF BookSpec, AnswersAreReadRight

\* With the commands up to one executed and the later ones not, the position is the
\* target of that one.
LEMMA PrefixReachesAim ==
    ASSUME BookInv, ~ disturbed, ~ lost, misses = 0, Repairs = {}, Sourced(terms, 1) > 0,
           NEW t \in DOMAIN tasks,
           \A i \in DOMAIN tasks : tasks[i].status = "QUEUED" <=> i > t
    PROVE  net = ExpectedQuantity(tasks[t].command)
<1>1. tasks \in Seq(BookTask) /\ DOMAIN tasks = 1 .. Len(tasks) /\ Len(tasks) \in Nat
  BY DEF BookInv, BookTypes
<1>2. PICK n \in Nat : n = Len(tasks)
  BY <1>1
<1>3. t \in 1 .. n /\ DOMAIN tasks = 1 .. n
  BY <1>1, <1>2
<1>4. PICK f : AddsUp(f)
  BY DEF BookInv, NetAddsUp
<1>5. /\ f \in [0 .. n -> Int] /\ f[0] = 0 /\ net = f[n]
      /\ \A i \in 1 .. n : f[i] = f[i - 1] + Executed(i)
  BY <1>2, <1>4 DEF AddsUp
<1>6. \A i \in 1 .. n : Aim(i) = Aim(i - 1) + tasks[i].command.delta
  BY <1>2 DEF BookInv, AimsAreMet
<1>7. \A i \in 0 .. n : Aim(i) \in Int
  BY <1>1, <1>3, TaskFields DEF Aim
<1>8. PICK g : g = [i \in 0 .. n |-> IF i <= t THEN Aim(i) ELSE Aim(t)]
  OBVIOUS
<1>9. g \in [0 .. n -> Int] /\ g[0] = 0 /\ g[n] = Aim(t)
  <2>1. Aim(0) = 0
    BY DEF Aim
  <2> QED
    BY <1>3, <1>7, <1>8, <2>1
<1>10. ASSUME NEW i \in 1 .. n PROVE f[i] - f[i - 1] = g[i] - g[i - 1]
  <2>1. /\ i - 1 \in 0 .. n /\ i \in 0 .. n
        /\ f[i] \in Int /\ f[i - 1] \in Int /\ g[i] \in Int /\ g[i - 1] \in Int
    BY <1>5, <1>9
  <2>2. /\ g[i] = IF i <= t THEN Aim(i) ELSE Aim(t)
        /\ g[i - 1] = IF i - 1 <= t THEN Aim(i - 1) ELSE Aim(t)
    BY <1>8, <2>1
  <2>3. PICK x \in Int : x = tasks[i].command.delta
    BY <1>1, <1>3, TaskFields
  <2>4. CASE i <= t
    <3>1. f[i] = f[i - 1] + x
      <4>1. tasks[i].status # "QUEUED"
        BY <1>3, <2>4
      <4> QED
        BY <1>5, <2>3, <4>1 DEF Executed
    <3>2. g[i] = g[i - 1] + x
      BY <1>3, <1>6, <2>2, <2>3, <2>4
    <3> QED
      BY <2>1, <3>1, <3>2
  <2>5. CASE i > t
    <3>1. f[i] = f[i - 1] + 0
      <4>1. tasks[i].status = "QUEUED"
        BY <1>3, <2>5
      <4> QED
        BY <1>5, <4>1 DEF Executed
    <3>2. g[i] = g[i - 1]
      BY <1>3, <2>2, <2>5
    <3> QED
      BY <2>1, <3>1, <3>2
  <2> QED
    BY <1>3, <2>4, <2>5
<1>11. f[n] = g[n]
  BY <1>5, <1>9, <1>10, SameSums
<1>12. Aim(t) = ExpectedQuantity(tasks[t].command)
  BY <1>3 DEF Aim
<1> QED
  BY <1>5, <1>9, <1>11, <1>12

\* InOrderCopiesFill: while every fill fits, a command that runs in its place is read
\* back as done, for every exchange and any terms with a positive share.
THEOREM InOrderFills == BookSpec => InOrderCopiesFill
<1> DEFINE A == \A t \in DOMAIN tasks :
                   /\ tasks[t].status = "PLACED" /\ tasks'[t].status # "PLACED" /\ Sourced(terms, 1) > 0
                   /\ ~ disturbed' /\ ~ lost /\ misses = 0 /\ Repairs = {}
                   /\ \A u \in DOMAIN tasks :
                         IF u > t THEN tasks[u].status = "QUEUED"
                         ELSE u < t => tasks[u].status \notin {"QUEUED", "PLACED"}
                   => tasks'[t].status = "FILLED"
<1>1. ASSUME BookInv, [BookNext]_bookVars PROVE A
  <2> SUFFICES ASSUME NEW t \in DOMAIN tasks,
                      tasks[t].status = "PLACED", tasks'[t].status # "PLACED",
                      Sourced(terms, 1) > 0,
                      ~ disturbed', ~ lost, misses = 0, Repairs = {},
                      \A u \in DOMAIN tasks :
                         IF u > t THEN tasks[u].status = "QUEUED"
                         ELSE u < t => tasks[u].status \notin {"QUEUED", "PLACED"}
               PROVE  tasks'[t].status = "FILLED"
    OBVIOUS
  <2>1. PICK l \in Lanes, s \in Statuses : ReadAs(l, t, s) /\ tasks'[t].status = s
    BY <1>1, WhatIsRead
  <2>2. ~ disturbed
    BY <2>1 DEF ReadAs
  <2>3. \A i \in DOMAIN tasks : tasks[i].status = "QUEUED" <=> i > t
    <3>1. DOMAIN tasks \subseteq Nat
      BY <1>1 DEF BookInv, BookTypes
    <3>2. ASSUME NEW i \in DOMAIN tasks PROVE tasks[i].status = "QUEUED" <=> i > t
      <4>1. CASE i > t
        BY <4>1
      <4>2. CASE i < t
        BY <3>1, <4>2
      <4>3. CASE i = t
        BY <3>1, <4>3
      <4> QED
        BY <3>1, <4>1, <4>2, <4>3
    <3> QED
      BY <3>2
  <2>4. net = ExpectedQuantity(tasks[t].command)
    BY <1>1, <2>2, <2>3, PrefixReachesAim
  <2> QED
    BY <2>1, <2>4 DEF ReadAs
<1>2. BookInv /\ [BookNext]_bookVars => [A]_bookVars
  BY <1>1
<1> QED
  BY <1>2, BookAddsUp, PTL DEF BookSpec, InOrderCopiesFill
=============================================================================
