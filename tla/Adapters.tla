------------------------------- MODULE Adapters -------------------------------
(***************************************************************************)
(* The seven exchange clients as functions: the order a request becomes,    *)
(* when an answer counts as accepted, and what the rows of an account are   *)
(* read as. An exchange is modelled by the shape of its rows and answers    *)
(* only, for an account with one position per symbol.                       *)
(***************************************************************************)
EXTENDS Integers, Sequences

AllExchanges == {"OKX", "BINANCE", "BYBIT", "COINBASE", "KRAKEN", "BITMEX", "GATEIO"}

Abs(x) == IF x < 0 THEN -x ELSE x

\* What place_order is given: limit and stop say whether those prices are set.
Request(side, quantity, reduce, leg, type, limit, stop) ==
    [side |-> side, quantity |-> quantity, reduce |-> reduce, leg |-> leg,
     type |-> type, limit |-> limit, stop |-> stop]

-----------------------------------------------------------------------------
(* Orders: the signed size, the kind, whether a price and a trigger are     *)
(* sent, reduce-only, and the leg a hedged account books it on.             *)

Order(r, kind, price, trigger, reduce, leg) ==
    [size |-> IF r.side = "BUY" THEN r.quantity ELSE -r.quantity, kind |-> kind,
     price |-> price, trigger |-> trigger, reduce |-> reduce, leg |-> leg]
MarketOrLimit(r) == IF r.type = "MARKET" THEN "market" ELSE "limit"

OkxOrder(hedge, r) ==
    Order(r, MarketOrLimit(r), r.limit, FALSE, r.reduce, IF hedge THEN r.leg ELSE "FLAT")

BinanceOrder(hedge, r) ==
    Order(r, CASE r.type = "MARKET" -> "market" [] r.type = "LIMIT" -> "limit"
               [] r.type = "STOP_MARKET" -> "stop", r.limit, r.stop, r.reduce, "FLAT")

\* The third kind becomes a name that Bybit does not have.
BybitOrder(hedge, r) ==
    Order(r, CASE r.type = "MARKET" -> "market" [] r.type = "LIMIT" -> "limit"
               [] r.type = "STOP_MARKET" -> "unknown", r.limit, r.stop, r.reduce, r.leg)

\* A limit order without a price has the price zero; reduce-only is not sent.
CoinbaseOrder(hedge, r) ==
    Order(r, MarketOrLimit(r), r.type # "MARKET", FALSE, FALSE, "FLAT")

KrakenOrder(hedge, r) == Order(r, MarketOrLimit(r), r.limit, FALSE, r.reduce, "FLAT")

BitmexOrder(hedge, r) == Order(r, MarketOrLimit(r), r.limit, FALSE, r.reduce, "FLAT")

GateioOrder(hedge, r) == Order(r, MarketOrLimit(r), r.type # "MARKET", FALSE, r.reduce, "FLAT")

Sent(e, hedge, r) ==
    CASE e = "OKX" -> OkxOrder(hedge, r) [] e = "BINANCE" -> BinanceOrder(hedge, r)
      [] e = "BYBIT" -> BybitOrder(hedge, r) [] e = "COINBASE" -> CoinbaseOrder(hedge, r)
      [] e = "KRAKEN" -> KrakenOrder(hedge, r) [] e = "BITMEX" -> BitmexOrder(hedge, r)
      [] e = "GATEIO" -> GateioOrder(hedge, r)

(* External: what an exchange with one position net per symbol does with an *)
(* order. A reduce-only one needs something to reduce and is cut to it; one *)
(* with a price or a trigger waits.                                         *)

Takes(order, net) == order.kind # "unknown" /\ (~ order.reduce \/ order.size * net < 0)
Waits(order) == order.kind # "market" \/ order.trigger
FilledSize(order, net) ==
    IF Waits(order) THEN 0
    ELSE IF order.reduce /\ Abs(order.size) > Abs(net) THEN -net ELSE order.size

\* What there is no counterparty for is cancelled: told by BitMEX alone.
Parts(e, order, net) ==
    LET whole == FilledSize(order, net)
    IN  IF e = "BITMEX" THEN {m \in -Abs(whole) .. Abs(whole) : m * whole > 0} \ {whole} ELSE {}

-----------------------------------------------------------------------------
(* Answers: http is the status' class, done what the body says of itself,   *)
(* id whether it names an order. Which answers an exchange gives for what it *)
(* took or refused is external.                                             *)

Success == [http |-> TRUE, done |-> TRUE, id |-> TRUE]
NotDone == [http |-> TRUE, done |-> FALSE, id |-> TRUE]
Refusals(e) ==
    {[http |-> FALSE, done |-> FALSE, id |-> FALSE]} \cup
    (IF e \in {"OKX", "BYBIT", "COINBASE", "KRAKEN"}
     THEN {[http |-> TRUE, done |-> FALSE, id |-> FALSE]} ELSE {})

\* About the keys of an account, or a cancellation.
CallAnswers(e, good) == IF good THEN {Success} ELSE Refusals(e)

\* About an order: two exchanges name the order they refused, and one calls an order
\* Canceled whose rest it cancelled.
OrderRefusals(e) == Refusals(e) \cup (IF e \in {"BITMEX", "COINBASE"} THEN {NotDone} ELSE {})

\* What may come of an order: was it taken, by how much the position moved, the answer.
Outcome(taken, moved, answer) == [taken |-> taken, moved |-> moved, answer |-> answer]
Outcomes(e, order, net) ==
    {Outcome(FALSE, 0, a) : a \in OrderRefusals(e)} \cup
    (IF Takes(order, net)
     THEN {Outcome(TRUE, FilledSize(order, net), Success)} \cup
          {Outcome(TRUE, m, NotDone) : m \in Parts(e, order, net)}
     ELSE {})

OkxAccepts(a) == a.http /\ a.done
BinanceAccepts(a) == a.http
BybitAccepts(a) == a.http /\ a.done
CoinbaseAccepts(a) == a.done \/ (a.http /\ a.id)
KrakenAccepts(a) == a.http /\ a.done
BitmexAccepts(a) == a.http /\ a.done
GateioAccepts(a) == a.http /\ a.id

\* Mutant of Accepted: the status of the answer is enough for everybody.
AcceptedByStatus(e, a) == a.http

Accepted(e, a) ==
    CASE e = "OKX" -> OkxAccepts(a) [] e = "BINANCE" -> BinanceAccepts(a)
      [] e = "BYBIT" -> BybitAccepts(a) [] e = "COINBASE" -> CoinbaseAccepts(a)
      [] e = "KRAKEN" -> KrakenAccepts(a) [] e = "BITMEX" -> BitmexAccepts(a)
      [] e = "GATEIO" -> GateioAccepts(a)

-----------------------------------------------------------------------------
(* Positions. Rows is external: how an exchange lists a signed position.    *)

Rows(e, q) ==
    CASE e = "OKX" -> IF q = 0 THEN <<>> ELSE <<[size |-> q, side |-> "net"]>>
      [] e \in {"BINANCE", "BITMEX", "GATEIO"} -> <<[size |-> q, side |-> ""]>>
      [] e = "BYBIT" -> <<[size |-> Abs(q), side |-> IF q > 0 THEN "Buy" ELSE IF q < 0 THEN "Sell"
                                                     ELSE ""]>>
      [] e = "COINBASE" -> IF q = 0 THEN <<>>
                           ELSE <<[size |-> Abs(q), side |-> IF q > 0 THEN "LONG" ELSE "SHORT"]>>
      [] e = "KRAKEN" -> IF q = 0 THEN <<>>
                         ELSE <<[size |-> Abs(q), side |-> IF q > 0 THEN "long" ELSE "short"]>>

\* The first row of the symbol, and no position when there is none.
FirstRow(rows, Read(_)) == IF rows = <<>> THEN 0 ELSE Read(rows[1])
\* The quantities of the rows that are a position.
OpenRows(rows, Read(_)) == {Read(rows[i]) : i \in {j \in DOMAIN rows : rows[j].size # 0}}

NegatedIf(row, side) == IF row.side = side THEN -row.size ELSE row.size
AsTold(row) == row.size

OkxPosition(rows) == FirstRow(rows, LAMBDA row : NegatedIf(row, "short"))
BinancePosition(rows) == FirstRow(rows, AsTold)
BybitSigned(row) == IF row.side = "Buy" THEN row.size ELSE IF row.side = "Sell" THEN -row.size ELSE 0
BybitPosition(rows) == FirstRow(rows, BybitSigned)
CoinbaseSigned(row) == IF row.side = "SHORT" THEN -Abs(row.size) ELSE row.size
CoinbasePosition(rows) == FirstRow(rows, CoinbaseSigned)

\* Mutant of KrakenPosition: the side of the row is not looked at.
KrakenPositionUnsigned(rows) == FirstRow(rows, AsTold)

KrakenPosition(rows) == FirstRow(rows, LAMBDA row : NegatedIf(row, "short"))
BitmexPosition(rows) == FirstRow(rows, AsTold)
GateioPosition(rows) == FirstRow(rows, AsTold)

Position(e, rows) ==
    CASE e = "OKX" -> OkxPosition(rows) [] e = "BINANCE" -> BinancePosition(rows)
      [] e = "BYBIT" -> BybitPosition(rows) [] e = "COINBASE" -> CoinbasePosition(rows)
      [] e = "KRAKEN" -> KrakenPosition(rows) [] e = "BITMEX" -> BitmexPosition(rows)
      [] e = "GATEIO" -> GateioPosition(rows)

OkxOpen(rows) == OpenRows(rows, LAMBDA row : NegatedIf(row, "short"))
BinanceOpen(rows) == OpenRows(rows, AsTold)
BybitOpen(rows) == OpenRows(rows, BybitSigned)

\* Mutant of CoinbaseOpen: a short position is listed as a long one.
CoinbaseOpenLong(rows) == OpenRows(rows, AsTold)

CoinbaseOpen(rows) == OpenRows(rows, CoinbaseSigned)
KrakenOpen(rows) == OpenRows(rows, LAMBDA row : NegatedIf(row, "short"))
BitmexOpen(rows) == OpenRows(rows, AsTold)
GateioOpen(rows) == OpenRows(rows, AsTold)

OpenPositions(e, rows) ==
    CASE e = "OKX" -> OkxOpen(rows) [] e = "BINANCE" -> BinanceOpen(rows)
      [] e = "BYBIT" -> BybitOpen(rows) [] e = "COINBASE" -> CoinbaseOpen(rows)
      [] e = "KRAKEN" -> KrakenOpen(rows) [] e = "BITMEX" -> BitmexOpen(rows)
      [] e = "GATEIO" -> GateioOpen(rows)

-----------------------------------------------------------------------------
(* Cancelling the working orders of a symbol: what the client reports.      *)

\* Two clients list the orders first, and an empty list needs no call.
OkxCancel(working, a) == working = 0 \/ (a.http /\ a.done)
CoinbaseCancel(working, a) == working = 0 \/ a.http
KrakenCancel(working, a) == a.http /\ a.done
BitmexCancel(working, a) == a.http
GateioCancel(working, a) == a.http

\* Binance and Bybit's answers are handed on as they are, without saying so.
CancelReported(e, working, a) ==
    CASE e = "OKX" -> OkxCancel(working, a) [] e = "COINBASE" -> CoinbaseCancel(working, a)
      [] e = "KRAKEN" -> KrakenCancel(working, a) [] e = "BITMEX" -> BitmexCancel(working, a)
      [] e = "GATEIO" -> GateioCancel(working, a) [] OTHER -> FALSE

-----------------------------------------------------------------------------
(* Credentials: a signed call, and the answer that counts as good ones.     *)

OkxValidates(a) == a.http /\ a.done
BinanceValidates(a) == a.http

\* Mutant of BybitValidates: Bybit answers a refusal with a good status.
BybitValidatesByStatus(a) == a.http

BybitValidates(a) == a.http /\ a.done
CoinbaseValidates(a) == a.http /\ a.done
KrakenValidates(a) == a.http /\ a.done
BitmexValidates(a) == a.http
GateioValidates(a) == a.http

Validates(e, a) ==
    CASE e = "OKX" -> OkxValidates(a) [] e = "BINANCE" -> BinanceValidates(a)
      [] e = "BYBIT" -> BybitValidates(a) [] e = "COINBASE" -> CoinbaseValidates(a)
      [] e = "KRAKEN" -> KrakenValidates(a) [] e = "BITMEX" -> BitmexValidates(a)
      [] e = "GATEIO" -> GateioValidates(a)
=============================================================================
