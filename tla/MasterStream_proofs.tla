-------------------------- MODULE MasterStream_proofs --------------------------
(***************************************************************************)
(* Proofs about the stream supervisor, for any sources, symbols, feeds and  *)
(* bounds.                                                                  *)
(***************************************************************************)
EXTENDS MasterStream, SequenceTheorems, TLAPS

\* What is told of a symbol is a place in its history.
InRange ==
    \A s \in Sources, y \in Symbols :
        /\ Len(hist[s][y]) >= 1
        /\ told[s].places[y] \in 1..Len(hist[s][y])
        /\ \A i \in 1..Len(wire[s]) : wire[s][i].places[y] \in 1..Len(hist[s][y])

TypeInv == TypeOK /\ InRange

Caches == UNION {[known -> Quantities] : known \in SUBSET Symbols}

-----------------------------------------------------------------------------
LEMMA EmptyCache == NoCache \in Caches /\ DOMAIN NoCache = {}
<1>1. NoCache \in [{} -> Quantities]
  BY DEF NoCache
<1>2. {} \in SUBSET Symbols
  OBVIOUS
<1> QED BY <1>1, <1>2 DEF Caches, NoCache

LEMMA CacheIsFunction ==
    ASSUME NEW c \in Caches
    PROVE  /\ DOMAIN c \subseteq Symbols
           /\ \A y \in DOMAIN c : c[y] \in Quantities
  BY DEF Caches

LEMMA CacheGrows ==
    ASSUME NEW c \in Caches, NEW y \in Symbols, NEW q \in Quantities
    PROVE  [z \in DOMAIN c \cup {y} |-> IF z = y THEN q ELSE c[z]] \in Caches
<1> DEFINE known == DOMAIN c \cup {y}
           d == [z \in known |-> IF z = y THEN q ELSE c[z]]
<1>1. known \in SUBSET Symbols
  BY CacheIsFunction
<1>2. d \in [known -> Quantities]
  BY CacheIsFunction
<1> QED BY <1>1, <1>2 DEF Caches

\* What is in a concatenation is in one of its parts.
LEMMA ConcatItems ==
    ASSUME NEW S, NEW u \in Seq(S), NEW v \in Seq(S), NEW i \in 1..Len(u \o v)
    PROVE  \/ i \in 1..Len(u) /\ (u \o v)[i] = u[i]
           \/ i - Len(u) \in 1..Len(v) /\ (u \o v)[i] = v[i - Len(u)]
  BY ConcatProperties

\* What the exchange sends after a move, in whichever order.
News(s, y, now) ==
    LET rows == IF Feed[s].rows = "none" THEN <<>> ELSE <<Rows(s, y, now)>>
        notice == IF Feed[s].notice THEN <<Notice>> ELSE <<>>
    IN  {rows \o notice, notice \o rows}

LEMMA NewsItems ==
    ASSUME NEW s \in Sources, NEW y \in Symbols, NEW now \in [Symbols -> Nat],
           NEW news \in News(s, y, now)
    PROVE  /\ news \in Seq(Messages)
           /\ \A i \in 1..Len(news) : \/ Feed[s].rows # "none" /\ news[i] = Rows(s, y, now)
                                      \/ Feed[s].notice /\ news[i] = Notice
<1> DEFINE r == Rows(s, y, now)
           n == Notice
           rows == IF Feed[s].rows = "none" THEN <<>> ELSE <<r>>
           notice == IF Feed[s].notice THEN <<n>> ELSE <<>>
           Good(m) == \/ Feed[s].rows # "none" /\ m = r
                      \/ Feed[s].notice /\ m = n
<1>1. r \in Messages
  BY DEF Rows, Messages, Nowhere
<1>2. n \in Messages
  BY DEF Notice, Messages, Nowhere
<1>3. news = rows \o notice \/ news = notice \o rows
  BY DEF News
<1> HIDE DEF r, n
<1>4. rows \in Seq(Messages) /\ \A i \in 1..Len(rows) : Good(rows[i])
  BY <1>1
<1>5. notice \in Seq(Messages) /\ \A i \in 1..Len(notice) : Good(notice[i])
  BY <1>2
<1> HIDE DEF rows, notice, Good
<1>6. rows \o notice \in Seq(Messages) /\ notice \o rows \in Seq(Messages)
  BY <1>4, <1>5, ConcatProperties
<1>7. \A i \in 1..Len(rows \o notice) : Good((rows \o notice)[i])
  BY <1>4, <1>5, ConcatItems
<1>8. \A i \in 1..Len(notice \o rows) : Good((notice \o rows)[i])
  BY <1>4, <1>5, ConcatItems
<1>9. news \in Seq(Messages) /\ \A i \in 1..Len(news) : Good(news[i])
  BY <1>3, <1>6, <1>7, <1>8
<1> QED BY <1>9 DEF Good, r, n

\* The master's move adds one place to one history and keeps the others.
After(s) == [z \in Symbols |-> Len(hist'[s][z])]

LEMMA MoveHist ==
    ASSUME TypeInv, NEW s \in Sources, NEW y \in Symbols, MasterMoves(s, y)
    PROVE  /\ hist' \in [Sources -> [Symbols -> Seq(Quantities)]]
           /\ \E q \in Quantities : hist' = [hist EXCEPT ![s][y] = Append(@, q)]
           /\ \A t \in Sources, z \in Symbols :
                 /\ Len(hist'[t][z]) \in Nat /\ Len(hist'[t][z]) >= Len(hist[t][z])
                 /\ \A i \in 1..Len(hist[t][z]) : hist'[t][z][i] = hist[t][z][i]
           /\ After(s) = [Now(s) EXCEPT ![y] = @ + 1]
           /\ After(s) \in [Symbols -> Nat]
<1>1. PICK q \in Quantities : hist' = [hist EXCEPT ![s][y] = Append(@, q)]
  BY DEF MasterMoves
<1>2. hist \in [Sources -> [Symbols -> Seq(Quantities)]]
  BY DEF TypeInv, TypeOK
<1>3. hist[s][y] \in Seq(Quantities) /\ Append(hist[s][y], q) \in Seq(Quantities)
  BY <1>2
<1>4. hist' \in [Sources -> [Symbols -> Seq(Quantities)]]
  BY <1>1, <1>2, <1>3
<1>5. \A t \in Sources, z \in Symbols :
         hist'[t][z] = IF t = s /\ z = y THEN Append(hist[s][y], q) ELSE hist[t][z]
  BY <1>1, <1>2
<1>6. /\ Len(Append(hist[s][y], q)) = Len(hist[s][y]) + 1
      /\ \A i \in 1..Len(hist[s][y]) : Append(hist[s][y], q)[i] = hist[s][y][i]
  BY <1>3
<1>7. \A t \in Sources, z \in Symbols : Len(hist[t][z]) \in Nat
  BY <1>2
<1>8. \A t \in Sources, z \in Symbols :
         /\ Len(hist'[t][z]) \in Nat /\ Len(hist'[t][z]) >= Len(hist[t][z])
         /\ \A i \in 1..Len(hist[t][z]) : hist'[t][z][i] = hist[t][z][i]
  <2> SUFFICES ASSUME NEW t \in Sources, NEW z \in Symbols
               PROVE  /\ Len(hist'[t][z]) \in Nat /\ Len(hist'[t][z]) >= Len(hist[t][z])
                      /\ \A i \in 1..Len(hist[t][z]) : hist'[t][z][i] = hist[t][z][i]
    OBVIOUS
  <2> DEFINE grown == Append(hist[s][y], q)
  <2>1. CASE t = s /\ z = y
    <3>1. hist'[t][z] = grown /\ hist[t][z] = hist[s][y]
      BY <1>5, <2>1
    <3>2. Len(hist[s][y]) \in Nat
      BY <1>7
    <3> HIDE DEF grown
    <3> QED BY <3>1, <3>2, <1>6 DEF grown
  <2>2. CASE ~(t = s /\ z = y)
    BY <1>5, <1>7, <2>2
  <2> QED BY <2>1, <2>2
<1>9. After(s) = [Now(s) EXCEPT ![y] = @ + 1]
  <2>1. \A z \in Symbols : After(s)[z] = [Now(s) EXCEPT ![y] = @ + 1][z]
    BY <1>5, <1>6 DEF After, Now
  <2> QED BY <2>1 DEF After, Now
<1>10. After(s) \in [Symbols -> Nat]
  BY <1>8 DEF After
<1> QED BY <1>1, <1>4, <1>8, <1>9, <1>10

LEMMA MoveWire ==
    ASSUME TypeInv, NEW s \in Sources, NEW y \in Symbols, MasterMoves(s, y)
    PROVE  /\ wire' \in [Sources -> Seq(Messages)]
           /\ \A t \in Sources : t # s => wire'[t] = wire[t]
           /\ \/ wire'[s] = wire[s]
              \/ /\ Subscribed(s)
                 /\ \E news \in News(s, y, After(s)) : wire'[s] = wire[s] \o news
<1>1. CASE Subscribed(s)
  <2>1. PICK news \in News(s, y, After(s)) : wire' = [wire EXCEPT ![s] = @ \o news]
    BY <1>1, MoveHist DEF MasterMoves, News
  <2>2. news \in Seq(Messages)
    BY NewsItems, MoveHist
  <2>3. wire \in [Sources -> Seq(Messages)]
    BY DEF TypeInv, TypeOK
  <2>4. wire[s] \o news \in Seq(Messages)
    BY <2>2, <2>3, ConcatProperties
  <2> QED BY <1>1, <2>1, <2>3, <2>4
<1>2. CASE ~Subscribed(s)
  BY <1>2 DEF MasterMoves, TypeInv, TypeOK
<1> QED BY <1>1, <1>2

-----------------------------------------------------------------------------
LEMMA TypeInit == Init => TypeInv
<1> SUFFICES ASSUME Init PROVE TypeInv
  OBVIOUS
<1> USE StreamConstantsOK DEF Init
<1>1. cache \in [Sources -> Caches]
  BY EmptyCache
<1>2. <<0>> \in Seq(Quantities) /\ Len(<<0>>) = 1 /\ <<>> \in Seq(Messages)
  OBVIOUS
<1>3. TypeOK
  BY <1>1, <1>2 DEF TypeOK, Statuses, Steps, Nothing, Nowhere, Caches
<1>4. InRange
  BY <1>2 DEF InRange, Nothing, Nowhere
<1> QED BY <1>3, <1>4 DEF TypeInv

LEMMA TypeMove ==
    ASSUME TypeInv, NEW s \in Sources, NEW y \in Symbols, MasterMoves(s, y)
    PROVE  TypeInv'
<1>1. TypeOK'
  BY MoveHist, MoveWire DEF MasterMoves, TypeInv, TypeOK, mirrorVars, faultVars
<1>2. ASSUME NEW t \in Sources, NEW z \in Symbols
      PROVE  /\ Len(hist'[t][z]) >= 1
             /\ told'[t].places[z] \in 1..Len(hist'[t][z])
             /\ \A i \in 1..Len(wire'[t]) : wire'[t][i].places[z] \in 1..Len(hist'[t][z])
  <2> DEFINE n == Len(hist[t][z])
             m == Len(hist'[t][z])
  <2>1. n \in Nat /\ m \in Nat /\ n >= 1 /\ m >= n
    <3>1. n \in Nat /\ n >= 1
      BY DEF TypeInv, TypeOK, InRange
    <3> QED BY <3>1, MoveHist
  <2>2. told'[t].places[z] \in 1..m
    <3>1. told[t].places[z] \in 1..n
      BY DEF TypeInv, InRange
    <3>2. told' = told
      BY DEF MasterMoves
    <3> QED BY <2>1, <3>1, <3>2
  <2>3. \A i \in 1..Len(wire[t]) : wire[t][i].places[z] \in 1..m
    <3>1. \A i \in 1..Len(wire[t]) : wire[t][i].places[z] \in 1..n
      BY DEF TypeInv, InRange
    <3> QED BY <2>1, <3>1
  <2>4. CASE wire'[t] = wire[t]
    BY <2>1, <2>2, <2>3, <2>4
  <2>5. CASE t = s /\ \E news \in News(s, y, After(s)) : wire'[s] = wire[s] \o news
    <3>1. PICK news \in News(s, y, After(s)) : wire'[s] = wire[s] \o news
      BY <2>5
    <3>2. /\ news \in Seq(Messages)
          /\ \A i \in 1..Len(news) : \/ news[i] = Rows(s, y, After(s))
                                     \/ news[i] = Notice
      <4>1. After(s) \in [Symbols -> Nat]
        BY MoveHist
      <4> QED BY <4>1, NewsItems
    <3>3. wire[s] \in Seq(Messages)
      BY DEF TypeInv, TypeOK
    <3>4. Rows(s, y, After(s)).places[z] \in 1..m
      BY <2>1, <2>5 DEF Rows, After, Nowhere
    <3>5. Notice.places[z] \in 1..m
      BY <2>1 DEF Notice, Nowhere
    <3>6. \A i \in 1..Len(news) : news[i].places[z] \in 1..m
      BY <3>2, <3>4, <3>5
    <3>7. \A i \in 1..Len(wire[s] \o news) : (wire[s] \o news)[i].places[z] \in 1..m
      BY <2>3, <2>5, <3>2, <3>3, <3>6, ConcatItems
    <3>8. \A i \in 1..Len(wire'[t]) : wire'[t][i].places[z] \in 1..m
      BY <2>5, <3>1, <3>7
    <3> QED BY <2>1, <2>2, <3>8
  <2> QED BY <2>4, <2>5, MoveWire
<1> QED BY <1>1, <1>2 DEF TypeInv, InRange

\* A listener's turn: what it is told is in range, and so is what is left.
LEMMA ToldPlaces ==
    ASSUME TypeInv, NEW s \in Sources
    PROVE  /\ Now(s) \in [Symbols -> Nat] /\ Nowhere \in [Symbols -> Nat]
           /\ \A y \in Symbols : /\ Now(s)[y] \in 1..Len(hist[s][y])
                                 /\ Nowhere[y] \in 1..Len(hist[s][y])
                                 /\ Len(hist[s][y]) \in Nat
           /\ DOMAIN cache[s] \subseteq Symbols
<1>1. \A y \in Symbols : Len(hist[s][y]) \in Nat /\ Len(hist[s][y]) >= 1
  BY DEF TypeInv, TypeOK, InRange
<1>2. cache[s] \in Caches
  BY DEF TypeInv, TypeOK, Caches
<1> QED BY <1>1, <1>2, CacheIsFunction DEF Now, Nowhere

LEMMA TypeCompare ==
    ASSUME TypeInv, NEW s \in Sources, NEW places \in [Symbols -> Nat],
           NEW symbols \in SUBSET Symbols,
           \A y \in Symbols : places[y] \in 1..Len(hist[s][y]),
           Compare(s, places, symbols)
    PROVE  /\ pc' \in [Sources -> Steps]
           /\ told' \in [Sources -> [places : [Symbols -> Nat], symbols : SUBSET Symbols]]
           /\ left' \in [Sources -> SUBSET Symbols]
           /\ \A t \in Sources, y \in Symbols : told'[t].places[y] \in 1..Len(hist[t][y])
<1>1. symbols \cup DOMAIN cache[s] \subseteq Symbols
  BY ToldPlaces
<1>2. told \in [Sources -> [places : [Symbols -> Nat], symbols : SUBSET Symbols]]
  BY DEF TypeInv, TypeOK
<1>3. \A t \in Sources, y \in Symbols : told[t].places[y] \in 1..Len(hist[t][y])
  BY DEF TypeInv, InRange
<1> DEFINE new == [places |-> places, symbols |-> symbols]
<1>4. told' = [told EXCEPT ![s] = new]
  BY DEF Compare
<1>5. new \in [places : [Symbols -> Nat], symbols : SUBSET Symbols]
  OBVIOUS
<1>6. \A t \in Sources : told'[t] = IF t = s THEN new ELSE told[t]
  BY <1>2, <1>4
<1>7. pc' \in [Sources -> Steps] /\ left' \in [Sources -> SUBSET Symbols]
  BY <1>1 DEF Compare, TypeInv, TypeOK, Steps
<1>8. told' \in [Sources -> [places : [Symbols -> Nat], symbols : SUBSET Symbols]]
  BY <1>2, <1>4, <1>5
<1>9. \A t \in Sources, y \in Symbols : told'[t].places[y] \in 1..Len(hist[t][y])
  BY <1>3, <1>6
<1> QED BY <1>7, <1>8, <1>9
\* Taking the first message keeps the others in range.
LEMMA TypeTail ==
    ASSUME TypeInv, NEW s \in Sources, wire[s] # <<>>,
           wire' = [wire EXCEPT ![s] = Tail(@)]
    PROVE  /\ Head(wire[s]) \in Messages
           /\ \A y \in Symbols : Head(wire[s]).places[y] \in 1..Len(hist[s][y])
           /\ wire' \in [Sources -> Seq(Messages)]
           /\ \A t \in Sources, y \in Symbols : \A i \in 1..Len(wire'[t]) :
                 wire'[t][i].places[y] \in 1..Len(hist[t][y])
<1>1. wire \in [Sources -> Seq(Messages)]
  BY DEF TypeInv, TypeOK
<1> DEFINE w == wire[s]
<1>2. w \in Seq(Messages) /\ w # <<>>
  BY <1>1
<1>3. Head(w) \in Messages /\ Head(w) = w[1] /\ 1 \in 1..Len(w)
  BY <1>2
<1>4. /\ Tail(w) \in Seq(Messages)
      /\ \A i \in 1..Len(Tail(w)) : i + 1 \in 1..Len(w) /\ Tail(w)[i] = w[i + 1]
  BY <1>2
<1>5. \A t \in Sources : wire'[t] = IF t = s THEN Tail(w) ELSE wire[t]
  BY <1>1
<1>6. \A t \in Sources, y \in Symbols : \A i \in 1..Len(wire[t]) :
         wire[t][i].places[y] \in 1..Len(hist[t][y])
  BY DEF TypeInv, InRange
<1> HIDE DEF w
<1>7. wire' \in [Sources -> Seq(Messages)]
  BY <1>1, <1>4, <1>5
<1>8. \A y \in Symbols : \A i \in 1..Len(w) : w[i].places[y] \in 1..Len(hist[s][y])
  BY <1>6 DEF w
<1>9. \A t \in Sources, y \in Symbols : \A i \in 1..Len(wire'[t]) :
         wire'[t][i].places[y] \in 1..Len(hist[t][y])
  BY <1>4, <1>5, <1>6, <1>8
<1>10. \A y \in Symbols : Head(w).places[y] \in 1..Len(hist[s][y])
  BY <1>3, <1>8
<1> QED BY <1>3, <1>7, <1>9, <1>10 DEF w

LEMMA TypeReceive ==
    ASSUME TypeInv, NEW s \in Sources, Receive(s)
    PROVE  TypeInv'
<1> DEFINE m == Head(wire[s])
<1>1. /\ m \in Messages
      /\ \A y \in Symbols : m.places[y] \in 1..Len(hist[s][y])
      /\ wire' \in [Sources -> Seq(Messages)]
      /\ \A t \in Sources, y \in Symbols : \A i \in 1..Len(wire'[t]) :
            wire'[t][i].places[y] \in 1..Len(hist[t][y])
  BY TypeTail DEF Receive
<1>2. /\ pc' \in [Sources -> Steps]
      /\ told' \in [Sources -> [places : [Symbols -> Nat], symbols : SUBSET Symbols]]
      /\ left' \in [Sources -> SUBSET Symbols]
      /\ \A t \in Sources, y \in Symbols : told'[t].places[y] \in 1..Len(hist[t][y])
  <2>1. CASE m.kind = "rows"
    <3>1. Compare(s, m.places, m.symbols)
      BY <2>1 DEF Receive
    <3>2. m.places \in [Symbols -> Nat] /\ m.symbols \in SUBSET Symbols
      BY <1>1 DEF Messages
    <3> HIDE DEF m
    <3> QED BY <1>1, <3>1, <3>2, TypeCompare
  <2>2. CASE m.kind # "rows"
    BY <2>2 DEF Receive, TypeInv, TypeOK, InRange, Steps
  <2> QED BY <2>1, <2>2
<1>3. UNCHANGED <<masterVars, status, watched, mode, mirrorVars, faultVars>>
  BY DEF Receive
<1> QED BY <1>1, <1>2, <1>3 DEF TypeInv, TypeOK, InRange, masterVars, mirrorVars, faultVars

LEMMA TypeFetch ==
    ASSUME TypeInv, NEW s \in Sources, Fetch(s) \/ FetchError(s)
    PROVE  TypeInv'
<1>1. \E places \in [Symbols -> Nat], symbols \in SUBSET Symbols :
         /\ \A y \in Symbols : places[y] \in 1..Len(hist[s][y])
         /\ Compare(s, places, symbols)
  BY ToldPlaces DEF Fetch, FetchError
<1>2. /\ pc' \in [Sources -> Steps]
      /\ told' \in [Sources -> [places : [Symbols -> Nat], symbols : SUBSET Symbols]]
      /\ left' \in [Sources -> SUBSET Symbols]
      /\ \A t \in Sources, y \in Symbols : told'[t].places[y] \in 1..Len(hist[t][y])
  BY <1>1, TypeCompare
<1>3. UNCHANGED <<masterVars, status, watched, mode, wire, mirrorVars>>
  BY DEF Fetch, FetchError
<1>4. drops' \in 0..MaxDrops /\ losses' \in 0..MaxLosses /\ crashes' \in 0..MaxCrashes
  BY StreamConstantsOK DEF Fetch, FetchError, faultVars, TypeInv, TypeOK
<1> QED BY <1>2, <1>3, <1>4 DEF TypeInv, TypeOK, InRange, masterVars, mirrorVars

\* What the listener is told of a symbol is a quantity of the master, and so is
\* what the cache says of it.
LEMMA Quantum ==
    ASSUME TypeInv, NEW s \in Sources, NEW y \in Symbols
    PROVE  /\ Quantity(s, y, told[s].places[y]) \in Quantities
           /\ Cached(s, y) \in Quantities
           /\ Quantities \subseteq Int
<1>1. hist[s][y] \in Seq(Quantities) /\ told[s].places[y] \in 1..Len(hist[s][y])
  BY DEF TypeInv, TypeOK, InRange
<1>2. Quantity(s, y, told[s].places[y]) \in Quantities
  BY <1>1 DEF Quantity
<1>3. cache[s] \in Caches
  BY DEF TypeInv, TypeOK, Caches
<1> QED BY <1>2, <1>3, CacheIsFunction, StreamConstantsOK DEF Cached

LEMMA TypeSetCache ==
    ASSUME TypeInv, NEW s \in Sources, NEW y \in Symbols, SetCache(s, y)
    PROVE  cache' \in [Sources -> Caches]
<1> DEFINE q == Quantity(s, y, told[s].places[y])
           c == [z \in DOMAIN cache[s] \cup {y} |-> IF z = y THEN q ELSE cache[s][z]]
<1>1. cache \in [Sources -> Caches]
  BY DEF TypeInv, TypeOK, Caches
<1>2. q \in Quantities
  BY Quantum
<1> HIDE DEF q
<1>3. c \in Caches
  BY <1>1, <1>2, CacheGrows
<1>4. cache' = [cache EXCEPT ![s] = c]
  BY DEF SetCache, q
<1> QED BY <1>1, <1>3, <1>4

LEMMA TypeReconcile ==
    ASSUME TypeInv, NEW s \in Sources, Reconcile(s) \/ LoseEmission(s)
    PROVE  TypeInv'
<1>1. PICK y \in left[s] :
         /\ left' = [left EXCEPT ![s] = @ \ {y}]
         /\ \/ SetCache(s, y)
            \/ UNCHANGED cache
         /\ \/ UNCHANGED <<upto, copied>>
            \/ /\ upto' = [upto EXCEPT ![s][y] = told[s].places[y]]
               /\ copied' = [copied EXCEPT ![s][y] =
                     @ + Quantity(s, y, told[s].places[y]) - Cached(s, y)]
  BY DEF Reconcile, LoseEmission
<1>2. y \in Symbols /\ left' \in [Sources -> SUBSET Symbols]
  BY <1>1 DEF TypeInv, TypeOK
<1>3. cache' \in [Sources -> Caches]
  BY <1>1, <1>2, TypeSetCache DEF TypeInv, TypeOK, Caches
<1> DEFINE place == told[s].places[y]
           sum == copied[s][y] + Quantity(s, y, place) - Cached(s, y)
<1>4. upto' \in [Sources -> [Symbols -> Nat]]
  <2>1. place \in Nat
    BY <1>2 DEF TypeInv, TypeOK
  <2>2. upto' = upto \/ upto' = [upto EXCEPT ![s][y] = place]
    BY <1>1
  <2>3. upto \in [Sources -> [Symbols -> Nat]]
    BY DEF TypeInv, TypeOK
  <2> HIDE DEF place
  <2> QED BY <1>2, <2>1, <2>2, <2>3
<1>5. copied' \in [Sources -> [Symbols -> Int]]
  <2>1. sum \in Int
    <3>1. copied[s][y] \in Int
      BY <1>2 DEF TypeInv, TypeOK
    <3>2. Quantity(s, y, place) \in Int /\ Cached(s, y) \in Int
      BY <1>2, Quantum
    <3> QED BY <3>1, <3>2
  <2>2. copied' = copied \/ copied' = [copied EXCEPT ![s][y] = sum]
    BY <1>1
  <2>3. copied \in [Sources -> [Symbols -> Int]]
    BY DEF TypeInv, TypeOK
  <2> HIDE DEF sum
  <2> QED BY <1>2, <2>1, <2>2, <2>3
<1>6. UNCHANGED <<masterVars, status, watched, pc, mode, wire, told>>
  BY DEF Reconcile, LoseEmission
<1>7. drops' \in 0..MaxDrops /\ losses' \in 0..MaxLosses /\ crashes' \in 0..MaxCrashes
  <2>1. \/ UNCHANGED faultVars
        \/ losses < MaxLosses /\ losses' = losses + 1 /\ UNCHANGED <<drops, crashes>>
    BY DEF Reconcile, LoseEmission
  <2> QED BY <2>1, StreamConstantsOK DEF faultVars, TypeInv, TypeOK
<1> QED BY <1>2, <1>3, <1>4, <1>5, <1>6, <1>7 DEF TypeInv, TypeOK, InRange, masterVars, Caches

\* Every action that touches no history and no message but to drop it.
LEMMA TypeRest ==
    ASSUME TypeInv,
           \/ \E s \in Sources : \/ EditSource(s) \/ Connect(s) \/ EndReconcile(s)
                                 \/ StartPolling(s) \/ Retry(s) \/ ListenerRaises(s)
           \/ Scan
           \/ WorkerCrash
    PROVE  TypeInv'
<1> USE DEF TypeInv, TypeOK, Steps, Statuses
<1>1. ASSUME NEW s \in Sources, EditSource(s) PROVE TypeInv'
  BY <1>1 DEF EditSource, InRange, taskVars, mirrorVars, faultVars
<1>2. ASSUME NEW s \in Sources, Connect(s) PROVE TypeInv'
  <2> DEFINE w == IF ~Feed[s].greets THEN <<>>
                  ELSE IF Feed[s].rows = "none" THEN <<Notice>>
                  ELSE <<[kind |-> "rows", places |-> Now(s), symbols |-> Symbols]>>
  <2>1. /\ w \in Seq(Messages)
        /\ \A y \in Symbols, i \in 1..Len(w) : w[i].places[y] \in 1..Len(hist[s][y])
    <3> DEFINE snapshot == [kind |-> "rows", places |-> Now(s), symbols |-> Symbols]
    <3>1. snapshot \in Messages /\ Notice \in Messages
      BY ToldPlaces DEF Messages, Notice
    <3>2. \A y \in Symbols : /\ snapshot.places[y] \in 1..Len(hist[s][y])
                            /\ Notice.places[y] \in 1..Len(hist[s][y])
      BY ToldPlaces DEF Notice
    <3> HIDE DEF snapshot
    <3>3. w = <<>> \/ w = <<Notice>> \/ w = <<snapshot>>
      BY DEF snapshot
    <3> HIDE DEF w
    <3>4. ASSUME NEW m \in Messages, w = <<m>>,
                 \A y \in Symbols : m.places[y] \in 1..Len(hist[s][y])
          PROVE  /\ w \in Seq(Messages)
                 /\ \A y \in Symbols, i \in 1..Len(w) : w[i].places[y] \in 1..Len(hist[s][y])
      <4>1. Len(w) = 1 /\ w[1] = m /\ w \in Seq(Messages)
        BY <3>4
      <4>2. \A i \in 1..Len(w) : w[i] = m
        BY <4>1
      <4> QED BY <3>4, <4>1, <4>2
    <3>5. CASE w = <<>>
      BY <3>5
    <3> QED BY <3>1, <3>2, <3>3, <3>4, <3>5
  <2>2. wire' = [wire EXCEPT ![s] = w]
    BY <1>2 DEF Connect
  <2> HIDE DEF w
  <2>3. wire' \in [Sources -> Seq(Messages)]
    BY <2>1, <2>2
  <2>4. \A t \in Sources : wire'[t] = IF t = s THEN w ELSE wire[t]
    BY <2>2
  <2>5. UNCHANGED <<masterVars, watched, mode, told, left, mirrorVars, faultVars>>
    BY <1>2 DEF Connect
  <2>6. pc' \in [Sources -> Steps] /\ status' \in [Sources -> Statuses]
    BY <1>2 DEF Connect
  <2>7. InRange'
    BY <2>1, <2>4, <2>5 DEF InRange, masterVars
  <2> QED BY <2>3, <2>5, <2>6, <2>7 DEF masterVars, mirrorVars, faultVars
<1>3. ASSUME NEW s \in Sources, EndReconcile(s) PROVE TypeInv'
  <2>1. told' \in [Sources -> [places : [Symbols -> Nat], symbols : SUBSET Symbols]]
    BY <1>3 DEF EndReconcile, Nothing, Nowhere
  <2>2. \A t \in Sources : told'[t] = told[t] \/ told'[t].places = Nowhere
    BY <1>3 DEF EndReconcile, Nothing
  <2>3. InRange'
    BY <1>3, <2>2, ToldPlaces DEF EndReconcile, InRange, masterVars
  <2>4. pc' \in [Sources -> Steps] /\ status' \in [Sources -> Statuses]
    BY <1>3 DEF EndReconcile
  <2> QED BY <1>3, <2>1, <2>3, <2>4 DEF EndReconcile, masterVars, mirrorVars, faultVars
<1>4. ASSUME NEW s \in Sources, StartPolling(s) PROVE TypeInv'
  BY <1>4 DEF StartPolling, InRange, masterVars, mirrorVars, faultVars
<1>5. ASSUME NEW s \in Sources, Retry(s) PROVE TypeInv'
  BY <1>5 DEF Retry, InRange, masterVars, mirrorVars, faultVars
<1>6. ASSUME NEW s \in Sources, ListenerRaises(s) PROVE TypeInv'
  <2>1. /\ told' \in [Sources -> [places : [Symbols -> Nat], symbols : SUBSET Symbols]]
        /\ wire' \in [Sources -> Seq(Messages)]
        /\ left' \in [Sources -> SUBSET Symbols]
    BY <1>6 DEF ListenerRaises, Nothing, Nowhere
  <2>2. \A t \in Sources : /\ told'[t] = told[t] \/ told'[t].places = Nowhere
                           /\ wire'[t] = wire[t] \/ wire'[t] = <<>>
    BY <1>6 DEF ListenerRaises, Nothing
  <2>3. UNCHANGED <<masterVars, watched, mirrorVars, losses, crashes>>
    BY <1>6 DEF ListenerRaises
  <2>4. InRange'
    <3>1. ASSUME NEW t \in Sources, NEW y \in Symbols
          PROVE  /\ told'[t].places[y] \in 1..Len(hist[t][y])
                 /\ \A i \in 1..Len(wire'[t]) : wire'[t][i].places[y] \in 1..Len(hist[t][y])
      <4>1. told'[t].places[y] \in 1..Len(hist[t][y])
        BY <2>2, ToldPlaces DEF InRange
      <4>2. CASE wire'[t] = wire[t]
        BY <4>1, <4>2 DEF InRange
      <4>3. CASE wire'[t] = <<>>
        BY <4>1, <4>3
      <4> QED BY <2>2, <4>2, <4>3
    <3> QED BY <2>3, <3>1 DEF InRange, masterVars
  <2>5. /\ pc' \in [Sources -> Steps]
        /\ status' \in [Sources -> Statuses]
        /\ mode' \in [Sources -> {"ws", "poll"}]
        /\ drops' \in 0..MaxDrops
    <3>1. drops < MaxDrops /\ drops' = drops + 1
      BY <1>6 DEF ListenerRaises
    <3>2. \/ /\ pc' = [pc EXCEPT ![s] = "fallback"]
             /\ mode' = [mode EXCEPT ![s] = "poll"]
             /\ status' = status
          \/ /\ pc' = [pc EXCEPT ![s] = "backoff"]
             /\ status' = [status EXCEPT ![s] = "ERROR"]
             /\ mode' = mode
      BY <1>6 DEF ListenerRaises
    <3>3. drops' \in 0..MaxDrops
      BY <3>1, StreamConstantsOK
    <3> QED BY <3>2, <3>3
  <2> QED BY <2>1, <2>3, <2>4, <2>5 DEF masterVars, mirrorVars
<1>7. ASSUME Scan PROVE TypeInv'
  BY <1>7 DEF Scan, InRange, masterVars, mirrorVars, faultVars
<1>8. ASSUME WorkerCrash PROVE TypeInv'
  <2>1. cache' \in [Sources -> Caches]
    BY <1>8, EmptyCache DEF WorkerCrash
  <2>2. /\ told' \in [Sources -> [places : [Symbols -> Nat], symbols : SUBSET Symbols]]
        /\ \A t \in Sources : told'[t].places = Nowhere /\ wire'[t] = <<>>
    BY <1>8 DEF WorkerCrash, Nothing, Nowhere
  <2>3. InRange'
    BY <1>8, <2>2, ToldPlaces DEF WorkerCrash, InRange, masterVars
  <2>4. crashes' \in 0..MaxCrashes
    BY <1>8, StreamConstantsOK DEF WorkerCrash
  <2> QED BY <1>8, <2>1, <2>2, <2>3, <2>4 DEF WorkerCrash, masterVars, Caches
<1> QED BY <1>1, <1>2, <1>3, <1>4, <1>5, <1>6, <1>7, <1>8

LEMMA TypeStutter == TypeInv /\ UNCHANGED vars => TypeInv'
  BY DEF TypeInv, TypeOK, InRange, vars, masterVars, taskVars, mirrorVars, faultVars

LEMMA TypeNext == TypeInv /\ [Next]_vars => TypeInv'
  BY TypeMove, TypeReceive, TypeFetch, TypeReconcile, TypeRest, TypeStutter
     DEF Next, SourceStep

\* Every variable of the supervisor keeps its type: the cache holds quantities
\* the master had, and what is told of a symbol is a place in its history.
THEOREM StreamTypeCorrect == Spec => []TypeOK
<1>1. TypeInv => TypeOK
  BY DEF TypeInv
<1> QED BY TypeInit, TypeNext, <1>1, PTL DEF Spec

-----------------------------------------------------------------------------
(* What is emitted mirrors the master.                                      *)

\* The sources of which every telling is newer than the one before: nothing is
\* read as flat that is not, no row waits while a REST answer overtakes it.
InOrder(s) ==
    /\ ~Feed[s].quiet
    /\ \/ Feed[s].rows = "none"
       \/ ~Feed[s].notice /\ Feed[s].rows = "all"
       \/ ~Feed[s].notice /\ \A y, z \in Symbols : y = z

AllInOrder == MaxLosses = 0 /\ MaxCrashes = 0 /\ \A s \in Sources : InOrder(s)

\* The cache and the emitted sum are both the position of the place that was
\* emitted last.
AtUpto(s, y) ==
    /\ upto[s][y] \in 1..Len(hist[s][y])
    /\ copied[s][y] = hist[s][y][upto[s][y]]
    /\ Cached(s, y) = hist[s][y][upto[s][y]]

IsRows(s, i) == wire[s][i].kind = "rows"

\* What is told, and after it what waits on the wire, is nowhere behind what
\* was emitted, and the messages are in the master's order.
Forward(s, y) ==
    /\ y \in left[s] => upto[s][y] <= told[s].places[y]
    /\ \A i \in 1..Len(wire[s]) : IsRows(s, i) =>
          /\ upto[s][y] <= wire[s][i].places[y]
          /\ y \in left[s] => told[s].places[y] <= wire[s][i].places[y]
          /\ \A j \in 1..Len(wire[s]) : IsRows(s, j) /\ i <= j =>
                wire[s][i].places[y] <= wire[s][j].places[y]

\* Rows and REST answers do not mix, and nothing waits while positions are
\* polled.
OneWay(s) ==
    /\ \A i \in 1..Len(wire[s]) : IsRows(s, i) <=> Feed[s].rows # "none"
    /\ pc[s] = "fetch" => Feed[s].rows = "none"
    /\ pc[s] \in {"poll", "fallback"} => mode[s] = "poll"
    /\ pc[s] \in {"off", "start", "listen", "fetch"} => mode[s] = "ws"
    /\ mode[s] = "poll" => wire[s] = <<>>
    /\ watched = {} => pc[s] = "off"

MirrorInv ==
    /\ TypeInv
    /\ \A s \in Sources : OneWay(s)
    /\ \A s \in Sources, y \in Symbols : AtUpto(s, y) /\ Forward(s, y)

-----------------------------------------------------------------------------
LEMMA MirrorInit0 == Init => MirrorInv
<1> SUFFICES ASSUME Init PROVE MirrorInv
  OBVIOUS
<1>1. TypeInv
  BY TypeInit
<1>2. \A s \in Sources : OneWay(s)
  <2> TAKE s \in Sources
  <2>1. wire[s] = <<>> /\ pc[s] = "off" /\ mode[s] = "ws"
    BY DEF Init
  <2> QED BY <2>1 DEF OneWay
<1>3. \A s \in Sources, y \in Symbols : AtUpto(s, y) /\ Forward(s, y)
  BY EmptyCache DEF Init, AtUpto, Forward, Cached
<1> QED BY <1>1, <1>2, <1>3 DEF MirrorInv

\* The order of a source that a step leaves alone.
LEMMA OthersForward ==
    ASSUME MirrorInv, NEW t \in Sources,
           pc'[t] = pc[t], mode'[t] = mode[t], wire'[t] = wire[t],
           told'[t] = told[t], left'[t] = left[t],
           upto'[t] = upto[t], copied'[t] = copied[t], cache'[t] = cache[t],
           hist'[t] = hist[t], watched' = watched
    PROVE  /\ OneWay(t)'
           /\ \A y \in Symbols : AtUpto(t, y)' /\ Forward(t, y)'
<1>1. OneWay(t) /\ \A y \in Symbols : AtUpto(t, y) /\ Forward(t, y)
  BY DEF MirrorInv
<1>2. OneWay(t)'
  BY <1>1 DEF OneWay, IsRows
<1>3. \A y \in Symbols : AtUpto(t, y)'
  BY <1>1 DEF AtUpto, Cached
<1>4. \A y \in Symbols : Forward(t, y)'
  BY <1>1 DEF Forward, IsRows
<1> QED BY <1>2, <1>3, <1>4

\* In an orderly feed what is sent of a move is nothing but the new places, or
\* nothing but a notice.
LEMMA OrderlyNews ==
    ASSUME NEW s \in Sources, InOrder(s), NEW y \in Symbols,
           NEW now \in [Symbols -> Nat], NEW news \in News(s, y, now)
    PROVE  /\ news \in Seq(Messages)
           /\ \A i \in 1..Len(news) :
                 /\ news[i].kind = "rows" <=> Feed[s].rows # "none"
                 /\ Feed[s].rows # "none" => news[i].places = now
<1>1. Feed[s] \in Feeds
  BY StreamConstantsOK
<1>2. Feed[s].rows # "none" => Rows(s, y, now).places = now
  <2>1. CASE Feed[s].rows = "all"
    BY <2>1 DEF Rows
  <2>2. CASE Feed[s].rows = "changed"
    <3>1. \A z \in Symbols : z = y
      BY <2>2 DEF InOrder
    <3>2. [Nowhere EXCEPT ![y] = now[y]] = now
      BY <3>1 DEF Nowhere
    <3> QED BY <2>2, <3>2 DEF Rows
  <2> QED BY <1>1, <2>1, <2>2 DEF Feeds
<1>3. Rows(s, y, now).kind = "rows" /\ Notice.kind = "notice"
  BY DEF Rows, Notice
<1>4. Feed[s].rows # "none" => ~Feed[s].notice
  BY DEF InOrder
<1> QED BY <1>2, <1>3, <1>4, NewsItems

LEMMA MirrorMove ==
    ASSUME AllInOrder, MirrorInv, NEW s \in Sources, NEW y \in Symbols, MasterMoves(s, y)
    PROVE  MirrorInv'
<1>1. TypeInv /\ TypeInv'
  BY TypeMove DEF MirrorInv
<1>2. UNCHANGED <<watched, pc, mode, told, left, cache, upto, copied>>
  BY DEF MasterMoves, mirrorVars
<1>3. InOrder(s)
  BY DEF AllInOrder
<1>4. /\ wire[s] \in Seq(Messages)
      /\ \A z \in Symbols : Len(hist[s][z]) \in Nat
      /\ \A z \in Symbols : upto[s][z] \in Nat /\ told[s].places[z] \in Nat
  BY <1>1 DEF TypeInv, TypeOK
<1>5. \A t \in Sources, z \in Symbols : AtUpto(t, z)'
  <2> TAKE t \in Sources, z \in Symbols
  <2>1. AtUpto(t, z)
    BY DEF MirrorInv
  <2>2. /\ Len(hist'[t][z]) \in Nat /\ Len(hist'[t][z]) >= Len(hist[t][z])
        /\ \A i \in 1..Len(hist[t][z]) : hist'[t][z][i] = hist[t][z][i]
    BY <1>1, MoveHist
  <2>3. Len(hist[t][z]) \in Nat
    BY <1>1 DEF TypeInv, TypeOK
  <2> QED BY <1>2, <2>1, <2>2, <2>3 DEF AtUpto, Cached
<1>6. CASE wire'[s] = wire[s]
  <2>1. \A t \in Sources : wire'[t] = wire[t]
    BY <1>1, <1>6, MoveWire
  <2>2. \A t \in Sources : OneWay(t)'
    BY <1>2, <2>1 DEF MirrorInv, OneWay, IsRows
  <2>3. \A t \in Sources, z \in Symbols : Forward(t, z)'
    BY <1>2, <2>1 DEF MirrorInv, Forward, IsRows
  <2> QED BY <1>1, <1>5, <2>2, <2>3 DEF MirrorInv
<1>7. ASSUME Subscribed(s), NEW news \in News(s, y, After(s)), wire'[s] = wire[s] \o news
      PROVE  MirrorInv'
  <2>1. After(s) \in [Symbols -> Nat]
    BY <1>1, MoveHist
  <2>2. /\ news \in Seq(Messages)
        /\ \A i \in 1..Len(news) : /\ news[i].kind = "rows" <=> Feed[s].rows # "none"
                                   /\ Feed[s].rows # "none" => news[i].places = After(s)
    BY <1>3, <1>7, <2>1, OrderlyNews
  <2>3. \A i \in 1..Len(wire'[s]) :
           \/ i \in 1..Len(wire[s]) /\ wire'[s][i] = wire[s][i]
           \/ /\ wire'[s][i].kind = "rows" <=> Feed[s].rows # "none"
              /\ Feed[s].rows # "none" => wire'[s][i].places = After(s)
    BY <1>4, <1>7, <2>2, ConcatItems
  <2>4. \A z \in Symbols :
           /\ upto[s][z] <= After(s)[z]
           /\ told[s].places[z] <= After(s)[z]
           /\ \A i \in 1..Len(wire[s]) : wire[s][i].places[z] <= After(s)[z]
    <3> TAKE z \in Symbols
    <3> DEFINE n == Len(hist[s][z])
    <3>1. n \in Nat /\ After(s)[z] \in Nat /\ n <= After(s)[z]
      BY <1>1, <1>4, <2>1, MoveHist DEF After
    <3>2. upto[s][z] \in 1..n
      BY DEF MirrorInv, AtUpto
    <3>3. told[s].places[z] \in 1..n /\ \A i \in 1..Len(wire[s]) : wire[s][i].places[z] \in 1..n
      BY <1>1 DEF TypeInv, InRange
    <3> HIDE DEF n
    <3> QED BY <3>1, <3>2, <3>3
  <2>5. OneWay(s)'
    <3>1. OneWay(s) /\ mode[s] = "ws"
      BY <1>7 DEF MirrorInv, Subscribed
    <3> QED BY <1>2, <2>3, <3>1 DEF OneWay, IsRows
  <2>6. \A z \in Symbols : Forward(s, z)'
    <3> TAKE z \in Symbols
    <3>1. Forward(s, z)
      BY DEF MirrorInv
    <3> DEFINE new(i) == i \in 1..Len(wire'[s]) /\ wire'[s][i].places = After(s)
               old(i) == i \in 1..Len(wire[s]) /\ wire'[s][i] = wire[s][i]
    <3>2. \A i \in 1..Len(wire'[s]) : IsRows(s, i)' => old(i) \/ new(i)
      BY <2>3 DEF IsRows
    <3>3. \A i \in 1..Len(wire'[s]) : old(i) => wire'[s][i].places[z] <= After(s)[z]
      BY <2>4
    <3>4. \A i, j \in 1..Len(wire'[s]) : IsRows(s, i)' /\ IsRows(s, j)' /\ i <= j =>
             wire'[s][i].places[z] <= wire'[s][j].places[z]
      <4> SUFFICES ASSUME NEW i \in 1..Len(wire'[s]), NEW j \in 1..Len(wire'[s]),
                          IsRows(s, i)', IsRows(s, j)', i <= j
                   PROVE  wire'[s][i].places[z] <= wire'[s][j].places[z]
        OBVIOUS
      <4>1. CASE new(i) /\ new(j)
        BY <2>1, <4>1
      <4>2. CASE old(i) /\ new(j)
        BY <3>3, <4>2
      <4>3. CASE old(i) /\ old(j)
        BY <3>1, <4>3 DEF Forward, IsRows
      <4>4. ~(~old(i) /\ new(i) /\ old(j) /\ ~new(j))
        <5>1. old(j) /\ i <= j => i \in 1..Len(wire[s])
          BY <1>4
        <5> QED BY <1>4, <1>7, <2>2, <5>1, ConcatProperties
      <4> QED BY <3>2, <4>1, <4>2, <4>3, <4>4
    <3>5. \A i \in 1..Len(wire'[s]) : IsRows(s, i)' =>
             /\ upto[s][z] <= wire'[s][i].places[z]
             /\ z \in left[s] => told[s].places[z] <= wire'[s][i].places[z]
      BY <2>4, <3>1, <3>2 DEF Forward, IsRows
    <3> QED BY <1>2, <3>1, <3>4, <3>5 DEF Forward
  <2>7. \A t \in Sources \ {s} : OneWay(t)' /\ \A z \in Symbols : Forward(t, z)'
    <3>1. \A t \in Sources \ {s} : wire'[t] = wire[t]
      BY <1>1, MoveWire
    <3>2. \A t \in Sources \ {s} : OneWay(t)'
      BY <1>2, <3>1 DEF MirrorInv, OneWay, IsRows
    <3>3. \A t \in Sources \ {s}, z \in Symbols : Forward(t, z)'
      BY <1>2, <3>1 DEF MirrorInv, Forward, IsRows
    <3> QED BY <3>2, <3>3
  <2> QED BY <1>1, <1>5, <2>5, <2>6, <2>7 DEF MirrorInv
<1> QED BY <1>1, <1>6, <1>7, MoveWire

LEMMA MirrorConnect ==
    ASSUME MirrorInv, NEW s \in Sources, Connect(s)
    PROVE  MirrorInv'
<1>1. TypeInv'
  BY TypeRest DEF MirrorInv
<1>2. /\ pc' = [pc EXCEPT ![s] = "listen"]
      /\ UNCHANGED <<hist, watched, mode, told, left, cache, upto, copied>>
      /\ \A t \in Sources \ {s} : pc'[t] = pc[t] /\ wire'[t] = wire[t]
      /\ pc[s] = "start" /\ pc'[s] = "listen"
  BY DEF Connect, masterVars, mirrorVars, MirrorInv, TypeInv, TypeOK
<1>3. \A t \in Sources \ {s} : OneWay(t)' /\ \A y \in Symbols : AtUpto(t, y)' /\ Forward(t, y)'
  BY <1>2, OthersForward
<1>4. \A y \in Symbols : AtUpto(s, y)'
  BY <1>2 DEF MirrorInv, AtUpto, Cached
<1>5. \A i \in 1..Len(wire'[s]) :
         /\ i = 1
         /\ IsRows(s, i)' <=> Feed[s].rows # "none"
         /\ Feed[s].rows # "none" => wire'[s][i].places = Now(s)
  BY DEF Connect, IsRows, Notice, MirrorInv, TypeInv, TypeOK
<1>6. mode[s] = "ws"
  BY <1>2 DEF MirrorInv, OneWay
<1>7. OneWay(s)'
  <2>1. OneWay(s)
    BY DEF MirrorInv
  <2> QED BY <1>2, <1>5, <1>6, <2>1 DEF OneWay
<1>8. ASSUME NEW y \in Symbols PROVE Forward(s, y)'
  <2>1. Forward(s, y) /\ AtUpto(s, y)
    BY DEF MirrorInv
  <2>2. upto[s][y] <= Now(s)[y] /\ told[s].places[y] <= Now(s)[y] /\ Now(s)[y] \in Nat
    BY <2>1, ToldPlaces DEF MirrorInv, TypeInv, InRange, AtUpto, Now
  <2>3. \A i \in 1..Len(wire'[s]) : IsRows(s, i)' => i = 1 /\ wire'[s][i].places[y] = Now(s)[y]
    BY <1>5
  <2> QED BY <1>2, <2>1, <2>2, <2>3 DEF Forward
<1> QED BY <1>1, <1>3, <1>4, <1>7, <1>8 DEF MirrorInv

LEMMA MirrorReceive ==
    ASSUME MirrorInv, NEW s \in Sources, Receive(s)
    PROVE  MirrorInv'
<1>1. TypeInv'
  BY TypeReceive DEF MirrorInv
<1> DEFINE w == wire[s]
           m == Head(wire[s])
<1>2. /\ UNCHANGED <<hist, watched, mode, cache, upto, copied>>
      /\ \A t \in Sources \ {s} : /\ pc'[t] = pc[t] /\ wire'[t] = wire[t]
                                  /\ told'[t] = told[t] /\ left'[t] = left[t]
      /\ pc[s] = "listen" /\ wire'[s] = Tail(w) /\ w # <<>> /\ w \in Seq(Messages)
  BY DEF Receive, Compare, masterVars, mirrorVars, MirrorInv, TypeInv, TypeOK
<1>3. \A t \in Sources \ {s} : OneWay(t)' /\ \A y \in Symbols : AtUpto(t, y)' /\ Forward(t, y)'
  BY <1>2, OthersForward
<1>4. \A y \in Symbols : AtUpto(s, y)'
  BY <1>2 DEF MirrorInv, AtUpto, Cached
<1>5. /\ m = w[1] /\ 1 \in 1..Len(w)
      /\ \A i \in 1..Len(wire'[s]) : i + 1 \in 1..Len(w) /\ wire'[s][i] = w[i + 1]
  BY <1>2
<1>6. OneWay(s) /\ mode[s] = "ws"
  BY <1>2 DEF MirrorInv, OneWay
<1>7. \/ IsRows(s, 1) /\ Compare(s, m.places, m.symbols)
      \/ ~IsRows(s, 1) /\ pc'[s] = "fetch" /\ told' = told /\ left' = left
  BY <1>5 DEF Receive, IsRows, MirrorInv, TypeInv, TypeOK
<1>8. OneWay(s)'
  <2>1. pc'[s] = "reconcile" \/ (~IsRows(s, 1) /\ pc'[s] = "fetch")
    BY <1>7 DEF Compare, MirrorInv, TypeInv, TypeOK
  <2>2. \A i \in 1..Len(wire'[s]) : IsRows(s, i)' <=> Feed[s].rows # "none"
    BY <1>5, <1>6 DEF OneWay, IsRows
  <2>3. ~IsRows(s, 1) => Feed[s].rows = "none"
    BY <1>5, <1>6 DEF OneWay
  <2> QED BY <1>2, <1>6, <2>1, <2>2, <2>3 DEF OneWay
<1>9. ASSUME NEW y \in Symbols PROVE Forward(s, y)'
  <2>1. Forward(s, y)
    BY DEF MirrorInv
  <2>2. \A i \in 1..Len(wire'[s]) : IsRows(s, i)' => i + 1 \in 1..Len(w) /\ IsRows(s, i + 1)
    BY <1>5 DEF IsRows
  <2>3. CASE IsRows(s, 1) /\ Compare(s, m.places, m.symbols)
    <3>1. told'[s].places = wire[s][1].places
      BY <1>5, <2>3 DEF Compare, MirrorInv, TypeInv, TypeOK
    <3>2. upto[s][y] <= wire[s][1].places[y]
      BY <1>5, <2>1, <2>3 DEF Forward
    <3>3. \A i \in 1..Len(wire'[s]) : IsRows(s, i)' =>
             /\ upto[s][y] <= wire'[s][i].places[y]
             /\ wire[s][1].places[y] <= wire'[s][i].places[y]
             /\ \A j \in 1..Len(wire'[s]) : IsRows(s, j)' /\ i <= j =>
                   wire'[s][i].places[y] <= wire'[s][j].places[y]
      <4> TAKE i \in 1..Len(wire'[s])
      <4> HAVE IsRows(s, i)'
      <4>1. i + 1 \in 1..Len(w) /\ IsRows(s, i + 1) /\ wire'[s][i] = w[i + 1] /\ 1 <= i + 1
        BY <1>5, <2>2
      <4>2. upto[s][y] <= w[i + 1].places[y] /\ w[1].places[y] <= w[i + 1].places[y]
        BY <1>5, <2>1, <2>3, <4>1 DEF Forward
      <4>3. ASSUME NEW j \in 1..Len(wire'[s]), IsRows(s, j)', i <= j
            PROVE  wire'[s][i].places[y] <= wire'[s][j].places[y]
        <5>1. j + 1 \in 1..Len(w) /\ IsRows(s, j + 1) /\ wire'[s][j] = w[j + 1]
          BY <1>5, <2>2, <4>3
        <5>2. i + 1 <= j + 1
          BY <4>3
        <5> QED BY <2>1, <4>1, <5>1, <5>2 DEF Forward
      <4> QED BY <4>1, <4>2, <4>3
    <3> QED BY <1>2, <3>1, <3>2, <3>3 DEF Forward
  <2>4. CASE ~IsRows(s, 1) /\ told' = told /\ left' = left
    BY <1>2, <1>5, <2>1, <2>2, <2>4 DEF Forward
  <2> QED BY <1>7, <2>3, <2>4
<1> QED BY <1>1, <1>3, <1>4, <1>8, <1>9 DEF MirrorInv

LEMMA MirrorFetch ==
    ASSUME MirrorInv, NEW s \in Sources, Fetch(s)
    PROVE  MirrorInv'
<1>1. TypeInv'
  BY TypeFetch DEF MirrorInv
<1>2. /\ UNCHANGED <<hist, watched, mode, wire, cache, upto, copied>>
      /\ \A t \in Sources \ {s} : /\ pc'[t] = pc[t] /\ told'[t] = told[t]
                                  /\ left'[t] = left[t]
      /\ pc[s] \in {"fetch", "poll"} /\ pc'[s] = "reconcile" /\ told'[s].places = Now(s)
  BY DEF Fetch, Compare, masterVars, mirrorVars, MirrorInv, TypeInv, TypeOK
<1>3. \A t \in Sources \ {s} : OneWay(t)' /\ \A y \in Symbols : AtUpto(t, y)' /\ Forward(t, y)'
  BY <1>2, OthersForward
<1>4. \A y \in Symbols : AtUpto(s, y)'
  BY <1>2 DEF MirrorInv, AtUpto, Cached
<1>5. OneWay(s)
  BY DEF MirrorInv
<1>6. \A i \in 1..Len(wire[s]) : ~IsRows(s, i)
  BY <1>2, <1>5 DEF OneWay
<1>7. OneWay(s)'
  BY <1>2, <1>5 DEF OneWay, IsRows
<1>8. ASSUME NEW y \in Symbols PROVE Forward(s, y)'
  <2>1. upto[s][y] <= Now(s)[y]
    BY ToldPlaces DEF MirrorInv, AtUpto, Now
  <2> QED BY <1>2, <1>6, <2>1 DEF Forward, IsRows
<1> QED BY <1>1, <1>3, <1>4, <1>7, <1>8 DEF MirrorInv

LEMMA MirrorReconcile ==
    ASSUME MirrorInv, NEW s \in Sources, Reconcile(s)
    PROVE  /\ MirrorInv'
           /\ \/ UNCHANGED <<hist, upto, copied>>
              \/ \E y \in Symbols : Master!Follow(s, y)
<1>1. TypeInv /\ TypeInv'
  BY TypeReconcile DEF MirrorInv
<1>2. PICK y \in left[s] :
         /\ left' = [left EXCEPT ![s] = @ \ {y}]
         /\ \/ /\ Differs(s, y) /\ SetCache(s, y)
               /\ upto' = [upto EXCEPT ![s][y] = told[s].places[y]]
               /\ copied' = [copied EXCEPT ![s][y] =
                     @ + Quantity(s, y, told[s].places[y]) - Cached(s, y)]
            \/ UNCHANGED <<cache, upto, copied>>
  BY DEF Reconcile
<1> DEFINE place == told[s].places[y]
           q == hist[s][y][place]
<1>3. y \in Symbols /\ left'[s] = left[s] \ {y} /\ \A t \in Sources \ {s} : left'[t] = left[t]
  BY <1>1, <1>2 DEF TypeInv, TypeOK
<1>4. UNCHANGED <<hist, watched, pc, mode, wire, told>>
  BY DEF Reconcile, masterVars
<1>5. \A t \in Sources : OneWay(t)'
  BY <1>4 DEF MirrorInv, OneWay, IsRows
<1>6. CASE UNCHANGED <<cache, upto, copied>>
  <2>1. \A t \in Sources, z \in Symbols : AtUpto(t, z)' /\ Forward(t, z)'
    <3> TAKE t \in Sources, z \in Symbols
    <3>1. AtUpto(t, z) /\ Forward(t, z)
      BY DEF MirrorInv
    <3>2. left'[t] \subseteq left[t]
      BY <1>3
    <3> QED BY <1>4, <1>6, <3>1, <3>2 DEF AtUpto, Cached, Forward, IsRows
  <2> QED BY <1>1, <1>4, <1>5, <1>6, <2>1 DEF MirrorInv
<1>7. CASE /\ Differs(s, y) /\ SetCache(s, y)
           /\ upto' = [upto EXCEPT ![s][y] = place]
           /\ copied' = [copied EXCEPT ![s][y] =
                 @ + Quantity(s, y, place) - Cached(s, y)]
  <2>1. AtUpto(s, y) /\ Forward(s, y)
    BY <1>3 DEF MirrorInv
  <2>2. /\ place \in 1..Len(hist[s][y]) /\ Len(hist[s][y]) \in Nat
        /\ q \in Int /\ Cached(s, y) \in Int
    <3>1. place \in 1..Len(hist[s][y])
      BY <1>1, <1>3 DEF TypeInv, InRange
    <3>2. Len(hist[s][y]) \in Nat
      BY <1>1, <1>3 DEF TypeInv, TypeOK
    <3>3. q \in Int /\ Cached(s, y) \in Int
      BY <1>1, <1>3, Quantum DEF Quantity
    <3> QED BY <3>1, <3>2, <3>3
  <2>3. copied[s][y] + q - Cached(s, y) = q
    BY <2>1, <2>2 DEF AtUpto
  <2>4. /\ upto \in [Sources -> [Symbols -> Nat]]
        /\ copied \in [Sources -> [Symbols -> Int]]
        /\ cache \in [Sources -> Caches]
    BY <1>1 DEF TypeInv, TypeOK, Caches
  <2> HIDE DEF place, q
  <2>5. upto' = [upto EXCEPT ![s][y] = place]
    BY <1>7
  <2>6. copied' = [copied EXCEPT ![s][y] = q]
    BY <1>7, <2>3, <2>4, <1>3 DEF q, Quantity
  <2>7. /\ \A t \in Sources, z \in Symbols : ~(t = s /\ z = y) =>
              upto'[t][z] = upto[t][z] /\ copied'[t][z] = copied[t][z]
        /\ upto'[s][y] = place /\ copied'[s][y] = q
    BY <1>3, <2>4, <2>5, <2>6
  <2>8. cache' = [cache EXCEPT ![s] =
                     [z \in DOMAIN @ \cup {y} |-> IF z = y THEN q ELSE @[z]]]
    BY <1>7 DEF SetCache, Quantity, q, place
  <2>9. /\ cache'[s] = [z \in DOMAIN cache[s] \cup {y} |-> IF z = y THEN q ELSE cache[s][z]]
        /\ \A t \in Sources \ {s} : cache'[t] = cache[t]
    BY <2>4, <2>8
  <2>10. /\ Cached(s, y)' = q
         /\ \A t \in Sources, z \in Symbols : ~(t = s /\ z = y) => Cached(t, z)' = Cached(t, z)
    BY <2>9 DEF Cached
  <2>11. \A t \in Sources, z \in Symbols : AtUpto(t, z)'
    <3> TAKE t \in Sources, z \in Symbols
    <3>1. AtUpto(t, z)
      BY DEF MirrorInv
    <3>2. CASE t = s /\ z = y
      BY <1>4, <2>2, <2>7, <2>10, <3>2 DEF AtUpto, q
    <3>3. CASE ~(t = s /\ z = y)
      BY <1>4, <2>7, <2>10, <3>1, <3>3 DEF AtUpto
    <3> QED BY <3>2, <3>3
  <2>12. \A t \in Sources, z \in Symbols : Forward(t, z)'
    <3> TAKE t \in Sources, z \in Symbols
    <3>1. Forward(t, z)
      BY DEF MirrorInv
    <3>2. CASE t = s /\ z = y
      <4>1. y \notin left'[s]
        BY <1>3
      <4>2. \A i \in 1..Len(wire[s]) : IsRows(s, i) => place <= wire[s][i].places[y]
        BY <2>1 DEF Forward, place
      <4> QED BY <1>4, <2>7, <3>1, <3>2, <4>1, <4>2 DEF Forward, IsRows
    <3>3. CASE ~(t = s /\ z = y)
      <4>1. left'[t] \subseteq left[t] /\ upto'[t][z] = upto[t][z]
        BY <1>3, <2>7, <3>3
      <4> QED BY <1>4, <3>1, <4>1 DEF Forward, IsRows
    <3> QED BY <3>2, <3>3
  <2>13. Master!Follow(s, y)
    <3>1. upto[s][y] <= place
      BY <2>1 DEF Forward, place
    <3>2. upto[s][y] # place
      BY <1>7, <2>1 DEF Differs, Quantity, AtUpto, place
    <3>3. place \in upto[s][y] + 1 .. Len(hist[s][y])
      BY <2>1, <2>2, <3>1, <3>2 DEF AtUpto
    <3> QED BY <1>4, <2>5, <2>6, <3>3 DEF Master!Follow, q
  <2> QED BY <1>1, <1>3, <1>5, <2>11, <2>12, <2>13 DEF MirrorInv
<1> QED BY <1>2, <1>6, <1>7

LEMMA MirrorEnd ==
    ASSUME MirrorInv, NEW s \in Sources, EndReconcile(s)
    PROVE  MirrorInv'
<1>1. TypeInv'
  BY TypeRest DEF MirrorInv
<1>2. /\ UNCHANGED <<hist, watched, mode, wire, left, cache, upto, copied>>
      /\ \A t \in Sources \ {s} : pc'[t] = pc[t] /\ told'[t] = told[t]
      /\ left[s] = {} /\ pc[s] = "reconcile"
      /\ pc'[s] = IF mode[s] = "ws" THEN "listen" ELSE "poll"
      /\ mode[s] \in {"ws", "poll"}
  BY DEF EndReconcile, masterVars, mirrorVars, MirrorInv, TypeInv, TypeOK
<1>3. \A t \in Sources \ {s} : OneWay(t)' /\ \A y \in Symbols : AtUpto(t, y)' /\ Forward(t, y)'
  BY <1>2, OthersForward
<1>4. OneWay(s) /\ \A y \in Symbols : AtUpto(s, y) /\ Forward(s, y)
  BY DEF MirrorInv
<1>5. OneWay(s)'
  BY <1>2, <1>4 DEF OneWay, IsRows
<1>6. \A y \in Symbols : AtUpto(s, y)'
  BY <1>2, <1>4 DEF AtUpto, Cached
<1>7. \A y \in Symbols : Forward(s, y)'
  BY <1>2, <1>4 DEF Forward, IsRows
<1> QED BY <1>1, <1>3, <1>5, <1>6, <1>7 DEF MirrorInv

LEMMA MirrorRaises ==
    ASSUME MirrorInv, NEW s \in Sources, ListenerRaises(s)
    PROVE  MirrorInv'
<1>1. TypeInv'
  BY TypeRest DEF MirrorInv
<1>2. /\ UNCHANGED <<hist, watched, cache, upto, copied>>
      /\ pc[s] # "off"
  BY DEF ListenerRaises, masterVars, mirrorVars
<1>3. \A t \in Sources \ {s} : /\ pc'[t] = pc[t] /\ told'[t] = told[t] /\ wire'[t] = wire[t]
                               /\ left'[t] = left[t] /\ mode'[t] = mode[t]
  BY DEF ListenerRaises, MirrorInv, TypeInv, TypeOK
<1>4. /\ wire'[s] = <<>> /\ left'[s] = {}
      /\ \/ pc'[s] = "fallback" /\ mode'[s] = "poll"
         \/ pc'[s] = "backoff"
  BY DEF ListenerRaises, MirrorInv, TypeInv, TypeOK
<1>5. \A t \in Sources \ {s} : OneWay(t)' /\ \A y \in Symbols : AtUpto(t, y)' /\ Forward(t, y)'
  BY <1>2, <1>3, OthersForward
<1>6. OneWay(s) /\ \A y \in Symbols : AtUpto(s, y)
  BY DEF MirrorInv
<1>7. OneWay(s)'
  BY <1>2, <1>4, <1>6 DEF OneWay
<1>8. \A y \in Symbols : AtUpto(s, y)' /\ Forward(s, y)'
  BY <1>2, <1>4, <1>6 DEF AtUpto, Cached, Forward
<1> QED BY <1>1, <1>5, <1>7, <1>8 DEF MirrorInv

\* The steps that neither read nor tell a position.
LEMMA MirrorRest ==
    ASSUME MirrorInv,
           \/ \E s \in Sources : EditSource(s) \/ StartPolling(s) \/ Retry(s)
           \/ Scan
           \/ UNCHANGED vars
    PROVE  MirrorInv'
<1>1. TypeInv /\ TypeInv'
  BY TypeRest, TypeStutter DEF MirrorInv
<1>2. UNCHANGED <<hist, wire, told, left, cache, upto, copied>>
  BY DEF EditSource, StartPolling, Retry, Scan, vars, masterVars, taskVars, mirrorVars
<1>3. \A t \in Sources, y \in Symbols : AtUpto(t, y)' /\ Forward(t, y)'
  BY <1>2 DEF MirrorInv, AtUpto, Cached, Forward, IsRows
<1>4. \A t \in Sources : OneWay(t)'
  <2> TAKE t \in Sources
  <2>1. OneWay(t) /\ pc[t] \in Steps
    BY <1>1 DEF MirrorInv, TypeInv, TypeOK
  <2>2. CASE pc'[t] = pc[t] /\ mode'[t] = mode[t] /\ watched' = watched
    BY <1>2, <2>1, <2>2 DEF OneWay, IsRows
  <2>3. CASE StartPolling(t)
    <3>1. pc[t] = "fallback" /\ pc'[t] = "poll" /\ mode' = mode /\ watched' = watched
      BY <1>1, <2>3 DEF StartPolling, TypeInv, TypeOK
    <3> QED BY <1>2, <2>1, <3>1 DEF OneWay, IsRows
  <2>4. CASE Retry(t)
    <3>1. pc[t] = "backoff" /\ pc'[t] = "start" /\ mode'[t] = "ws" /\ watched' = watched
      BY <1>1, <2>4 DEF Retry, TypeInv, TypeOK
    <3> QED BY <1>2, <2>1, <3>1 DEF OneWay, IsRows
  <2>5. CASE Scan
    <3>1. pc[t] = "off" /\ pc'[t] \in {"start", "off"} /\ mode' = mode /\ watched' # {}
      BY <2>1, <2>5 DEF Scan, OneWay
    <3> QED BY <1>2, <2>1, <3>1 DEF OneWay, IsRows
  <2>6. ASSUME NEW s \in Sources, s # t, StartPolling(s) \/ Retry(s)
        PROVE  pc'[t] = pc[t] /\ mode'[t] = mode[t] /\ watched' = watched
    BY <1>1, <2>6 DEF StartPolling, Retry, TypeInv, TypeOK
  <2>7. ASSUME (\E s \in Sources : EditSource(s)) \/ UNCHANGED vars
        PROVE  pc'[t] = pc[t] /\ mode'[t] = mode[t] /\ watched' = watched
    BY <2>7 DEF EditSource, vars, taskVars
  <2> QED BY <2>2, <2>3, <2>4, <2>5, <2>6, <2>7
<1> QED BY <1>1, <1>3, <1>4 DEF MirrorInv

LEMMA MirrorNext0 ==
    ASSUME AllInOrder, MirrorInv, [Next]_vars
    PROVE  MirrorInv' /\ [Master!MirrorNext]_(Master!mirrorVars)
<1> USE DEF Master!mirrorVars
<1>1. ASSUME NEW s \in Sources, NEW y \in Symbols, MasterMoves(s, y)
      PROVE  MirrorInv' /\ Master!MirrorNext
  <2>1. \E q \in Quantities : hist' = [hist EXCEPT ![s][y] = Append(@, q)]
    BY <1>1, MoveHist DEF MirrorInv
  <2>2. UNCHANGED <<upto, copied>>
    BY <1>1 DEF MasterMoves, mirrorVars
  <2>3. Master!Move(s, y)
    BY <2>1, <2>2 DEF Master!Move
  <2> QED BY <1>1, <2>3, MirrorMove DEF Master!MirrorNext
<1>2. ASSUME NEW s \in Sources, Reconcile(s)
      PROVE  MirrorInv' /\ [Master!MirrorNext]_(Master!mirrorVars)
  BY <1>2, MirrorReconcile DEF Master!MirrorNext
<1>3. ASSUME NEW s \in Sources, \/ Connect(s) \/ Receive(s) \/ Fetch(s)
                                \/ EndReconcile(s) \/ ListenerRaises(s)
      PROVE  MirrorInv' /\ UNCHANGED <<hist, upto, copied>>
  <2>1. MirrorInv'
    BY <1>3, MirrorConnect, MirrorReceive, MirrorFetch, MirrorEnd, MirrorRaises
  <2> QED BY <1>3, <2>1 DEF Connect, Receive, Fetch, EndReconcile, ListenerRaises,
                            masterVars, mirrorVars
<1>4. ASSUME \/ \E s \in Sources : EditSource(s) \/ StartPolling(s) \/ Retry(s)
             \/ Scan
             \/ UNCHANGED vars
      PROVE  MirrorInv' /\ UNCHANGED <<hist, upto, copied>>
  <2>1. MirrorInv'
    BY <1>4, MirrorRest
  <2> QED BY <1>4, <2>1 DEF EditSource, StartPolling, Retry, Scan, vars, masterVars, mirrorVars
<1>5. ASSUME NEW s \in Sources PROVE ~FetchError(s) /\ ~LoseEmission(s)
  BY DEF AllInOrder, InOrder, FetchError, LoseEmission, MirrorInv, TypeInv, TypeOK
<1>6. ~WorkerCrash
  BY DEF AllInOrder, WorkerCrash, MirrorInv, TypeInv, TypeOK
<1> QED BY <1>1, <1>2, <1>3, <1>4, <1>5, <1>6 DEF Next, SourceStep

\* For every number of sources, symbols and failures of an orderly feed: what is
\* emitted adds up to a position the master had, and moves along its history
\* only, through reconnections and the fallback to polling.
THEOREM Mirrors == ASSUME AllInOrder PROVE Spec => MirrorsMaster
<1>1. Init => Master!MirrorInit
  BY DEF Init, Master!MirrorInit
<1>2. MirrorInv /\ [Next]_vars => MirrorInv' /\ [Master!MirrorNext]_(Master!mirrorVars)
  BY MirrorNext0
<1> QED BY MirrorInit0, <1>1, <1>2, PTL DEF Spec, MirrorsMaster, Master!Mirror

-----------------------------------------------------------------------------
(* The status an operator reads.                                            *)

\* Where the task is and by which listener; the status is carried through a
\* reconciliation, which may end without setting it.
StatusFits(s) ==
    /\ pc[s] \in {"poll", "fallback"} => mode[s] = "poll"
    /\ pc[s] \in {"off", "start", "listen", "fetch"} => mode[s] = "ws"
    /\ watched = {} => pc[s] = "off"
    /\ \/ pc[s] \in {"listen", "fetch"}
       \/ pc[s] = "reconcile" /\ mode[s] = "ws"
       => status[s] \in {"CONNECTED", "ACTIVE"}
    /\ \/ pc[s] = "poll"
       \/ pc[s] = "reconcile" /\ mode[s] = "poll"
       => status[s] = "POLLING"
    /\ pc[s] = "backoff" => status[s] = "ERROR"

StatusInv == TypeOK /\ \A s \in Sources : StatusFits(s)

LEMMA StatusOthers ==
    ASSUME StatusInv, NEW t \in Sources, pc'[t] = pc[t], mode'[t] = mode[t],
           status'[t] = status[t], watched' = watched
    PROVE  StatusFits(t)'
  BY DEF StatusInv, StatusFits

LEMMA StatusStep ==
    ASSUME StatusInv, TypeOK', NEW s \in Sources, NEW t \in Sources,
           \/ SourceStep(s) \/ FetchError(s) \/ LoseEmission(s) \/ ListenerRaises(s)
           \/ EditSource(s) \/ \E y \in Symbols : MasterMoves(s, y)
    PROVE  StatusFits(t)'
<1> USE DEF TypeOK, Steps
<1>1. StatusFits(t) /\ StatusFits(s) /\ TypeOK
  BY DEF StatusInv
<1>2. CASE Connect(s)
  <2>1. CASE t = s
    <3>1. /\ pc[s] = "start" /\ pc'[s] = "listen" /\ status'[s] = "CONNECTED"
          /\ mode' = mode /\ watched' = watched
      BY <1>1, <1>2 DEF Connect
    <3> QED BY <1>1, <2>1, <3>1 DEF StatusFits
  <2>2. CASE t # s
    <3>1. pc'[t] = pc[t] /\ mode'[t] = mode[t] /\ status'[t] = status[t] /\ watched' = watched
      BY <1>1, <1>2, <2>2 DEF Connect
    <3> QED BY <3>1, StatusOthers
  <2> QED BY <2>1, <2>2
<1>3. CASE Receive(s)
  <2>1. CASE t = s
    <3>1. /\ pc[s] = "listen" /\ pc'[s] \in {"reconcile", "fetch"}
          /\ status' = status /\ mode' = mode /\ watched' = watched
      BY <1>1, <1>3 DEF Receive, Compare
    <3> QED BY <1>1, <2>1, <3>1 DEF StatusFits
  <2>2. CASE t # s
    <3>1. pc'[t] = pc[t] /\ mode'[t] = mode[t] /\ status'[t] = status[t] /\ watched' = watched
      BY <1>1, <1>3, <2>2 DEF Receive, Compare
    <3> QED BY <3>1, StatusOthers
  <2> QED BY <2>1, <2>2
<1>4. CASE Fetch(s) \/ FetchError(s)
  BY <1>1, <1>4 DEF Fetch, FetchError, Compare, StatusFits
<1>5. CASE Reconcile(s) \/ LoseEmission(s)
  <2>1. UNCHANGED <<pc, mode, status, watched>>
    BY <1>5 DEF Reconcile, LoseEmission
  <2> QED BY <2>1, StatusOthers
<1>6. CASE EndReconcile(s)
  <2>1. CASE t = s
    <3>1. /\ pc[s] = "reconcile" /\ mode[s] \in {"ws", "poll"}
          /\ pc'[s] = IF mode[s] = "ws" THEN "listen" ELSE "poll"
          /\ \/ status'[s] = status[s]
             \/ status'[s] = IF mode[s] = "ws" THEN "ACTIVE" ELSE "POLLING"
          /\ mode' = mode /\ watched' = watched
      BY <1>1, <1>6 DEF EndReconcile
    <3> QED BY <1>1, <2>1, <3>1 DEF StatusFits
  <2>2. CASE t # s
    <3>1. pc'[t] = pc[t] /\ mode'[t] = mode[t] /\ status'[t] = status[t] /\ watched' = watched
      BY <1>1, <1>6, <2>2 DEF EndReconcile
    <3> QED BY <3>1, StatusOthers
  <2> QED BY <2>1, <2>2
<1>7. CASE StartPolling(s)
  BY <1>1, <1>7 DEF StartPolling, StatusFits
<1>8. CASE Retry(s)
  BY <1>1, <1>8 DEF Retry, StatusFits
<1>9. CASE ListenerRaises(s)
  <2>1. CASE t = s
    BY <1>1, <1>9, <2>1 DEF ListenerRaises, StatusFits
  <2>2. CASE t # s
    <3>1. pc'[t] = pc[t] /\ mode'[t] = mode[t] /\ status'[t] = status[t] /\ watched' = watched
      BY <1>1, <1>9, <2>2 DEF ListenerRaises
    <3> QED BY <3>1, StatusOthers
  <2> QED BY <2>1, <2>2
<1>10. CASE EditSource(s) \/ \E y \in Symbols : MasterMoves(s, y)
  <2>1. UNCHANGED <<pc, mode, status, watched>>
    BY <1>10 DEF EditSource, MasterMoves, taskVars
  <2> QED BY <2>1, StatusOthers
<1> QED BY <1>2, <1>3, <1>4, <1>5, <1>6, <1>7, <1>8, <1>9, <1>10 DEF SourceStep

LEMMA StatusNext == TypeInv /\ StatusInv /\ [Next]_vars => StatusInv'
<1> SUFFICES ASSUME TypeInv, StatusInv, [Next]_vars PROVE StatusInv'
  OBVIOUS
<1>1. TypeOK'
  BY TypeNext DEF TypeInv
<1> SUFFICES ASSUME NEW t \in Sources PROVE StatusFits(t)'
  BY <1>1 DEF StatusInv
<1>2. CASE Scan
  BY <1>2 DEF Scan, StatusInv, StatusFits
<1>3. CASE WorkerCrash
  BY <1>3 DEF WorkerCrash, StatusInv, StatusFits
<1>4. CASE UNCHANGED vars
  BY <1>4, StatusOthers DEF vars, taskVars
<1> QED BY <1>1, <1>2, <1>3, <1>4, StatusStep DEF Next

\* POLLING is shown whenever the REST fallback polls, ERROR while the task waits
\* and CONNECTED or ACTIVE while it listens, through failures and restarts.
THEOREM StatusTells == Spec => []StatusTellsTheMode
<1>1. Init => StatusInv
  BY TypeInit DEF TypeInv, StatusInv, StatusFits, Init
<1>2. StatusInv => StatusTellsTheMode
  BY DEF StatusInv, StatusFits, StatusTellsTheMode
<1> QED BY TypeInit, TypeNext, <1>1, StatusNext, <1>2, PTL DEF Spec
=============================================================================
