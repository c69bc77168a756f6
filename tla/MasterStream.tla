----------------------------- MODULE MasterStream -----------------------------
(***************************************************************************)
(* services/private_streams.py: MasterStreamSupervisor listens to the       *)
(* master accounts, over a private websocket or by polling, compares the    *)
(* positions it is told with its cache and emits a master fill for every    *)
(* symbol that differs. One task per source; the sources share the          *)
(* supervisor's list and the fate of the worker process.                    *)
(*                                                                         *)
(* A position is told as the place it has in the master's history, so that *)
(* what a message or an answer says can be compared with what was true when *)
(* it was made. Place 1 is the flat account everything starts from.         *)
(***************************************************************************)
EXTENDS Integers, Sequences

CONSTANTS
    Sources,     \* signal source rows with credentials
    Symbols,
    Quantities,  \* signed position quantities of the master
    Feed,        \* source -> what its exchange sends and how it is handled
    MaxMoves,    \* bound on the changes of one position
    MaxDrops,    \* bound on failed connections and calls
    MaxLosses,   \* bound on fills that the ingest did not take
    MaxCrashes   \* bound on the ends of the worker process

\* rows: what a position message lists, the symbols that changed, all of them,
\* or there is none. notice: whether there are order messages, handled by a
\* REST call. greets: whether a subscription is answered by a first message.
\* falls: _listen_with_poll_fallback (OKX, Kraken, BitMEX, Gate.io, Coinbase)
\* or not (Binance, Bybit). quiet: an error can be answered like an account
\* without positions.
Feeds == [rows : {"none", "changed", "all"}, notice : BOOLEAN, greets : BOOLEAN,
          falls : BOOLEAN, quiet : BOOLEAN]

ASSUME StreamConstantsOK ==
    /\ 0 \in Quantities
    /\ Quantities \subseteq Int
    /\ Feed \in [Sources -> Feeds]
    /\ MaxMoves \in Nat
    /\ MaxDrops \in Nat
    /\ MaxLosses \in Nat
    /\ MaxCrashes \in Nat

VARIABLES
    hist,     \* per source and symbol: the master's positions, in order
    stored,   \* status column of the source row
    status,   \* stream_status column of the source row
    watched,  \* the sources run_forever gathered, {} while it has none
    pc, mode, \* per source: where its task is, and by which listener
    wire,     \* messages the websocket has not delivered yet
    cache,    \* _position_cache: symbol -> quantity for the symbols it knows
    told,     \* the positions being reconciled: places, and the symbols listed
    left,     \* symbols the reconciliation has not come to
    upto,     \* the place that was emitted last
    copied,   \* sum of the changes the ingest took
    drops, losses, crashes

faultVars == <<drops, losses, crashes>>
masterVars == <<hist, stored>>
taskVars == <<pc, mode, wire, told, left>>
mirrorVars == <<cache, upto, copied>>
vars == <<masterVars, status, watched, taskVars, mirrorVars, faultVars>>

Statuses == {"OFFLINE", "CONNECTED", "ACTIVE", "POLLING", "ERROR"}
Steps == {"off", "start", "listen", "fetch", "reconcile", "fallback", "poll", "backoff"}

Now(s) == [y \in Symbols |-> Len(hist[s][y])]
Quantity(s, y, place) == hist[s][y][place]
Cached(s, y) == IF y \in DOMAIN cache[s] THEN cache[s][y] ELSE 0
Nowhere == [y \in Symbols |-> 1]
Nothing == [places |-> Nowhere, symbols |-> {}]
NoCache == [y \in {} |-> 0]

\* What a position message tells after symbol y moved: a symbol that is not
\* listed is read as flat, which was last true at the start.
Rows(s, y, now) ==
    IF Feed[s].rows = "changed"
    THEN [kind |-> "rows", places |-> [Nowhere EXCEPT ![y] = now[y]], symbols |-> {y}]
    ELSE [kind |-> "rows", places |-> now, symbols |-> Symbols]
Notice == [kind |-> "notice", places |-> Nowhere, symbols |-> {}]
Messages == [kind : {"rows", "notice"}, places : [Symbols -> Nat],
             symbols : SUBSET Symbols]

Init ==
    /\ hist = [s \in Sources |-> [y \in Symbols |-> <<0>>]]
    /\ stored \in [Sources -> {"ACTIVE", "PAUSED"}]
    /\ status = [s \in Sources |-> "OFFLINE"]
    /\ watched = {}
    /\ pc = [s \in Sources |-> "off"]
    /\ mode = [s \in Sources |-> "ws"]
    /\ wire = [s \in Sources |-> <<>>]
    /\ cache = [s \in Sources |-> NoCache]
    /\ told = [s \in Sources |-> Nothing]
    /\ left = [s \in Sources |-> {}]
    /\ upto = [s \in Sources |-> [y \in Symbols |-> 1]]
    /\ copied = [s \in Sources |-> [y \in Symbols |-> 0]]
    /\ drops = 0 /\ losses = 0 /\ crashes = 0

-----------------------------------------------------------------------------
(* Outside: the master trades, the exchange sends, the operator edits.      *)

Subscribed(s) == mode[s] = "ws" /\ pc[s] \in {"listen", "fetch", "reconcile"}

\* A change of the master's position; the exchange tells every subscriber, the
\* position and the order message in either order.
MasterMoves(s, y) ==
    /\ Len(hist[s][y]) <= MaxMoves
    /\ \E q \in Quantities \ {Quantity(s, y, Now(s)[y])} :
          hist' = [hist EXCEPT ![s][y] = Append(@, q)]
    /\ LET now == [Now(s) EXCEPT ![y] = @ + 1]
           rows == IF Feed[s].rows = "none" THEN <<>> ELSE <<Rows(s, y, now)>>
           notice == IF Feed[s].notice THEN <<Notice>> ELSE <<>>
       IN  IF Subscribed(s)
           THEN \E news \in {rows \o notice, notice \o rows} :
                   wire' = [wire EXCEPT ![s] = @ \o news]
           ELSE UNCHANGED wire
    /\ UNCHANGED <<stored, status, watched, pc, mode, told, left, mirrorVars, faultVars>>

\* PATCH /signal-sources sets the status column; nothing tells the supervisor.
EditSource(s) ==
    /\ stored' = [stored EXCEPT ![s] = IF @ = "ACTIVE" THEN "PAUSED" ELSE "ACTIVE"]
    /\ UNCHANGED <<hist, status, watched, taskVars, mirrorVars, faultVars>>

-----------------------------------------------------------------------------
\* run_forever: the active sources are listed and gathered. The gather never
\* returns, since a listener's task has no end, so the list is read once.
Scan ==
    /\ watched = {}
    /\ watched' = {s \in Sources : stored[s] = "ACTIVE"}
    /\ watched' # {}
    /\ pc' = [s \in Sources |-> IF s \in watched' THEN "start" ELSE "off"]
    /\ UNCHANGED <<masterVars, status, mode, wire, told, left, mirrorVars, faultVars>>

\* The listener of the exchange connects and subscribes; nothing is fetched.
Connect(s) ==
    /\ pc[s] = "start"
    /\ pc' = [pc EXCEPT ![s] = "listen"]
    /\ status' = [status EXCEPT ![s] = "CONNECTED"]
    /\ wire' = [wire EXCEPT ![s] =
          IF ~Feed[s].greets THEN <<>>
          ELSE IF Feed[s].rows = "none" THEN <<Notice>>
          ELSE <<[kind |-> "rows", places |-> Now(s), symbols |-> Symbols]>>]
    /\ UNCHANGED <<masterVars, watched, mode, told, left, mirrorVars, faultVars>>

\* Mutant of Compare: only the listed symbols, so that no position closes.
CompareListed(s, places, symbols) ==
    /\ pc' = [pc EXCEPT ![s] = "reconcile"]
    /\ told' = [told EXCEPT ![s] = [places |-> places, symbols |-> symbols]]
    /\ left' = [left EXCEPT ![s] = symbols]

\* _reconcile_positions begins: the listed symbols and the cached ones.
Compare(s, places, symbols) ==
    /\ pc' = [pc EXCEPT ![s] = "reconcile"]
    /\ told' = [told EXCEPT ![s] = [places |-> places, symbols |-> symbols]]
    /\ left' = [left EXCEPT ![s] = symbols \cup DOMAIN cache[s]]

\* Mutant of Receive: order messages are dropped.
ReceiveRowsOnly(s) ==
    /\ pc[s] = "listen"
    /\ wire[s] # <<>>
    /\ LET m == Head(wire[s])
       IN  IF m.kind = "rows" THEN Compare(s, m.places, m.symbols)
           ELSE UNCHANGED <<pc, told, left>>
    /\ wire' = [wire EXCEPT ![s] = Tail(@)]
    /\ UNCHANGED <<masterVars, status, watched, mode, mirrorVars, faultVars>>

\* One message: positions are reconciled, an order message asks for a refresh.
Receive(s) ==
    /\ pc[s] = "listen"
    /\ wire[s] # <<>>
    /\ LET m == Head(wire[s])
       IN  IF m.kind = "rows" THEN Compare(s, m.places, m.symbols)
           ELSE pc' = [pc EXCEPT ![s] = "fetch"] /\ UNCHANGED <<told, left>>
    /\ wire' = [wire EXCEPT ![s] = Tail(@)]
    /\ UNCHANGED <<masterVars, status, watched, mode, mirrorVars, faultVars>>

\* fetch_open_positions, for a refresh or for a poll: the open positions.
Fetch(s) ==
    /\ pc[s] \in {"fetch", "poll"}
    /\ Compare(s, Now(s), {y \in Symbols : Quantity(s, y, Now(s)[y]) # 0})
    /\ UNCHANGED <<masterVars, status, watched, mode, wire, mirrorVars, faultVars>>

\* The exchange answers with an error the adapter does not look at: an answer
\* of OKX with a code other than 0, of Coinbase with status 404.
FetchError(s) ==
    /\ pc[s] \in {"fetch", "poll"}
    /\ Feed[s].quiet
    /\ drops < MaxDrops
    /\ drops' = drops + 1
    /\ Compare(s, Nowhere, {})
    /\ UNCHANGED <<masterVars, status, watched, mode, wire, mirrorVars, losses, crashes>>

\* Mutant of SetCache: the change is kept instead of the quantity.
SetCacheToChange(s, y) ==
    LET q == Quantity(s, y, told[s].places[y]) - Cached(s, y)
    IN  cache' = [cache EXCEPT ![s] = [z \in DOMAIN @ \cup {y} |-> IF z = y THEN q ELSE @[z]]]

\* The cache is set before the fill is emitted.
SetCache(s, y) ==
    LET q == Quantity(s, y, told[s].places[y])
    IN  cache' = [cache EXCEPT ![s] = [z \in DOMAIN @ \cup {y} |-> IF z = y THEN q ELSE @[z]]]

Differs(s, y) == Quantity(s, y, told[s].places[y]) # Cached(s, y)

\* Mutant of Reconcile: the fill is emitted and the cache left as it was.
ReconcileUncached(s) ==
    /\ pc[s] = "reconcile"
    /\ \E y \in left[s] :
          /\ left' = [left EXCEPT ![s] = @ \ {y}]
          /\ IF Differs(s, y)
             THEN /\ upto' = [upto EXCEPT ![s][y] = told[s].places[y]]
                  /\ copied' = [copied EXCEPT ![s][y] =
                        @ + Quantity(s, y, told[s].places[y]) - Cached(s, y)]
             ELSE UNCHANGED <<upto, copied>>
    /\ UNCHANGED <<masterVars, status, watched, pc, mode, wire, told, cache, faultVars>>

\* One turn of the loop over the symbols: a fill is emitted if the quantities
\* differ.
Reconcile(s) ==
    /\ pc[s] = "reconcile"
    /\ \E y \in left[s] :
          /\ left' = [left EXCEPT ![s] = @ \ {y}]
          /\ IF Differs(s, y)
             THEN /\ SetCache(s, y)
                  /\ upto' = [upto EXCEPT ![s][y] = told[s].places[y]]
                  /\ copied' = [copied EXCEPT ![s][y] =
                        @ + Quantity(s, y, told[s].places[y]) - Cached(s, y)]
             ELSE UNCHANGED <<cache, upto, copied>>
    /\ UNCHANGED <<masterVars, status, watched, pc, mode, wire, told, faultVars>>

\* _emit_master_event logs any exception of the ingest and goes on; a fill
\* whose identifier was used before is a duplicate. The cache is set already.
LoseEmission(s) ==
    /\ pc[s] = "reconcile"
    /\ losses < MaxLosses
    /\ losses' = losses + 1
    /\ \E y \in left[s] :
          /\ left' = [left EXCEPT ![s] = @ \ {y}]
          /\ Differs(s, y)
          /\ SetCache(s, y)
    /\ UNCHANGED <<masterVars, status, watched, pc, mode, wire, told, upto, copied,
                   drops, crashes>>

\* Mutant of EndReconcile: the status is ACTIVE whoever listened.
EndReconcileActive(s) ==
    /\ pc[s] = "reconcile"
    /\ left[s] = {}
    /\ pc' = [pc EXCEPT ![s] = IF mode[s] = "ws" THEN "listen" ELSE "poll"]
    /\ IF told[s].symbols \cup DOMAIN cache[s] = {} THEN UNCHANGED status
       ELSE status' = [status EXCEPT ![s] = "ACTIVE"]
    /\ told' = [told EXCEPT ![s] = Nothing]
    /\ UNCHANGED <<masterVars, watched, mode, wire, left, mirrorVars, faultVars>>

\* The end of _reconcile_positions: the status names the listener, unless no
\* symbol was listed or cached. The listener's loop goes on.
EndReconcile(s) ==
    /\ pc[s] = "reconcile"
    /\ left[s] = {}
    /\ pc' = [pc EXCEPT ![s] = IF mode[s] = "ws" THEN "listen" ELSE "poll"]
    /\ IF told[s].symbols \cup DOMAIN cache[s] = {} THEN UNCHANGED status
       ELSE status' = [status EXCEPT ![s] = IF mode[s] = "ws" THEN "ACTIVE" ELSE "POLLING"]
    /\ told' = [told EXCEPT ![s] = Nothing]
    /\ UNCHANGED <<masterVars, watched, mode, wire, left, mirrorVars, faultVars>>

\* Anything raises: a connection, a call, a query, at any step. The websocket
\* listeners with a fallback go on polling; all else is caught by
\* _monitor_source, which shows the error and waits.
ListenerRaises(s) ==
    /\ pc[s] \notin {"off", "backoff"}
    /\ drops < MaxDrops
    /\ drops' = drops + 1
    /\ IF mode[s] = "ws" /\ Feed[s].falls
       THEN /\ pc' = [pc EXCEPT ![s] = "fallback"]
            /\ mode' = [mode EXCEPT ![s] = "poll"]
            /\ UNCHANGED status
       ELSE /\ pc' = [pc EXCEPT ![s] = "backoff"]
            /\ status' = [status EXCEPT ![s] = "ERROR"]
            /\ UNCHANGED mode
    /\ wire' = [wire EXCEPT ![s] = <<>>]
    /\ told' = [told EXCEPT ![s] = Nothing]
    /\ left' = [left EXCEPT ![s] = {}]
    /\ UNCHANGED <<masterVars, watched, mirrorVars, losses, crashes>>

\* _poll_positions: polling is shown before the first call.
StartPolling(s) ==
    /\ pc[s] = "fallback"
    /\ pc' = [pc EXCEPT ![s] = "poll"]
    /\ status' = [status EXCEPT ![s] = "POLLING"]
    /\ UNCHANGED <<masterVars, watched, mode, wire, told, left, mirrorVars, faultVars>>

\* The wait is over: the websocket is tried again, whatever listened before.
Retry(s) ==
    /\ pc[s] = "backoff"
    /\ pc' = [pc EXCEPT ![s] = "start"]
    /\ mode' = [mode EXCEPT ![s] = "ws"]
    /\ UNCHANGED <<masterVars, status, watched, wire, told, left, mirrorVars, faultVars>>

\* The worker process ends and is started again: a new supervisor, an empty
\* cache. The status column keeps what it showed.
WorkerCrash ==
    /\ crashes < MaxCrashes
    /\ crashes' = crashes + 1
    /\ watched' = {}
    /\ pc' = [s \in Sources |-> "off"]
    /\ mode' = [s \in Sources |-> "ws"]
    /\ wire' = [s \in Sources |-> <<>>]
    /\ told' = [s \in Sources |-> Nothing]
    /\ left' = [s \in Sources |-> {}]
    /\ cache' = [s \in Sources |-> NoCache]
    /\ UNCHANGED <<masterVars, status, upto, copied, drops, losses>>

SourceStep(s) ==
    \/ Connect(s) \/ Receive(s) \/ Fetch(s) \/ Reconcile(s) \/ EndReconcile(s)
    \/ StartPolling(s) \/ Retry(s)

Next ==
    \/ \E s \in Sources : \E y \in Symbols : MasterMoves(s, y)
    \/ \E s \in Sources : EditSource(s)
    \/ Scan
    \/ \E s \in Sources : SourceStep(s)
    \/ \E s \in Sources : FetchError(s) \/ LoseEmission(s) \/ ListenerRaises(s)
    \/ WorkerCrash

Spec == Init /\ [][Next]_vars

\* The event loop runs every task that is ready, a call ends or raises, and
\* the exchange delivers what it sends on a connection that stands.
Fairness == WF_vars(Scan) /\ \A s \in Sources : WF_vars(SourceStep(s))
FairSpec == Spec /\ Fairness

-----------------------------------------------------------------------------
\* One type invariant for the supervisor.
TypeOK ==
    /\ hist \in [Sources -> [Symbols -> Seq(Quantities)]]
    /\ stored \in [Sources -> {"ACTIVE", "PAUSED"}]
    /\ status \in [Sources -> Statuses]
    /\ watched \subseteq Sources
    /\ pc \in [Sources -> Steps]
    /\ mode \in [Sources -> {"ws", "poll"}]
    /\ wire \in [Sources -> Seq(Messages)]
    /\ told \in [Sources -> [places : [Symbols -> Nat], symbols : SUBSET Symbols]]
    /\ cache \in [Sources -> UNION {[known -> Quantities] : known \in SUBSET Symbols}]
    /\ left \in [Sources -> SUBSET Symbols]
    /\ upto \in [Sources -> [Symbols -> Nat]]
    /\ copied \in [Sources -> [Symbols -> Int]]
    /\ drops \in 0..MaxDrops /\ losses \in 0..MaxLosses /\ crashes \in 0..MaxCrashes

Master == INSTANCE MirrorContract

\* What was emitted for a symbol always adds up to a position the master had,
\* and later emissions are of later positions: no change is made up, none is
\* emitted twice, none goes back, through every reconnection and fallback.
MirrorsMaster == Master!Mirror

\* The status an operator reads names what the source's task is doing: CONNECTED
\* or ACTIVE while it listens, POLLING while it polls, ERROR while it waits.
StatusTellsTheMode ==
    \A s \in Sources :
        /\ pc[s] \in {"listen", "fetch"} => status[s] \in {"CONNECTED", "ACTIVE"}
        /\ pc[s] = "poll" => status[s] = "POLLING"
        /\ pc[s] = "backoff" => status[s] = "ERROR"

\* Once the master stops trading, what was emitted for a watched source adds up
\* to the master's positions and stays so.
CatchesUp ==
    \A s \in Sources :
        <>[](s \in watched => \A y \in Symbols : copied[s][y] = Quantity(s, y, Now(s)[y]))

\* An error that is answered like an empty account, a lost emission, a restart:
\* the view of a source that is polled comes to the master's positions anyway.
PollingHeals ==
    \A s \in Sources :
        <>[](mode[s] = "poll" => \A y \in Symbols : Cached(s, y) = Quantity(s, y, Now(s)[y]))
=============================================================================
