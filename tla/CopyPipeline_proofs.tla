-------------------------- MODULE CopyPipeline_proofs --------------------------
(***************************************************************************)
(* Proofs about the pipeline for any number of deliveries, routes, replays  *)
(* and faults, for both queue backends.                                     *)
(***************************************************************************)
EXTENDS CopyPipeline, TLAPS

\* What a loop holds is a message until it is idle again; a replay that
\* publishes has its signal; a session that inserts a task has its route.
HandsFull ==
    /\ \A l \in Lanes : xpc[l] # "idle" => xmsg[l] \in Messages
    /\ \A rp \in Replays : rpc[rp] = "publishing" => rsignal[rp] \in Deliveries
    /\ \A d \in Deliveries : pc[d] = "insertTask" => wanted[d] \in Routes
    /\ \A d \in Deliveries : Open(d) \/ pc[d] = "done" => adopted[d] \in Deliveries

TypeInv == TypeOK /\ HandsFull

\* Sessions work on a signal of their own fill: their own, which nobody else
\* has stored or is inserting, or one that is stored.
AdoptedSound(d) ==
    Open(d) \/ pc[d] = "done" =>
        /\ EventOf[adopted[d]] = EventOf[d]
        /\ adopted[d] # d \/ pc[d] = "done" => signal[adopted[d]] # "none"

SoleInserter(d) ==
    Open(d) /\ adopted[d] = d =>
        /\ seen[d] = "none"
        /\ \A o \in Deliveries : EventOf[o] = EventOf[d] =>
              /\ signal[o] = "none"
              /\ Open(o) /\ adopted[o] = o => o = d

OneSignalPerFill ==
    \A s, u \in Deliveries :
        signal[s] # "none" /\ signal[u] # "none" /\ EventOf[s] = EventOf[u] => s = u

RowsAreCommitted(d) ==
    /\ signal[d] # "none" => pc[d] = "done"
    /\ \A r \in Routes : task[<<d, r>>] # "none" => pc[d] = "done"
    /\ pc[d] \in {"new", "missed", "insertEvent", "list"} => made[d] = {}
    /\ pc[d] \in {"new", "missed", "insertEvent"} => seen[d] = "none"

SignalInv ==
    /\ \A d \in Deliveries : AdoptedSound(d) /\ SoleInserter(d) /\ RowsAreCommitted(d)
    /\ OneSignalPerFill

\* The unique key of a task, over what is committed and what is flushed.
TaskKeyUnique ==
    \A d, o \in Deliveries : \A r \in Routes :
        adopted[d] = adopted[o] =>
            /\ task[<<d, r>>] # "none" /\ task[<<o, r>>] # "none" => d = o
            /\ Open(d) /\ r \in made[d] =>
                  /\ task[<<o, r>>] = "none"
                  /\ Open(o) /\ r \in made[o] => o = d

\* What a loop works on after it loaded the row, and what a replay selected, is
\* stored; an order at the exchange is for a stored task.
LoopSound ==
    \A l \in Lanes :
        /\ xpc[l] \in {"loaded", "placing", "acked", "commit"} => task[xmsg[l].task] # "none"
        /\ xpc[l] = "commit" => xresult[l] \in {"ACKED", "FILLED", "FAILED", "SKIPPED"}

ReplaySound ==
    \A rp \in Replays :
        /\ \A t \in rtodo[rp] \cup rsent[rp] : task[t] # "none"
        /\ rpc[rp] = "publishing" => signal[rsignal[rp]] # "none"

OrderSound == \A m \in Messages : orders[m] > 0 => task[m.task] # "none"

KeyInv == /\ TypeInv
          /\ SignalInv
          /\ TaskKeyUnique
          /\ LoopSound
          /\ ReplaySound
          /\ OrderSound

-----------------------------------------------------------------------------
LEMMA TypeInit == Init => TypeInv
  BY ConstantsOK DEF Init, PipelineInit, TypeInv, TypeOK, HandsFull, Open,
     IngestSteps, IngestEnds, TaskStatus, SignalStatus

\* Publishing keeps the queues and the deduplication window well formed.
LEMMA PublishType ==
    ASSUME TypeInv, NEW p \in Processes, NEW lane \in Lanes, NEW m \in Messages,
           Publish(p, lane, m)
    PROVE  /\ queue' \in [Places -> Seq(Messages)]
           /\ window' \subseteq Lanes \X ((Deliveries \cup {None}) \X Routes)
<1> DEFINE place == <<BrokerOf(p), lane, GroupOf(m.task)>>
           id == <<lane, KeyOf(m.task)>>
<1>1. m.task \in Tasks /\ m.task[1] \in Deliveries /\ m.task[2] \in Routes
  BY DEF Messages, Tasks
<1>2. BrokerOf(p) \in Brokers
  BY DEF BrokerOf, Brokers, Processes
<1>3. GroupOf(m.task) \in Groups
  BY <1>1, ConstantsOK DEF GroupOf, Groups, SlotOf, Slots
<1>4. place \in Places
  BY <1>2, <1>3 DEF Places
<1>5. id \in Lanes \X ((Deliveries \cup {None}) \X Routes)
  BY <1>1 DEF KeyOf, TypeInv, TypeOK
<1>6. queue[place] \in Seq(Messages) /\ Append(queue[place], m) \in Seq(Messages)
  BY <1>4 DEF TypeInv, TypeOK
<1>7. CASE UNCHANGED <<queue, window>>
  BY <1>7 DEF TypeInv, TypeOK
<1>8. CASE /\ queue' = [queue EXCEPT ![place] = Append(@, m)]
           /\ window' = window \/ window' = window \cup {id}
  BY <1>4, <1>5, <1>6, <1>8 DEF TypeInv, TypeOK
<1> QED BY <1>7, <1>8 DEF Publish

\* One order more is still a count.
LEMMA OrdersType ==
    ASSUME TypeInv, NEW m \in Messages,
           orders' = orders \/ orders' = [orders EXCEPT ![m] = @ + 1]
    PROVE  orders' \in [Messages -> Nat]
<1>1. orders \in [Messages -> Nat]
  BY DEF TypeInv, TypeOK
<1> QED BY <1>1

\* The ingest steps keep the types.
LEMMA TypeIngest ==
    ASSUME TypeInv, NEW d \in Deliveries, IngestStep(d) \/ AbortIngest(d)
    PROVE  TypeInv'
<1> USE ConstantsOK DEF TypeInv, TypeOK, HandsFull, Open, Abort, dbVars, ingestVars,
        workerVars, replayVars, IngestSteps, IngestEnds, TaskStatus, SignalStatus
<1>1. CASE CheckIdempotency(d)
  BY <1>1 DEF CheckIdempotency
<1>2. CASE RejectUnknownSource(d)
  BY <1>2 DEF RejectUnknownSource
<1>3. CASE LookupEvent(d)
  <2>1. CASE pc' = [pc EXCEPT ![d] = "insertEvent"] /\ UNCHANGED <<adopted, seen>>
    BY <1>3, <2>1 DEF LookupEvent
  <2>2. ASSUME NEW s \in Stored(d),
               adopted' = [adopted EXCEPT ![d] = s],
               seen' = [seen EXCEPT ![d] = signal[s]],
               pc' = [pc EXCEPT ![d] = "list"]
        PROVE  TypeInv'
    <3>1. s \in Deliveries /\ signal[s] \in SignalStatus
      BY DEF Stored
    <3>2. UNCHANGED <<dbVars, known, queue, window, todo, wanted, made,
                      workerVars, replayVars, orders, faults>>
      BY <1>3 DEF LookupEvent
    <3> QED BY <2>2, <3>1, <3>2
  <2> QED BY <1>3, <2>1, <2>2 DEF LookupEvent
<1>4. CASE InsertEvent(d)
  <2>1. CASE adopted' = [adopted EXCEPT ![d] = d] /\ pc' = [pc EXCEPT ![d] = "list"]
             /\ UNCHANGED wanted
    BY <1>4, <2>1 DEF InsertEvent
  <2>2. CASE Abort({d}) /\ UNCHANGED adopted
    BY <1>4, <2>2 DEF InsertEvent
  <2> QED BY <1>4, <2>1, <2>2 DEF InsertEvent
<1>5. CASE ListRoutes(d)
  BY <1>5 DEF ListRoutes
<1>6. CASE LookupTask(d)
  <2> PICK r \in todo[d] :
          /\ todo' = [todo EXCEPT ![d] = @ \ {r}]
          /\ \/ UNCHANGED <<pc, wanted>>
             \/ /\ pc' = [pc EXCEPT ![d] = "insertTask"]
                /\ wanted' = [wanted EXCEPT ![d] = r]
    BY <1>6, Zenon DEF LookupTask
  <2>1. r \in Routes
    OBVIOUS
  <2>2. /\ pc[d] = "plan"
        /\ UNCHANGED <<dbVars, known, queue, window, adopted, seen, made,
                       workerVars, replayVars, orders, faults>>
    BY <1>6 DEF LookupTask
  <2>3. CASE UNCHANGED <<pc, wanted>>
    BY <2>1, <2>2, <2>3
  <2>4. CASE /\ pc' = [pc EXCEPT ![d] = "insertTask"]
             /\ wanted' = [wanted EXCEPT ![d] = r]
    BY <2>1, <2>2, <2>4
  <2> QED BY <2>3, <2>4
<1>7. CASE InsertTask(d)
  <2>1. /\ pc[d] = "insertTask"
        /\ wanted[d] \in Routes
        /\ UNCHANGED <<dbVars, known, adopted, seen, todo,
                       workerVars, replayVars, orders, faults>>
    BY <1>7 DEF InsertTask
  <2>2. CASE Abort({d}) /\ UNCHANGED <<made, queue, window>>
    BY <2>1, <2>2
  <2>3. CASE /\ made' = [made EXCEPT ![d] = @ \cup {wanted[d]}]
             /\ wanted' = [wanted EXCEPT ![d] = None]
             /\ pc' = [pc EXCEPT ![d] = "plan"]
             /\ Publish(Host[d], QueueForAction(ActionOf[EventOf[d]]),
                        [task |-> <<d, wanted[d]>>, via |-> d])
    <3>1. queue' \in [Places -> Seq(Messages)]
          /\ window' \subseteq Lanes \X ((Deliveries \cup {None}) \X Routes)
      <4>1. /\ QueueForAction(ActionOf[EventOf[d]]) \in Lanes
            /\ [task |-> <<d, wanted[d]>>, via |-> d] \in Messages
        BY <2>1 DEF QueueForAction, Lanes, Messages, Tasks
      <4>2. Host[d] \in Processes
        OBVIOUS
      <4>3. TypeInv
        OBVIOUS
      <4> HIDE DEF TypeInv, TypeOK, HandsFull
      <4> QED BY <2>3, <4>1, <4>2, <4>3, PublishType
    <3> QED BY <2>1, <2>3, <3>1
  <2> QED BY <1>7, <2>2, <2>3 DEF InsertTask
<1>8. CASE Remember(d)
  BY <1>8 DEF Remember, BrokerOf, Brokers, Processes
<1>9. CASE CommitIngest(d)
  BY <1>9 DEF CommitIngest, Tasks
<1>10. CASE AbortIngest(d)
  BY <1>10 DEF AbortIngest
<1>11. CASE DeadlockVictim(d)
  BY <1>11 DEF DeadlockVictim
<1> QED BY <1>1, <1>2, <1>3, <1>4, <1>5, <1>6, <1>7, <1>8, <1>9, <1>10, <1>11
        DEF IngestStep

\* The executor loops keep the types.
LEMMA TypeExecutor ==
    ASSUME TypeInv, NEW l \in Lanes, ExecutorStep(l)
    PROVE  TypeInv'
<1> USE ConstantsOK DEF TypeInv, TypeOK, HandsFull, Open, dbVars, ingestVars,
        workerVars, replayVars, TaskStatus
<1>1. CASE Consume(l)
  <2> PICK group \in Groups :
          LET place == <<BrokerOf("worker"), l, group>>
          IN  /\ queue[place] # <<>>
              /\ xmsg' = [xmsg EXCEPT ![l] = Head(queue[place])]
              /\ queue' = [queue EXCEPT ![place] = Tail(@)]
    BY <1>1 DEF Consume
  <2> DEFINE place == <<BrokerOf("worker"), l, group>>
  <2>1. place \in Places
    BY DEF Places, BrokerOf, Brokers
  <2>2. Head(queue[place]) \in Messages /\ Tail(queue[place]) \in Seq(Messages)
    BY <2>1
  <2> HIDE DEF place
  <2>3. queue' \in [Places -> Seq(Messages)]
    BY <2>1, <2>2 DEF place
  <2>4. /\ xmsg' = [xmsg EXCEPT ![l] = Head(queue[place])]
        /\ xpc' = [xpc EXCEPT ![l] = "fetched"]
        /\ UNCHANGED <<dbVars, known, window, ingestVars, xseen, xresult,
                       replayVars, orders, faults>>
    BY <1>1 DEF Consume, place
  <2>5. TypeOK'
    BY <2>2, <2>3, <2>4
  <2>6. HandsFull'
    BY <2>2, <2>4
  <2> QED BY <2>5, <2>6
<1>2. CASE DropMessage(l)
  BY <1>2 DEF DropMessage
<1>3. CASE LoadTask(l)
  BY <1>3 DEF LoadTask, Messages
<1>4. CASE SkipTask(l)
  BY <1>4 DEF SkipTask
<1>5. CASE OpenAttempt(l)
  BY <1>5 DEF OpenAttempt
<1>6. CASE PlaceOrder(l)
  <2>1. /\ xmsg[l] \in Messages
        /\ orders' = orders \/ orders' = [orders EXCEPT ![xmsg[l]] = @ + 1]
    BY <1>6 DEF PlaceOrder
  <2>2. orders' \in [Messages -> Nat]
    <3>1. TypeInv
      OBVIOUS
    <3> HIDE DEF TypeInv, TypeOK, HandsFull
    <3> QED BY <2>1, <3>1, OrdersType
  <2>3. TypeOK'
    BY <1>6, <2>2 DEF PlaceOrder
  <2>4. HandsFull'
    BY <1>6 DEF PlaceOrder
  <2> QED BY <2>3, <2>4
<1>7. CASE RefreshPosition(l)
  BY <1>7 DEF RefreshPosition
<1>8. CASE CommitExecution(l)
  <2>1. xmsg[l].task \in Tasks
    BY <1>8 DEF CommitExecution, Messages
  <2>2. attempts' \in [Tasks -> Nat] /\ task' \in [Tasks -> TaskStatus]
    BY <1>8, <2>1 DEF CommitExecution
  <2>3. TypeOK'
    BY <1>8, <2>2 DEF CommitExecution
  <2>4. HandsFull'
    BY <1>8 DEF CommitExecution
  <2> QED BY <2>3, <2>4
<1> QED BY <1>1, <1>2, <1>3, <1>4, <1>5, <1>6, <1>7, <1>8 DEF ExecutorStep

\* The replay sessions keep the types.
LEMMA TypeReplay ==
    ASSUME TypeInv, NEW rp \in Replays, ReplayStep(rp) \/ AbortReplay(rp)
    PROVE  TypeInv'
<1> USE ConstantsOK DEF TypeInv, TypeOK, HandsFull, Open, dbVars, ingestVars,
        workerVars, replayVars, TaskStatus, SignalStatus
<1>1. CASE BeginReplay(rp)
  BY <1>1 DEF BeginReplay
<1>2. CASE PublishReplay(rp)
  <2> PICK t \in rtodo[rp] :
          /\ rtodo' = [rtodo EXCEPT ![rp] = @ \ {t}]
          /\ rsent' = [rsent EXCEPT ![rp] = @ \cup {t}]
          /\ Publish("api", "recovery", [task |-> t, via |-> rp])
    BY <1>2 DEF PublishReplay
  <2>1. queue' \in [Places -> Seq(Messages)]
        /\ window' \subseteq Lanes \X ((Deliveries \cup {None}) \X Routes)
    <3>1. [task |-> t, via |-> rp] \in Messages /\ "recovery" \in Lanes
          /\ "api" \in Processes
      BY DEF Messages, Lanes, Processes
    <3>2. TypeInv
      OBVIOUS
    <3> HIDE DEF TypeInv, TypeOK, HandsFull
    <3> QED BY <3>1, <3>2, PublishType
  <2> QED BY <1>2, <2>1 DEF PublishReplay
<1>3. CASE CommitReplay(rp)
  BY <1>3 DEF CommitReplay
<1>4. CASE AbortReplay(rp)
  BY <1>4 DEF AbortReplay
<1> QED BY <1>1, <1>2, <1>3, <1>4 DEF ReplayStep

\* A worker that goes down leaves well-formed state behind.
LEMMA TypeStopWorker ==
    ASSUME TypeInv, StopWorker, faults' \in 0..MaxFaults, orders' \in [Messages -> Nat]
    PROVE  TypeInv'
  BY ConstantsOK DEF StopWorker, Abort, TypeInv, TypeOK, HandsFull, Open, dbVars,
     replayVars, IngestSteps, IngestEnds, TaskStatus, SignalStatus, Places, Brokers

LEMMA TypeStep == TypeInv /\ [Next]_vars => TypeInv'
<1> SUFFICES ASSUME TypeInv, [Next]_vars PROVE TypeInv'
  OBVIOUS
<1>1. ASSUME NEW d \in Deliveries, IngestStep(d) \/ AbortIngest(d) PROVE TypeInv'
  BY <1>1, TypeIngest
<1>2. ASSUME NEW l \in Lanes, ExecutorStep(l) PROVE TypeInv'
  BY <1>2, TypeExecutor
<1>3. ASSUME NEW l \in Lanes, PlaceOrderRaises(l) PROVE TypeInv'
  <2>1. faults' \in 0..MaxFaults
    BY <1>3, ConstantsOK DEF PlaceOrderRaises, TypeInv, TypeOK
  <2>2. /\ xmsg[l] \in Messages
        /\ orders' = orders \/ orders' = [orders EXCEPT ![xmsg[l]] = @ + 1]
    BY <1>3 DEF PlaceOrderRaises, TypeInv, HandsFull
  <2>3. orders' \in [Messages -> Nat]
    BY <2>2, OrdersType
  <2> QED BY <1>3, <2>1, <2>3, TypeStopWorker DEF PlaceOrderRaises
<1>4. ASSUME NEW rp \in Replays, ReplayStep(rp) \/ AbortReplay(rp) PROVE TypeInv'
  BY <1>4, TypeReplay
<1>5. CASE WorkerCrash
  <2>1. faults' \in 0..MaxFaults /\ orders' \in [Messages -> Nat]
    BY <1>5, ConstantsOK DEF WorkerCrash, TypeInv, TypeOK
  <2> QED BY <1>5, <2>1, TypeStopWorker DEF WorkerCrash
<1>6. CASE ApiCrash
  BY <1>6, ConstantsOK DEF ApiCrash, Abort, TypeInv, TypeOK, HandsFull, Open, dbVars,
     workerVars, IngestSteps, IngestEnds, Places, Brokers
<1>7. ASSUME NEW e \in Events, ForgetFill(e) PROVE TypeInv'
  BY <1>7 DEF ForgetFill, TypeInv, TypeOK, HandsFull, Open, dbVars, ingestVars,
     workerVars, replayVars
<1>8. ASSUME NEW id \in window, CloseWindow(id) PROVE TypeInv'
  BY <1>8 DEF CloseWindow, TypeInv, TypeOK, HandsFull, Open, dbVars, ingestVars,
     workerVars, replayVars
<1>9. CASE UNCHANGED vars
  BY <1>9 DEF vars, TypeInv, TypeOK, HandsFull, Open, dbVars, ingestVars,
     workerVars, replayVars
<1> QED BY <1>1, <1>2, <1>3, <1>4, <1>5, <1>6, <1>7, <1>8, <1>9 DEF Next

\* Every variable keeps its type, and what a loop, a session or a replay works
\* on is there while it works on it.
THEOREM TypeCorrect == Spec => []TypeOK
<1>1. Spec => []TypeInv
  BY TypeInit, TypeStep, PTL DEF Spec
<1>2. TypeInv => TypeOK
  BY DEF TypeInv
<1> QED BY <1>1, <1>2, PTL

-----------------------------------------------------------------------------
\* Steps of a session that adopt nothing, flush nothing and commit nothing.
QuietMove(d) ==
    \/ pc'[d] = pc[d]
    \/ pc[d] # "done" /\ pc'[d] \in {"aborted", "duplicate"}
    \/ pc[d] \in {"new", "missed"} /\ pc'[d] \in {"missed", "insertEvent"}
    \/ Open(d) /\ pc'[d] \in {"plan", "insertTask", "commit"}

SameRows ==
    /\ \A s \in Deliveries : signal'[s] = "none" <=> signal[s] = "none"
    /\ \A t \in Tasks : task'[t] = "none" <=> task[t] = "none"

LEMMA QuietSteps ==
    ASSUME TypeInv, SignalInv, TaskKeyUnique, SameRows, UNCHANGED <<adopted, made, seen>>,
           \A d \in Deliveries : QuietMove(d)
    PROVE  SignalInv' /\ TaskKeyUnique'
<1>1. \A d \in Deliveries : \A r \in Routes : <<d, r>> \in Tasks
  BY DEF Tasks
<1>2. ASSUME NEW d \in Deliveries
      PROVE  /\ Open(d)' => Open(d)
             /\ pc'[d] = "done" <=> pc[d] = "done"
             /\ pc'[d] \in {"new", "missed", "insertEvent", "list"} =>
                    pc[d] \in {"new", "missed", "insertEvent", "list"}
             /\ pc'[d] \in {"new", "missed", "insertEvent"} =>
                    pc[d] \in {"new", "missed", "insertEvent"}
  BY QuietMove(d) DEF QuietMove, Open
<1>3. \A d \in Deliveries : AdoptedSound(d)'
  BY <1>2 DEF SignalInv, AdoptedSound, SameRows, TypeInv, HandsFull
<1>4. \A d \in Deliveries : SoleInserter(d)'
  BY <1>2 DEF SignalInv, SoleInserter, SameRows
<1>5. \A d \in Deliveries : RowsAreCommitted(d)'
  BY <1>1, <1>2 DEF SignalInv, RowsAreCommitted, SameRows
<1>6. OneSignalPerFill'
  BY DEF SignalInv, OneSignalPerFill, SameRows
<1>7. TaskKeyUnique'
  BY <1>1, <1>2 DEF TaskKeyUnique, SameRows
<1> QED BY <1>3, <1>4, <1>5, <1>6, <1>7 DEF SignalInv

\* A session adopts a stored signal.
LEMMA AdoptStored ==
    ASSUME TypeInv, SignalInv, TaskKeyUnique, NEW d \in Deliveries, pc[d] = "missed",
           NEW s \in Stored(d),
           adopted' = [adopted EXCEPT ![d] = s],
           seen' = [seen EXCEPT ![d] = signal[s]],
           pc' = [pc EXCEPT ![d] = "list"],
           UNCHANGED <<signal, task, made>>
    PROVE  SignalInv' /\ TaskKeyUnique'
<1>1. s \in Deliveries /\ EventOf[s] = EventOf[d] /\ signal[s] # "none"
  BY DEF Stored
<1>2. signal[d] = "none" /\ made[d] = {} /\ \A r \in Routes : task[<<d, r>>] = "none"
  BY DEF SignalInv, RowsAreCommitted
<1>3. s # d
  BY <1>1, <1>2
<1>4. adopted'[d] = s /\ pc'[d] = "list"
      /\ \A o \in Deliveries \ {d} :
            adopted'[o] = adopted[o] /\ pc'[o] = pc[o] /\ seen'[o] = seen[o]
  BY <1>1 DEF TypeInv, TypeOK
<1>5. \A o \in Deliveries : AdoptedSound(o)'
  BY <1>1, <1>3, <1>4 DEF SignalInv, AdoptedSound, Open
<1>6. \A o \in Deliveries : SoleInserter(o)'
  BY <1>3, <1>4 DEF SignalInv, SoleInserter, Open
<1>7. \A o \in Deliveries : RowsAreCommitted(o)'
  BY <1>2, <1>4 DEF SignalInv, RowsAreCommitted
<1>8. OneSignalPerFill'
  BY DEF SignalInv, OneSignalPerFill
<1>9. TaskKeyUnique'
  BY <1>2, <1>4 DEF TaskKeyUnique, Open
<1> QED BY <1>5, <1>6, <1>7, <1>8, <1>9 DEF SignalInv

\* A session inserts the signal of its fill, which nobody else has.
LEMMA AdoptOwn ==
    ASSUME TypeInv, SignalInv, TaskKeyUnique, NEW d \in Deliveries, InsertEvent(d),
           Stored(d) = {},
           adopted' = [adopted EXCEPT ![d] = d],
           pc' = [pc EXCEPT ![d] = "list"],
           UNCHANGED <<signal, task, made, seen>>
    PROVE  SignalInv' /\ TaskKeyUnique'
<1>1. pc[d] = "insertEvent" /\ EventHolders(d) = {}
  BY DEF InsertEvent
<1>2. made[d] = {} /\ seen[d] = "none" /\ \A r \in Routes : task[<<d, r>>] = "none"
  BY <1>1 DEF SignalInv, RowsAreCommitted
<1>3. \A s \in Deliveries : EventOf[s] = EventOf[d] => signal[s] = "none"
  BY DEF Stored
<1>4. \A o \in Deliveries \ {d} : EventOf[o] = EventOf[d] => ~(Open(o) /\ adopted[o] = o)
  BY <1>1 DEF EventHolders
<1>5. adopted'[d] = d /\ pc'[d] = "list"
      /\ \A o \in Deliveries \ {d} : adopted'[o] = adopted[o] /\ pc'[o] = pc[o]
  BY DEF TypeInv, TypeOK
<1>6. \A o \in Deliveries : AdoptedSound(o)'
  BY <1>5 DEF SignalInv, AdoptedSound, Open
<1>7. \A o \in Deliveries : SoleInserter(o)'
  BY <1>2, <1>3, <1>4, <1>5 DEF SignalInv, SoleInserter, Open
<1>8. \A o \in Deliveries : RowsAreCommitted(o)'
  BY <1>2, <1>3, <1>5 DEF SignalInv, RowsAreCommitted
<1>9. OneSignalPerFill'
  BY DEF SignalInv, OneSignalPerFill
<1>10. TaskKeyUnique'
  BY <1>2, <1>5 DEF TaskKeyUnique, Open
<1> QED BY <1>6, <1>7, <1>8, <1>9, <1>10 DEF SignalInv

\* A session flushes a task whose key no stored row and no other session has.
LEMMA FlushTask ==
    ASSUME TypeInv, SignalInv, TaskKeyUnique, NEW d \in Deliveries,
           pc[d] = "insertTask",
           TaskHolders(d) = {},
           ~TaskStored(d, wanted[d]),
           made' = [made EXCEPT ![d] = @ \cup {wanted[d]}],
           pc' = [pc EXCEPT ![d] = "plan"],
           UNCHANGED <<signal, task, adopted, seen>>
    PROVE  SignalInv' /\ TaskKeyUnique'
<1>1. /\ made'[d] = made[d] \cup {wanted[d]} /\ pc'[d] = "plan"
      /\ \A o \in Deliveries \ {d} : made'[o] = made[o] /\ pc'[o] = pc[o]
  BY DEF TypeInv, TypeOK
<1>2. \A o \in Deliveries : adopted[o] = adopted[d] =>
          /\ task[<<o, wanted[d]>>] = "none"
          /\ o # d /\ Open(o) => wanted[d] \notin made[o]
  BY DEF TaskStored, TaskHolders
<1>3. \A o \in Deliveries : AdoptedSound(o)'
  BY <1>1 DEF SignalInv, AdoptedSound, Open
<1>4. \A o \in Deliveries : SoleInserter(o)'
  BY <1>1 DEF SignalInv, SoleInserter, Open
<1>5. \A o \in Deliveries : RowsAreCommitted(o)'
  BY <1>1 DEF SignalInv, RowsAreCommitted
<1>6. OneSignalPerFill'
  BY DEF SignalInv, OneSignalPerFill
<1>7. TaskKeyUnique'
  BY <1>1, <1>2 DEF TaskKeyUnique, Open
<1> QED BY <1>3, <1>4, <1>5, <1>6, <1>7 DEF SignalInv

\* A session commits: its signal, if it inserted one, and its tasks are rows now.
LEMMA CommitRows ==
    ASSUME TypeInv, SignalInv, TaskKeyUnique, NEW d \in Deliveries, CommitIngest(d)
    PROVE  /\ SignalInv' /\ TaskKeyUnique'
           /\ \A s \in Deliveries : signal[s] # "none" => signal'[s] # "none"
           /\ \A t \in Tasks : task[t] # "none" => task'[t] # "none"
<1>1. /\ pc[d] = "commit" /\ Open(d) /\ adopted[d] \in Deliveries
      /\ pc'[d] = "done" /\ \A o \in Deliveries \ {d} : pc'[o] = pc[o]
      /\ UNCHANGED <<adopted, made, seen>>
  BY DEF CommitIngest, TypeInv, TypeOK, HandsFull, Open, ingestVars
<1>2. \A o \in Deliveries : \A r \in Routes :
          /\ <<o, r>> \in Tasks
          /\ task'[<<o, r>>] = IF o = d /\ r \in made[d] THEN "DISPATCHED"
                               ELSE task[<<o, r>>]
  BY DEF CommitIngest, Tasks
<1>3. \A t \in Tasks : task[t] # "none" => task'[t] # "none"
  BY DEF CommitIngest
<1>4. \A s \in Deliveries \ {adopted[d]} : signal'[s] = signal[s]
  BY <1>1 DEF CommitIngest, TypeInv, TypeOK
<1>5. signal'[adopted[d]] # "none"
  <2>1. CASE adopted[d] = d
    <3>1. signal[d] = "none" /\ seen[d] = "none"
      BY <1>1, <2>1 DEF SignalInv, SoleInserter
    <3> QED BY <1>1, <2>1, <3>1 DEF CommitIngest, TypeInv, TypeOK
  <2>2. CASE adopted[d] # d
    <3>1. signal[adopted[d]] # "none"
      BY <1>1, <2>2 DEF SignalInv, AdoptedSound
    <3> QED BY <1>1, <3>1 DEF CommitIngest, TypeInv, TypeOK
  <2> QED BY <2>1, <2>2
<1>6. \A s \in Deliveries : signal[s] # "none" => signal'[s] # "none"
  BY <1>4, <1>5
<1>7. \A s \in Deliveries :
          signal'[s] # "none" => signal[s] # "none" \/ (s = d /\ adopted[d] = d)
  <2>1. adopted[d] # d => signal[adopted[d]] # "none"
    BY <1>1 DEF SignalInv, AdoptedSound
  <2> QED BY <1>4, <2>1
<1>8. \A o \in Deliveries : AdoptedSound(o)'
  BY <1>1, <1>5, <1>6 DEF SignalInv, AdoptedSound, Open, TypeInv, HandsFull
<1>9. \A o \in Deliveries : SoleInserter(o)'
  BY <1>1, <1>7 DEF SignalInv, SoleInserter, Open
<1>10. \A o \in Deliveries : RowsAreCommitted(o)'
  BY <1>1, <1>2, <1>7 DEF SignalInv, RowsAreCommitted
<1>11. OneSignalPerFill'
  BY <1>1, <1>7 DEF SignalInv, OneSignalPerFill, SoleInserter
<1>12. TaskKeyUnique'
  <2> SUFFICES ASSUME NEW x \in Deliveries, NEW o \in Deliveries, NEW r \in Routes,
                      adopted[x] = adopted[o]
               PROVE  /\ task'[<<x, r>>] # "none" /\ task'[<<o, r>>] # "none" => x = o
                      /\ Open(x)' /\ r \in made[x] =>
                            /\ task'[<<o, r>>] = "none"
                            /\ Open(o)' /\ r \in made[o] => o = x
    BY <1>1 DEF TaskKeyUnique
  <2>1. \A y \in Deliveries : Open(y)' => y # d /\ Open(y)
    BY <1>1 DEF Open
  <2>2. /\ task[<<x, r>>] # "none" /\ task[<<o, r>>] # "none" => x = o
        /\ Open(x) /\ r \in made[x] =>
              /\ task[<<o, r>>] = "none"
              /\ Open(o) /\ r \in made[o] => o = x
        /\ Open(o) /\ r \in made[o] => task[<<x, r>>] = "none"
    BY DEF TaskKeyUnique
  <2> QED BY <1>1, <1>2, <2>1, <2>2
<1> QED BY <1>3, <1>6, <1>8, <1>9, <1>10, <1>11, <1>12 DEF SignalInv

-----------------------------------------------------------------------------
\* No step takes a stored row away, and the unique keys stay unique.
Keys == SignalInv /\ TaskKeyUnique

RowsKept ==
    /\ \A s \in Deliveries : signal[s] # "none" => signal'[s] # "none"
    /\ \A t \in Tasks : task[t] # "none" => task'[t] # "none"

\* A session that only moves on: nothing adopted, flushed or committed.
LEMMA MoveOn ==
    ASSUME TypeInv, Keys, UNCHANGED <<signal, task, adopted, made, seen>>,
           \A d \in Deliveries : QuietMove(d)
    PROVE  Keys' /\ RowsKept
  BY QuietSteps DEF Keys, SameRows, RowsKept

LEMMA AbortMovesOn ==
    ASSUME TypeInv, NEW ds \in SUBSET Deliveries, Abort(ds),
           \A d \in ds : pc[d] # "done"
    PROVE  \A d \in Deliveries : QuietMove(d)
  BY DEF Abort, QuietMove

LEMMA KeysIngest ==
    ASSUME TypeInv, Keys, NEW d \in Deliveries, IngestStep(d) \/ AbortIngest(d)
    PROVE  Keys' /\ RowsKept
<1>1. CASE CheckIdempotency(d)
  BY <1>1, MoveOn DEF CheckIdempotency, QuietMove, dbVars, TypeInv, TypeOK
<1>2. CASE RejectUnknownSource(d)
  BY <1>2, MoveOn, AbortMovesOn DEF RejectUnknownSource, dbVars
<1>3. CASE LookupEvent(d)
  <2>1. CASE pc' = [pc EXCEPT ![d] = "insertEvent"] /\ UNCHANGED <<adopted, seen>>
    BY <1>3, <2>1, MoveOn DEF LookupEvent, QuietMove, dbVars, TypeInv, TypeOK
  <2>2. ASSUME NEW s \in Stored(d),
               adopted' = [adopted EXCEPT ![d] = s],
               seen' = [seen EXCEPT ![d] = signal[s]],
               pc' = [pc EXCEPT ![d] = "list"]
        PROVE  Keys' /\ RowsKept
    BY <1>3, <2>2, AdoptStored DEF LookupEvent, dbVars, Keys, RowsKept
  <2> QED BY <1>3, <2>1, <2>2 DEF LookupEvent
<1>4. CASE InsertEvent(d)
  <2>1. CASE Abort({d})  /\ UNCHANGED adopted
    BY <1>4, <2>1, MoveOn, AbortMovesOn DEF InsertEvent, dbVars
  <2>2. CASE /\ Stored(d) = {}
             /\ adopted' = [adopted EXCEPT ![d] = d]
             /\ pc' = [pc EXCEPT ![d] = "list"]
    <3>1. UNCHANGED <<signal, task, made, seen>>
      BY <1>4 DEF InsertEvent, dbVars
    <3> QED BY <1>4, <2>2, <3>1, AdoptOwn DEF Keys, RowsKept
  <2> QED BY <1>4, <2>1, <2>2 DEF InsertEvent
<1>5. CASE ListRoutes(d)
  BY <1>5, MoveOn DEF ListRoutes, QuietMove, Open, dbVars, TypeInv, TypeOK
<1>6. CASE LookupTask(d)
  <2>1. pc[d] = "plan" /\ (pc' = pc \/ pc' = [pc EXCEPT ![d] = "insertTask"])
        /\ UNCHANGED <<signal, task, adopted, made, seen>>
    BY <1>6 DEF LookupTask, dbVars
  <2> QED BY <2>1, MoveOn DEF QuietMove, Open, TypeInv, TypeOK
<1>7. CASE InsertTask(d)
  <2>1. pc[d] = "insertTask" /\ TaskHolders(d) = {}
        /\ UNCHANGED <<signal, task, adopted, seen>>
    BY <1>7 DEF InsertTask, dbVars
  <2>2. CASE Abort({d}) /\ UNCHANGED made
    BY <2>1, <2>2, MoveOn, AbortMovesOn
  <2>3. CASE /\ ~TaskStored(d, wanted[d])
             /\ made' = [made EXCEPT ![d] = @ \cup {wanted[d]}]
             /\ pc' = [pc EXCEPT ![d] = "plan"]
    BY <2>1, <2>3, FlushTask DEF Keys, RowsKept
  <2> QED BY <1>7, <2>2, <2>3 DEF InsertTask
<1>8. CASE Remember(d)
  BY <1>8, MoveOn DEF Remember, QuietMove, Open, dbVars, TypeInv, TypeOK
<1>9. CASE CommitIngest(d)
  BY <1>9, CommitRows DEF Keys, RowsKept
<1>10. CASE AbortIngest(d)
  BY <1>10, MoveOn, AbortMovesOn DEF AbortIngest, IngestSteps, dbVars
<1>11. CASE DeadlockVictim(d)
  <2>1. Holders(d) # {}
    BY <1>11 DEF DeadlockVictim
  <2>2. pc[d] # "done"
    BY <2>1 DEF Holders
  <2> QED BY <1>11, <2>2, MoveOn, AbortMovesOn DEF DeadlockVictim, dbVars
<1> QED BY <1>1, <1>2, <1>3, <1>4, <1>5, <1>6, <1>7, <1>8, <1>9, <1>10, <1>11
        DEF IngestStep

\* The loops and the replays change the status of stored tasks only.
LEMMA KeysExecutor ==
    ASSUME TypeInv, Keys, LoopSound, NEW l \in Lanes, ExecutorStep(l)
    PROVE  Keys' /\ RowsKept
<1>1. UNCHANGED <<signal, pc, adopted, made, seen>>
  BY DEF ExecutorStep, Consume, DropMessage, LoadTask, SkipTask, OpenAttempt, PlaceOrder,
     RefreshPosition, CommitExecution, dbVars, ingestVars
<1>2. \A d \in Deliveries : QuietMove(d)
  BY <1>1 DEF QuietMove
<1>3. CASE CommitExecution(l)
  <2>1. /\ xmsg[l].task \in Tasks
        /\ task[xmsg[l].task] # "none"
        /\ xresult[l] # "none"
    BY <1>3 DEF CommitExecution, LoopSound, TypeInv, HandsFull, Messages
  <2>2. SameRows
    BY <1>1, <1>3, <2>1 DEF CommitExecution, SameRows, TypeInv, TypeOK
  <2> QED BY <1>1, <1>2, <2>2, QuietSteps DEF Keys, SameRows, RowsKept
<1>4. CASE UNCHANGED task
  BY <1>1, <1>2, <1>4, MoveOn
<1> QED BY <1>3, <1>4 DEF ExecutorStep, Consume, DropMessage, LoadTask, SkipTask,
        OpenAttempt, PlaceOrder, RefreshPosition, dbVars

LEMMA KeysReplay ==
    ASSUME TypeInv, Keys, ReplaySound, NEW rp \in Replays,
           ReplayStep(rp) \/ AbortReplay(rp)
    PROVE  Keys' /\ RowsKept
<1>1. UNCHANGED <<pc, adopted, made, seen>>
  BY DEF ReplayStep, AbortReplay, BeginReplay, PublishReplay, CommitReplay, ingestVars
<1>2. \A d \in Deliveries : QuietMove(d)
  BY <1>1 DEF QuietMove
<1>3. CASE CommitReplay(rp)
  <2>1. /\ \A t \in rsent[rp] : task[t] # "none"
        /\ signal[rsignal[rp]] # "none"
    BY <1>3 DEF CommitReplay, ReplaySound
  <2>2. SameRows
    BY <1>3, <2>1 DEF CommitReplay, SameRows, TypeInv, TypeOK
  <2> QED BY <1>1, <1>2, <2>2, QuietSteps DEF Keys, SameRows, RowsKept
<1>4. CASE UNCHANGED <<signal, task>>
  BY <1>1, <1>2, <1>4, MoveOn
<1> QED BY <1>3, <1>4 DEF ReplayStep, AbortReplay, BeginReplay, PublishReplay, dbVars

\* Crashes roll sessions back and the outside world changes no row.
LEMMA KeysEnvironment ==
    ASSUME TypeInv, Keys,
           \/ StopWorker
           \/ ApiCrash
           \/ \E e \in Events : ForgetFill(e)
           \/ \E id \in window : CloseWindow(id)
           \/ UNCHANGED vars
    PROVE  Keys' /\ RowsKept
<1>1. CASE StopWorker
  BY <1>1, MoveOn, AbortMovesOn DEF StopWorker, IngestSteps, dbVars
<1>2. CASE ApiCrash
  BY <1>2, MoveOn, AbortMovesOn DEF ApiCrash, IngestSteps, dbVars
<1>3. CASE UNCHANGED <<dbVars, ingestVars>>
  BY <1>3, MoveOn DEF dbVars, ingestVars, QuietMove
<1> QED BY <1>1, <1>2, <1>3 DEF ForgetFill, CloseWindow, vars

-----------------------------------------------------------------------------
\* What loops and replays work on stays stored while they work on it.
Sound == LoopSound /\ ReplaySound /\ OrderSound

LEMMA SoundElsewhere ==
    ASSUME TypeInv, Sound, RowsKept, UNCHANGED <<workerVars, replayVars, orders>>
    PROVE  Sound'
<1>1. \A l \in Lanes : xpc[l] # "idle" => xmsg[l].task \in Tasks
  BY DEF TypeInv, HandsFull, Messages
<1>2. \A rp \in Replays : rpc[rp] = "publishing" => rsignal[rp] \in Deliveries
  BY DEF TypeInv, HandsFull
<1>3. \A rp \in Replays : rtodo[rp] \cup rsent[rp] \subseteq Tasks
  BY DEF TypeInv, TypeOK
<1>4. \A m \in Messages : m.task \in Tasks
  BY DEF Messages
<1> QED BY <1>1, <1>2, <1>3, <1>4
        DEF Sound, LoopSound, ReplaySound, OrderSound, RowsKept, workerVars, replayVars

LEMMA SoundExecutor ==
    ASSUME TypeInv, Sound, RowsKept, NEW l \in Lanes, ExecutorStep(l)
    PROVE  Sound'
<1>1. \A k \in Lanes : xpc[k] # "idle" => xmsg[k] \in Messages /\ xmsg[k].task \in Tasks
  BY DEF TypeInv, HandsFull, Messages
<1>2. ReplaySound'
  <2>1. UNCHANGED replayVars
    BY DEF ExecutorStep, Consume, DropMessage, LoadTask, SkipTask, OpenAttempt,
       PlaceOrder, RefreshPosition, CommitExecution
  <2> QED BY <2>1 DEF Sound, ReplaySound, RowsKept, replayVars, TypeInv, TypeOK, HandsFull
<1>3. OrderSound'
  <2>1. CASE UNCHANGED orders
    BY <2>1 DEF Sound, OrderSound, RowsKept, Messages
  <2>2. CASE xpc[l] = "placing" /\ orders' = [orders EXCEPT ![xmsg[l]] = @ + 1]
    <3>1. task[xmsg[l].task] # "none"
      BY <2>2 DEF Sound, LoopSound
    <3> QED BY <1>1, <2>2, <3>1 DEF Sound, OrderSound, RowsKept, Messages, TypeInv, TypeOK
  <2> QED BY <2>1, <2>2 DEF ExecutorStep, Consume, DropMessage, LoadTask, SkipTask,
          OpenAttempt, PlaceOrder, RefreshPosition, CommitExecution
<1>4. LoopSound'
  <2> SUFFICES ASSUME NEW k \in Lanes
               PROVE  /\ xpc'[k] \in {"loaded", "placing", "acked", "commit"} =>
                             task'[xmsg'[k].task] # "none"
                      /\ xpc'[k] = "commit" =>
                             xresult'[k] \in {"ACKED", "FILLED", "FAILED", "SKIPPED"}
    BY DEF LoopSound
  <2>1. /\ xpc[k] \in {"loaded", "placing", "acked", "commit"} => task'[xmsg[k].task] # "none"
        /\ xpc[k] = "commit" => xresult[k] \in {"ACKED", "FILLED", "FAILED", "SKIPPED"}
    BY <1>1 DEF Sound, LoopSound, RowsKept
  <2>2. CASE k # l
    BY <2>1, <2>2 DEF ExecutorStep, Consume, DropMessage, LoadTask, SkipTask,
       OpenAttempt, PlaceOrder, RefreshPosition, CommitExecution, TypeInv, TypeOK
  <2>3. CASE k = l /\ LoadTask(l)
    BY <1>1, <2>3 DEF LoadTask, RowsKept, TypeInv, TypeOK
  <2>4. CASE k = l /\ (SkipTask(l) \/ OpenAttempt(l) \/ PlaceOrder(l) \/ RefreshPosition(l))
    BY <2>1, <2>4 DEF SkipTask, OpenAttempt, PlaceOrder, RefreshPosition, TypeInv, TypeOK
  <2>5. CASE k = l /\ (Consume(l) \/ DropMessage(l) \/ CommitExecution(l))
    BY <2>5 DEF Consume, DropMessage, CommitExecution, TypeInv, TypeOK
  <2> QED BY <2>2, <2>3, <2>4, <2>5 DEF ExecutorStep
<1> QED BY <1>2, <1>3, <1>4 DEF Sound

LEMMA SoundReplay ==
    ASSUME TypeInv, Sound, RowsKept, NEW rp \in Replays, ReplayStep(rp) \/ AbortReplay(rp)
    PROVE  Sound'
<1>1. LoopSound' /\ OrderSound'
  <2>1. UNCHANGED <<workerVars, orders>>
    BY DEF ReplayStep, AbortReplay, BeginReplay, PublishReplay, CommitReplay
  <2> QED BY <2>1 DEF Sound, LoopSound, OrderSound, RowsKept, workerVars, Messages,
          TypeInv, HandsFull
<1>2. ReplaySound'
  <2>1. /\ \A q \in Replays : \A t \in rtodo[q] \cup rsent[q] : t \in Tasks /\ task'[t] # "none"
        /\ \A q \in Replays : rpc[q] = "publishing" => signal'[rsignal[q]] # "none"
    BY DEF Sound, ReplaySound, RowsKept, TypeInv, TypeOK, HandsFull
  <2>2. CASE BeginReplay(rp)
    BY <2>1, <2>2 DEF BeginReplay, ReplaySound, dbVars, TypeInv, TypeOK
  <2>3. CASE PublishReplay(rp)
    BY <2>1, <2>3 DEF PublishReplay, ReplaySound, dbVars, TypeInv, TypeOK
  <2>4. CASE CommitReplay(rp) \/ AbortReplay(rp)
    BY <2>1, <2>4 DEF CommitReplay, AbortReplay, ReplaySound, TypeInv, TypeOK
  <2> QED BY <2>2, <2>3, <2>4 DEF ReplayStep
<1> QED BY <1>1, <1>2 DEF Sound

\* An order that left before place_order raised was for a stored task, too.
LEMMA SoundStop ==
    ASSUME TypeInv, Sound, RowsKept, StopWorker,
           \A m \in Messages : orders'[m] > 0 =>
               orders[m] > 0 \/ \E l \in Lanes : xpc[l] = "placing" /\ m = xmsg[l]
    PROVE  Sound'
<1>1. LoopSound'
  BY DEF StopWorker, LoopSound
<1>2. ReplaySound'
  BY DEF StopWorker, Sound, ReplaySound, RowsKept, replayVars, TypeInv, TypeOK, HandsFull
<1>3. OrderSound'
  BY DEF Sound, OrderSound, LoopSound, RowsKept, Messages
<1> QED BY <1>1, <1>2, <1>3 DEF Sound

LEMMA SoundApiCrash ==
    ASSUME TypeInv, Sound, RowsKept, ApiCrash
    PROVE  Sound'
<1>1. LoopSound' /\ OrderSound'
  BY DEF ApiCrash, Sound, LoopSound, OrderSound, RowsKept, workerVars, Messages, TypeInv,
     HandsFull
<1>2. ReplaySound'
  BY DEF ApiCrash, Sound, ReplaySound, RowsKept, TypeInv, TypeOK, HandsFull
<1> QED BY <1>1, <1>2 DEF Sound

LEMMA KeyInit == Init => KeyInv
<1> SUFFICES ASSUME Init PROVE KeyInv
  OBVIOUS
<1>1. TypeInv
  BY TypeInit
<1>2. SignalInv
  BY DEF Init, PipelineInit, SignalInv, AdoptedSound, SoleInserter, RowsAreCommitted,
     OneSignalPerFill, Open, Tasks
<1>3. TaskKeyUnique
  BY DEF Init, PipelineInit, TaskKeyUnique, Open, Tasks
<1>4. LoopSound /\ ReplaySound /\ OrderSound
  BY DEF Init, PipelineInit, LoopSound, ReplaySound, OrderSound
<1> QED BY <1>1, <1>2, <1>3, <1>4 DEF KeyInv

LEMMA KeyStep == KeyInv /\ [Next]_vars => KeyInv'
<1> SUFFICES ASSUME KeyInv, [Next]_vars PROVE KeyInv'
  OBVIOUS
<1>1. TypeInv /\ Keys /\ Sound /\ LoopSound /\ ReplaySound
  BY DEF KeyInv, Keys, Sound
<1>2. TypeInv'
  BY <1>1, TypeStep
<1>3. Keys' /\ Sound' => KeyInv'
  BY <1>2 DEF KeyInv, Keys, Sound
<1>4. ASSUME NEW d \in Deliveries, IngestStep(d) \/ AbortIngest(d) PROVE KeyInv'
  <2>1. UNCHANGED <<workerVars, replayVars, orders>>
    BY <1>4 DEF IngestStep, AbortIngest, CheckIdempotency, RejectUnknownSource, LookupEvent,
       InsertEvent, ListRoutes, LookupTask, InsertTask, Remember, CommitIngest, DeadlockVictim
  <2> QED BY <1>1, <1>3, <1>4, <2>1, KeysIngest, SoundElsewhere
<1>5. ASSUME NEW l \in Lanes, ExecutorStep(l) PROVE KeyInv'
  BY <1>1, <1>3, <1>5, KeysExecutor, SoundExecutor
<1>6. ASSUME NEW rp \in Replays, ReplayStep(rp) \/ AbortReplay(rp) PROVE KeyInv'
  BY <1>1, <1>3, <1>6, KeysReplay, SoundReplay
<1>7. ASSUME NEW l \in Lanes, PlaceOrderRaises(l) PROVE KeyInv'
  <2>1. \A m \in Messages : orders'[m] > 0 =>
            orders[m] > 0 \/ (xpc[l] = "placing" /\ m = xmsg[l])
    BY <1>1, <1>7 DEF PlaceOrderRaises, TypeInv, TypeOK
  <2> QED BY <1>1, <1>3, <1>7, <2>1, KeysEnvironment, SoundStop DEF PlaceOrderRaises
<1>8. CASE WorkerCrash
  BY <1>1, <1>3, <1>8, KeysEnvironment, SoundStop DEF WorkerCrash
<1>9. CASE ApiCrash
  BY <1>1, <1>3, <1>9, KeysEnvironment, SoundApiCrash
<1>10. CASE (\E e \in Events : ForgetFill(e)) \/ (\E id \in window : CloseWindow(id))
            \/ UNCHANGED vars
  <2>1. UNCHANGED <<workerVars, replayVars, orders>>
    BY <1>10 DEF ForgetFill, CloseWindow, vars
  <2> QED BY <1>1, <1>3, <1>10, <2>1, KeysEnvironment, SoundElsewhere
<1> QED BY <1>4, <1>5, <1>6, <1>7, <1>8, <1>9, <1>10 DEF Next

\* Two stored tasks of one fill and one route are the same task: their signals
\* are the fill's only one, and the key of the task is unique.
LEMMA KeysGiveOneTask == KeyInv => OneTaskPerFill
<1> SUFFICES ASSUME KeyInv, NEW t \in Tasks, NEW u \in Tasks,
                    task[t] # "none", task[u] # "none", SameCopy(t, u)
             PROVE  t = u
  BY DEF OneTaskPerFill
<1>1. PICK d \in Deliveries, o \in Deliveries, r \in Routes : t = <<d, r>> /\ u = <<o, r>>
  BY DEF Tasks, SameCopy
<1>2. pc[d] = "done" /\ pc[o] = "done"
  BY <1>1 DEF KeyInv, SignalInv, RowsAreCommitted
<1>3. /\ adopted[d] \in Deliveries /\ adopted[o] \in Deliveries
      /\ signal[adopted[d]] # "none" /\ signal[adopted[o]] # "none"
      /\ EventOf[adopted[d]] = EventOf[adopted[o]]
  BY <1>1, <1>2 DEF KeyInv, SignalInv, AdoptedSound, TypeInv, HandsFull, SameCopy
<1>4. adopted[d] = adopted[o]
  BY <1>3 DEF KeyInv, SignalInv, OneSignalPerFill
<1>5. d = o
  BY <1>1, <1>4 DEF KeyInv, TaskKeyUnique
<1> QED BY <1>1, <1>5

\* However often a fill is delivered, one task of it is stored for a route.
THEOREM OneTask == Spec => []OneTaskPerFill
<1>1. Spec => []KeyInv
  BY KeyInit, KeyStep, PTL DEF Spec
<1> QED BY <1>1, KeysGiveOneTask, PTL

\* However often a fill is delivered, one of the planner's commands for a
\* route makes the exchange accept an order.
THEOREM OneCopy == Spec => []NoDuplicateCopies
<1>1. Spec => []KeyInv
  BY KeyInit, KeyStep, PTL DEF Spec
<1>2. KeyInv => NoDuplicateCopies
  <2> SUFFICES ASSUME KeyInv, NEW t \in Tasks, NEW u \in Tasks,
                      orders[Planned(t)] > 0, orders[Planned(u)] > 0, SameCopy(t, u)
               PROVE  t = u
    BY DEF NoDuplicateCopies
  <2>1. Planned(t) \in Messages /\ Planned(u) \in Messages
    BY DEF Planned, Messages, Tasks
  <2>2. task[t] # "none" /\ task[u] # "none"
    BY <2>1 DEF KeyInv, OrderSound, Planned
  <2> QED BY <2>2, KeysGiveOneTask DEF OneTaskPerFill
<1> QED BY <1>1, <1>2, PTL

-----------------------------------------------------------------------------
\* A loop that will store ACKED or FILLED has made the exchange accept an order.
AckedHasOrder ==
    \A l \in Lanes :
        \/ xpc[l] = "acked"
        \/ xpc[l] = "commit" /\ xresult[l] \in {"ACKED", "FILLED"}
        => orders[xmsg[l]] > 0

BackedInv == KeyInv /\ SettledIsBacked /\ AckedHasOrder

\* Steps that store no new outcome and only add evidence.
NoNewOutcome ==
    /\ \A t \in Tasks : task'[t] = task[t] \/ task'[t] = "DISPATCHED"
    /\ \A m \in Messages : orders[m] > 0 => orders'[m] > 0
    /\ attempts' = attempts

LEMMA BackedKept ==
    ASSUME TypeInv, SettledIsBacked, NoNewOutcome
    PROVE  SettledIsBacked'
<1> SUFFICES ASSUME NEW t \in Tasks
             PROVE  /\ task'[t] \in {"ACKED", "FILLED", "FAILED"} => attempts'[t] > 0
                    /\ task'[t] \in {"ACKED", "FILLED"} =>
                          \E m \in MessagesOf(t) : orders'[m] > 0
  BY DEF SettledIsBacked
<1>1. task'[t] = task[t] \/ task'[t] = "DISPATCHED"
  BY DEF NoNewOutcome
<1>2. \A m \in MessagesOf(t) : m \in Messages
  BY DEF MessagesOf, Messages
<1> QED BY <1>1, <1>2 DEF SettledIsBacked, NoNewOutcome

LEMMA BackedExecutor ==
    ASSUME TypeInv, SettledIsBacked, AckedHasOrder, NEW l \in Lanes, ExecutorStep(l)
    PROVE  SettledIsBacked' /\ AckedHasOrder'
<1>1. CASE CommitExecution(l)
  <2> DEFINE t == xmsg[l].task
  <2>1. /\ xpc[l] = "commit" /\ xmsg[l] \in Messages /\ t \in Tasks
        /\ orders' = orders
    BY <1>1 DEF CommitExecution, TypeInv, HandsFull, Messages
  <2>2. /\ attempts \in [Tasks -> Nat] /\ task \in [Tasks -> TaskStatus]
        /\ xpc \in [Lanes -> {"idle", "fetched", "loaded", "placing", "acked", "commit"}]
        /\ xmsg \in [Lanes -> Messages \cup {None}]
    BY DEF TypeInv, TypeOK
  <2>3. AckedHasOrder'
    BY <1>1, <2>1, <2>2 DEF CommitExecution, AckedHasOrder
  <2>4. \A u \in Tasks : u # t => task'[u] = task[u] /\ attempts'[u] = attempts[u]
    BY <1>1, <2>1, <2>2 DEF CommitExecution
  <2>5. xresult[l] \in {"ACKED", "FILLED", "FAILED"} => attempts'[t] > 0
    BY <1>1, <2>1, <2>2 DEF CommitExecution
  <2>6. xresult[l] \in {"ACKED", "FILLED"} => \E m \in MessagesOf(t) : orders'[m] > 0
    <3>1. xmsg[l] \in MessagesOf(t)
      BY <2>1 DEF MessagesOf, Messages
    <3> QED BY <2>1, <3>1 DEF AckedHasOrder
  <2>7. task'[t] = task[t] \/ task'[t] = xresult[l]
    BY <1>1, <2>1, <2>2 DEF CommitExecution
  <2>8. attempts[t] > 0 => attempts'[t] > 0
    BY <1>1, <2>1, <2>2 DEF CommitExecution
  <2> HIDE DEF t
  <2> QED BY <2>1, <2>3, <2>4, <2>5, <2>6, <2>7, <2>8 DEF SettledIsBacked
<1>2. CASE PlaceOrder(l)
  <2>1. xmsg[l] \in Messages
    BY <1>2 DEF PlaceOrder, TypeInv, HandsFull
  <2>2. NoNewOutcome
    <3>1. orders \in [Messages -> Nat]
      BY DEF TypeInv, TypeOK
    <3>2. orders' = orders \/ orders' = [orders EXCEPT ![xmsg[l]] = @ + 1]
      BY <1>2 DEF PlaceOrder
    <3>3. \A m \in Messages : orders[m] > 0 => orders'[m] > 0
      BY <2>1, <3>1, <3>2
    <3> QED BY <1>2, <3>3 DEF PlaceOrder, NoNewOutcome, dbVars
  <2>3. AckedHasOrder'
    BY <1>2, <2>1 DEF PlaceOrder, AckedHasOrder, TypeInv, TypeOK, HandsFull
  <2> QED BY <2>2, <2>3, BackedKept
<1>3. CASE Consume(l) \/ DropMessage(l) \/ LoadTask(l) \/ SkipTask(l) \/ OpenAttempt(l)
           \/ RefreshPosition(l)
  <2>1. NoNewOutcome
    BY <1>3 DEF Consume, DropMessage, LoadTask, SkipTask, OpenAttempt, RefreshPosition,
       NoNewOutcome, dbVars
  <2>2. AckedHasOrder'
    BY <1>3 DEF Consume, DropMessage, LoadTask, SkipTask, OpenAttempt, RefreshPosition,
       AckedHasOrder, TypeInv, TypeOK
  <2> QED BY <2>1, <2>2, BackedKept
<1> QED BY <1>1, <1>2, <1>3 DEF ExecutorStep

LEMMA BackedElsewhere ==
    ASSUME TypeInv, SettledIsBacked, AckedHasOrder, NoNewOutcome, UNCHANGED <<workerVars, orders>>
    PROVE  SettledIsBacked' /\ AckedHasOrder'
  BY BackedKept DEF AckedHasOrder, workerVars

\* A worker that stops leaves its loops idle; the evidence stays.
LEMMA BackedStop ==
    ASSUME TypeInv, SettledIsBacked, StopWorker, NEW m \in Messages,
           orders' = orders \/ orders' = [orders EXCEPT ![m] = @ + 1]
    PROVE  SettledIsBacked' /\ AckedHasOrder'
<1>1. AckedHasOrder'
  BY DEF StopWorker, AckedHasOrder
<1>2. orders \in [Messages -> Nat]
  BY DEF TypeInv, TypeOK
<1>3. \A n \in Messages : orders[n] > 0 => orders'[n] > 0
  BY <1>2
<1>4. NoNewOutcome
  BY <1>3 DEF StopWorker, NoNewOutcome, dbVars
<1> QED BY <1>1, <1>4, BackedKept

LEMMA BackedStep == BackedInv /\ [Next]_vars => BackedInv'
<1> SUFFICES ASSUME BackedInv, [Next]_vars PROVE BackedInv'
  OBVIOUS
<1>1. KeyInv' /\ TypeInv /\ SettledIsBacked /\ AckedHasOrder
  BY KeyStep DEF BackedInv, KeyInv
<1>2. ASSUME NEW d \in Deliveries, IngestStep(d) \/ AbortIngest(d) PROVE BackedInv'
  <2>1. NoNewOutcome /\ UNCHANGED <<workerVars, orders>>
    BY <1>2 DEF IngestStep, AbortIngest, CheckIdempotency, RejectUnknownSource, LookupEvent,
       InsertEvent, ListRoutes, LookupTask, InsertTask, Remember, CommitIngest, DeadlockVictim,
       NoNewOutcome, dbVars
  <2> QED BY <1>1, <2>1, BackedElsewhere DEF BackedInv
<1>3. ASSUME NEW l \in Lanes, ExecutorStep(l) PROVE BackedInv'
  BY <1>1, <1>3, BackedExecutor DEF BackedInv
<1>4. ASSUME NEW rp \in Replays, ReplayStep(rp) \/ AbortReplay(rp) PROVE BackedInv'
  <2>1. NoNewOutcome /\ UNCHANGED <<workerVars, orders>>
    BY <1>4 DEF ReplayStep, AbortReplay, BeginReplay, PublishReplay, CommitReplay,
       NoNewOutcome, dbVars
  <2> QED BY <1>1, <2>1, BackedElsewhere DEF BackedInv
<1>5. ASSUME NEW l \in Lanes, PlaceOrderRaises(l) PROVE BackedInv'
  <2>1. /\ xmsg[l] \in Messages
        /\ orders' = orders \/ orders' = [orders EXCEPT ![xmsg[l]] = @ + 1]
        /\ StopWorker
    BY <1>1, <1>5 DEF PlaceOrderRaises, TypeInv, HandsFull
  <2> QED BY <1>1, <2>1, BackedStop DEF BackedInv
<1>6. CASE WorkerCrash
  <2>1. NoNewOutcome /\ AckedHasOrder'
    BY <1>6 DEF WorkerCrash, StopWorker, NoNewOutcome, AckedHasOrder, dbVars
  <2> QED BY <1>1, <2>1, BackedKept DEF BackedInv
<1>7. CASE \/ ApiCrash
           \/ \E e \in Events : ForgetFill(e)
           \/ \E id \in window : CloseWindow(id)
           \/ UNCHANGED vars
  <2>1. NoNewOutcome /\ UNCHANGED <<workerVars, orders>>
    BY <1>7 DEF ApiCrash, ForgetFill, CloseWindow, vars, NoNewOutcome, dbVars
  <2> QED BY <1>1, <2>1, BackedElsewhere DEF BackedInv
<1> QED BY <1>2, <1>3, <1>4, <1>5, <1>6, <1>7 DEF Next

\* A stored ACKED, FILLED or FAILED has a stored attempt, and an ACKED or
\* FILLED an order at the exchange.
THEOREM Backed == Spec => []SettledIsBacked
<1>1. Init => BackedInv
  <2>1. Init => SettledIsBacked /\ AckedHasOrder
    BY DEF Init, PipelineInit, SettledIsBacked, AckedHasOrder
  <2> QED BY <2>1, KeyInit DEF BackedInv
<1>2. BackedInv => SettledIsBacked
  BY DEF BackedInv
<1> QED BY <1>1, <1>2, BackedStep, PTL DEF Spec
=============================================================================
