---------------------------- MODULE OneOrder_proofs ----------------------------
(***************************************************************************)
(* Proofs that a command is executed once, for any number of deliveries,    *)
(* routes, replays and faults, for both queue backends: a message is in one *)
(* place at a time, and is published once.                                  *)
(***************************************************************************)
EXTENDS CopyPipeline_proofs

Waiting(m) == \E p \in Places : \E i \in DOMAIN queue[p] : queue[p][i] = m
Busy(l) == xpc[l] # "idle"
Unsent(l) == xpc[l] \in {"fetched", "loaded", "placing"}

\* A message waits once, or one loop holds it.
NoTwins ==
    \A p, q \in Places : \A i \in DOMAIN queue[p] : \A j \in DOMAIN queue[q] :
        queue[p][i] = queue[q][j] => p = q /\ i = j

InOnePlace ==
    /\ NoTwins
    /\ \A l \in Lanes : Busy(l) => ~ Waiting(xmsg[l])
    /\ \A k, l \in Lanes : Busy(k) /\ Busy(l) /\ xmsg[k] = xmsg[l] => k = l

\* One that has not reached the exchange has no order there.
OrdersCounted ==
    /\ \A m \in Messages : orders[m] <= 1
    /\ \A m \in Messages : Waiting(m) => orders[m] = 0
    /\ \A l \in Lanes : Unsent(l) => orders[xmsg[l]] = 0

\* Whatever is somewhere was published, and what is published next was not.
Traced ==
    /\ \A m \in Messages : Waiting(m) \/ orders[m] > 0 => Published(m)
    /\ \A l \in Lanes : Busy(l) => Published(xmsg[l])

FreshSession(d) ==
    /\ pc[d] \in {"plan", "insertTask"} => todo[d] \cap made[d] = {}
    /\ pc[d] = "insertTask" => wanted[d] \notin made[d] \cup todo[d]
FreshReplay(rp) ==
    /\ rtodo[rp] \cap rsent[rp] = {}
    /\ rpc[rp] = "idle" => rsent[rp] = {}
FreshNext == (\A d \in Deliveries : FreshSession(d)) /\ (\A rp \in Replays : FreshReplay(rp))

\* The planner's command of a filled task is over, unless a replay selected the task.
Selected(t) == \E rp \in Replays : t \in rsent[rp]
Over(m) == Published(m) /\ ~ Waiting(m) /\ \A l \in Lanes : Busy(l) => xmsg[l] # m
FilledKept == \A t \in Tasks : task[t] = "FILLED" => Selected(t) \/ Over(Planned(t))

MovesInv == InOnePlace /\ OrdersCounted /\ Traced /\ FilledKept
CommandInv == KeyInv /\ MovesInv /\ FreshNext

-----------------------------------------------------------------------------
(* The queues.                                                              *)

\* A message that is taken waits no longer, and the others wait as before.
LEMMA Take ==
    ASSUME queue \in [Places -> Seq(Messages)], NoTwins, NEW p \in Places, queue[p] # <<>>,
           NEW n, n = Head(queue[p]), queue' = [queue EXCEPT ![p] = Tail(@)]
    PROVE  /\ NoTwins' /\ \A m : Waiting(m)' => Waiting(m)
           /\ Waiting(n) /\ ~ Waiting(n)'
<1>1. /\ queue[p] \in Seq(Messages) /\ Len(queue[p]) \in Nat /\ Len(queue[p]) > 0
      /\ DOMAIN queue[p] = 1 .. Len(queue[p]) /\ n = queue[p][1]
  OBVIOUS
<1>2. /\ DOMAIN queue'[p] = 1 .. Len(queue[p]) - 1
      /\ \A i \in DOMAIN queue'[p] : queue'[p][i] = queue[p][i + 1]
  <2>1. queue'[p] = Tail(queue[p])
    OBVIOUS
  <2> QED
    BY <1>1, <2>1
<1>3. \A q \in Places \ {p} : queue'[q] = queue[q]
  OBVIOUS
<1> DEFINE was(q, i) == IF q = p THEN i + 1 ELSE i
<1>4. \A q \in Places : \A i \in DOMAIN queue'[q] :
          was(q, i) \in DOMAIN queue[q] /\ queue'[q][i] = queue[q][was(q, i)]
  BY <1>1, <1>2, <1>3
<1>5. \A i \in DOMAIN queue'[p] : i \in Nat /\ was(p, i) # 1
  BY <1>1, <1>2
<1>6. \A q \in Places : \A i, j \in DOMAIN queue'[q] : was(q, i) = was(q, j) => i = j
  <2> SUFFICES ASSUME NEW q \in Places, NEW i \in DOMAIN queue'[q], NEW j \in DOMAIN queue'[q],
                      was(q, i) = was(q, j)
               PROVE  i = j
    OBVIOUS
  <2>1. CASE q = p
    <3>1. i \in Nat /\ j \in Nat
      BY <1>5, <2>1
    <3> QED
      BY <2>1, <3>1
  <2>2. CASE q # p
    BY <2>2
  <2> QED
    BY <2>1, <2>2
<1> HIDE DEF was
<1>7. NoTwins'
  BY <1>4, <1>6 DEF NoTwins
<1>8. \A m : Waiting(m)' => Waiting(m)
  BY <1>4 DEF Waiting
<1>9. Waiting(n)
  BY <1>1 DEF Waiting
<1>10. ~ Waiting(n)'
  <2> SUFFICES ASSUME NEW q \in Places, NEW i \in DOMAIN queue'[q], queue'[q][i] = n
               PROVE  FALSE
    BY <1>1 DEF Waiting
  <2>1. queue[q][was(q, i)] = queue[p][1] /\ was(q, i) \in DOMAIN queue[q] /\ 1 \in DOMAIN queue[p]
    BY <1>1, <1>4
  <2>2. q = p /\ was(q, i) = 1
    BY <2>1 DEF NoTwins
  <2> QED
    BY <1>5, <2>2
<1> QED
  BY <1>7, <1>8, <1>9, <1>10

\* A message that waits nowhere waits once when it is put on a queue.
LEMMA Put ==
    ASSUME queue \in [Places -> Seq(Messages)], NoTwins, NEW p \in Places, NEW n \in Messages,
           ~ Waiting(n), queue' = [queue EXCEPT ![p] = Append(@, n)]
    PROVE  NoTwins' /\ \A m : Waiting(m)' => Waiting(m) \/ m = n
<1>1. queue[p] \in Seq(Messages) /\ Len(queue[p]) \in Nat /\ DOMAIN queue[p] = 1 .. Len(queue[p])
  OBVIOUS
<1>2. /\ DOMAIN queue'[p] = 1 .. Len(queue[p]) + 1
      /\ \A i \in DOMAIN queue[p] : queue'[p][i] = queue[p][i]
      /\ queue'[p][Len(queue[p]) + 1] = n
  <2>1. queue'[p] = Append(queue[p], n)
    OBVIOUS
  <2> QED
    BY <1>1, <2>1
<1>3. \A q \in Places \ {p} : queue'[q] = queue[q]
  OBVIOUS
<1>4. \A q \in Places : \A i \in DOMAIN queue'[q] :
          \/ i \in DOMAIN queue[q] /\ queue'[q][i] = queue[q][i]
          \/ q = p /\ i = Len(queue[p]) + 1 /\ queue'[q][i] = n
  BY <1>1, <1>2, <1>3
<1>5. \A q \in Places : \A i \in DOMAIN queue[q] : queue[q][i] # n
  BY DEF Waiting
<1>6. NoTwins'
  <2> SUFFICES ASSUME NEW q \in Places, NEW o \in Places, NEW i \in DOMAIN queue'[q],
                      NEW j \in DOMAIN queue'[o], queue'[q][i] = queue'[o][j]
               PROVE  q = o /\ i = j
    BY DEF NoTwins
  <2>1. CASE i \in DOMAIN queue[q] /\ queue'[q][i] = queue[q][i]
    <3>1. j \in DOMAIN queue[o] /\ queue'[o][j] = queue[o][j]
      BY <1>4, <1>5, <2>1
    <3> QED
      BY <2>1, <3>1 DEF NoTwins
  <2>2. CASE q = p /\ i = Len(queue[p]) + 1 /\ queue'[q][i] = n
    BY <1>4, <1>5, <2>2
  <2> QED
    BY <1>4, <2>1, <2>2
<1>7. \A m : Waiting(m)' => Waiting(m) \/ m = n
  BY <1>4 DEF Waiting
<1> QED
  BY <1>6, <1>7

\* Queues that are lost leave the others as they were.
LEMMA Lose ==
    ASSUME NoTwins, \A q \in Places : queue'[q] = <<>> \/ queue'[q] = queue[q]
    PROVE  NoTwins' /\ \A m : Waiting(m)' => Waiting(m)
<1>1. \A q \in Places : \A i \in DOMAIN queue'[q] : i \in DOMAIN queue[q] /\ queue'[q][i] = queue[q][i]
  OBVIOUS
<1> QED
  BY <1>1 DEF NoTwins, Waiting

-----------------------------------------------------------------------------
(* Steps by how they move messages.                                         *)

\* Nothing that was published is unpublished.
LogGrows ==
    /\ \A d \in Deliveries : made[d] \subseteq made'[d]
    /\ \A rp \in Replays : rsent[rp] \subseteq rsent'[rp]

\* A published message stays published.
LEMMA PublishedStays ==
    ASSUME LogGrows, NEW m \in Messages, Published(m) PROVE Published(m)'
<1>1. m.task[1] \in Deliveries
  BY DEF Messages, Tasks
<1> QED
  BY <1>1 DEF LogGrows, Published

NoNewFilled == \A t \in Tasks : task'[t] = "FILLED" => task[t] = "FILLED"

\* No message is put anywhere, and no loop takes one: at most an order is placed.
LEMMA MovesOn ==
    ASSUME TypeInv, MovesInv, LogGrows, NoTwins', \A m : Waiting(m)' => Waiting(m),
           \A l \in Lanes : Busy(l)' => /\ Busy(l) /\ xmsg'[l] = xmsg[l]
                                        /\ Unsent(l)' => Unsent(l),
           \/ orders' = orders
           \/ \E l \in Lanes : /\ xpc[l] = "placing" /\ ~ Unsent(l)'
                               /\ orders' = [orders EXCEPT ![xmsg[l]] = @ + 1]
    PROVE  /\ InOnePlace' /\ OrdersCounted' /\ Traced'
           /\ \A t \in Tasks : Selected(t) \/ Over(Planned(t)) => (Selected(t) \/ Over(Planned(t)))'
<1>1. \A l \in Lanes : Busy(l) => xmsg[l] \in Messages
  BY DEF TypeInv, HandsFull, Busy
<1>2. InOnePlace'
  BY DEF MovesInv, InOnePlace
<1>3. OrdersCounted' /\ \A m \in Messages : orders'[m] > 0 => orders[m] > 0 \/ Published(m)
  <2>1. CASE orders' = orders
    BY <2>1 DEF MovesInv, OrdersCounted, Unsent, Busy
  <2>2. ASSUME NEW l \in Lanes, xpc[l] = "placing", ~ Unsent(l)',
               orders' = [orders EXCEPT ![xmsg[l]] = @ + 1]
        PROVE  OrdersCounted' /\ \A m \in Messages : orders'[m] > 0 => orders[m] > 0 \/ Published(m)
    <3> DEFINE n == xmsg[l]
    <3>1. /\ Busy(l) /\ Unsent(l) /\ n \in Messages /\ orders[n] = 0 /\ ~ Waiting(n) /\ Published(n)
      BY <1>1, <2>2 DEF MovesInv, InOnePlace, OrdersCounted, Traced, Busy, Unsent
    <3>2. orders'[n] = 1 /\ \A m \in Messages \ {n} : orders'[m] = orders[m]
      BY <2>2, <3>1 DEF TypeInv, TypeOK
    <3>3. \A k \in Lanes \ {l} : Busy(k) => xmsg[k] # n
      BY <3>1 DEF MovesInv, InOnePlace
    <3> HIDE DEF n
    <3>4. \A m \in Messages : orders'[m] <= 1 /\ (Waiting(m)' => orders'[m] = 0)
      BY <3>1, <3>2 DEF MovesInv, OrdersCounted
    <3>5. \A k \in Lanes : Unsent(k)' => orders'[xmsg'[k]] = 0
      <4> SUFFICES ASSUME NEW k \in Lanes, Unsent(k)' PROVE orders'[xmsg'[k]] = 0
        OBVIOUS
      <4>1. Busy(k)'
        BY DEF Busy, Unsent
      <4>2. Busy(k) /\ xmsg'[k] = xmsg[k] /\ Unsent(k) /\ k # l
        BY <2>2, <4>1
      <4>3. xmsg[k] \in Messages \ {n} /\ orders[xmsg[k]] = 0
        BY <1>1, <3>3, <4>2 DEF MovesInv, OrdersCounted
      <4> QED
        BY <3>2, <4>2, <4>3
    <3> QED
      BY <3>1, <3>2, <3>4, <3>5 DEF OrdersCounted
  <2> QED
    BY <2>1, <2>2
<1>4. Traced'
  BY <1>1, <1>3, PublishedStays DEF MovesInv, Traced
<1>5. ASSUME NEW t \in Tasks, Selected(t) \/ Over(Planned(t)) PROVE (Selected(t) \/ Over(Planned(t)))'
  <2>1. Planned(t) \in Messages
    BY DEF Planned, Messages, Tasks
  <2> QED
    BY <1>5, <2>1, PublishedStays DEF Selected, Over, LogGrows
<1> QED
  BY <1>2, <1>3, <1>4, <1>5

\* A step that fills no task anew.
LEMMA MovesKept ==
    ASSUME TypeInv, MovesInv, LogGrows, NoTwins', \A m : Waiting(m)' => Waiting(m), NoNewFilled,
           \A l \in Lanes : Busy(l)' => /\ Busy(l) /\ xmsg'[l] = xmsg[l]
                                        /\ Unsent(l)' => Unsent(l),
           \/ orders' = orders
           \/ \E l \in Lanes : /\ xpc[l] = "placing" /\ ~ Unsent(l)'
                               /\ orders' = [orders EXCEPT ![xmsg[l]] = @ + 1]
    PROVE  MovesInv'
<1>1. /\ InOnePlace' /\ OrdersCounted' /\ Traced'
      /\ \A t \in Tasks : Selected(t) \/ Over(Planned(t)) => (Selected(t) \/ Over(Planned(t)))'
  BY MovesOn
<1>2. FilledKept'
  BY <1>1 DEF MovesInv, FilledKept, NoNewFilled
<1> QED
  BY <1>1, <1>2 DEF MovesInv

\* A message that was never published is put on a queue, or dropped as a duplicate.
LEMMA MovesPublished ==
    ASSUME TypeInv, MovesInv, LogGrows, NEW p \in Processes, NEW lane \in Lanes, NEW n \in Messages,
           Publish(p, lane, n), ~ Published(n), Published(n)', UNCHANGED <<task, xpc, xmsg, orders>>
    PROVE  MovesInv'
<1>1. queue \in [Places -> Seq(Messages)] /\ NoTwins
  BY DEF TypeInv, TypeOK, MovesInv, InOnePlace
<1>2. /\ ~ Waiting(n) /\ orders[n] = 0 /\ \A l \in Lanes : Busy(l) => xmsg[l] # n
  BY DEF MovesInv, Traced, TypeInv, TypeOK
<1> DEFINE place == <<BrokerOf(p), lane, GroupOf(n.task)>>
<1>3. place \in Places
  <2>1. n.task \in Tasks /\ n.task[1] \in Deliveries /\ n.task[2] \in Routes
    BY DEF Messages, Tasks
  <2>2. BrokerOf(p) \in Brokers
    BY DEF BrokerOf, Brokers, Processes
  <2>3. GroupOf(n.task) \in Groups
    BY <2>1, ConstantsOK DEF GroupOf, Groups, SlotOf, Slots
  <2> QED
    BY <2>2, <2>3 DEF Places
<1>4. queue' = queue \/ queue' = [queue EXCEPT ![place] = Append(@, n)]
  BY DEF Publish
<1> HIDE DEF place
<1>5. NoTwins' /\ \A m : Waiting(m)' => Waiting(m) \/ m = n
  <2>1. CASE queue' = queue
    BY <1>1, <2>1 DEF NoTwins, Waiting
  <2>2. CASE queue' = [queue EXCEPT ![place] = Append(@, n)]
    BY <1>1, <1>2, <1>3, <2>2, Put
  <2> QED
    BY <1>4, <2>1, <2>2
<1>6. InOnePlace'
  BY <1>2, <1>5 DEF MovesInv, InOnePlace, Busy
<1>7. OrdersCounted'
  BY <1>2, <1>5 DEF MovesInv, OrdersCounted, Unsent
<1>8. Traced'
  <2>1. \A l \in Lanes : Busy(l) => xmsg[l] \in Messages
    BY DEF TypeInv, HandsFull, Busy
  <2> QED
    BY <1>5, <2>1, PublishedStays DEF MovesInv, Traced, Busy
<1>9. FilledKept'
  <2> SUFFICES ASSUME NEW t \in Tasks, task[t] = "FILLED" PROVE (Selected(t) \/ Over(Planned(t)))'
    BY DEF FilledKept
  <2>1. Selected(t) \/ Over(Planned(t))
    BY DEF MovesInv, FilledKept
  <2>2. Planned(t) \in Messages
    BY DEF Planned, Messages, Tasks
  <2> QED
    BY <1>5, <2>1, <2>2, PublishedStays DEF Selected, Over, LogGrows, Busy
<1> QED
  BY <1>6, <1>7, <1>8, <1>9 DEF MovesInv

\* A loop takes a message off its queue.
LEMMA MovesTaken ==
    ASSUME TypeInv, MovesInv, NEW l \in Lanes, Consume(l) PROVE MovesInv'
<1>1. PICK group \in Groups :
         /\ queue[<<BrokerOf("worker"), l, group>>] # <<>>
         /\ xmsg' = [xmsg EXCEPT ![l] = Head(queue[<<BrokerOf("worker"), l, group>>])]
         /\ queue' = [queue EXCEPT ![<<BrokerOf("worker"), l, group>>] = Tail(@)]
  BY DEF Consume
<1> DEFINE place == <<BrokerOf("worker"), l, group>>
<1>2. place \in Places
  BY DEF Places, BrokerOf, Brokers
<1>3. queue[place] # <<>> /\ queue' = [queue EXCEPT ![place] = Tail(@)]
      /\ xmsg' = [xmsg EXCEPT ![l] = Head(queue[place])]
  BY <1>1
<1>4. /\ xpc[l] = "idle" /\ xpc' = [xpc EXCEPT ![l] = "fetched"]
      /\ UNCHANGED <<task, orders, made, rsent>>
  BY DEF Consume, dbVars, ingestVars, replayVars
<1>5. queue \in [Places -> Seq(Messages)] /\ NoTwins
  BY DEF TypeInv, TypeOK, MovesInv, InOnePlace
<1>6. PICK n \in Messages : n = Head(queue[place])
  <2>1. queue[place] \in Seq(Messages)
    BY <1>2, <1>5
  <2> QED
    BY <1>3, <2>1
<1> HIDE DEF place
<1>7. NoTwins' /\ (\A m : Waiting(m)' => Waiting(m)) /\ Waiting(n) /\ ~ Waiting(n)'
  BY <1>2, <1>3, <1>5, <1>6, Take
<1>8. /\ xpc'[l] = "fetched" /\ xmsg'[l] = n
      /\ \A k \in Lanes \ {l} : xpc'[k] = xpc[k] /\ xmsg'[k] = xmsg[k]
  BY <1>3, <1>4, <1>6 DEF TypeInv, TypeOK
<1>9. orders[n] = 0 /\ Published(n) /\ \A k \in Lanes : Busy(k) => xmsg[k] # n
  BY <1>6, <1>7 DEF MovesInv, OrdersCounted, Traced, InOnePlace
<1>10. \A m : Published(m)' <=> Published(m)
  BY <1>4 DEF Published
<1>11. InOnePlace'
  BY <1>7, <1>8, <1>9 DEF MovesInv, InOnePlace, Busy
<1>12. OrdersCounted'
  <2>1. \A k \in Lanes : Unsent(k)' => orders[xmsg'[k]] = 0
    BY <1>8, <1>9 DEF MovesInv, OrdersCounted, Unsent
  <2> QED
    BY <1>4, <1>7, <2>1 DEF MovesInv, OrdersCounted
<1>13. Traced'
  BY <1>4, <1>7, <1>8, <1>9, <1>10 DEF MovesInv, Traced, Busy
<1>14. FilledKept'
  <2> SUFFICES ASSUME NEW t \in Tasks, task[t] = "FILLED" PROVE (Selected(t) \/ Over(Planned(t)))'
    BY <1>4 DEF FilledKept
  <2>1. Selected(t) \/ Over(Planned(t))
    BY DEF MovesInv, FilledKept
  <2> QED
    BY <1>4, <1>7, <1>8, <1>10, <2>1 DEF Selected, Over, Busy
<1> QED
  BY <1>11, <1>12, <1>13, <1>14 DEF MovesInv

\* What is written when a loop commits: a filled task is one whose command is over.
LEMMA MovesCommitted ==
    ASSUME TypeInv, MovesInv, NEW l \in Lanes, CommitExecution(l) PROVE MovesInv'
<1>1. PICK n \in Messages : n = xmsg[l]
  BY DEF CommitExecution, TypeInv, HandsFull
<1>2. /\ xpc[l] = "commit" /\ xpc' = [xpc EXCEPT ![l] = "idle"] /\ xmsg' = [xmsg EXCEPT ![l] = None]
      /\ UNCHANGED <<queue, orders, made, rsent>>
  BY DEF CommitExecution, ingestVars, replayVars
<1>3. xpc'[l] = "idle" /\ \A k \in Lanes \ {l} : xpc'[k] = xpc[k] /\ xmsg'[k] = xmsg[k]
  BY <1>2 DEF TypeInv, TypeOK
<1>4. \A t \in Tasks : t # n.task => task'[t] = task[t]
  BY <1>1 DEF CommitExecution, TypeInv, TypeOK, Messages
<1>5. LogGrows /\ NoTwins' /\ (\A m : Waiting(m)' => Waiting(m))
  BY <1>2 DEF LogGrows, MovesInv, InOnePlace, NoTwins, Waiting
<1>6. \A k \in Lanes : Busy(k)' => Busy(k) /\ xmsg'[k] = xmsg[k] /\ (Unsent(k)' => Unsent(k)) /\ k # l
  BY <1>3 DEF Busy, Unsent
<1>7. /\ InOnePlace' /\ OrdersCounted' /\ Traced'
      /\ \A t \in Tasks : Selected(t) \/ Over(Planned(t)) => (Selected(t) \/ Over(Planned(t)))'
  BY <1>2, <1>5, <1>6, MovesOn
<1>8. /\ Busy(l) /\ Published(n) /\ ~ Waiting(n)
      /\ \A k \in Lanes \ {l} : Busy(k) => xmsg[k] # n
  BY <1>1, <1>2 DEF MovesInv, InOnePlace, Traced, Busy
<1>9. Over(n)'
  BY <1>5, <1>6, <1>8, PublishedStays DEF Over
<1>10. FilledKept'
  <2> SUFFICES ASSUME NEW t \in Tasks, task'[t] = "FILLED" PROVE (Selected(t) \/ Over(Planned(t)))'
    BY DEF FilledKept
  <2>1. CASE t # n.task
    BY <1>4, <1>7, <2>1 DEF MovesInv, FilledKept
  <2>2. CASE t = n.task /\ n.via \in Replays /\ n.task \in rsent[n.via]
    BY <1>2, <2>2 DEF Selected
  <2>3. CASE t = n.task /\ n.via = n.task[1]
    <3>1. n = Planned(t)
      BY <2>3 DEF Planned, Messages
    <3> QED
      BY <1>9, <3>1
  <2> QED
    BY <1>8, <2>1, <2>2, <2>3 DEF Published
<1> QED
  BY <1>7, <1>10 DEF MovesInv

\* Steps that leave the queues, the loops and the exchange alone.
LEMMA MovesElsewhere ==
    ASSUME TypeInv, MovesInv, LogGrows, NoNewFilled, UNCHANGED <<queue, xpc, xmsg, orders>>
    PROVE  MovesInv'
<1>1. NoTwins' /\ \A m : Waiting(m)' => Waiting(m)
  BY DEF MovesInv, InOnePlace, NoTwins, Waiting
<1>2. \A l \in Lanes : Busy(l)' => Busy(l) /\ xmsg'[l] = xmsg[l] /\ (Unsent(l)' => Unsent(l))
  BY DEF Busy, Unsent
<1> QED
  BY <1>1, <1>2, MovesKept

\* A loop takes a message, lets go of it, or places its order.
LEMMA MovesExecutor ==
    ASSUME TypeInv, MovesInv, NEW l \in Lanes, ExecutorStep(l) PROVE MovesInv'
<1>1. CASE Consume(l)
  BY <1>1, MovesTaken
<1>2. CASE CommitExecution(l)
  BY <1>2, MovesCommitted
<1>3. CASE DropMessage(l) \/ LoadTask(l) \/ SkipTask(l) \/ OpenAttempt(l) \/ PlaceOrder(l)
           \/ RefreshPosition(l)
  <2>1. /\ UNCHANGED <<queue, task, made, rsent>>
        /\ xpc[l] # "idle"
        /\ \/ xpc' = [xpc EXCEPT ![l] = "idle"]
           \/ /\ UNCHANGED xmsg
              /\ \/ xpc[l] \in {"fetched", "loaded"} /\ xpc' = [xpc EXCEPT ![l] = "loaded"]
                 \/ xpc[l] = "loaded" /\ xpc' = [xpc EXCEPT ![l] = "placing"]
                 \/ xpc' = [xpc EXCEPT ![l] = "acked"]
                 \/ xpc' = [xpc EXCEPT ![l] = "commit"]
        /\ \A k \in Lanes \ {l} : xmsg'[k] = xmsg[k]
        /\ \/ orders' = orders
           \/ /\ xpc[l] = "placing" /\ xpc' = [xpc EXCEPT ![l] = "acked"]
              /\ orders' = [orders EXCEPT ![xmsg[l]] = @ + 1]
    BY <1>3 DEF DropMessage, LoadTask, SkipTask, OpenAttempt, PlaceOrder, RefreshPosition, dbVars,
       ingestVars, replayVars, TypeInv, TypeOK
  <2>2. LogGrows /\ NoNewFilled /\ NoTwins' /\ \A m : Waiting(m)' => Waiting(m)
    BY <2>1 DEF LogGrows, NoNewFilled, MovesInv, InOnePlace, NoTwins, Waiting
  <2>3. \A k \in Lanes : Busy(k)' => Busy(k) /\ xmsg'[k] = xmsg[k] /\ (Unsent(k)' => Unsent(k))
    <3>1. \A k \in Lanes \ {l} : xpc'[k] = xpc[k]
      BY <2>1 DEF TypeInv, TypeOK
    <3>2. Busy(l)' => Busy(l) /\ xmsg'[l] = xmsg[l] /\ (Unsent(l)' => Unsent(l))
      BY <2>1 DEF Busy, Unsent, TypeInv, TypeOK
    <3> QED
      BY <2>1, <3>1, <3>2 DEF Busy, Unsent
  <2>4. \/ orders' = orders
        \/ \E k \in Lanes : /\ xpc[k] = "placing" /\ ~ Unsent(k)'
                            /\ orders' = [orders EXCEPT ![xmsg[k]] = @ + 1]
    BY <2>1 DEF Unsent, TypeInv, TypeOK
  <2> QED
    BY <2>2, <2>3, <2>4, MovesKept
<1> QED
  BY <1>1, <1>2, <1>3 DEF ExecutorStep

\* A stopped worker loses its queues and what its loops held, perhaps after one order more.
LEMMA MovesStop ==
    ASSUME TypeInv, MovesInv, StopWorker,
           \/ orders' = orders
           \/ \E l \in Lanes : xpc[l] = "placing" /\ orders' = [orders EXCEPT ![xmsg[l]] = @ + 1]
    PROVE  MovesInv'
<1>1. \A q \in Places : queue'[q] = <<>> \/ queue'[q] = queue[q]
  BY DEF StopWorker
<1>2. NoTwins' /\ \A m : Waiting(m)' => Waiting(m)
  BY <1>1, Lose DEF MovesInv, InOnePlace
<1>3. LogGrows /\ NoNewFilled
  BY DEF StopWorker, LogGrows, NoNewFilled, dbVars, replayVars
<1>4. \A l \in Lanes : ~ Busy(l)' /\ ~ Unsent(l)'
  BY DEF StopWorker, Busy, Unsent
<1> QED
  BY <1>2, <1>3, <1>4, MovesKept

\* A stopped API loses its queues.
LEMMA MovesApiCrash ==
    ASSUME TypeInv, MovesInv, ApiCrash PROVE MovesInv'
<1>1. \A q \in Places : queue'[q] = <<>> \/ queue'[q] = queue[q]
  BY DEF ApiCrash
<1>2. NoTwins' /\ \A m : Waiting(m)' => Waiting(m)
  BY <1>1, Lose DEF MovesInv, InOnePlace
<1>3. LogGrows /\ NoNewFilled /\ UNCHANGED <<xpc, xmsg, orders>>
  BY DEF ApiCrash, LogGrows, NoNewFilled, dbVars, workerVars
<1>4. \A l \in Lanes : Busy(l)' => Busy(l) /\ xmsg'[l] = xmsg[l] /\ (Unsent(l)' => Unsent(l))
  BY <1>3 DEF Busy, Unsent
<1> QED
  BY <1>2, <1>3, <1>4, MovesKept

\* A session publishes the command of a task it has not made before.
LEMMA MovesIngest ==
    ASSUME TypeInv, MovesInv, FreshNext, NEW d \in Deliveries, IngestStep(d) \/ AbortIngest(d)
    PROVE  MovesInv'
<1>1. CASE /\ InsertTask(d) /\ ~ Abort({d})
  <2>1. PICK w \in Routes : w = wanted[d]
    BY <1>1 DEF InsertTask, TypeInv, HandsFull
  <2> DEFINE n == [task |-> <<d, w>>, via |-> d]
  <2>2. /\ made' = [made EXCEPT ![d] = @ \cup {w}]
        /\ Publish(Host[d], QueueForAction(ActionOf[EventOf[d]]), n)
        /\ UNCHANGED <<task, xpc, xmsg, orders, rsent>> /\ w \notin made[d]
    BY <1>1, <2>1 DEF InsertTask, FreshNext, FreshSession, dbVars, workerVars, replayVars
  <2>3. n \in Messages /\ n.task = <<d, w>> /\ n.via = d /\ d \notin Replays
    BY <2>1, ConstantsOK DEF Messages, Tasks
  <2>4. Host[d] \in Processes /\ QueueForAction(ActionOf[EventOf[d]]) \in Lanes
    BY ConstantsOK DEF QueueForAction, Lanes
  <2>5. ~ Published(n) /\ made'[d] = made[d] \cup {w} /\ LogGrows
    BY <2>2, <2>3 DEF Published, LogGrows, TypeInv, TypeOK
  <2>6. Published(n)'
    BY <2>3, <2>5 DEF Published
  <2> HIDE DEF n
  <2> QED
    BY <2>2, <2>3, <2>4, <2>5, <2>6, MovesPublished
<1>2. CASE CommitIngest(d)
  <2>1. NoNewFilled /\ LogGrows /\ UNCHANGED <<queue, xpc, xmsg, orders>>
    BY <1>2 DEF CommitIngest, NoNewFilled, LogGrows, workerVars, replayVars
  <2> QED
    BY <2>1, MovesElsewhere
<1>3. CASE /\ ~ CommitIngest(d) /\ ~ (InsertTask(d) /\ ~ Abort({d}))
  <2>1. UNCHANGED <<task, queue, xpc, xmsg, orders, made, rsent>>
    BY <1>3 DEF IngestStep, AbortIngest, CheckIdempotency, RejectUnknownSource, LookupEvent,
       InsertEvent, ListRoutes, LookupTask, InsertTask, Remember, DeadlockVictim, dbVars,
       workerVars, replayVars, Abort
  <2>2. NoNewFilled /\ LogGrows
    BY <2>1 DEF NoNewFilled, LogGrows
  <2> QED
    BY <2>1, <2>2, MovesElsewhere
<1> QED
  BY <1>1, <1>2, <1>3

\* A replay publishes a task that it has not sent before.
LEMMA MovesReplay ==
    ASSUME TypeInv, MovesInv, FreshNext, NEW rp \in Replays, ReplayStep(rp) \/ AbortReplay(rp)
    PROVE  MovesInv'
<1>1. CASE PublishReplay(rp)
  <2>1. PICK t \in rtodo[rp] : /\ rsent' = [rsent EXCEPT ![rp] = @ \cup {t}]
                               /\ Publish("api", "recovery", [task |-> t, via |-> rp])
    BY <1>1 DEF PublishReplay
  <2> DEFINE n == [task |-> t, via |-> rp]
  <2>2. Publish("api", "recovery", n) /\ UNCHANGED <<task, xpc, xmsg, orders, made>>
    BY <1>1, <2>1 DEF PublishReplay, dbVars, workerVars, ingestVars
  <2>3. t \in Tasks /\ t[1] \in Deliveries /\ t \notin rsent[rp]
    BY <2>1 DEF TypeInv, TypeOK, Tasks, FreshNext, FreshReplay
  <2>4. n \in Messages /\ n.task = t /\ n.via = rp /\ n.via # n.task[1]
    BY <2>3, ConstantsOK DEF Messages
  <2>5. ~ Published(n) /\ rsent'[rp] = rsent[rp] \cup {t} /\ LogGrows
    BY <2>1, <2>2, <2>3, <2>4 DEF Published, LogGrows, TypeInv, TypeOK
  <2>6. Published(n)'
    BY <2>4, <2>5 DEF Published
  <2>7. "api" \in Processes /\ "recovery" \in Lanes
    BY DEF Processes, Lanes
  <2> HIDE DEF n
  <2> QED
    BY <2>2, <2>4, <2>5, <2>6, <2>7, MovesPublished
<1>2. CASE BeginReplay(rp) \/ CommitReplay(rp) \/ AbortReplay(rp)
  <2>1. NoNewFilled /\ LogGrows /\ UNCHANGED <<queue, xpc, xmsg, orders>>
    BY <1>2 DEF BeginReplay, CommitReplay, AbortReplay, NoNewFilled, LogGrows, dbVars, workerVars,
       ingestVars
  <2> QED
    BY <2>1, MovesElsewhere
<1> QED
  BY <1>1, <1>2 DEF ReplayStep

-----------------------------------------------------------------------------
(* A session makes a task once, and a replay sends one once.                *)

\* A session makes a task of a route once.
LEMMA FreshIngest ==
    ASSUME TypeInv, SignalInv, FreshNext, NEW d \in Deliveries, IngestStep(d) \/ AbortIngest(d)
    PROVE  FreshNext'
<1>1. UNCHANGED <<rpc, rtodo, rsent>>
  BY DEF IngestStep, AbortIngest, CheckIdempotency, RejectUnknownSource, LookupEvent, InsertEvent,
     ListRoutes, LookupTask, InsertTask, Remember, CommitIngest, DeadlockVictim, replayVars
<1>2. \A rp \in Replays : FreshReplay(rp)'
  BY <1>1 DEF FreshNext, FreshReplay
<1>3. FreshSession(d) /\ (pc[d] = "list" => made[d] = {})
  BY DEF FreshNext, SignalInv, RowsAreCommitted
<1>4. ASSUME NEW o \in Deliveries \ {d} PROVE FreshSession(o)'
  <2>1. FreshSession(o)
    BY DEF FreshNext
  <2>2. /\ pc'[o] = pc[o] /\ todo'[o] = todo[o] /\ made'[o] = made[o] /\ wanted'[o] = wanted[o]
    BY DEF IngestStep, AbortIngest, CheckIdempotency, RejectUnknownSource, LookupEvent,
       InsertEvent, ListRoutes, LookupTask, InsertTask, Remember, CommitIngest, DeadlockVictim,
       Abort, TypeInv, TypeOK
  <2> QED
    BY <2>1, <2>2 DEF FreshSession
<1>5. FreshSession(d)'
  <2>1. CASE pc'[d] \notin {"plan", "insertTask"}
    BY <2>1 DEF FreshSession
  <2>2. CASE ListRoutes(d)
    BY <1>3, <2>2 DEF ListRoutes, FreshSession, TypeInv, TypeOK
  <2>3. CASE LookupTask(d)
    <3>1. PICK r \in todo[d] :
             /\ todo' = [todo EXCEPT ![d] = @ \ {r}]
             /\ \/ UNCHANGED <<pc, wanted>>
                \/ /\ pc' = [pc EXCEPT ![d] = "insertTask"]
                   /\ wanted' = [wanted EXCEPT ![d] = r]
      BY <2>3, Zenon DEF LookupTask
    <3>2. pc[d] = "plan" /\ made' = made
      BY <2>3 DEF LookupTask
    <3> QED
      BY <1>3, <3>1, <3>2 DEF FreshSession, TypeInv, TypeOK
  <2>4. CASE InsertTask(d)
    <3>1. CASE Abort({d})
      BY <2>4, <3>1 DEF Abort, FreshSession
    <3>2. CASE /\ made' = [made EXCEPT ![d] = @ \cup {wanted[d]}]
               /\ pc' = [pc EXCEPT ![d] = "plan"]
      <4>1. pc[d] = "insertTask" /\ todo' = todo
        BY <2>4 DEF InsertTask
      <4> QED
        BY <1>3, <3>2, <4>1 DEF FreshSession, TypeInv, TypeOK
    <3> QED
      BY <2>4, <3>1, <3>2 DEF InsertTask
  <2> QED
    BY <2>1, <2>2, <2>3, <2>4 DEF IngestStep, AbortIngest, CheckIdempotency, RejectUnknownSource,
       LookupEvent, InsertEvent, Remember, CommitIngest, DeadlockVictim, Abort, TypeInv, TypeOK
<1> QED
  BY <1>2, <1>4, <1>5 DEF FreshNext

\* A replay sends a task once.
LEMMA FreshReplays ==
    ASSUME TypeInv, FreshNext, NEW rp \in Replays, ReplayStep(rp) \/ AbortReplay(rp)
    PROVE  FreshNext'
<1>1. \A d \in Deliveries : FreshSession(d)'
  <2>1. UNCHANGED <<pc, todo, made, wanted>>
    BY DEF ReplayStep, BeginReplay, PublishReplay, CommitReplay, AbortReplay, ingestVars
  <2> QED
    BY <2>1 DEF FreshNext, FreshSession
<1>2. \A q \in Replays \ {rp} : FreshReplay(q)'
  BY DEF ReplayStep, BeginReplay, PublishReplay, CommitReplay, AbortReplay, FreshNext,
     FreshReplay, TypeInv, TypeOK
<1>3. FreshReplay(rp)'
  BY DEF ReplayStep, BeginReplay, PublishReplay, CommitReplay, AbortReplay, FreshNext,
     FreshReplay, TypeInv, TypeOK
<1> QED
  BY <1>1, <1>2, <1>3 DEF FreshNext

\* Sessions and replays that are left alone or rolled back.
LEMMA FreshElsewhere ==
    ASSUME TypeInv, FreshNext, UNCHANGED <<todo, made, rtodo, rsent>>,
           \A d \in Deliveries : \/ pc'[d] = pc[d] /\ wanted'[d] = wanted[d]
                                 \/ pc'[d] = "aborted",
           \A rp \in Replays : rpc'[rp] = "idle" => rpc[rp] = "idle"
    PROVE  FreshNext'
  BY DEF FreshNext, FreshSession, FreshReplay

-----------------------------------------------------------------------------
(* The invariant, and what follows.                                         *)

\* The invariant holds at the start,
LEMMA CommandInit == Init => CommandInv
<1> SUFFICES ASSUME Init PROVE CommandInv
  OBVIOUS
<1>1. KeyInv
  BY KeyInit
<1>2. \A m : ~ Waiting(m)
  BY DEF Init, PipelineInit, Waiting
<1>3. \A l \in Lanes : ~ Busy(l) /\ ~ Unsent(l)
  BY DEF Init, PipelineInit, Busy, Unsent
<1>4. InOnePlace
  BY <1>3 DEF Init, PipelineInit, InOnePlace, NoTwins
<1>5. OrdersCounted /\ Traced
  BY <1>2, <1>3 DEF Init, PipelineInit, OrdersCounted, Traced
<1>6. FilledKept /\ FreshNext
  BY DEF Init, PipelineInit, FilledKept, FreshNext, FreshSession, FreshReplay
<1> QED
  BY <1>1, <1>4, <1>5, <1>6 DEF CommandInv, MovesInv

\* and every step keeps it.
LEMMA CommandStep == CommandInv /\ [Next]_vars => CommandInv'
<1> SUFFICES ASSUME CommandInv, [Next]_vars PROVE CommandInv'
  OBVIOUS
<1>1. KeyInv' /\ TypeInv /\ SignalInv /\ MovesInv /\ FreshNext
  BY KeyStep DEF CommandInv, KeyInv
<1>2. SUFFICES MovesInv' /\ FreshNext'
  BY <1>1 DEF CommandInv
<1>3. ASSUME NEW d \in Deliveries, IngestStep(d) \/ AbortIngest(d) PROVE MovesInv' /\ FreshNext'
  BY <1>1, <1>3, MovesIngest, FreshIngest
<1>4. ASSUME NEW l \in Lanes, ExecutorStep(l) PROVE MovesInv' /\ FreshNext'
  <2>1. UNCHANGED <<pc, todo, made, wanted, rpc, rtodo, rsent>>
    BY <1>4 DEF ExecutorStep, Consume, DropMessage, LoadTask, SkipTask, OpenAttempt, PlaceOrder,
       RefreshPosition, CommitExecution, ingestVars, replayVars
  <2> QED
    BY <1>1, <1>4, <2>1, MovesExecutor, FreshElsewhere
<1>5. ASSUME NEW rp \in Replays, ReplayStep(rp) \/ AbortReplay(rp) PROVE MovesInv' /\ FreshNext'
  BY <1>1, <1>5, MovesReplay, FreshReplays
<1>6. ASSUME StopWorker PROVE FreshNext'
  <2>1. /\ UNCHANGED <<todo, made, rpc, rtodo, rsent>>
        /\ \A d \in Deliveries : \/ pc'[d] = pc[d] /\ wanted'[d] = wanted[d]
                                 \/ pc'[d] = "aborted"
    BY <1>6 DEF StopWorker, Abort, replayVars
  <2> QED
    BY <1>1, <2>1, FreshElsewhere
<1>7. ASSUME NEW l \in Lanes, PlaceOrderRaises(l) PROVE MovesInv' /\ FreshNext'
  BY <1>1, <1>6, <1>7, MovesStop DEF PlaceOrderRaises
<1>8. CASE WorkerCrash
  BY <1>1, <1>6, <1>8, MovesStop DEF WorkerCrash
<1>9. CASE ApiCrash
  <2>1. /\ UNCHANGED <<todo, made, rtodo, rsent>>
        /\ \A d \in Deliveries : \/ pc'[d] = pc[d] /\ wanted'[d] = wanted[d]
                                 \/ pc'[d] = "aborted"
        /\ \A rp \in Replays : rpc'[rp] = "idle" => rpc[rp] = "idle"
    BY <1>9 DEF ApiCrash, Abort
  <2> QED
    BY <1>1, <1>9, <2>1, MovesApiCrash, FreshElsewhere
<1>10. CASE (\E e \in Events : ForgetFill(e)) \/ (\E id \in window : CloseWindow(id))
            \/ UNCHANGED vars
  <2>1. UNCHANGED <<task, queue, xpc, xmsg, orders, pc, todo, made, wanted, rpc, rtodo, rsent>>
    BY <1>10 DEF ForgetFill, CloseWindow, vars, dbVars, ingestVars, workerVars, replayVars
  <2>2. LogGrows /\ NoNewFilled
    BY <2>1 DEF LogGrows, NoNewFilled
  <2> QED
    BY <1>1, <2>1, <2>2, MovesElsewhere, FreshElsewhere
<1> QED
  BY <1>3, <1>4, <1>5, <1>7, <1>8, <1>9, <1>10 DEF Next

\* A message becomes one order at most, and a replayed one only for a task the replay
\* selected, whatever crashes, raises or is delivered again.
THEOREM OneOrder == Spec => []OneOrderPerMessage
<1>1. ASSUME CommandInv, NEW m \in Messages
      PROVE  orders[m] <= 1 /\ (orders[m] = 1 /\ m.via \in Replays => m.task \in rsent[m.via])
  <2>1. orders[m] <= 1 /\ (orders[m] > 0 => Published(m))
    BY <1>1 DEF CommandInv, MovesInv, OrdersCounted, Traced
  <2>2. m.task[1] \in Deliveries
    BY <1>1 DEF Messages, Tasks
  <2>3. m.via \in Replays => m.via # m.task[1]
    BY <2>2, ConstantsOK
  <2> QED
    BY <2>1, <2>3 DEF Published
<1>2. CommandInv => OneOrderPerMessage
  BY <1>1 DEF OneOrderPerMessage
<1> QED
  BY <1>2, CommandInit, CommandStep, PTL DEF Spec

\* What a loop that commits writes over a filled task, a replay had asked for.
LEMMA CommitOverFilled ==
    ASSUME CommandInv, NEW l \in Lanes, CommitExecution(l), NEW t \in Tasks,
           task[t] = "FILLED", task'[t] # "FILLED"
    PROVE  Selected(t)
<1>1. PICK n \in Messages : n = xmsg[l]
  BY DEF CommitExecution, CommandInv, KeyInv, TypeInv, HandsFull
<1>2. t = n.task
  BY <1>1 DEF CommitExecution, CommandInv, KeyInv, TypeInv, TypeOK
<1>3. Busy(l) /\ Published(n) /\ (Selected(t) \/ Over(Planned(t)))
  BY <1>1 DEF CommitExecution, Busy, CommandInv, MovesInv, Traced, FilledKept
<1>4. CASE n.via \in Replays /\ n.task \in rsent[n.via]
  BY <1>2, <1>4 DEF Selected
<1>5. CASE n.via = n.task[1]
  <2>1. n = Planned(t)
    BY <1>2, <1>5 DEF Planned, Messages
  <2>2. ~ Over(n)
    BY <1>1, <1>3 DEF Over
  <2> QED
    BY <1>3, <2>1, <2>2
<1> QED
  BY <1>3, <1>4, <1>5 DEF Published

\* A stored task is never lost, and one that was FILLED leaves that status only after a
\* replay selected it: no late command, second delivery or crash sets it back.
THEOREM FilledStays == Spec => FilledIsFinal
<1> DEFINE Kept == \A t \in Tasks :
                      /\ task[t] # "none" => task'[t] # "none"
                      /\ task[t] = "FILLED" /\ task'[t] # "FILLED" =>
                            \E rp \in Replays : t \in rsent[rp]
<1>1. ASSUME CommandInv, Next PROVE Kept
  <2> SUFFICES RowsKept /\ \A t \in Tasks : task[t] = "FILLED" /\ task'[t] # "FILLED" => Selected(t)
    BY DEF RowsKept, Selected
  <2>1. TypeInv /\ Keys /\ SignalInv /\ LoopSound /\ ReplaySound
    BY <1>1 DEF CommandInv, KeyInv, Keys
  <2>2. RowsKept
    <3>1. ASSUME NEW d \in Deliveries, IngestStep(d) \/ AbortIngest(d) PROVE RowsKept
      BY <2>1, <3>1, KeysIngest
    <3>2. ASSUME NEW l \in Lanes, ExecutorStep(l) PROVE RowsKept
      BY <2>1, <3>2, KeysExecutor
    <3>3. ASSUME NEW rp \in Replays, ReplayStep(rp) \/ AbortReplay(rp) PROVE RowsKept
      BY <2>1, <3>3, KeysReplay
    <3>4. CASE \/ StopWorker \/ ApiCrash
               \/ \E e \in Events : ForgetFill(e)
               \/ \E id \in window : CloseWindow(id)
      BY <2>1, <3>4, KeysEnvironment
    <3> QED
      BY <1>1, <3>1, <3>2, <3>3, <3>4 DEF Next, WorkerCrash, PlaceOrderRaises
  <2>3. ASSUME NEW t \in Tasks, task[t] = "FILLED", task'[t] # "FILLED" PROVE Selected(t)
    <3>1. ASSUME NEW d \in Deliveries, CommitIngest(d) PROVE FALSE
      <4>1. pc[d] = "commit" /\ task'[t] = IF t[1] = d /\ t[2] \in made[d] THEN "DISPATCHED" ELSE task[t]
        BY <3>1 DEF CommitIngest
      <4>2. t[1] = d
        BY <2>3, <4>1
      <4>3. pc[d] = "done"
        BY <2>1, <2>3, <4>2 DEF SignalInv, RowsAreCommitted, Tasks
      <4> QED
        BY <4>1, <4>3
    <3>2. ASSUME NEW l \in Lanes, CommitExecution(l) PROVE Selected(t)
      BY <1>1, <2>3, <3>2, CommitOverFilled
    <3>3. ASSUME NEW rp \in Replays, CommitReplay(rp) PROVE Selected(t)
      BY <2>3, <3>3 DEF CommitReplay, Selected
    <3>4. task' # task
      BY <2>3
    <3> QED
      BY <1>1, <3>1, <3>2, <3>3, <3>4 DEF Next, IngestStep, AbortIngest, CheckIdempotency,
         RejectUnknownSource, LookupEvent, InsertEvent, ListRoutes, LookupTask, InsertTask, Remember,
         DeadlockVictim, ExecutorStep, Consume, DropMessage, LoadTask, SkipTask, OpenAttempt,
         PlaceOrder, RefreshPosition, ReplayStep, BeginReplay, PublishReplay, AbortReplay, WorkerCrash,
         PlaceOrderRaises, StopWorker, ApiCrash, ForgetFill, CloseWindow, dbVars
  <2> QED
    BY <2>2, <2>3
<1>2. CommandInv /\ [Next]_vars => [Kept]_vars
  BY <1>1
<1> QED
  BY <1>2, CommandInit, CommandStep, PTL DEF Spec, FilledIsFinal
=============================================================================
