-------------------------- MODULE CopyContract_proofs --------------------------
(***************************************************************************)
(* The pipeline implements the contract of CopyContract, for any number of  *)
(* deliveries, routes, replays and faults, for both queue backends.         *)
(***************************************************************************)
EXTENDS OneOrder_proofs

\* A message waits among those of its own group.
Sorted == \A p \in Places : \A i \in DOMAIN queue[p] : p[3] = GroupOf(queue[p][i].task)

PromiseInv == CommandInv /\ Sorted

(* The offers of the contract, by what has become of their messages.        *)

Offers == (Replays \cup {None}) \X Events \X Routes
Of(c) == CommandsOf(c[1], c[2], c[3])
Carried(c) == \E m \in Of(c) : orders[m] > 0
StandsOut(c) == \E m \in Of(c) : Outstanding(m)
Made(c) == \E m \in Of(c) : Published(m)
StateOf(c) == IF Carried(c) THEN "copied" ELSE IF StandsOut(c) THEN "out"
              ELSE IF Made(c) THEN "lapsed" ELSE "none"

CopyNow == [c \in Offers |-> CopyState(c[1], c[2], c[3])]

-----------------------------------------------------------------------------
\* The messages of an offer.
LEMMA OfAre ==
    ASSUME NEW c \in Offers, NEW m
    PROVE  m \in Of(c) <=> /\ m \in Messages /\ EventOf[m.task[1]] = c[2] /\ m.task[2] = c[3]
                           /\ IF c[1] = None THEN m.via = m.task[1] ELSE m.via = c[1]
<1>1. c[1] \in Replays \cup {None} /\ c[2] \in Events /\ c[3] \in Routes
  BY DEF Offers
<1> DEFINE copies == {<<d, c[3]>> : d \in {x \in Deliveries : EventOf[x] = c[2]}}
<1>2. \A t : t \in copies <=> t \in Tasks /\ EventOf[t[1]] = c[2] /\ t[2] = c[3]
  BY <1>1 DEF Tasks
<1>3. CASE c[1] = None
  <2>1. Of(c) = {Planned(t) : t \in copies}
    BY <1>3 DEF Of, CommandsOf
  <2> HIDE DEF copies
  <2>2. m \in Of(c) <=> \E t \in copies : m = [task |-> t, via |-> t[1]]
    BY <2>1 DEF Planned
  <2> QED
    BY <1>2, <1>3, <2>2 DEF Messages, Tasks
<1>4. CASE c[1] # None
  <2>1. Of(c) = {[task |-> t, via |-> c[1]] : t \in copies}
    BY <1>4 DEF Of, CommandsOf
  <2> HIDE DEF copies
  <2>2. m \in Of(c) <=> \E t \in copies : m = [task |-> t, via |-> c[1]]
    BY <2>1
  <2> QED
    BY <1>1, <1>2, <1>4, <2>2 DEF Messages
<1> QED
  BY <1>3, <1>4

\* A message belongs to one offer.
LEMMA OneOffer ==
    ASSUME NEW c \in Offers, NEW o \in Offers, NEW m, m \in Of(c), m \in Of(o) PROVE c = o
<1>1. /\ c = <<c[1], c[2], c[3]>> /\ o = <<o[1], o[2], o[3]>>
      /\ c[1] \in Replays \cup {None} /\ o[1] \in Replays \cup {None}
  BY DEF Offers
<1>2. m \in Messages /\ c[2] = o[2] /\ c[3] = o[3]
  BY OfAre
<1>3. m.task[1] \notin Replays
  BY <1>2, ConstantsOK DEF Messages, Tasks
<1>4. c[1] = o[1]
  BY <1>1, <1>3, OfAre
<1> QED
  BY <1>1, <1>2, <1>4

\* A published message has an offer.
LEMMA ItsOffer ==
    ASSUME NEW m \in Messages, m.via \in Replays \/ m.via = m.task[1]
    PROVE  \E c \in Offers : m \in Of(c) /\ (c[1] = None <=> m.via = m.task[1])
<1>1. m.task[1] \in Deliveries /\ m.task[2] \in Routes /\ EventOf[m.task[1]] \in Events
  BY ConstantsOK DEF Messages, Tasks
<1>2. CASE m.via = m.task[1]
  <2>1. <<None, EventOf[m.task[1]], m.task[2]>> \in Offers
    BY <1>1 DEF Offers
  <2> QED
    BY <1>2, <2>1, OfAre
<1>3. CASE m.via \in Replays
  <2>1. <<m.via, EventOf[m.task[1]], m.task[2]>> \in Offers
    BY <1>1, <1>3 DEF Offers
  <2>2. m.via # None /\ m.via # m.task[1]
    BY <1>1, <1>3, ConstantsOK
  <2> QED
    BY <1>3, <2>1, <2>2, OfAre
<1> QED
  BY <1>2, <1>3

\* Of the messages of an offer one at most is for a stored task.
LEMMA OneStored ==
    ASSUME KeyInv, NEW c \in Offers, NEW m \in Of(c), NEW n \in Of(c),
           task[m.task] # "none", task[n.task] # "none"
    PROVE  m = n
<1>1. /\ m \in Messages /\ n \in Messages /\ m.task \in Tasks /\ n.task \in Tasks
      /\ SameCopy(m.task, n.task)
  BY OfAre DEF Messages, SameCopy
<1>2. m.task = n.task
  BY <1>1, KeysGiveOneTask DEF OneTaskPerFill
<1>3. m.via = n.via
  BY <1>2, OfAre
<1> QED
  BY <1>1, <1>2, <1>3 DEF Messages

\* No offer is carried out twice, so its state is what became of its messages.
StatesHold == \A c \in Offers : CopyState(c[1], c[2], c[3]) = StateOf(c)

LEMMA StatesAre == PromiseInv => StatesHold
<1> SUFFICES ASSUME PromiseInv, NEW c \in Offers PROVE CopyState(c[1], c[2], c[3]) = StateOf(c)
  BY DEF StatesHold
<1>1. \A m \in Of(c) : m \in Messages
  BY OfAre
<1>2. \A m \in Of(c) : orders[m] \in Nat /\ orders[m] <= 1 /\ (orders[m] > 0 => task[m.task] # "none")
  BY <1>1 DEF PromiseInv, CommandInv, MovesInv, OrdersCounted, KeyInv, OrderSound, TypeInv, TypeOK
<1>3. \A m, n \in {x \in Of(c) : orders[x] > 0} : ~ (m # n \/ orders[m] > 1)
  BY <1>2, OneStored DEF PromiseInv, CommandInv
<1>4. {x \in Of(c) : orders[x] > 0} # {} <=> Carried(c)
  BY DEF Carried
<1> QED
  BY <1>3, <1>4 DEF CopyState, StateOf, Of, StandsOut, Made

\* As much holds after a step.
LEMMA StatesAreNext == PromiseInv' => StatesHold'
  BY StatesAre, PTL

\* Where an outstanding message is.
LEMMA OutstandingIs ==
    ASSUME Sorted, NEW m \in Messages
    PROVE  Outstanding(m) <=> /\ pc[m.task[1]] # "aborted"
                              /\ Waiting(m) \/ \E l \in Lanes : xmsg[l] = m /\ Unsent(l)
<1>1. GroupOf(m.task) \in Groups
  BY ConstantsOK DEF GroupOf, Groups, SlotOf, Slots, Messages, Tasks
<1>2. (\E b \in Brokers, l \in Lanes : \E i \in DOMAIN queue[<<b, l, GroupOf(m.task)>>] :
          queue[<<b, l, GroupOf(m.task)>>][i] = m) <=> Waiting(m)
  <2>1. \A b \in Brokers, l \in Lanes : <<b, l, GroupOf(m.task)>> \in Places
    BY <1>1 DEF Places
  <2>2. \A p \in Places : p[3] = GroupOf(m.task) =>
            p[1] \in Brokers /\ p[2] \in Lanes /\ p = <<p[1], p[2], GroupOf(m.task)>>
    BY DEF Places
  <2>3. \A p \in Places : \A i \in DOMAIN queue[p] : queue[p][i] = m => p[3] = GroupOf(m.task)
    BY DEF Sorted
  <2>4. ASSUME NEW p \in Places, NEW i \in DOMAIN queue[p], queue[p][i] = m
        PROVE  \E b \in Brokers, l \in Lanes : \E j \in DOMAIN queue[<<b, l, GroupOf(m.task)>>] :
                   queue[<<b, l, GroupOf(m.task)>>][j] = m
    <3>1. p[1] \in Brokers /\ p[2] \in Lanes /\ p = <<p[1], p[2], GroupOf(m.task)>>
      BY <2>2, <2>3, <2>4
    <3> QED
      BY <2>4, <3>1
  <2>5. ASSUME NEW b \in Brokers, NEW l \in Lanes, NEW j \in DOMAIN queue[<<b, l, GroupOf(m.task)>>],
               queue[<<b, l, GroupOf(m.task)>>][j] = m
        PROVE  Waiting(m)
    BY <2>1, <2>5 DEF Waiting
  <2> QED
    BY <2>4, <2>5 DEF Waiting
<1> QED
  BY <1>2 DEF Outstanding, Unsent

\* Everything outstanding was published, and has no order yet.
LEMMA OutstandingTraced ==
    ASSUME PromiseInv, NEW m \in Messages, Outstanding(m) PROVE Published(m) /\ orders[m] = 0
<1>1. Waiting(m) \/ \E l \in Lanes : xmsg[l] = m /\ Unsent(l)
  BY OutstandingIs DEF PromiseInv
<1> QED
  BY <1>1 DEF PromiseInv, CommandInv, MovesInv, Traced, OrdersCounted, Unsent, Busy

-----------------------------------------------------------------------------
(* Steps of the contract.                                                   *)

ContractStep == Promise!ContractNext \/ UNCHANGED CopyNow

\* Offers that were out lapse, or nothing happens to any.
LEMMA LapseStep ==
    ASSUME PromiseInv, PromiseInv', orders' = orders,
           \A m \in Messages : (Published(m)' <=> Published(m)) /\ (Outstanding(m)' => Outstanding(m))
    PROVE  ContractStep
<1>1. /\ \A c \in Offers : CopyState(c[1], c[2], c[3]) = StateOf(c)
      /\ \A c \in Offers : CopyState(c[1], c[2], c[3])' = StateOf(c)'
  BY StatesAre, StatesAreNext DEF StatesHold
<1>2. \A c \in Offers : \A m \in Of(c) : m \in Messages
  BY OfAre
<1>3. ASSUME NEW c \in Offers PROVE StateOf(c)' = StateOf(c) \/ (StateOf(c) = "out" /\ StateOf(c)' = "lapsed")
  <2>1. Carried(c)' <=> Carried(c)
    BY DEF Carried
  <2>2. Made(c)' <=> Made(c)
    BY <1>2 DEF Made
  <2>3. StandsOut(c)' => StandsOut(c)
    BY <1>2 DEF StandsOut
  <2>4. StandsOut(c) => Made(c)
    BY <1>2, OutstandingTraced DEF StandsOut, Made
  <2> QED
    BY <2>1, <2>2, <2>3, <2>4 DEF StateOf
<1>4. PICK C \in SUBSET Offers : \A c \in Offers : c \in C <=> StateOf(c) = "out" /\ StateOf(c)' = "lapsed"
  <2>1. {c \in Offers : StateOf(c) = "out" /\ StateOf(c)' = "lapsed"} \in SUBSET Offers
    OBVIOUS
  <2> QED
    BY <2>1
<1>5. Promise!Lapse(C) /\ C \in SUBSET {c \in Offers : CopyNow[c] = "out"}
  BY <1>1, <1>3, <1>4 DEF Promise!Lapse, Promise!Lapsed, Promise!Copies, Promise!Sources, Offers, CopyNow
<1> QED
  BY <1>5 DEF ContractStep, Promise!ContractNext, Promise!Copies, Promise!Sources, Offers, CopyNow

\* The order of one message is placed; other offers may lapse with it.
LEMMA CarryStep ==
    ASSUME PromiseInv, PromiseInv', NEW n \in Messages, Outstanding(n), task[n.task] # "none",
           orders' = [orders EXCEPT ![n] = @ + 1],
           \A m \in Messages : (Published(m)' <=> Published(m)) /\ (Outstanding(m)' => Outstanding(m))
    PROVE  ContractStep
<1>1. /\ \A c \in Offers : CopyState(c[1], c[2], c[3]) = StateOf(c)
      /\ \A c \in Offers : CopyState(c[1], c[2], c[3])' = StateOf(c)'
  BY StatesAre, StatesAreNext DEF StatesHold
<1>2. \A c \in Offers : \A m \in Of(c) : m \in Messages
  BY OfAre
<1>3. Published(n) /\ orders[n] = 0 /\ orders'[n] = 1
      /\ \A m \in Messages \ {n} : orders'[m] = orders[m]
  BY OutstandingTraced DEF PromiseInv, CommandInv, KeyInv, TypeInv, TypeOK
<1>4. PICK o \in Offers : n \in Of(o)
  BY <1>3, ItsOffer DEF Published
<1>5. StateOf(o) = "out" /\ StateOf(o)' = "copied"
  <2>1. ~ Carried(o)
    <3> SUFFICES ASSUME NEW m \in Of(o), orders[m] > 0 PROVE FALSE
      BY DEF Carried
    <3>1. task[m.task] # "none"
      BY <1>2 DEF PromiseInv, CommandInv, KeyInv, OrderSound
    <3>2. m = n
      BY <1>4, <3>1, OneStored DEF PromiseInv, CommandInv
    <3> QED
      BY <1>3, <3>2
  <2>2. StandsOut(o) /\ Carried(o)'
    BY <1>3, <1>4 DEF StandsOut, Carried
  <2> QED
    BY <2>1, <2>2 DEF StateOf
<1>6. ASSUME NEW c \in Offers \ {o}
      PROVE  StateOf(c)' = StateOf(c) \/ (StateOf(c) = "out" /\ StateOf(c)' = "lapsed")
  <2>1. n \notin Of(c)
    BY <1>4, OneOffer
  <2>2. Carried(c)' <=> Carried(c)
    BY <1>2, <1>3, <2>1 DEF Carried
  <2>3. Made(c)' <=> Made(c)
    BY <1>2 DEF Made
  <2>4. StandsOut(c)' => StandsOut(c)
    BY <1>2 DEF StandsOut
  <2>5. StandsOut(c) => Made(c)
    BY <1>2, OutstandingTraced DEF StandsOut, Made
  <2> QED
    BY <2>2, <2>3, <2>4, <2>5 DEF StateOf
<1>7. PICK C \in SUBSET Offers :
         \A c \in Offers : c \in C <=> c # o /\ StateOf(c) = "out" /\ StateOf(c)' = "lapsed"
  <2>1. {c \in Offers : c # o /\ StateOf(c) = "out" /\ StateOf(c)' = "lapsed"} \in SUBSET Offers
    OBVIOUS
  <2> QED
    BY <2>1
<1>8. /\ o \in {c \in Offers : CopyNow[c] = "out"}
      /\ C \in SUBSET {c \in Offers : CopyNow[c] = "out"}
      /\ Promise!CarryOut(o, C)
  BY <1>1, <1>5, <1>6, <1>7
     DEF Promise!CarryOut, Promise!Lapsed, Promise!Copies, Promise!Sources, Offers, CopyNow
<1> QED
  BY <1>8 DEF ContractStep, Promise!ContractNext, Promise!Copies, Promise!Sources, Offers, CopyNow

\* A message is published: its offer is out, or lapses with a command taken for a repeated one.
LEMMA OfferStep ==
    ASSUME PromiseInv, PromiseInv', NEW n \in Messages, ~ Published(n), Published(n)',
           n.via \in Replays => task[n.task] # "none", orders' = orders,
           \A m \in Messages \ {n} : (Published(m)' <=> Published(m)) /\ (Outstanding(m)' <=> Outstanding(m))
    PROVE  ContractStep
<1>1. /\ \A c \in Offers : CopyState(c[1], c[2], c[3]) = StateOf(c)
      /\ \A c \in Offers : CopyState(c[1], c[2], c[3])' = StateOf(c)'
  BY StatesAre, StatesAreNext DEF StatesHold
<1>2. \A c \in Offers : \A m \in Of(c) : m \in Messages
  BY OfAre
<1>3. n.via \in Replays \/ n.via = n.task[1]
  BY DEF Published
<1>4. PICK o \in Offers : n \in Of(o) /\ (o[1] = None <=> n.via = n.task[1])
  BY <1>3, ItsOffer
<1>5. ASSUME NEW c \in Offers \ {o} PROVE StateOf(c)' = StateOf(c)
  <2>1. n \notin Of(c)
    BY <1>4, OneOffer
  <2>2. /\ Carried(c)' <=> Carried(c)
        /\ Made(c)' <=> Made(c)
        /\ StandsOut(c)' <=> StandsOut(c)
    BY <1>2, <2>1 DEF Carried, Made, StandsOut
  <2> QED
    BY <2>2 DEF StateOf
<1>6. /\ Carried(o)' <=> Carried(o)
      /\ Made(o)'
      /\ StandsOut(o) => StandsOut(o)'
  <2>1. ~ Outstanding(n)
    BY OutstandingTraced
  <2> QED
    BY <1>2, <1>4, <2>1 DEF Carried, Made, StandsOut
<1>7. o[1] # None => StateOf(o) = "none"
  <2> SUFFICES ASSUME o[1] # None PROVE StateOf(o) = "none"
    OBVIOUS
  <2>1. task[n.task] # "none" /\ o[1] \in Replays
    BY <1>3, <1>4 DEF Offers
  <2>2. ~ Made(o)
    <3> SUFFICES ASSUME NEW m \in Of(o), Published(m) PROVE FALSE
      BY DEF Made
    <3>1. m \in Messages /\ m.via \in Replays /\ m.via # m.task[1]
      BY <2>1, ConstantsOK, OfAre DEF Messages, Tasks
    <3>2. m.task \in rsent[m.via]
      BY <3>1 DEF Published
    <3>3. task[m.task] # "none"
      BY <3>1, <3>2 DEF PromiseInv, CommandInv, KeyInv, ReplaySound
    <3> QED
      BY <1>4, <2>1, <3>3, OneStored DEF PromiseInv, CommandInv
  <2>3. ~ Carried(o) /\ ~ StandsOut(o)
    BY <1>2, <2>2, OutstandingTraced
       DEF Carried, StandsOut, Made, PromiseInv, CommandInv, MovesInv, Traced
  <2> QED
    BY <2>2, <2>3 DEF StateOf
<1>8. \/ StateOf(o)' = StateOf(o)
      \/ StateOf(o)' = "out" /\ (StateOf(o) = "none" \/ (o[1] = None /\ StateOf(o) = "lapsed"))
      \/ StateOf(o)' = "lapsed" /\ StateOf(o) = "none"
  BY <1>6, <1>7 DEF StateOf
<1>9. CASE StateOf(o)' = StateOf(o)
  BY <1>1, <1>5, <1>9 DEF ContractStep, CopyNow
<1>10. CASE StateOf(o)' = "out" /\ (StateOf(o) = "none" \/ (o[1] = None /\ StateOf(o) = "lapsed"))
  <2>1. Promise!Offer(o)
    BY <1>1, <1>5, <1>10 DEF Promise!Offer, Promise!Copies, Promise!Sources, Offers, CopyNow
  <2> QED
    BY <2>1 DEF ContractStep, Promise!ContractNext, Promise!Copies, Promise!Sources, Offers
<1>11. CASE StateOf(o)' = "lapsed" /\ StateOf(o) = "none"
  <2>1. Promise!Refuse(o)
    BY <1>1, <1>5, <1>11 DEF Promise!Refuse, Promise!Copies, Promise!Sources, Offers, CopyNow
  <2> QED
    BY <2>1 DEF ContractStep, Promise!ContractNext, Promise!Copies, Promise!Sources, Offers
<1> QED
  BY <1>8, <1>9, <1>10, <1>11

-----------------------------------------------------------------------------
(* The queues stay sorted.                                                  *)

\* A step that puts nothing on a queue.
LEMMA SortedTaken ==
    ASSUME Sorted, \A q \in Places : \A i \in DOMAIN queue'[q] :
                       \E j \in DOMAIN queue[q] : queue'[q][i] = queue[q][j]
    PROVE  Sorted'
  BY DEF Sorted, GroupOf, SlotOf

\* A published message joins those of its group.
LEMMA SortedPublished ==
    ASSUME TypeInv, Sorted, NEW p \in Processes, NEW lane \in Lanes, NEW n \in Messages,
           Publish(p, lane, n)
    PROVE  Sorted'
<1> DEFINE place == <<BrokerOf(p), lane, GroupOf(n.task)>>
<1>1. queue' = queue \/ queue' = [queue EXCEPT ![place] = Append(@, n)]
  BY DEF Publish
<1>2. place[3] = GroupOf(n.task)
  OBVIOUS
<1> HIDE DEF place
<1>3. CASE queue' = queue
  BY <1>3 DEF Sorted, GroupOf, SlotOf
<1>4. CASE queue' = [queue EXCEPT ![place] = Append(@, n)]
  <2> SUFFICES ASSUME NEW q \in Places, NEW i \in DOMAIN queue'[q]
               PROVE  q[3] = GroupOf(queue'[q][i].task)
    BY DEF Sorted, GroupOf, SlotOf
  <2>1. CASE q # place
    BY <1>4, <2>1 DEF Sorted, TypeInv, TypeOK
  <2>2. CASE q = place
    <3>1. queue[q] \in Seq(Messages) /\ queue'[q] = Append(queue[q], n)
      BY <1>4, <2>2 DEF TypeInv, TypeOK
    <3>2. CASE i = Len(queue[q]) + 1
      <4>1. queue'[q][i] = n
        BY <3>1, <3>2
      <4> QED
        BY <1>2, <2>2, <4>1
    <3>3. CASE i # Len(queue[q]) + 1
      <4>1. i \in DOMAIN queue[q] /\ queue'[q][i] = queue[q][i]
        BY <3>1, <3>3
      <4> QED
        BY <4>1 DEF Sorted
    <3> QED
      BY <3>2, <3>3
  <2> QED
    BY <2>1, <2>2
<1> QED
  BY <1>1, <1>3, <1>4

\* No step mixes the groups.
LEMMA SortedStep ==
    ASSUME PromiseInv, [Next]_vars PROVE Sorted'
<1>1. TypeInv /\ Sorted /\ queue \in [Places -> Seq(Messages)]
  BY DEF PromiseInv, CommandInv, KeyInv, TypeInv, TypeOK
<1>2. ASSUME \A q \in Places : queue'[q] = <<>> \/ queue'[q] = queue[q] PROVE Sorted'
  BY <1>1, <1>2, SortedTaken
<1>3. ASSUME NEW d \in Deliveries, IngestStep(d) \/ AbortIngest(d) PROVE Sorted'
  <2>1. CASE InsertTask(d) /\ queue' # queue
    <3>1. PICK w \in Routes : w = wanted[d]
      BY <1>1, <2>1 DEF InsertTask, TypeInv, HandsFull
    <3>2. PICK n \in Messages : n = [task |-> <<d, w>>, via |-> d]
      BY DEF Messages, Tasks
    <3>3. Publish(Host[d], QueueForAction(ActionOf[EventOf[d]]), n)
      BY <2>1, <3>1, <3>2 DEF InsertTask
    <3>4. Host[d] \in Processes /\ QueueForAction(ActionOf[EventOf[d]]) \in Lanes
      BY ConstantsOK DEF QueueForAction, Lanes
    <3> QED
      BY <1>1, <3>3, <3>4, SortedPublished
  <2>2. CASE queue' = queue
    BY <1>2, <2>2
  <2> QED
    BY <1>3, <2>1, <2>2 DEF IngestStep, AbortIngest, CheckIdempotency, RejectUnknownSource, LookupEvent,
       InsertEvent, ListRoutes, LookupTask, Remember, CommitIngest, DeadlockVictim
<1>4. ASSUME NEW l \in Lanes, ExecutorStep(l) PROVE Sorted'
  <2>1. CASE Consume(l)
    <3>1. PICK group \in Groups :
             LET place == <<BrokerOf("worker"), l, group>>
             IN  /\ queue[place] # <<>>
                 /\ queue' = [queue EXCEPT ![place] = Tail(@)]
      BY <2>1 DEF Consume
    <3> DEFINE place == <<BrokerOf("worker"), l, group>>
    <3>2. place \in Places
      BY DEF Places, BrokerOf, Brokers
    <3>3. queue[place] # <<>> /\ queue' = [queue EXCEPT ![place] = Tail(@)]
      BY <3>1
    <3> HIDE DEF place
    <3>4. ASSUME NEW q \in Places, NEW i \in DOMAIN queue'[q]
          PROVE  \E j \in DOMAIN queue[q] : queue'[q][i] = queue[q][j]
      <4>1. CASE q = place
        <5>1. queue[q] \in Seq(Messages) /\ queue[q] # <<>> /\ queue'[q] = Tail(queue[q])
          BY <1>1, <3>3, <4>1
        <5>2. i + 1 \in DOMAIN queue[q] /\ queue'[q][i] = queue[q][i + 1]
          BY <5>1
        <5> QED
          BY <5>2
      <4>2. CASE q # place
        BY <1>1, <3>3, <4>2
      <4> QED
        BY <4>1, <4>2
    <3> QED
      BY <1>1, <3>4, SortedTaken
  <2>2. CASE queue' = queue
    BY <1>2, <2>2
  <2> QED
    BY <1>4, <2>1, <2>2 DEF ExecutorStep, DropMessage, LoadTask, SkipTask, OpenAttempt, PlaceOrder,
       RefreshPosition, CommitExecution
<1>5. ASSUME NEW rp \in Replays, ReplayStep(rp) \/ AbortReplay(rp) PROVE Sorted'
  <2>1. CASE PublishReplay(rp)
    <3>1. PICK t \in rtodo[rp] : Publish("api", "recovery", [task |-> t, via |-> rp])
      BY <2>1 DEF PublishReplay
    <3>2. PICK n \in Messages : n = [task |-> t, via |-> rp]
      BY <1>1 DEF Messages, TypeInv, TypeOK
    <3>3. "api" \in Processes /\ "recovery" \in Lanes
      BY DEF Processes, Lanes
    <3> QED
      BY <1>1, <3>1, <3>2, <3>3, SortedPublished
  <2>2. CASE queue' = queue
    BY <1>2, <2>2
  <2> QED
    BY <1>5, <2>1, <2>2 DEF ReplayStep, BeginReplay, CommitReplay, AbortReplay
<1>6. CASE StopWorker \/ ApiCrash \/ (\E e \in Events : ForgetFill(e))
           \/ (\E id \in window : CloseWindow(id)) \/ UNCHANGED vars
  <2>1. \A q \in Places : queue'[q] = <<>> \/ queue'[q] = queue[q]
    BY <1>6 DEF StopWorker, ApiCrash, ForgetFill, CloseWindow, vars
  <2> QED
    BY <1>2, <2>1
<1> QED
  BY <1>3, <1>4, <1>5, <1>6 DEF Next, WorkerCrash, PlaceOrderRaises

\* The invariant holds at the start,
LEMMA PromiseInit == Init => PromiseInv
<1>1. Init => Sorted
  BY DEF Init, PipelineInit, Sorted
<1> QED
  BY <1>1, CommandInit DEF PromiseInv

\* and every step keeps it.
LEMMA PromiseStep == PromiseInv /\ [Next]_vars => PromiseInv'
  BY CommandStep, SortedStep DEF PromiseInv

-----------------------------------------------------------------------------
(* Every step of the pipeline is one of the contract, or none.              *)

\* A message on its way, of a session that did not roll back.
OnItsWay(m) ==
    /\ pc[m.task[1]] # "aborted"
    /\ Waiting(m) \/ \E l \in Lanes : xmsg[l] = m /\ Unsent(l)
WaysHold == \A m \in Messages : Outstanding(m) <=> OnItsWay(m)

\* That is what outstanding means.
LEMMA WaysAre == PromiseInv => WaysHold
  BY OutstandingIs DEF PromiseInv, WaysHold, OnItsWay

\* As much holds after a step.
LEMMA WaysAreNext == PromiseInv' => WaysHold'
  BY WaysAre, PTL

\* What is on its way after a step that publishes none, was so before.
LEMMA WaysKept ==
    ASSUME PromiseInv, PromiseInv', UNCHANGED <<made, rsent>>,
           \A d \in Deliveries : pc[d] = "aborted" => pc'[d] = "aborted",
           \A m : Waiting(m)' => Waiting(m),
           \A l \in Lanes : Unsent(l)' => \/ Unsent(l) /\ xmsg'[l] = xmsg[l]
                                          \/ Waiting(xmsg'[l])
    PROVE  \A m \in Messages : (Published(m)' <=> Published(m)) /\ (Outstanding(m)' => Outstanding(m))
<1> SUFFICES ASSUME NEW m \in Messages
             PROVE  (Published(m)' <=> Published(m)) /\ (Outstanding(m)' => Outstanding(m))
  OBVIOUS
<1>1. Published(m)' <=> Published(m)
  BY DEF Published
<1>2. (Outstanding(m) <=> OnItsWay(m)) /\ (Outstanding(m)' <=> OnItsWay(m)')
  BY WaysAre, WaysAreNext DEF WaysHold
<1>3. m.task[1] \in Deliveries
  BY DEF Messages, Tasks
<1>4. OnItsWay(m)' => OnItsWay(m)
  BY <1>3 DEF OnItsWay
<1> QED
  BY <1>1, <1>2, <1>4

\* A publication leaves every other message waiting or not.
LEMMA PublishWaits ==
    ASSUME TypeInv, NEW p \in Processes, NEW lane \in Lanes, NEW n \in Messages,
           Publish(p, lane, n)
    PROVE  \A m : m # n => (Waiting(m)' <=> Waiting(m))
<1> DEFINE place == <<BrokerOf(p), lane, GroupOf(n.task)>>
<1>1. queue' = queue \/ queue' = [queue EXCEPT ![place] = Append(@, n)]
  BY DEF Publish
<1>2. queue \in [Places -> Seq(Messages)]
  BY DEF TypeInv, TypeOK
<1> HIDE DEF place
<1>3. CASE queue' = queue
  BY <1>3 DEF Waiting
<1>4. CASE queue' = [queue EXCEPT ![place] = Append(@, n)]
  <2>1. \A q \in Places : \A i \in DOMAIN queue[q] : i \in DOMAIN queue'[q] /\ queue'[q][i] = queue[q][i]
    <3> SUFFICES ASSUME NEW q \in Places, NEW i \in DOMAIN queue[q]
                 PROVE  i \in DOMAIN queue'[q] /\ queue'[q][i] = queue[q][i]
      OBVIOUS
    <3>1. queue[q] \in Seq(Messages) /\ (queue'[q] = queue[q] \/ queue'[q] = Append(queue[q], n))
      BY <1>2, <1>4
    <3>2. CASE queue'[q] = queue[q]
      BY <3>2
    <3>3. CASE queue'[q] = Append(queue[q], n)
      BY <3>1, <3>3
    <3> QED
      BY <3>1, <3>2, <3>3
  <2>2. \A q \in Places : \A i \in DOMAIN queue'[q] :
            queue'[q][i] = n \/ (i \in DOMAIN queue[q] /\ queue'[q][i] = queue[q][i])
    <3> SUFFICES ASSUME NEW q \in Places, NEW i \in DOMAIN queue'[q]
                 PROVE  queue'[q][i] = n \/ (i \in DOMAIN queue[q] /\ queue'[q][i] = queue[q][i])
      OBVIOUS
    <3>1. queue[q] \in Seq(Messages) /\ (queue'[q] = queue[q] \/ queue'[q] = Append(queue[q], n))
      BY <1>2, <1>4
    <3>2. CASE queue'[q] = queue[q]
      BY <3>2
    <3>3. CASE queue'[q] = Append(queue[q], n)
      BY <3>1, <3>3
    <3> QED
      BY <3>1, <3>2, <3>3
  <2> QED
    BY <2>1, <2>2 DEF Waiting
<1> QED
  BY <1>1, <1>3, <1>4

\* Publishing one message leaves the others where they are.
LEMMA PublishStep ==
    ASSUME PromiseInv, PromiseInv', NEW p \in Processes, NEW lane \in Lanes, NEW n \in Messages,
           Publish(p, lane, n), ~ Published(n), Published(n)',
           n.via \in Replays => task[n.task] # "none", UNCHANGED <<orders, xpc, xmsg>>,
           \A m \in Messages \ {n} : Published(m)' <=> Published(m),
           \A d \in Deliveries : pc'[d] = "aborted" <=> pc[d] = "aborted"
    PROVE  ContractStep
<1>1. ASSUME NEW m \in Messages \ {n} PROVE Outstanding(m)' <=> Outstanding(m)
  <2>1. (Outstanding(m) <=> OnItsWay(m)) /\ (Outstanding(m)' <=> OnItsWay(m)')
    BY WaysAre, WaysAreNext DEF WaysHold
  <2>2. m.task[1] \in Deliveries
    BY DEF Messages, Tasks
  <2>3. Waiting(m)' <=> Waiting(m)
    BY PublishWaits DEF PromiseInv, CommandInv, KeyInv
  <2>4. OnItsWay(m)' <=> OnItsWay(m)
    BY <2>2, <2>3 DEF OnItsWay, Unsent
  <2> QED
    BY <2>1, <2>4
<1> QED
  BY <1>1, OfferStep

\* A session offers the copy of the command it publishes, or lets lapse what it published.
LEMMA ContractIngest ==
    ASSUME PromiseInv, PromiseInv', NEW d \in Deliveries, IngestStep(d) \/ AbortIngest(d)
    PROVE  ContractStep
<1>0. TypeInv /\ FreshNext
  BY DEF PromiseInv, CommandInv, KeyInv
<1>1. CASE InsertTask(d) /\ ~ Abort({d})
  <2>1. PICK w \in Routes : w = wanted[d]
    BY <1>0, <1>1 DEF InsertTask, TypeInv, HandsFull
  <2>2. PICK n \in Messages : n = [task |-> <<d, w>>, via |-> d]
    BY DEF Messages, Tasks
  <2>3. /\ made' = [made EXCEPT ![d] = @ \cup {w}] /\ w \notin made[d]
        /\ Publish(Host[d], QueueForAction(ActionOf[EventOf[d]]), n)
        /\ UNCHANGED <<xpc, xmsg, orders, rsent>>
    BY <1>0, <1>1, <2>1, <2>2 DEF InsertTask, FreshNext, FreshSession, workerVars, replayVars
  <2>4. n.task = <<d, w>> /\ n.via = d /\ d \notin Replays
    BY <2>2, ConstantsOK
  <2>5. Host[d] \in Processes /\ QueueForAction(ActionOf[EventOf[d]]) \in Lanes
    BY ConstantsOK DEF QueueForAction, Lanes
  <2>6. /\ made'[d] = made[d] \cup {w} /\ \A o \in Deliveries \ {d} : made'[o] = made[o]
        /\ \A o \in Deliveries : pc'[o] = "aborted" <=> pc[o] = "aborted"
    BY <1>0, <1>1, <2>3 DEF InsertTask, TypeInv, TypeOK
  <2>7. ~ Published(n) /\ Published(n)'
    BY <2>3, <2>4, <2>6 DEF Published
  <2>8. \A m \in Messages \ {n} : Published(m)' <=> Published(m)
    <3> SUFFICES ASSUME NEW m \in Messages \ {n} PROVE Published(m)' <=> Published(m)
      OBVIOUS
    <3>1. m.task[1] \in Deliveries /\ (m.via = m.task[1] /\ m.via = d => m.task[2] # w)
      BY <2>2 DEF Messages, Tasks
    <3> QED
      BY <2>3, <2>6, <3>1 DEF Published
  <2> QED
    BY <2>3, <2>4, <2>5, <2>6, <2>7, <2>8, PublishStep
<1>2. CASE ~ (InsertTask(d) /\ ~ Abort({d}))
  <2>1. UNCHANGED <<queue, made, rsent, xpc, xmsg, orders>>
    BY <1>2 DEF IngestStep, AbortIngest, CheckIdempotency, RejectUnknownSource, LookupEvent,
       InsertEvent, ListRoutes, LookupTask, InsertTask, Remember, CommitIngest, DeadlockVictim,
       workerVars, replayVars, Abort
  <2>2. \A o \in Deliveries \ {d} : pc'[o] = pc[o]
    BY <1>0, <1>2 DEF IngestStep, AbortIngest, CheckIdempotency, RejectUnknownSource, LookupEvent,
       InsertEvent, ListRoutes, LookupTask, InsertTask, Remember, CommitIngest, DeadlockVictim,
       Abort, TypeInv, TypeOK
  <2>3. pc[d] = "aborted" => pc'[d] = "aborted"
    BY <1>0, <1>2 DEF IngestStep, AbortIngest, CheckIdempotency, RejectUnknownSource, LookupEvent,
       InsertEvent, ListRoutes, LookupTask, InsertTask, Remember, CommitIngest, DeadlockVictim,
       Abort, TypeInv, TypeOK, IngestSteps
  <2>4. (\A m : Waiting(m)' => Waiting(m)) /\ \A l \in Lanes : Unsent(l)' => Unsent(l)
    BY <2>1 DEF Waiting, Unsent
  <2> QED
    BY <2>1, <2>2, <2>3, <2>4, WaysKept, LapseStep
<1> QED
  BY <1>1, <1>2

\* A replay offers the copy of the task it publishes.
LEMMA ContractReplay ==
    ASSUME PromiseInv, PromiseInv', NEW rp \in Replays, ReplayStep(rp) \/ AbortReplay(rp)
    PROVE  ContractStep
<1>0. TypeInv /\ FreshNext /\ ReplaySound
  BY DEF PromiseInv, CommandInv, KeyInv
<1>1. CASE PublishReplay(rp)
  <2>1. PICK t \in rtodo[rp] : /\ rsent' = [rsent EXCEPT ![rp] = @ \cup {t}]
                               /\ Publish("api", "recovery", [task |-> t, via |-> rp])
    BY <1>1 DEF PublishReplay
  <2>2. t \in Tasks /\ t[1] \in Deliveries /\ t \notin rsent[rp] /\ task[t] # "none"
    BY <1>0, <2>1 DEF TypeInv, TypeOK, Tasks, FreshNext, FreshReplay, ReplaySound
  <2>3. PICK n \in Messages : n = [task |-> t, via |-> rp]
    BY <2>2 DEF Messages
  <2>4. n.task = t /\ n.via = rp /\ n.via # n.task[1] /\ task[n.task] # "none"
    BY <2>2, <2>3, ConstantsOK
  <2>5. /\ Publish("api", "recovery", n) /\ UNCHANGED <<xpc, xmsg, orders, made, pc>>
        /\ "api" \in Processes /\ "recovery" \in Lanes
    BY <1>1, <2>1, <2>3 DEF PublishReplay, workerVars, ingestVars, Processes, Lanes
  <2>6. rsent'[rp] = rsent[rp] \cup {t} /\ \A q \in Replays \ {rp} : rsent'[q] = rsent[q]
    BY <1>0, <2>1 DEF TypeInv, TypeOK
  <2>7. ~ Published(n) /\ Published(n)'
    BY <2>2, <2>4, <2>6 DEF Published
  <2>8. \A m \in Messages \ {n} : Published(m)' <=> Published(m)
    <3> SUFFICES ASSUME NEW m \in Messages \ {n} PROVE Published(m)' <=> Published(m)
      OBVIOUS
    <3>1. m.via = rp => m.task # t
      BY <2>3 DEF Messages
    <3> QED
      BY <2>5, <2>6, <3>1 DEF Published
  <2> QED
    BY <2>4, <2>5, <2>7, <2>8, PublishStep
<1>2. CASE BeginReplay(rp) \/ CommitReplay(rp) \/ AbortReplay(rp)
  <2>1. UNCHANGED <<queue, made, rsent, xpc, xmsg, orders, pc>>
    BY <1>2 DEF BeginReplay, CommitReplay, AbortReplay, workerVars, ingestVars
  <2>2. (\A m : Waiting(m)' => Waiting(m)) /\ \A l \in Lanes : Unsent(l)' => Unsent(l)
    BY <2>1 DEF Waiting, Unsent
  <2> QED
    BY <2>1, <2>2, WaysKept, LapseStep
<1> QED
  BY <1>1, <1>2 DEF ReplayStep

\* A message that is being sent is on its way, for a stored task.
LEMMA BeingSent ==
    ASSUME PromiseInv, NEW l \in Lanes, xpc[l] = "placing", NEW n \in Messages, n = xmsg[l]
    PROVE  Outstanding(n) /\ task[n.task] # "none"
<1>1. task[n.task] # "none" /\ Unsent(l)
  BY DEF PromiseInv, CommandInv, KeyInv, LoopSound, Unsent
<1>2. PICK d \in Deliveries, r \in Routes : n.task = <<d, r>>
  BY DEF Messages, Tasks
<1>3. pc[n.task[1]] = "done"
  <2>1. task[<<d, r>>] # "none"
    BY <1>1, <1>2
  <2>2. pc[d] = "done"
    BY <2>1 DEF PromiseInv, CommandInv, KeyInv, SignalInv, RowsAreCommitted
  <2> QED
    BY <1>2, <2>2
<1> QED
  BY <1>1, <1>3, WaysAre DEF WaysHold, OnItsWay

\* A loop carries a copy out or lets it lapse.
LEMMA ContractExecutor ==
    ASSUME PromiseInv, PromiseInv', NEW l \in Lanes, ExecutorStep(l) PROVE ContractStep
<1>0. TypeInv
  BY DEF PromiseInv, CommandInv, KeyInv
<1>1. CASE Consume(l)
  <2>1. PICK group \in Groups :
           /\ queue[<<BrokerOf("worker"), l, group>>] # <<>>
           /\ xmsg' = [xmsg EXCEPT ![l] = Head(queue[<<BrokerOf("worker"), l, group>>])]
           /\ queue' = [queue EXCEPT ![<<BrokerOf("worker"), l, group>>] = Tail(@)]
    BY <1>1 DEF Consume
  <2> DEFINE place == <<BrokerOf("worker"), l, group>>
  <2>2. place \in Places
    BY DEF Places, BrokerOf, Brokers
  <2>3. queue[place] # <<>> /\ queue' = [queue EXCEPT ![place] = Tail(@)]
        /\ xmsg' = [xmsg EXCEPT ![l] = Head(queue[place])]
    BY <2>1
  <2>4. queue \in [Places -> Seq(Messages)] /\ NoTwins
    BY <1>0 DEF TypeInv, TypeOK, PromiseInv, CommandInv, MovesInv, InOnePlace
  <2> HIDE DEF place
  <2>5. PICK n : n = Head(queue[place])
    OBVIOUS
  <2>6. (\A m : Waiting(m)' => Waiting(m)) /\ Waiting(n)
    BY <2>2, <2>3, <2>4, <2>5, Take
  <2>7. /\ xmsg'[l] = n /\ UNCHANGED <<made, rsent, pc, orders>>
        /\ \A k \in Lanes \ {l} : xpc'[k] = xpc[k] /\ xmsg'[k] = xmsg[k]
    BY <1>0, <1>1, <2>3, <2>5 DEF Consume, ingestVars, replayVars, TypeInv, TypeOK
  <2>8. \A k \in Lanes : Unsent(k)' => (Unsent(k) /\ xmsg'[k] = xmsg[k]) \/ Waiting(xmsg'[k])
    BY <2>6, <2>7 DEF Unsent
  <2> QED
    BY <2>6, <2>7, <2>8, WaysKept, LapseStep
<1>2. CASE ~ Consume(l)
  <2>1. /\ UNCHANGED <<queue, made, rsent, pc>>
        /\ \A k \in Lanes \ {l} : xpc'[k] = xpc[k] /\ xmsg'[k] = xmsg[k]
        /\ Unsent(l)' => Unsent(l) /\ xmsg'[l] = xmsg[l]
    BY <1>0, <1>2 DEF ExecutorStep, DropMessage, LoadTask, SkipTask, OpenAttempt, PlaceOrder,
       RefreshPosition, CommitExecution, ingestVars, replayVars, TypeInv, TypeOK, Unsent
  <2>2. (\A m : Waiting(m)' => Waiting(m))
        /\ \A k \in Lanes : Unsent(k)' => Unsent(k) /\ xmsg'[k] = xmsg[k]
    BY <2>1 DEF Waiting, Unsent
  <2>3. \A m \in Messages : (Published(m)' <=> Published(m)) /\ (Outstanding(m)' => Outstanding(m))
    BY <2>1, <2>2, WaysKept
  <2>4. CASE orders' = orders
    BY <2>3, <2>4, LapseStep
  <2>5. CASE xpc[l] = "placing" /\ orders' = [orders EXCEPT ![xmsg[l]] = @ + 1]
    <3>1. PICK n \in Messages : n = xmsg[l]
      BY <1>0, <2>5 DEF TypeInv, HandsFull
    <3> QED
      BY <2>3, <2>5, <3>1, BeingSent, CarryStep
  <2> QED
    BY <1>2, <2>4, <2>5 DEF ExecutorStep, DropMessage, LoadTask, SkipTask, OpenAttempt, PlaceOrder,
       RefreshPosition, CommitExecution
<1> QED
  BY <1>1, <1>2

\* A process that stops lets what it held lapse.
LEMMA ContractStop ==
    ASSUME PromiseInv, PromiseInv', StopWorker \/ ApiCrash,
           \/ orders' = orders
           \/ \E l \in Lanes : xpc[l] = "placing" /\ orders' = [orders EXCEPT ![xmsg[l]] = @ + 1]
    PROVE  ContractStep
<1>1. /\ \A q \in Places : queue'[q] = <<>> \/ queue'[q] = queue[q]
      /\ UNCHANGED <<made, rsent>>
      /\ \A d \in Deliveries : pc[d] = "aborted" => pc'[d] = "aborted"
  BY DEF StopWorker, ApiCrash, Abort, replayVars
<1>2. \A m : Waiting(m)' => Waiting(m)
  BY <1>1, Lose DEF PromiseInv, CommandInv, MovesInv, InOnePlace
<1>3. \A l \in Lanes : Unsent(l)' => Unsent(l) /\ xmsg'[l] = xmsg[l]
  BY DEF StopWorker, ApiCrash, Unsent, workerVars
<1>4. \A m \in Messages : (Published(m)' <=> Published(m)) /\ (Outstanding(m)' => Outstanding(m))
  BY <1>1, <1>2, <1>3, WaysKept
<1>5. CASE orders' = orders
  BY <1>4, <1>5, LapseStep
<1>6. ASSUME NEW l \in Lanes, xpc[l] = "placing", orders' = [orders EXCEPT ![xmsg[l]] = @ + 1]
      PROVE  ContractStep
  <2>1. PICK n \in Messages : n = xmsg[l]
    BY <1>6 DEF PromiseInv, CommandInv, KeyInv, TypeInv, HandsFull
  <2> QED
    BY <1>4, <1>6, <2>1, BeingSent, CarryStep
<1> QED
  BY <1>5, <1>6

\* What a store forgets changes no copy.
LEMMA ContractRest ==
    ASSUME PromiseInv, PromiseInv',
           (\E e \in Events : ForgetFill(e)) \/ (\E id \in window : CloseWindow(id)) \/ UNCHANGED vars
    PROVE  ContractStep
<1>1. UNCHANGED <<queue, made, rsent, xpc, xmsg, orders, pc>>
  BY DEF ForgetFill, CloseWindow, vars, workerVars, ingestVars, replayVars
<1>2. (\A m : Waiting(m)' => Waiting(m)) /\ \A l \in Lanes : Unsent(l)' => Unsent(l)
  BY <1>1 DEF Waiting, Unsent
<1> QED
  BY <1>1, <1>2, WaysKept, LapseStep

\* Together they are the steps of the pipeline.
LEMMA ContractStepTaken ==
    ASSUME PromiseInv, PromiseInv', [Next]_vars PROVE ContractStep
<1>1. ASSUME NEW l \in Lanes, PlaceOrderRaises(l) PROVE ContractStep
  BY <1>1, ContractStop DEF PlaceOrderRaises
<1>2. CASE WorkerCrash
  BY <1>2, ContractStop DEF WorkerCrash
<1>3. CASE ApiCrash
  BY <1>3, ContractStop DEF ApiCrash
<1> QED
  BY <1>1, <1>2, <1>3, ContractIngest, ContractReplay, ContractExecutor, ContractRest DEF Next

\* At the start nothing was offered.
LEMMA ContractInitially == Init => Promise!ContractInit
<1> SUFFICES ASSUME Init PROVE Promise!ContractInit
  OBVIOUS
<1>1. \A c \in Offers : CopyState(c[1], c[2], c[3]) = StateOf(c)
  BY PromiseInit, StatesAre DEF StatesHold
<1>2. ASSUME NEW c \in Offers PROVE StateOf(c) = "none"
  <2>1. ASSUME NEW m \in Of(c) PROVE orders[m] = 0 /\ ~ Published(m) /\ ~ Outstanding(m)
    <3>1. m \in Messages /\ m.task[1] \in Deliveries
      BY OfAre DEF Messages, Tasks
    <3>2. orders[m] = 0 /\ ~ Published(m)
      BY <3>1 DEF Init, PipelineInit, Published
    <3> QED
      BY <3>1, <3>2, PromiseInit, OutstandingTraced
  <2> QED
    BY <2>1 DEF StateOf, Carried, StandsOut, Made
<1> QED
  BY <1>1, <1>2 DEF Promise!ContractInit, Promise!Copies, Promise!Sources, Offers

\* The pipeline implements the contract, whatever crashes, raises, is lost, delivered or
\* replayed: no source offers again what was carried out, and nothing is carried out
\* twice or without an offer that is out.
THEOREM Implements == Spec => KeepsPromise
<1>1. PromiseInv /\ PromiseInv' /\ [Next]_vars => ContractStep
  BY ContractStepTaken
<1>2. PromiseInv /\ PromiseInv' /\ [Next]_vars => [Promise!ContractNext]_CopyNow
  BY <1>1 DEF ContractStep
<1>3. Promise!Contract <=> Promise!ContractInit /\ [][Promise!ContractNext]_CopyNow
  BY DEF Promise!Contract, CopyNow, Offers
<1> QED
  BY <1>2, <1>3, PromiseInit, PromiseStep, ContractInitially, PTL DEF Spec, KeepsPromise
=============================================================================
