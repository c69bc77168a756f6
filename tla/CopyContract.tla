----------------------------- MODULE CopyContract -----------------------------
(***************************************************************************)
(* What the pipeline promises, without sessions, stores, queues or loops:   *)
(* the copies of a master fill to a route. The planner may offer a copy     *)
(* again as long as it has lapsed and was never carried out; an operator's  *)
(* replay offers it once more. An offer that is out is carried out at most  *)
(* once or lapses; what was carried out is never offered by the same source *)
(* again.                                                                   *)
(***************************************************************************)
CONSTANTS
    Events,   \* master fills
    Routes,   \* copy trades
    Replays,  \* replay requests
    Planner   \* the other source of offers, none of Replays

VARIABLE copy  \* per source, fill and route: the state of the offer

Sources == Replays \cup {Planner}
Copies == Sources \X Events \X Routes
CopyStates == {"none", "out", "copied", "lapsed"}

ContractInit == copy = [c \in Copies |-> "none"]

Offer(c) == /\ copy[c] = "none" \/ (c[1] = Planner /\ copy[c] = "lapsed")
            /\ copy' = [copy EXCEPT ![c] = "out"]

\* An offer can lapse as it is made: the queue takes it for one it has seen.
Refuse(c) == /\ copy[c] = "none"
             /\ copy' = [copy EXCEPT ![c] = "lapsed"]

\* A crash makes any number of offers lapse in one step.
Lapsed(C) == [c \in Copies |-> IF c \in C THEN "lapsed" ELSE copy[c]]

Lapse(C) == /\ \A c \in C : copy[c] = "out"
            /\ copy' = Lapsed(C)

CarryOut(c, C) == /\ copy[c] = "out"
                  /\ c \notin C
                  /\ \A x \in C : copy[x] = "out"
                  /\ copy' = [Lapsed(C) EXCEPT ![c] = "copied"]

ContractNext ==
    LET out == {c \in Copies : copy[c] = "out"}
    IN  \/ \E c \in Copies : Offer(c) \/ Refuse(c)
        \/ \E C \in SUBSET out : Lapse(C)
        \/ \E c \in out : \E C \in SUBSET out : CarryOut(c, C)

Contract == ContractInit /\ [][ContractNext]_copy
=============================================================================
