---------------------------- MODULE MirrorContract ----------------------------
(***************************************************************************)
(* What listening to a master account promises, without connections,       *)
(* caches or snapshots: what was emitted for a symbol adds up to a         *)
(* position the master really had, and moves along the master's history,   *)
(* skipping positions perhaps and never going back.                        *)
(***************************************************************************)
EXTENDS Integers, Sequences

CONSTANTS
    Sources,     \* signal sources: master accounts
    Symbols,
    Quantities   \* signed position quantities

VARIABLES
    hist,    \* per source and symbol: the positions the master had, in order
    upto,    \* the place in it that was emitted last
    copied   \* the sum of the emitted changes

mirrorVars == <<hist, upto, copied>>

MirrorInit ==
    /\ hist = [s \in Sources |-> [y \in Symbols |-> <<0>>]]
    /\ upto = [s \in Sources |-> [y \in Symbols |-> 1]]
    /\ copied = [s \in Sources |-> [y \in Symbols |-> 0]]

Move(s, y) ==
    /\ \E q \in Quantities : hist' = [hist EXCEPT ![s][y] = Append(@, q)]
    /\ UNCHANGED <<upto, copied>>

Follow(s, y) ==
    /\ \E i \in upto[s][y] + 1 .. Len(hist[s][y]) :
          /\ upto' = [upto EXCEPT ![s][y] = i]
          /\ copied' = [copied EXCEPT ![s][y] = hist[s][y][i]]
    /\ UNCHANGED hist

MirrorNext == \E s \in Sources, y \in Symbols : Move(s, y) \/ Follow(s, y)

Mirror == MirrorInit /\ [][MirrorNext]_mirrorVars
=============================================================================
