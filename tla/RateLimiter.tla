------------------------------ MODULE RateLimiter ------------------------------
(***************************************************************************)
(* services/rate_limiter.py: a token bucket per exchange and account, in a  *)
(* registry that the executor loops of a process share. Who finds no token  *)
(* sleeps and polls again. Tokens are counted in quanta, Unit to a token;    *)
(* a tick of the clock is the time of one poll.                             *)
(***************************************************************************)
EXTENDS Integers, Sequences

CONSTANTS
    Loops,     \* executor loops of the process
    Keys,      \* "exchange:account"
    Capacity,  \* key -> tokens of its bucket
    Refill,    \* key -> quanta that flow in per tick
    Unit,      \* quanta of one token
    MaxCalls,  \* bound on the tokens handed out per key
    MaxClock   \* bound on the time

ASSUME LimiterConstantsOK ==
    /\ Capacity \in [Keys -> Nat]
    /\ Refill \in [Keys -> Nat]
    /\ Unit \in Nat
    /\ MaxCalls \in Nat
    /\ MaxClock \in Nat

VARIABLES
    clock,
    known,   \* keys the registry has a limiter for
    tokens,  \* key -> quanta when the bucket was last touched
    filled,  \* key -> when that was (updated_at)
    asleep,  \* loop -> the keys it waits for: one or none
    since,   \* loop -> when it went to sleep
    served   \* key -> the times its tokens were handed out

limiterVars == <<clock, known, tokens, filled, asleep, since, served>>

Full(k) == Capacity[k] * Unit

\* (mutant) a bucket that never overflows.
LevelUncapped(k) ==
    IF k \notin known THEN Full(k) ELSE tokens[k] + (clock - filled[k]) * Refill[k]

\* What is in the bucket now; the registry makes it full on the first call.
Level(k) ==
    LET flown == tokens[k] + (clock - filled[k]) * Refill[k]
    IN  IF k \notin known \/ flown > Full(k) THEN Full(k) ELSE flown

LimiterInit ==
    /\ clock = 0
    /\ known = {}
    /\ tokens = [k \in Keys |-> 0]
    /\ filled = [k \in Keys |-> 0]
    /\ asleep = [l \in Loops |-> {}]
    /\ since = [l \in Loops |-> 0]
    /\ served = [k \in Keys |-> <<>>]

\* The body of the lock: nothing in it is awaited, so no other loop is between.
Draw(l, k) ==
    /\ Len(served[k]) < MaxCalls
    /\ known' = known \cup {k}
    /\ filled' = [filled EXCEPT ![k] = clock]
    /\ \/ /\ Level(k) >= Unit
          /\ tokens' = [tokens EXCEPT ![k] = Level(k) - Unit]
          /\ served' = [served EXCEPT ![k] = Append(@, clock)]
          /\ asleep' = [asleep EXCEPT ![l] = {}]
          /\ UNCHANGED since
       \/ /\ Level(k) < Unit
          /\ tokens' = [tokens EXCEPT ![k] = Level(k)]
          /\ asleep' = [asleep EXCEPT ![l] = {k}]
          /\ since' = [since EXCEPT ![l] = clock]
          /\ UNCHANGED served
    /\ UNCHANGED clock

Acquire(l, k) == asleep[l] = {} /\ Draw(l, k)

Poll(l) == \E k \in asleep[l] : clock > since[l] /\ Draw(l, k)

LimiterTick ==
    /\ clock < MaxClock
    /\ clock' = clock + 1
    /\ UNCHANGED <<known, tokens, filled, asleep, since, served>>

LimiterNext ==
    \/ \E l \in Loops, k \in Keys : Acquire(l, k)
    \/ \E l \in Loops : Poll(l)
    \/ LimiterTick

LimiterSpec == LimiterInit /\ [][LimiterNext]_limiterVars

-----------------------------------------------------------------------------
\* The types, with the bounds a bucket lives by: it never overflows and was never
\* touched in the future.
LimiterTypeOK ==
    /\ clock \in Nat
    /\ known \subseteq Keys
    /\ tokens \in [Keys -> Nat] /\ \A k \in Keys : tokens[k] <= Full(k)
    /\ filled \in [Keys -> Nat] /\ \A k \in Keys : filled[k] <= clock
    /\ asleep \in [Loops -> SUBSET Keys]
    /\ since \in [Loops -> Nat]
    /\ served \in [Keys -> Seq(Nat)]

\* From any call to any later one, the calls that went to the exchange with one
\* key are no more than a full bucket and what flowed in between: polling loops
\* that share a bucket never draw one token twice, and a pause never saves up
\* more than the bucket holds. rate_limiter.py:16-25.
PacesEveryWindow ==
    \A k \in Keys : \A i, j \in DOMAIN served[k] :
        i <= j => (j - i + 1) * Unit
                     <= Full(k) + (served[k][j] - served[k][i]) * Refill[k]

=============================================================================
