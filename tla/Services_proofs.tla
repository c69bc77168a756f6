---------------------------- MODULE Services_proofs ----------------------------
(***************************************************************************)
(* Proofs about the six services beside the pipeline, for any number of     *)
(* loops, callers, processes, rows and commits: the rate limiter, the       *)
(* instrument catalog, the schema at the start, the worker's heartbeat, the *)
(* pages of the trade log and the dashboard's stream. They share no variable *)
(* and nothing but the lemma on least elements.                             *)
(***************************************************************************)
EXTENDS RateLimiter, InstrumentCatalog, SchemaStartup, WorkerHeartbeat, LogPages,
        DashboardStream, Numbers_proofs, SequenceTheorems

-----------------------------------------------------------------------------
(* The rate limiter: RateLimiter.                                           *)

\* Nothing was handed out before the registry had the limiter, nor later than
\* the bucket was last touched.
ServedInThePast ==
    \A k \in Keys :
        /\ k \notin known => served[k] = <<>>
        /\ \A i \in DOMAIN served[k] : served[k][i] <= filled[k]

\* What was handed out since any call, with what is left, is at most a full bucket
\* and what has flowed in since that call: the window of PacesEveryWindow that ends
\* now, with the tokens that are still to come.
Spent(k, i) == (Len(served[k]) - i + 1) * Unit + tokens[k]
FlownSince(k, i) == (filled[k] - served[k][i]) * Refill[k]
NothingSavedUp ==
    \A k \in Keys : \A i \in DOMAIN served[k] : Spent(k, i) <= Full(k) + FlownSince(k, i)

LimiterInv == LimiterTypeOK /\ ServedInThePast /\ NothingSavedUp /\ PacesEveryWindow

\* The bucket holds a whole number of quanta.
LEMMA FullIsNat == ASSUME NEW k \in Keys PROVE Full(k) \in Nat
<1>1. Capacity[k] \in Nat /\ Unit \in Nat
  BY LimiterConstantsOK DEF LimiterConstantsOK
<1> QED
  BY <1>1 DEF Full

\* What has flowed in by now is what had flowed in at the last touch, and since.
LEMMA FlowsAddUp ==
    ASSUME NEW f \in Int, NEW c \in Int, NEW s \in Int, NEW r \in Int
    PROVE  /\ (f - s) * r \in Int /\ (c - f) * r \in Int
           /\ (c - s) * r = (f - s) * r + (c - f) * r
  OBVIOUS

\* One more call costs one more token.
LEMMA OneMoreCall ==
    ASSUME NEW n \in Int, NEW i \in Int, NEW u \in Int
    PROVE  (n - i + 1) * u \in Int /\ (n + 1 - i + 1) * u = (n - i + 1) * u + u
  OBVIOUS

LEMMA TheLastCall ==
    ASSUME NEW n \in Int, NEW u \in Int, NEW c \in Int, NEW r \in Int
    PROVE  (n + 1 - (n + 1) + 1) * u = u /\ (c - c) * r = 0
  OBVIOUS

\* What is in a bucket is never more than fits, nor more than was in it and flowed
\* in since (Level, rate_limiter.py:19-22).
LEMMA LevelBounds ==
    ASSUME LimiterTypeOK, NEW k \in Keys
    PROVE  /\ Level(k) \in Nat
           /\ Level(k) <= Full(k)
           /\ k \in known => Level(k) <= tokens[k] + (clock - filled[k]) * Refill[k]
<1>1. /\ Refill[k] \in Nat /\ tokens[k] \in Nat /\ clock \in Nat
      /\ filled[k] \in Nat /\ filled[k] <= clock
  BY LimiterConstantsOK DEF LimiterConstantsOK, LimiterTypeOK
<1>2. (clock - filled[k]) \in Nat
  BY <1>1
<1>3. (clock - filled[k]) * Refill[k] \in Nat
  BY <1>1, <1>2
<1> QED
  BY <1>1, <1>3, FullIsNat DEF Level

LEMMA LimiterInitHolds == LimiterInit => LimiterInv
<1> SUFFICES ASSUME LimiterInit PROVE LimiterInv
  OBVIOUS
<1>1. LimiterTypeOK
  BY FullIsNat DEF LimiterInit, LimiterTypeOK
<1>2. \A k \in Keys : served[k] = <<>> /\ DOMAIN served[k] = {}
  BY DEF LimiterInit
<1> QED
  BY <1>1, <1>2 DEF LimiterInv, ServedInThePast, NothingSavedUp, PacesEveryWindow

\* A step that hands a token out keeps the invariant: the body of the lock for a
\* bucket with a token in it.
LEMMA DrawServes ==
    ASSUME LimiterInv, NEW l \in Loops, NEW k \in Keys, Draw(l, k), Level(k) >= Unit,
           tokens' = [tokens EXCEPT ![k] = Level(k) - Unit],
           served' = [served EXCEPT ![k] = Append(@, clock)],
           asleep' = [asleep EXCEPT ![l] = {}], since' = since
    PROVE  LimiterInv'
<1> DEFINE n == Len(served[k])
<1>0. /\ LimiterTypeOK /\ ServedInThePast /\ NothingSavedUp /\ PacesEveryWindow
      /\ Unit \in Nat /\ Refill[k] \in Nat /\ Full(k) \in Nat
      /\ clock \in Nat /\ tokens[k] \in Nat /\ filled[k] \in Nat /\ filled[k] <= clock
      /\ served[k] \in Seq(Nat) /\ n \in Nat
  <2>1. LimiterTypeOK /\ ServedInThePast /\ NothingSavedUp /\ PacesEveryWindow
    BY DEF LimiterInv
  <2>2. Full(k) \in Nat
    BY FullIsNat
  <2>3. Unit \in Nat /\ Refill[k] \in Nat
    BY LimiterConstantsOK DEF LimiterConstantsOK
  <2>4. /\ clock \in Nat /\ tokens[k] \in Nat /\ filled[k] \in Nat /\ filled[k] <= clock
        /\ served[k] \in Seq(Nat)
    BY <2>1 DEF LimiterTypeOK
  <2> QED
    BY <2>1, <2>2, <2>3, <2>4
<1>1. /\ Level(k) \in Nat /\ Level(k) <= Full(k)
      /\ k \in known => Level(k) <= tokens[k] + (clock - filled[k]) * Refill[k]
  BY <1>0, LevelBounds
<1>2. /\ known' = known \cup {k} /\ filled' = [filled EXCEPT ![k] = clock] /\ clock' = clock
  BY DEF Draw
<1>3. /\ tokens'[k] = Level(k) - Unit /\ filled'[k] = clock /\ Full(k)' = Full(k)
      /\ served'[k] = Append(served[k], clock) /\ Len(served'[k]) = n + 1
      /\ DOMAIN served'[k] = 1 .. n + 1 /\ DOMAIN served[k] = 1 .. n
      /\ served'[k][n + 1] = clock
      /\ \A i \in 1 .. n : served'[k][i] = served[k][i] /\ served[k][i] \in Nat
  BY <1>0, <1>2 DEF LimiterTypeOK, Full
<1>4. \A q \in Keys \ {k} : /\ tokens'[q] = tokens[q] /\ filled'[q] = filled[q]
                            /\ served'[q] = served[q] /\ Full(q)' = Full(q)
  BY <1>0, <1>2 DEF LimiterTypeOK, Full
<1>5. LimiterTypeOK'
  <2>1. \A q \in Keys : tokens'[q] \in Nat /\ tokens'[q] <= Full(q)'
    BY <1>0, <1>1, <1>3, <1>4 DEF LimiterTypeOK
  <2>2. \A q \in Keys : filled'[q] \in Nat /\ filled'[q] <= clock'
    BY <1>0, <1>2, <1>3, <1>4 DEF LimiterTypeOK
  <2>3. tokens' \in [Keys -> Nat] /\ filled' \in [Keys -> Nat]
    BY <1>0, <1>1, <1>2 DEF LimiterTypeOK
  <2>4. served' \in [Keys -> Seq(Nat)]
    BY <1>0 DEF LimiterTypeOK
  <2>5. asleep' \in [Loops -> SUBSET Keys] /\ since' \in [Loops -> Nat]
    BY <1>0 DEF LimiterTypeOK
  <2> QED
    BY <1>0, <1>2, <2>1, <2>2, <2>3, <2>4, <2>5 DEF LimiterTypeOK
<1>6. ServedInThePast'
  <2>1. \A i \in 1 .. n : served[k][i] <= filled[k]
    BY <1>0, <1>3 DEF ServedInThePast
  <2>2. \A i \in 1 .. n + 1 : served'[k][i] <= clock
    <3> TAKE i \in 1 .. n + 1
    <3>1. CASE i = n + 1
      BY <1>0, <1>3, <3>1
    <3>2. CASE i \in 1 .. n
      BY <1>0, <1>3, <2>1, <3>2
    <3> QED
      BY <1>0, <3>1, <3>2
  <2> QED
    BY <1>0, <1>2, <1>3, <1>4, <2>2 DEF ServedInThePast
<1>7. \A i \in 1 .. n + 1 :
         (n + 1 - i + 1) * Unit + tokens'[k] <= Full(k) + (clock - served'[k][i]) * Refill[k]
  <2> TAKE i \in 1 .. n + 1
  <2>1. CASE i = n + 1
    <3>1. (n + 1 - i + 1) * Unit = Unit /\ (clock - clock) * Refill[k] = 0
      BY <1>0, <2>1, TheLastCall
    <3>2. (clock - served'[k][i]) * Refill[k] = 0
      BY <1>3, <2>1, <3>1, Zenon
    <3>3. Unit + (Level(k) - Unit) <= Full(k) + 0
      BY <1>0, <1>1
    <3> QED
      BY <1>3, <3>1, <3>2, <3>3, Zenon
  <2>2. CASE i \in 1 .. n
    <3> DEFINE s == served[k][i]
               early == (filled[k] - s) * Refill[k]
               flown == (clock - filled[k]) * Refill[k]
               calls == (n - i + 1) * Unit
    <3>1. s \in Nat /\ served'[k][i] = s /\ k \in known
      BY <1>0, <1>3, <2>2 DEF ServedInThePast
    <3>2. calls + tokens[k] <= Full(k) + early
      BY <1>0, <1>3, <2>2 DEF NothingSavedUp, Spent, FlownSince
    <3>3. Level(k) <= tokens[k] + flown
      BY <1>1, <3>1
    <3>4. (n + 1 - i + 1) * Unit = calls + Unit /\ calls \in Int
      BY <1>0, <2>2, OneMoreCall
    <3>5. (clock - s) * Refill[k] = early + flown /\ early \in Int /\ flown \in Int
      <4>1. filled[k] \in Int /\ clock \in Int /\ s \in Int /\ Refill[k] \in Int
        BY <1>0, <3>1
      <4> DEFINE f == filled[k]
                 r == Refill[k]
      <4> HIDE DEF s, f, r
      <4>2. /\ (f - s) * r \in Int /\ (clock - f) * r \in Int
            /\ (clock - s) * r = (f - s) * r + (clock - f) * r
        <5>1. f \in Int /\ r \in Int /\ s \in Int /\ clock \in Int
          BY <4>1 DEF f, r
        <5> QED
          BY <5>1
      <4> QED
        BY <4>2 DEF f, r
    <3> HIDE DEF early, flown, calls
    <3>6. (calls + Unit) + (Level(k) - Unit) <= Full(k) + (early + flown)
      <4>1. Level(k) \in Int /\ Full(k) \in Int /\ Unit \in Int /\ tokens[k] \in Int
        BY <1>0, <1>1
      <4> QED
        BY <3>2, <3>3, <3>4, <3>5, <4>1
    <3>7. (clock - served'[k][i]) * Refill[k] = early + flown
      BY <3>1, <3>5, Zenon
    <3> QED
      BY <1>3, <3>4, <3>6, <3>7, Zenon
  <2>3. i = n + 1 \/ i \in 1 .. n
    BY <1>0
  <2> QED
    BY <2>1, <2>2, <2>3, Zenon
<1>8. NothingSavedUp'
  <2>1. \A q \in Keys \ {k} : \A i \in DOMAIN served'[q] : Spent(q, i)' <= Full(q)' + FlownSince(q, i)'
    BY <1>0, <1>4 DEF NothingSavedUp, Spent, FlownSince
  <2>2. \A i \in DOMAIN served'[k] : Spent(k, i)' <= Full(k)' + FlownSince(k, i)'
    <3> TAKE i \in DOMAIN served'[k]
    <3>1. (n + 1 - i + 1) * Unit + tokens'[k] <= Full(k) + (clock - served'[k][i]) * Refill[k]
      BY <1>3, <1>7
    <3>2. /\ Spent(k, i)' = (n + 1 - i + 1) * Unit + tokens'[k]
          /\ FlownSince(k, i)' = (clock - served'[k][i]) * Refill[k]
      BY <1>3 DEF Spent, FlownSince
    <3> QED
      BY <1>3, <3>1, <3>2, Zenon
  <2> QED
    BY <2>1, <2>2 DEF NothingSavedUp
<1>9. PacesEveryWindow'
  <2>1. \A q \in Keys \ {k} : \A i, j \in DOMAIN served'[q] :
           i <= j => (j - i + 1) * Unit <= Full(q)' + (served'[q][j] - served'[q][i]) * Refill[q]
    BY <1>0, <1>4 DEF PacesEveryWindow
  <2>2. \A i, j \in 1 .. n + 1 :
           i <= j => (j - i + 1) * Unit <= Full(k)' + (served'[k][j] - served'[k][i]) * Refill[k]
    <3> SUFFICES ASSUME NEW i \in 1 .. n + 1, NEW j \in 1 .. n + 1, i <= j
                 PROVE  (j - i + 1) * Unit <= Full(k)' + (served'[k][j] - served'[k][i]) * Refill[k]
      OBVIOUS
    <3>1. CASE j = n + 1
      <4>1. tokens'[k] \in Nat
        BY <1>0, <1>1, <1>3
      <4>2. (n + 1 - i + 1) * Unit \in Int /\ (clock - served'[k][i]) * Refill[k] \in Int
        <5>1. served'[k][i] \in Int
          BY <1>0, <1>3
        <5>2. (n + 1 - i + 1) * Unit \in Int
          BY <1>0, OneMoreCall
        <5>3. (clock - served'[k][i]) * Refill[k] \in Int
          <6>1. clock \in Int /\ Refill[k] \in Int
            BY <1>0
          <6> QED
            BY <5>1, <6>1, FlowsAddUp
        <5> QED
          BY <5>2, <5>3
      <4>3. (n + 1 - i + 1) * Unit + tokens'[k] <= Full(k) + (clock - served'[k][i]) * Refill[k]
        BY <1>7
      <4>4. (n + 1 - i + 1) * Unit <= Full(k) + (clock - served'[k][i]) * Refill[k]
        BY <1>0, <4>1, <4>2, <4>3
      <4> QED
        BY <1>3, <3>1, <4>4
    <3>2. CASE j \in 1 .. n
      <4>1. i \in 1 .. n
        BY <1>0, <3>2
      <4> QED
        BY <1>0, <1>3, <3>2, <4>1 DEF PacesEveryWindow
    <3> QED
      BY <1>0, <3>1, <3>2
  <2> QED
    BY <1>3, <2>1, <2>2 DEF PacesEveryWindow
<1> QED
  BY <1>5, <1>6, <1>8, <1>9 DEF LimiterInv

\* A step that finds no token keeps the invariant: it fills the bucket up and sleeps.
LEMMA DrawWaits ==
    ASSUME LimiterInv, NEW l \in Loops, NEW k \in Keys, Draw(l, k), Level(k) < Unit,
           tokens' = [tokens EXCEPT ![k] = Level(k)],
           asleep' = [asleep EXCEPT ![l] = {k}],
           since' = [since EXCEPT ![l] = clock], served' = served
    PROVE  LimiterInv'
<1>0. /\ LimiterTypeOK /\ ServedInThePast /\ NothingSavedUp /\ PacesEveryWindow
      /\ Unit \in Nat /\ Refill[k] \in Nat /\ Full(k) \in Nat
      /\ clock \in Nat /\ tokens[k] \in Nat /\ filled[k] \in Nat /\ filled[k] <= clock
      /\ served[k] \in Seq(Nat)
  <2>1. LimiterTypeOK /\ ServedInThePast /\ NothingSavedUp /\ PacesEveryWindow
    BY DEF LimiterInv
  <2>2. Full(k) \in Nat
    BY FullIsNat
  <2>3. Unit \in Nat /\ Refill[k] \in Nat
    BY LimiterConstantsOK DEF LimiterConstantsOK
  <2>4. /\ clock \in Nat /\ tokens[k] \in Nat /\ filled[k] \in Nat /\ filled[k] <= clock
        /\ served[k] \in Seq(Nat)
    BY <2>1 DEF LimiterTypeOK
  <2> QED
    BY <2>1, <2>2, <2>3, <2>4
<1>1. /\ Level(k) \in Nat /\ Level(k) <= Full(k)
      /\ k \in known => Level(k) <= tokens[k] + (clock - filled[k]) * Refill[k]
  BY <1>0, LevelBounds
<1>2. /\ known' = known \cup {k} /\ filled' = [filled EXCEPT ![k] = clock] /\ clock' = clock
  BY DEF Draw
<1>3. /\ tokens'[k] = Level(k) /\ filled'[k] = clock /\ \A q \in Keys : Full(q)' = Full(q)
  BY <1>0, <1>2 DEF LimiterTypeOK, Full
<1>4. \A q \in Keys \ {k} : tokens'[q] = tokens[q] /\ filled'[q] = filled[q]
  BY <1>0, <1>2 DEF LimiterTypeOK
<1>5. LimiterTypeOK'
  <2>1. \A q \in Keys : tokens'[q] \in Nat /\ tokens'[q] <= Full(q)'
    BY <1>0, <1>1, <1>3, <1>4 DEF LimiterTypeOK
  <2>2. \A q \in Keys : filled'[q] <= clock'
    BY <1>0, <1>2, <1>3, <1>4 DEF LimiterTypeOK
  <2> QED
    BY <1>0, <1>1, <1>2, <2>1, <2>2 DEF LimiterTypeOK
<1>6. ServedInThePast'
  BY <1>0, <1>2, <1>3, <1>4 DEF ServedInThePast, LimiterTypeOK
<1>7. NothingSavedUp'
  <2>1. \A i \in DOMAIN served[k] : Spent(k, i)' <= Full(k)' + FlownSince(k, i)'
    <3> TAKE i \in DOMAIN served[k]
    <3> DEFINE s == served[k][i]
               early == (filled[k] - s) * Refill[k]
               flown == (clock - filled[k]) * Refill[k]
               calls == (Len(served[k]) - i + 1) * Unit
    <3>1. s \in Nat /\ k \in known /\ i \in Nat /\ Len(served[k]) \in Nat
      BY <1>0 DEF ServedInThePast
    <3>2. calls + tokens[k] <= Full(k) + early
      BY <1>0 DEF NothingSavedUp, Spent, FlownSince
    <3>3. Level(k) <= tokens[k] + flown
      BY <1>1, <3>1
    <3>4. (clock - s) * Refill[k] = early + flown /\ early \in Int /\ flown \in Int /\ calls \in Int
      <4>1. (clock - s) * Refill[k] = early + flown /\ early \in Int /\ flown \in Int
        <5>1. filled[k] \in Int /\ clock \in Int /\ s \in Int /\ Refill[k] \in Int
          BY <1>0, <3>1
        <5> DEFINE f == filled[k]
                   r == Refill[k]
        <5> HIDE DEF s, f, r
        <5>2. /\ (f - s) * r \in Int /\ (clock - f) * r \in Int
              /\ (clock - s) * r = (f - s) * r + (clock - f) * r
          <6>1. f \in Int /\ r \in Int /\ s \in Int /\ clock \in Int
            BY <5>1 DEF f, r
          <6> QED
            BY <6>1
        <5> QED
          BY <5>2 DEF f, r
      <4>2. calls \in Int
        BY <1>0, <3>1, OneMoreCall
      <4> QED
        BY <4>1, <4>2
    <3>5. Spent(k, i)' = calls + Level(k) /\ FlownSince(k, i)' = (clock - s) * Refill[k]
      BY <1>3 DEF Spent, FlownSince
    <3> HIDE DEF early, flown, calls
    <3>6. calls + Level(k) <= Full(k) + (early + flown)
      <4>1. Level(k) \in Int /\ Full(k) \in Int /\ tokens[k] \in Int
        BY <1>0, <1>1
      <4> QED
        BY <3>2, <3>3, <3>4, <4>1
    <3> QED
      BY <1>3, <3>4, <3>5, <3>6, Zenon
  <2>2. \A q \in Keys \ {k} : \A i \in DOMAIN served[q] : Spent(q, i)' <= Full(q)' + FlownSince(q, i)'
    BY <1>0, <1>3, <1>4 DEF NothingSavedUp, Spent, FlownSince
  <2> QED
    BY <2>1, <2>2 DEF NothingSavedUp
<1>8. PacesEveryWindow'
  BY <1>0, <1>3 DEF PacesEveryWindow
<1> QED
  BY <1>5, <1>6, <1>7, <1>8 DEF LimiterInv

LEMMA DrawKeeps ==
    ASSUME LimiterInv, NEW l \in Loops, NEW k \in Keys, Draw(l, k)
    PROVE  LimiterInv'
<1>1. CASE /\ Level(k) >= Unit
           /\ tokens' = [tokens EXCEPT ![k] = Level(k) - Unit]
           /\ served' = [served EXCEPT ![k] = Append(@, clock)]
           /\ asleep' = [asleep EXCEPT ![l] = {}] /\ since' = since
  BY <1>1, DrawServes
<1>2. CASE /\ Level(k) < Unit
           /\ tokens' = [tokens EXCEPT ![k] = Level(k)]
           /\ asleep' = [asleep EXCEPT ![l] = {k}]
           /\ since' = [since EXCEPT ![l] = clock] /\ served' = served
  BY <1>2, DrawWaits
<1> QED
  BY <1>1, <1>2 DEF Draw

\* LimiterInv is inductive.
LEMMA LimiterStep == LimiterInv /\ [LimiterNext]_limiterVars => LimiterInv'
<1> SUFFICES ASSUME LimiterInv, [LimiterNext]_limiterVars PROVE LimiterInv'
  OBVIOUS
<1>1. CASE \E l \in Loops, k \in Keys : Acquire(l, k)
  BY <1>1, DrawKeeps DEF Acquire
<1>2. CASE \E l \in Loops : Poll(l)
  BY <1>2, DrawKeeps DEF Poll, LimiterInv, LimiterTypeOK
<1>3. CASE LimiterTick
  <2>1. /\ clock' = clock + 1 /\ known' = known /\ tokens' = tokens /\ filled' = filled
        /\ asleep' = asleep /\ since' = since /\ served' = served
    BY <1>3 DEF LimiterTick
  <2>2. LimiterTypeOK'
    BY <2>1 DEF LimiterInv, LimiterTypeOK, Full
  <2> QED
    BY <2>1, <2>2 DEF LimiterInv, ServedInThePast, NothingSavedUp, PacesEveryWindow, Spent,
                      FlownSince, Full
<1>4. CASE UNCHANGED limiterVars
  BY <1>4 DEF limiterVars, LimiterInv, LimiterTypeOK, ServedInThePast, NothingSavedUp,
              PacesEveryWindow, Spent, FlownSince, Full
<1> QED
  BY <1>1, <1>2, <1>3, <1>4 DEF LimiterNext

\* A bucket never overflows and was never touched in the future, for any loops,
\* keys, capacities and rates (rate_limiter.py:16-26).
THEOREM BucketsHold == LimiterSpec => []LimiterTypeOK
<1>1. LimiterInv => LimiterTypeOK
  BY DEF LimiterInv
<1> QED
  BY <1>1, LimiterInitHolds, LimiterStep, PTL DEF LimiterSpec

\* However many loops poll a bucket, no window from one call to another holds more
\* calls than a full bucket and what flows in meanwhile (rate_limiter.py:16-26).
THEOREM Paces == LimiterSpec => []PacesEveryWindow
<1>1. LimiterInv => PacesEveryWindow
  BY DEF LimiterInv
<1> QED
  BY <1>1, LimiterInitHolds, LimiterStep, PTL DEF LimiterSpec

-----------------------------------------------------------------------------
(* The instrument catalog: InstrumentCatalog.                               *)

\* The entries of an exchange are those of its last answer, which is no older than
\* the time they count from.
ListsAsHeard ==
    \A e \in Exchanges :
        /\ entries[e] = IF heard[e].answered THEN BuildEntries(Listing[e], Defaults) ELSE <<>>
        /\ heard[e].answered \in BOOLEAN
        /\ heard[e].at \in Int /\ loadedAt[e] <= heard[e].at /\ heard[e].at <= minute

\* An answer is what resolve_symbol makes of the list the exchange answered with, or of
\* none.
AnswersFollow ==
    \A a \in answer :
        /\ a.question \in Questions /\ a.heard.answered \in BOOLEAN
        /\ a.got = Resolve(IF a.heard.answered THEN BuildEntries(Listing[a.question.to], Defaults)
                                               ELSE <<>>,
                           Hyphenated[a.question.to], a.question.from.symbol, Defaults)

\* What a loader has done of its loop, it heard after it took the time.
LoadsInTime(c) ==
    /\ step[c] # "idle" => asked[c] \in Questions
    /\ step[c] = "loading" =>
          /\ begun[c] <= minute /\ minute <= begun[c] + LoadTime
          /\ todo[c] \subseteq Exchanges
          /\ \A e \in Needed(asked[c]) \ todo[c] : heard[e].at >= begun[c]

CatalogInv ==
    /\ minute \in Nat
    /\ DOMAIN entries = Exchanges /\ DOMAIN heard = Exchanges
    /\ loadedAt \in [Exchanges -> Int] /\ begun \in [Callers -> Nat]
    /\ DOMAIN step = Callers /\ DOMAIN asked = Callers /\ DOMAIN todo = Callers
    /\ ListsAsHeard
    /\ \A c \in Callers : LoadsInTime(c)
    /\ AnswersAreRecent /\ AnswersFollow

LEMMA QuestionsAreKnown ==
    ASSUME NEW question \in Questions
    PROVE  /\ question.from.exchange \in Exchanges /\ question.to \in Exchanges
           /\ Needed(question) \subseteq Exchanges
  BY CatalogConstantsOK DEF CatalogConstantsOK, Needed

\* A symbol is not found only if no entry has its key.
LEMMA NotFound ==
    ASSUME NEW listing, NEW hyphenated, NEW symbol,
           ~ Resolve(BuildEntries(listing, Defaults), hyphenated, symbol, Defaults).listed
    PROVE  \A n \in NamedRows(listing) : Canonical(listing[n]) # CanonicalOf(symbol)
<1> DEFINE lists == BuildEntries(listing, Defaults)
           keyed == {n \in DOMAIN lists : lists[n].canonical = CanonicalOf(symbol)}
<1>1. DOMAIN lists = NamedRows(listing)
      /\ \A n \in NamedRows(listing) : lists[n].canonical = Canonical(listing[n])
  BY DEF BuildEntries
<1> HIDE DEF lists
<1>2. keyed = {}
  <2> HIDE DEF keyed
  <2> DEFINE alike == {n \in DOMAIN lists : Normalized(lists[n].symbol) = Normalized(symbol)}
             found == IF keyed # {} THEN keyed ELSE alike
  <2>1. found = {}
    <3> HIDE DEF alike
    <3> QED
      BY DEF Resolve, lists, keyed, alike
  <2> QED
    BY <2>1
<1> QED
  BY <1>1, <1>2

\* An answer given from lists that are as heard, in time, is a recent one.
LEMMA ReplyIsRecent ==
    ASSUME NEW question \in Questions, NEW lists, NEW told, minute \in Int,
           lists[question.to] = IF told[question.to].answered
                                THEN BuildEntries(Listing[question.to], Defaults) ELSE <<>>,
           told[question.to].answered \in BOOLEAN,
           minute - told[question.to].at < Ttl,
           answer' = Reply(question, lists, told)
    PROVE  AnswersAreRecent' /\ AnswersFollow'
<1> SUFFICES ASSUME NEW a \in answer'
             PROVE  /\ a.question \in Questions /\ a.heard.answered \in BOOLEAN
                    /\ a.got = Resolve(IF a.heard.answered
                                       THEN BuildEntries(Listing[a.question.to], Defaults)
                                       ELSE <<>>,
                                       Hyphenated[a.question.to], a.question.from.symbol, Defaults)
                    /\ a.at - a.heard.at < Ttl
                    /\ ~ a.got.listed =>
                          \/ ~ a.heard.answered
                          \/ \A n \in NamedRows(Listing[a.question.to]) :
                                Canonical(Listing[a.question.to][n]) # CanonicalOf(a.question.from.symbol)
  BY DEF AnswersAreRecent, AnswersFollow
<1>1. /\ a.question = question /\ a.at = minute /\ a.heard = told[question.to]
      /\ a.got = Resolve(lists[question.to], Hyphenated[question.to], question.from.symbol, Defaults)
  BY DEF Reply
<1>2. ASSUME ~ a.got.listed, a.heard.answered
      PROVE  \A n \in NamedRows(Listing[a.question.to]) :
                Canonical(Listing[a.question.to][n]) # CanonicalOf(a.question.from.symbol)
  <2>1. lists[question.to] = BuildEntries(Listing[question.to], Defaults)
    BY <1>1, <1>2
  <2>2. ~ Resolve(BuildEntries(Listing[question.to], Defaults), Hyphenated[question.to],
                  question.from.symbol, Defaults).listed
    BY <1>1, <1>2, <2>1
  <2>3. \A n \in NamedRows(Listing[question.to]) :
           Canonical(Listing[question.to][n]) # CanonicalOf(question.from.symbol)
    BY <2>2, NotFound
  <2> QED
    BY <1>1, <2>3
<1> QED
  BY <1>1, <1>2

LEMMA CatalogInitHolds == CatalogInit => CatalogInv
<1> SUFFICES ASSUME CatalogInit PROVE CatalogInv
  OBVIOUS
<1>1. Ttl \in Nat
  BY CatalogConstantsOK DEF CatalogConstantsOK
<1>2. minute = 0 /\ answer = {} /\ \A e \in Exchanges :
         /\ heard[e].at = -Ttl /\ heard[e].answered = FALSE
         /\ loadedAt[e] = -Ttl /\ entries[e] = <<>>
  BY DEF CatalogInit
<1>3. ListsAsHeard
  <2> SUFFICES ASSUME NEW e \in Exchanges
               PROVE  /\ entries[e] = IF heard[e].answered THEN BuildEntries(Listing[e], Defaults)
                                                          ELSE <<>>
                      /\ heard[e].answered \in BOOLEAN
                      /\ heard[e].at \in Int /\ loadedAt[e] <= heard[e].at /\ heard[e].at <= minute
    BY DEF ListsAsHeard
  <2>1. entries[e] = (IF heard[e].answered THEN BuildEntries(Listing[e], Defaults) ELSE <<>>)
        /\ heard[e].answered \in BOOLEAN
    BY <1>2, Zenon
  <2>2. heard[e].at \in Int /\ loadedAt[e] <= heard[e].at /\ heard[e].at <= minute
    BY <1>1, <1>2
  <2> QED
    BY <2>1, <2>2, Zenon
<1>4. \A c \in Callers : LoadsInTime(c)
  BY DEF CatalogInit, LoadsInTime
<1>5. loadedAt \in [Exchanges -> Int] /\ begun \in [Callers -> Nat]
  BY <1>1 DEF CatalogInit
<1> QED
  BY <1>2, <1>3, <1>4, <1>5 DEF CatalogInit, CatalogInv, AnswersAreRecent, AnswersFollow

\* From lists that are fresh an answer is given at once.
LEMMA FreshIsRecent ==
    ASSUME CatalogInv, NEW question \in Questions, AllFresh(question),
           answer' = Reply(question, entries, heard)
    PROVE  AnswersAreRecent' /\ AnswersFollow'
<1>1. question.to \in Exchanges /\ Fresh(question.to)
  BY QuestionsAreKnown DEF AllFresh, Needed
<1>2. /\ minute \in Int /\ loadedAt[question.to] \in Int /\ heard[question.to].at \in Int
      /\ loadedAt[question.to] <= heard[question.to].at
      /\ heard[question.to].answered \in BOOLEAN
      /\ entries[question.to] = IF heard[question.to].answered
                                THEN BuildEntries(Listing[question.to], Defaults) ELSE <<>>
  BY <1>1 DEF CatalogInv, ListsAsHeard
<1>3. minute - heard[question.to].at < Ttl
  BY <1>1, <1>2, CatalogConstantsOK DEF Fresh, CatalogConstantsOK
<1> QED
  BY <1>2, <1>3, ReplyIsRecent

LEMMA AskKeeps == ASSUME CatalogInv, NEW c \in Callers, Ask(c) PROVE CatalogInv'
<1>1. /\ minute' = minute /\ entries' = entries /\ loadedAt' = loadedAt /\ begun' = begun
      /\ todo' = todo /\ heard' = heard
  BY DEF Ask
<1>2. ListsAsHeard'
  BY <1>1 DEF CatalogInv, ListsAsHeard
<1>3. PICK question \in Questions :
         \/ /\ AllFresh(question)
            /\ answer' = Reply(question, entries, heard)
            /\ step' = step /\ asked' = asked
         \/ /\ asked' = [asked EXCEPT ![c] = question]
            /\ step' = [step EXCEPT ![c] = "waiting"]
            /\ answer' = {}
  BY DEF Ask
<1>4. CASE AllFresh(question) /\ answer' = Reply(question, entries, heard)
           /\ step' = step /\ asked' = asked
  <2>1. AnswersAreRecent' /\ AnswersFollow'
    BY <1>4, FreshIsRecent
  <2> QED
    BY <1>1, <1>2, <1>4, <2>1 DEF CatalogInv, LoadsInTime
<1>5. CASE asked' = [asked EXCEPT ![c] = question]
           /\ step' = [step EXCEPT ![c] = "waiting"] /\ answer' = {}
  BY <1>1, <1>2, <1>5 DEF CatalogInv, LoadsInTime, AnswersAreRecent, AnswersFollow
<1> QED
  BY <1>3, <1>4, <1>5

LEMMA EnterLoadKeeps == ASSUME CatalogInv, NEW c \in Callers, EnterLoad(c) PROVE CatalogInv'
<1>1. /\ minute' = minute /\ entries' = entries /\ loadedAt' = loadedAt /\ heard' = heard
      /\ step[c] = "waiting" /\ asked[c] \in Questions
  BY DEF EnterLoad, CatalogInv, LoadsInTime
<1>2. ListsAsHeard'
  BY <1>1 DEF CatalogInv, ListsAsHeard
<1>3. CASE /\ AllFresh(asked[c]) /\ answer' = Reply(asked[c], entries, heard)
           /\ step' = [step EXCEPT ![c] = "idle"]
           /\ asked' = [asked EXCEPT ![c] = NoQuestion]
           /\ todo' = todo /\ begun' = begun
  <2>1. AnswersAreRecent' /\ AnswersFollow'
    BY <1>1, <1>3, FreshIsRecent
  <2>2. \A d \in Callers : LoadsInTime(d)'
    BY <1>1, <1>3 DEF CatalogInv, LoadsInTime
  <2> QED
    BY <1>1, <1>2, <1>3, <2>1, <2>2 DEF CatalogInv
<1>4. CASE /\ step' = [step EXCEPT ![c] = "loading"]
           /\ todo' = [todo EXCEPT ![c] = Needed(asked[c])]
           /\ begun' = [begun EXCEPT ![c] = minute]
           /\ answer' = {} /\ asked' = asked
  <2>1. Needed(asked[c]) \subseteq Exchanges
    BY <1>1, QuestionsAreKnown
  <2>2. LoadsInTime(c)'
    BY <1>1, <1>4, <2>1, CatalogConstantsOK DEF CatalogInv, LoadsInTime, CatalogConstantsOK
  <2>3. \A d \in Callers \ {c} : LoadsInTime(d)'
    BY <1>1, <1>4 DEF CatalogInv, LoadsInTime
  <2> QED
    BY <1>1, <1>2, <1>4, <2>2, <2>3 DEF CatalogInv, AnswersAreRecent, AnswersFollow
<1> QED
  BY <1>3, <1>4 DEF EnterLoad

LEMMA LoadOneKeeps == ASSUME CatalogInv, NEW c \in Callers, LoadOne(c) PROVE CatalogInv'
<1>1. PICK e \in todo[c], answered \in BOOLEAN :
         /\ entries' = [entries EXCEPT ![e] =
                           IF answered THEN BuildEntries(Listing[e], Defaults) ELSE <<>>]
         /\ heard' = [heard EXCEPT ![e] = [at |-> minute, answered |-> answered]]
         /\ loadedAt' = [loadedAt EXCEPT ![e] = KeptFrom(c)]
         /\ todo' = [todo EXCEPT ![c] = @ \ {e}]
         /\ step' = [step EXCEPT ![c] = IF todo[c] = {e} THEN "idle" ELSE "loading"]
         /\ asked' = [asked EXCEPT ![c] = IF todo[c] = {e} THEN NoQuestion ELSE @]
         /\ answer' = IF todo[c] = {e} THEN Reply(asked[c], entries', heard') ELSE {}
  BY DEF LoadOne
<1>2. /\ minute' = minute /\ begun' = begun /\ step[c] = "loading"
      /\ minute \in Nat /\ begun[c] \in Nat /\ asked[c] \in Questions
      /\ begun[c] <= minute /\ minute <= begun[c] + LoadTime /\ todo[c] \subseteq Exchanges
      /\ \A x \in Needed(asked[c]) \ todo[c] : heard[x].at >= begun[c]
  BY DEF LoadOne, CatalogInv, LoadsInTime
<1>3. e \in Exchanges
  BY <1>2
<1>4. /\ DOMAIN entries' = Exchanges /\ DOMAIN heard' = Exchanges
      /\ heard'[e] = [at |-> minute, answered |-> answered]
      /\ entries'[e] = IF answered THEN BuildEntries(Listing[e], Defaults) ELSE <<>>
      /\ loadedAt'[e] = begun[c] /\ loadedAt' \in [Exchanges -> Int]
      /\ \A x \in Exchanges \ {e} : /\ entries'[x] = entries[x] /\ heard'[x] = heard[x]
                                    /\ loadedAt'[x] = loadedAt[x]
  BY <1>1, <1>2, <1>3 DEF CatalogInv, KeptFrom
<1>5. ListsAsHeard'
  BY <1>2, <1>4 DEF CatalogInv, ListsAsHeard
<1>6. \A x \in Exchanges : heard'[x].at = minute \/ heard'[x] = heard[x]
  BY <1>4
<1>7. \A d \in Callers : LoadsInTime(d)'
  <2> SUFFICES ASSUME NEW d \in Callers PROVE LoadsInTime(d)'
    OBVIOUS
  <2>0. LoadsInTime(d) /\ begun[d] \in Nat
    BY DEF CatalogInv
  <2>1. CASE d # c
    <3>1. /\ step'[d] = step[d] /\ asked'[d] = asked[d] /\ todo'[d] = todo[d]
      BY <1>1, <2>1 DEF CatalogInv
    <3>2. ASSUME step[d] = "loading"
          PROVE  \A x \in Needed(asked[d]) \ todo[d] : heard'[x].at >= begun[d]
      <4>1. Needed(asked[d]) \subseteq Exchanges
        BY <2>0, <3>2, QuestionsAreKnown DEF LoadsInTime
      <4> QED
        BY <1>2, <1>6, <2>0, <3>2, <4>1 DEF LoadsInTime
    <3> QED
      BY <1>2, <2>0, <3>1, <3>2 DEF LoadsInTime
  <2>2. CASE d = c
    <3>1. /\ todo'[c] = todo[c] \ {e}
          /\ todo[c] = {e} => step'[c] = "idle"
          /\ todo[c] # {e} => step'[c] = "loading" /\ asked'[c] = asked[c]
      BY <1>1 DEF CatalogInv
    <3>2. \A x \in Needed(asked[c]) \ (todo[c] \ {e}) : heard'[x].at >= begun[c]
      <4>1. Needed(asked[c]) \subseteq Exchanges
        BY <1>2, QuestionsAreKnown
      <4> QED
        BY <1>2, <1>4, <4>1
    <3> QED
      BY <1>2, <2>2, <3>1, <3>2 DEF LoadsInTime
  <2> QED
    BY <2>1, <2>2
<1>8. AnswersAreRecent' /\ AnswersFollow'
  <2>1. CASE todo[c] # {e}
    BY <1>1, <2>1 DEF AnswersAreRecent, AnswersFollow
  <2>2. CASE todo[c] = {e}
    <3> DEFINE x == asked[c].to
    <3>1. x \in Exchanges /\ x \in Needed(asked[c])
      BY <1>2, QuestionsAreKnown DEF Needed
    <3>2. heard'[x].at >= begun[c] /\ heard'[x].at \in Int
      <4>1. CASE x = e
        BY <1>2, <1>4, <4>1
      <4>2. CASE x # e
        <5>1. x \in Needed(asked[c]) \ todo[c] /\ heard'[x] = heard[x]
          BY <1>4, <2>2, <3>1, <4>2
        <5> QED
          BY <1>2, <3>1, <5>1 DEF CatalogInv, ListsAsHeard
      <4> QED
        BY <4>1, <4>2
    <3>3. /\ heard'[x].answered \in BOOLEAN
          /\ entries'[x] = IF heard'[x].answered THEN BuildEntries(Listing[x], Defaults) ELSE <<>>
      BY <1>5, <3>1 DEF ListsAsHeard
    <3>4. minute - heard'[x].at < Ttl
      BY <1>2, <3>2, CatalogConstantsOK DEF CatalogConstantsOK
    <3>5. PICK question, lists, told : question = asked[c] /\ lists = entries' /\ told = heard'
      OBVIOUS
    <3>6. answer' = Reply(question, lists, told)
      BY <1>1, <2>2, <3>5
    <3> QED
      BY <1>2, <3>3, <3>4, <3>5, <3>6, ReplyIsRecent
  <2> QED
    BY <2>1, <2>2
<1>9. DOMAIN step' = Callers /\ DOMAIN asked' = Callers /\ DOMAIN todo' = Callers
  BY <1>1 DEF CatalogInv
<1> QED
  BY <1>2, <1>4, <1>5, <1>7, <1>8, <1>9 DEF CatalogInv

LEMMA CatalogTickKeeps == ASSUME CatalogInv, CatalogTick PROVE CatalogInv'
<1>1. /\ minute \in Nat /\ minute' = minute + 1 /\ answer' = {}
      /\ entries' = entries /\ loadedAt' = loadedAt /\ step' = step /\ asked' = asked
      /\ begun' = begun /\ todo' = todo /\ heard' = heard
      /\ \A c \in Callers : step[c] = "loading" => minute < begun[c] + LoadTime
  BY DEF CatalogInv, CatalogTick
<1>2. ListsAsHeard'
  BY <1>1 DEF CatalogInv, ListsAsHeard
<1>3. \A c \in Callers : LoadsInTime(c)'
  BY <1>1, CatalogConstantsOK DEF CatalogInv, LoadsInTime, CatalogConstantsOK
<1>4. AnswersAreRecent' /\ AnswersFollow'
  BY <1>1 DEF AnswersAreRecent, AnswersFollow
<1> QED
  BY <1>1, <1>2, <1>3, <1>4 DEF CatalogInv

\* CatalogInv is inductive.
LEMMA CatalogStep == CatalogInv /\ [CatalogNext]_catalogVars => CatalogInv'
<1> SUFFICES ASSUME CatalogInv, [CatalogNext]_catalogVars PROVE CatalogInv'
  OBVIOUS
<1>1. CASE UNCHANGED catalogVars
  BY <1>1 DEF catalogVars, CatalogInv, ListsAsHeard, LoadsInTime, AnswersAreRecent, AnswersFollow
<1> QED
  BY <1>1, AskKeeps, EnterLoadKeeps, LoadOneKeeps, CatalogTickKeeps DEF CatalogNext

\* No answer is older than the time to live and none denies a pair the exchange
\* listed, for any callers, exchanges and lists (instrument_catalog.py:70-87).
THEOREM AnswersRecent == CatalogSpec => []AnswersAreRecent
<1>1. CatalogInv => AnswersAreRecent
  BY DEF CatalogInv
<1> QED
  BY <1>1, CatalogInitHolds, CatalogStep, PTL DEF CatalogSpec

\* The quote is the last part of a key and the base the others.
LEMMA KeyHasItsQuote ==
    ASSUME NEW row, Spelled(row)
    PROVE  /\ Aliased(row.base) \in Seq(STRING) /\ Aliased(row.base) # <<>>
           /\ Len(row.quote) = 1 /\ Aliased(row.quote) = <<Alias(row.quote[1])>>
           /\ Alias(row.quote[1]) \notin ContractSuffixes
           /\ DOMAIN PairKey(row) = 1 .. Len(Aliased(row.base)) + 1
           /\ Len(PairKey(row)) = Len(Aliased(row.base)) + 1 /\ Len(PairKey(row)) > 1
           /\ Last(PairKey(row)) = Alias(row.quote[1])
           /\ Head(PairKey(row)) = Head(Aliased(row.base))
           /\ \A n \in 1 .. Len(Aliased(row.base)) : PairKey(row)[n] = Aliased(row.base)[n]
<1> DEFINE base == Aliased(row.base)
           q == Alias(row.quote[1])
<1>1. base \in Seq(STRING) /\ base # <<>> /\ Len(row.quote) = 1 /\ q \notin ContractSuffixes
  BY DEF Spelled
<1>2. Aliased(row.quote) = <<q>>
  BY <1>1 DEF Aliased
<1> HIDE DEF base, q
<1>3. PairKey(row) = base \o <<q>>
  BY <1>2 DEF PairKey, base
<1> QED
  BY <1>1, <1>2, <1>3 DEF base, q, Last

\* Keys tell pairs apart.
LEMMA KeysTell ==
    ASSUME NEW row, Spelled(row), NEW other, Spelled(other)
    PROVE  PairKey(row) = PairKey(other) <=> Pair(row) = Pair(other)
<1>1. ASSUME Pair(row) = Pair(other) PROVE PairKey(row) = PairKey(other)
  BY <1>1 DEF Pair, PairKey
<1>2. ASSUME PairKey(row) = PairKey(other) PROVE Pair(row) = Pair(other)
  <2>1. Len(Aliased(row.base)) = Len(Aliased(other.base))
    BY <1>2, KeyHasItsQuote
  <2>2. Aliased(row.base) = Aliased(other.base)
    BY <1>2, <2>1, KeyHasItsQuote
  <2>3. Aliased(row.quote) = Aliased(other.quote)
    BY <1>2, KeyHasItsQuote
  <2> QED
    BY <2>2, <2>3 DEF Pair
<1> QED
  BY <1>1, <1>2

\* A prefix and a suffix are taken off, if neither begins nor ends what is between.
LEMMA StrippedOfContract ==
    ASSUME NEW Names, NEW key \in Seq(Names), Len(key) > 1,
           Head(key) \notin ContractPrefixes, Last(key) \notin ContractSuffixes,
           NEW prefix \in {<<>>} \cup {<<p>> : p \in ContractPrefixes},
           NEW suffix \in {<<>>} \cup {<<p>> : p \in ContractSuffixes}
    PROVE  /\ DropSuffix(DropPrefix(prefix \o key \o suffix)) = key
           /\ \/ Last(prefix \o key \o suffix) = Last(key)
              \/ Last(prefix \o key \o suffix) \in ContractSuffixes
<1> DEFINE Parts == Names \cup ContractPrefixes \cup ContractSuffixes
<1>1. prefix \in Seq(Parts) /\ suffix \in Seq(Parts) /\ key \in Seq(Parts)
  <2>1. \A p \in Parts : <<p>> \in Seq(Parts)
    OBVIOUS
  <2>2. Names \subseteq Parts /\ <<>> \in Seq(Parts)
    OBVIOUS
  <2>3. \A p \in ContractPrefixes \cup ContractSuffixes : p \in Parts
    OBVIOUS
  <2>4. prefix \in Seq(Parts)
    BY <2>1, <2>2, <2>3
  <2>5. suffix \in Seq(Parts)
    BY <2>1, <2>2, <2>3
  <2>6. Seq(Names) \subseteq Seq(Parts)
    BY <2>2, SeqMonotonic
  <2> QED
    BY <2>4, <2>5, <2>6
<1> HIDE DEF Parts
<1>2. DropPrefix(prefix \o key \o suffix) = key \o suffix
  <2>1. CASE prefix = <<>>
    BY <1>1, <2>1 DEF DropPrefix
  <2>2. CASE prefix # <<>>
    <3>1. PICK p \in ContractPrefixes : prefix = <<p>>
      BY <2>2
    <3>2. Head(prefix \o key \o suffix) = p /\ prefix \o key \o suffix # <<>>
          /\ Tail(prefix \o key \o suffix) = key \o suffix
      BY <1>1, <3>1
    <3> QED
      BY <3>2 DEF DropPrefix
  <2> QED
    BY <2>1, <2>2
<1>3. DropSuffix(key \o suffix) = key
  <2>1. CASE suffix = <<>>
    BY <1>1, <2>1 DEF DropSuffix
  <2>2. CASE suffix # <<>>
    <3>1. PICK p \in ContractSuffixes : suffix = <<p>>
      BY <2>2
    <3>2. Last(key \o suffix) = p /\ key \o suffix # <<>> /\ Front(key \o suffix) = key
      BY <1>1, <3>1 DEF Last, Front
    <3> QED
      BY <3>1, <3>2 DEF DropSuffix
  <2> QED
    BY <2>1, <2>2
<1>4. \/ Last(prefix \o key \o suffix) = Last(key)
      \/ Last(prefix \o key \o suffix) \in ContractSuffixes
  <2>1. CASE suffix = <<>>
    <3>1. prefix \o key \o suffix = prefix \o key
      BY <1>1, <2>1
    <3> QED
      BY <1>1, <3>1 DEF Last
  <2>2. CASE suffix # <<>>
    <3>1. PICK p \in ContractSuffixes : suffix = <<p>>
      BY <2>2
    <3> QED
      BY <1>1, <3>1 DEF Last
  <2> QED
    BY <2>1, <2>2
<1> QED
  BY <1>2, <1>3, <1>4

\* What a symbol of a row is keyed by: its pair, if the quote is one of those that are
\* known; else what is no such pair.
LEMMA SymbolKey ==
    ASSUME NEW row, Spelled(row), ~ BeginsLikeAContract(row)
    PROVE  /\ Alias(row.quote[1]) \in Quotes => CanonicalOf(row.symbol) = PairKey(row)
           /\ Alias(row.quote[1]) \notin Quotes => Last(CanonicalOf(row.symbol)) \notin Quotes
<1> DEFINE key == PairKey(row)
           Names == STRING \cup {Alias(row.quote[1])}
<1>1. /\ key \in Seq(Names) /\ Len(key) > 1
      /\ Head(key) \notin ContractPrefixes /\ Last(key) = Alias(row.quote[1])
      /\ Last(key) \notin ContractSuffixes
  <2>1. Aliased(row.base) \in Seq(Names) /\ Aliased(row.quote) \in Seq(Names)
    <3>1. Seq(STRING) \subseteq Seq(Names)
      BY SeqMonotonic
    <3>2. \A q \in Names : <<q>> \in Seq(Names)
      OBVIOUS
    <3> QED
      BY <3>1, <3>2, KeyHasItsQuote
  <2> QED
    BY <2>1, KeyHasItsQuote DEF BeginsLikeAContract, PairKey
<1> HIDE DEF Names
<1>2. PICK prefix \in {<<>>} \cup {<<p>> : p \in ContractPrefixes},
           suffix \in {<<>>} \cup {<<p>> : p \in ContractSuffixes} :
           Normalized(row.symbol) = prefix \o key \o suffix
  BY DEF Spelled
<1> HIDE DEF key
<1>3. /\ DropSuffix(DropPrefix(Normalized(row.symbol))) = key
      /\ Last(Normalized(row.symbol)) \in {Last(key)} \cup ContractSuffixes
  BY <1>1, <1>2, StrippedOfContract
<1>4. CASE Last(key) \in Quotes
  BY <1>1, <1>3, <1>4 DEF CanonicalOf, key
<1>5. CASE Last(key) \notin Quotes
  <2>1. CanonicalOf(row.symbol) = Normalized(row.symbol)
    BY <1>3, <1>5 DEF CanonicalOf
  <2>2. \A p \in ContractSuffixes : p \notin Quotes
    BY DEF ContractSuffixes, Quotes
  <2> QED
    BY <1>1, <1>3, <1>5, <2>1, <2>2
<1> QED
  BY <1>1, <1>4, <1>5 DEF key

\* Whichever field a row states its limits in, and whatever it states, they are positive.
LEMMA LimitsAreUsable ==
    ASSUME NEW raws \in Seq(Nat \cup {Unusable}), NEW default \in Nat \ {0}
    PROVE  DecimalValue(FirstTruthy(raws), default) > 0
<1> DEFINE truthy == {n \in DOMAIN raws : raws[n] # Absent}
<1>1. truthy \subseteq Nat
  OBVIOUS
<1>2. CASE truthy = {}
  BY <1>2 DEF FirstTruthy, DecimalValue
<1>3. CASE truthy # {}
  <2>1. \E m \in truthy : \A n \in truthy : m <= n
    <3> HIDE DEF truthy
    <3> QED
      BY <1>1, <1>3, HasLeast
  <2>2. Min(truthy) \in truthy
    BY <2>1 DEF Min
  <2>3. FirstTruthy(raws) = raws[Min(truthy)]
    BY <1>3 DEF FirstTruthy
  <2>4. raws[Min(truthy)] \in Nat \cup {Unusable}
    BY <2>2
  <2> QED
    BY <2>3, <2>4 DEF DecimalValue, Absent, Unusable
<1> QED
  BY <1>2, <1>3

\* Among rows that are spelled as exchanges spell them, the key of a symbol and its
\* spelling belong to the rows of its pair, and to no others.
LEMMA KeyFindsThePair ==
    ASSUME NEW from, Spelled(from), ~ SpelledLikeAContract(from),
           NEW row, Spelled(row), ~ BeginsLikeAContract(row)
    PROVE  /\ Canonical(row) = CanonicalOf(from.symbol) <=> Pair(row) = Pair(from)
           /\ Normalized(row.symbol) = Normalized(from.symbol) => Pair(row) = Pair(from)
<1>1. ~ BeginsLikeAContract(from) /\ Alias(from.quote[1]) \in Quotes
  BY DEF SpelledLikeAContract, Alias, Quotes
<1>2. CanonicalOf(from.symbol) = PairKey(from) /\ Last(PairKey(from)) \in Quotes
  BY <1>1, SymbolKey, KeyHasItsQuote
<1>3. PairKey(row) = PairKey(from) <=> Pair(row) = Pair(from)
  BY KeysTell
<1>4. CanonicalOf(row.symbol) = PairKey(from) <=> Pair(row) = Pair(from)
  <2>1. CASE Alias(row.quote[1]) \in Quotes
    BY <1>3, <2>1, SymbolKey
  <2>2. CASE Alias(row.quote[1]) \notin Quotes
    <3>1. CanonicalOf(row.symbol) # PairKey(from)
      BY <1>2, <2>2, SymbolKey
    <3>2. PairKey(row) # PairKey(from)
      BY <1>2, <2>2, KeyHasItsQuote
    <3> QED
      BY <1>3, <3>1, <3>2
  <2> QED
    BY <2>1, <2>2
<1>5. Normalized(row.symbol) = Normalized(from.symbol)
         => CanonicalOf(row.symbol) = CanonicalOf(from.symbol)
  BY DEF CanonicalOf
<1> QED
  BY <1>2, <1>3, <1>4, <1>5 DEF Canonical

\* A question is answered with its pair, wherever it comes first in the list.
LEMMA FoundIsThePair ==
    ASSUME AllSpelled, NEW question \in Questions, ~ SpelledLikeAContract(question.from),
           NEW answered \in BOOLEAN
    PROVE  LET listing == Listing[question.to]
               same == {n \in NamedRows(listing) : Pair(listing[n]) = Pair(question.from)}
               got == Resolve(IF answered THEN BuildEntries(listing, Defaults) ELSE <<>>,
                              Hyphenated[question.to], question.from.symbol, Defaults)
           IN  /\ got.listed => \E n \in same : listing[n].symbol = got.symbol
               /\ answered /\ same # {} => got.listed
               /\ got.limits.step > 0 /\ got.limits.min > 0
<1> DEFINE listing == Listing[question.to]
           from == question.from
           same == {n \in NamedRows(listing) : Pair(listing[n]) = Pair(from)}
           lists == IF answered THEN BuildEntries(listing, Defaults) ELSE <<>>
           got == Resolve(lists, Hyphenated[question.to], from.symbol, Defaults)
           keyed == {n \in DOMAIN lists : lists[n].canonical = CanonicalOf(from.symbol)}
           alike == {n \in DOMAIN lists : Normalized(lists[n].symbol) = Normalized(from.symbol)}
           found == IF keyed # {} THEN keyed ELSE alike
<1>1. question.to \in Exchanges /\ DOMAIN listing \subseteq Nat
      /\ \A n \in DOMAIN listing : /\ listing[n].steps \in Seq(Nat \cup {Unusable})
                                   /\ listing[n].mins \in Seq(Nat \cup {Unusable})
      /\ Defaults.step \in Nat \ {0} /\ Defaults.min \in Nat \ {0}
  BY CatalogConstantsOK DEF CatalogConstantsOK, Needed
<1>2. /\ DOMAIN lists = IF answered THEN NamedRows(listing) ELSE {}
      /\ \A n \in DOMAIN lists : /\ lists[n].symbol = listing[n].symbol
                                 /\ lists[n].canonical = Canonical(listing[n])
                                 /\ lists[n].limits = Constraints(listing[n], Defaults)
  <2>1. CASE answered
    BY <2>1 DEF BuildEntries
  <2>2. CASE ~ answered
    BY <2>2
  <2> QED
    BY <2>1, <2>2
<1>3. \A n \in NamedRows(listing) :
         /\ Canonical(listing[n]) = CanonicalOf(from.symbol) <=> Pair(listing[n]) = Pair(from)
         /\ Normalized(listing[n].symbol) = Normalized(from.symbol) => Pair(listing[n]) = Pair(from)
  BY KeyFindsThePair DEF AllSpelled
<1>4. NamedRows(listing) \subseteq DOMAIN listing
  BY DEF NamedRows
<1>5. got = IF found # {}
            THEN [listed |-> TRUE, symbol |-> lists[Min(found)].symbol,
                  limits |-> lists[Min(found)].limits]
            ELSE [listed |-> FALSE,
                  symbol |-> FallbackSymbol(Hyphenated[question.to], from.symbol),
                  limits |-> Defaults]
  <2> HIDE DEF lists
  <2> QED
    BY DEF Resolve
<1> HIDE DEF listing, from, lists, got
<1>6. found \subseteq DOMAIN lists /\ found \subseteq same /\ DOMAIN lists \subseteq NamedRows(listing)
  BY <1>2, <1>3
<1>7. answered /\ same # {} => found # {}
  BY <1>2, <1>3
<1>8. CASE found = {}
  <2>1. ~ got.listed /\ got.limits = Defaults
    BY <1>5, <1>8
  <2>2. got.limits.step > 0 /\ got.limits.min > 0
    <3>1. Defaults.step > 0 /\ Defaults.min > 0
      BY CatalogConstantsOK DEF CatalogConstantsOK
    <3> QED
      BY <2>1, <3>1, Zenon
  <2> QED
    BY <1>7, <1>8, <2>1, <2>2 DEF listing, from, got, lists
<1>9. CASE found # {}
  <2>1. Min(found) \in found
    <3>1. found \subseteq Nat
      BY <1>1, <1>4, <1>6
    <3> HIDE DEF found
    <3>2. \E m \in found : \A n \in found : m <= n
      BY <1>9, <3>1, HasLeast
    <3> QED
      BY <3>2 DEF Min
  <2> DEFINE first == Min(found)
  <2>2. first \in same /\ first \in DOMAIN lists /\ first \in DOMAIN listing
    BY <1>4, <1>6, <2>1
  <2> HIDE DEF found, first
  <2>3. /\ got.listed /\ got.symbol = listing[first].symbol
        /\ got.limits = Constraints(listing[first], Defaults)
    BY <1>2, <1>5, <1>9, <2>2 DEF first
  <2>4. got.limits.step > 0 /\ got.limits.min > 0
    BY <1>1, <2>2, <2>3, LimitsAreUsable DEF Constraints
  <2> QED
    BY <2>2, <2>3, <2>4 DEF listing, from, got, lists
<1> QED
  BY <1>8, <1>9

\* A symbol is resolved to the instrument of its pair, whatever was loaded when, if the
\* exchanges spell their contracts as they do: with known prefixes and suffixes round the
\* base and the quote (instrument_catalog.py:53-68, 145-199).
THEOREM PairsAreFound == ASSUME AllSpelled PROVE CatalogSpec => []ResolvesToThePair
<1>1. CatalogInv => ResolvesToThePair
  <2> SUFFICES ASSUME CatalogInv, NEW a \in answer, ~ SpelledLikeAContract(a.question.from)
               PROVE  LET listing == Listing[a.question.to]
                          same == {n \in NamedRows(listing) : Pair(listing[n]) = Pair(a.question.from)}
                      IN  /\ a.got.listed => \E n \in same : listing[n].symbol = a.got.symbol
                          /\ a.heard.answered /\ same # {} => a.got.listed
                          /\ a.got.limits.step > 0 /\ a.got.limits.min > 0
    BY DEF ResolvesToThePair
  <2>1. /\ a.question \in Questions /\ a.heard.answered \in BOOLEAN
        /\ a.got = Resolve(IF a.heard.answered THEN BuildEntries(Listing[a.question.to], Defaults)
                                               ELSE <<>>,
                           Hyphenated[a.question.to], a.question.from.symbol, Defaults)
    BY DEF CatalogInv, AnswersFollow
  <2>2. LET listing == Listing[a.question.to]
            same == {n \in NamedRows(listing) : Pair(listing[n]) = Pair(a.question.from)}
            got == Resolve(IF a.heard.answered THEN BuildEntries(listing, Defaults) ELSE <<>>,
                           Hyphenated[a.question.to], a.question.from.symbol, Defaults)
        IN  /\ got.listed => \E n \in same : listing[n].symbol = got.symbol
            /\ a.heard.answered /\ same # {} => got.listed
            /\ got.limits.step > 0 /\ got.limits.min > 0
    BY <2>1, FoundIsThePair, Zenon
  <2> QED
    BY <2>1, <2>2, Zenon
<1> QED
  BY <1>1, CatalogInitHolds, CatalogStep, PTL DEF CatalogSpec

-----------------------------------------------------------------------------
(* The schema at the start of a process: SchemaStartup.                     *)

\* A process that looked for tables, or for columns, makes what it found missing:
\* what it has not still to make is committed, or in its own transaction.
ThereFor(p, x) == x \in schema \cup made[p]
LookedFor(p) ==
    /\ phase[p] \in {"off", "tables", "columns", "up"}
    /\ made[p] \subseteq Objects
    /\ phase[p] \in {"tables", "columns"} => plan[p] \subseteq DOMAIN Order(p)
    /\ phase[p] = "tables" => \A i \in DOMAIN Tables \ plan[p] : ThereFor(p, Tables[i])
    /\ phase[p] = "columns" => /\ \A i \in DOMAIN Tables : ThereFor(p, Tables[i])
                               /\ \A i \in DOMAIN Columns \ plan[p] : ThereFor(p, Columns[i])

SchemaInv ==
    /\ schema \subseteq Objects
    /\ made \in [Processes -> SUBSET Objects]
    /\ plan \in [Processes -> SUBSET Nat]
    /\ DOMAIN phase = Processes
    /\ \A p \in Processes : LookedFor(p)
    /\ UpIsComplete

LEMMA Places ==
    /\ DOMAIN Tables \subseteq Nat /\ DOMAIN Columns \subseteq Nat
    /\ \A i \in DOMAIN Tables : Tables[i] \in Objects
    /\ \A i \in DOMAIN Columns : Columns[i] \in Objects
    /\ \A x \in Objects : \/ \E i \in DOMAIN Tables : x = Tables[i]
                          \/ \E i \in DOMAIN Columns : x = Columns[i]
  BY SchemaConstantsOK DEF SchemaConstantsOK, Objects, ToSet

LEMMA MadeIsKnown ==
    ASSUME NEW x \in Objects PROVE x \in Made(x) /\ Made(x) \subseteq Objects
  BY DEF Made, Objects

\* The next statement is one of those that are still to come.
LEMMA NextIsPlanned ==
    ASSUME NEW p \in Processes, plan[p] \in SUBSET Nat, plan[p] # {}
    PROVE  NextPlace(p) \in plan[p]
<1>1. \E m \in plan[p] : \A n \in plan[p] : m <= n
  BY HasLeast
<1> QED
  BY <1>1 DEF NextPlace, Min

LEMMA SchemaInitHolds == SchemaInit => SchemaInv
<1> SUFFICES ASSUME SchemaInit PROVE SchemaInv
  OBVIOUS
<1>1. \A p \in Processes : made[p] = {} /\ plan[p] = {} /\ phase[p] = "off"
  BY DEF SchemaInit
<1>2. schema \subseteq Objects
  BY DEF SchemaInit
<1>3. \A p \in Processes : LookedFor(p)
  BY <1>1 DEF LookedFor
<1>4. UpIsComplete
  BY <1>1 DEF UpIsComplete
<1>5. made \in [Processes -> SUBSET Objects] /\ plan \in [Processes -> SUBSET Nat]
      /\ DOMAIN phase = Processes
  BY DEF SchemaInit
<1> QED
  BY <1>2, <1>3, <1>4, <1>5 DEF SchemaInv

\* A step of one process: the others keep what they looked for, for what is committed stays.
LEMMA OthersKeep ==
    ASSUME SchemaInv, NEW p \in Processes, schema \subseteq schema', schema' \subseteq Objects,
           made' \in [Processes -> SUBSET Objects], plan' \in [Processes -> SUBSET Nat],
           DOMAIN phase' = Processes,
           \A q \in Processes \ {p} : made'[q] = made[q] /\ plan'[q] = plan[q] /\ phase'[q] = phase[q],
           LookedFor(p)', phase'[p] = "up" => schema' = Objects
    PROVE  SchemaInv'
<1>1. \A q \in Processes \ {p} : LookedFor(q)'
  <2> TAKE q \in Processes \ {p}
  <2>1. LookedFor(q) /\ made'[q] = made[q] /\ plan'[q] = plan[q] /\ phase'[q] = phase[q]
    BY DEF SchemaInv
  <2>2. Order(q)' = Order(q) /\ \A x : ThereFor(q, x) => ThereFor(q, x)'
    BY <2>1 DEF Order, ThereFor
  <2> QED
    BY <2>1, <2>2 DEF LookedFor
<1>2. UpIsComplete'
  BY DEF SchemaInv, UpIsComplete
<1> QED
  BY <1>1, <1>2 DEF SchemaInv

\* A process looks at the tables, or at the columns, and plans what is missing.
LEMMA LookKeeps ==
    ASSUME SchemaInv, NEW p \in Processes, Boot(p) \/ Inspect(p) PROVE SchemaInv'
<1>1. /\ schema' = schema /\ made' = made /\ LookedFor(p) /\ schema \subseteq Objects
      /\ made \in [Processes -> SUBSET Objects] /\ plan \in [Processes -> SUBSET Nat]
      /\ DOMAIN phase = Processes
  BY DEF SchemaInv, Boot, Inspect
<1>2. \A wanted : Missing(p, wanted) \subseteq DOMAIN wanted
                  /\ \A i \in DOMAIN wanted \ Missing(p, wanted) : ThereFor(p, wanted[i])
  BY DEF Missing, ThereFor
<1>3. \A x : ThereFor(p, x)' = ThereFor(p, x)
  BY <1>1 DEF ThereFor
<1>4. CASE Boot(p)
  <2>1. /\ plan' = [plan EXCEPT ![p] = Missing(p, Tables)]
        /\ phase' = [phase EXCEPT ![p] = "tables"]
    BY <1>4 DEF Boot
  <2>2. plan'[p] = Missing(p, Tables) /\ phase'[p] = "tables" /\ Order(p)' = Tables
    BY <1>1, <2>1 DEF Order
  <2>3. LookedFor(p)'
    BY <1>1, <1>2, <1>3, <2>2 DEF LookedFor
  <2>4. plan' \in [Processes -> SUBSET Nat]
    BY <1>1, <1>2, <2>1, Places
  <2> QED
    BY <1>1, <2>1, <2>2, <2>3, <2>4, OthersKeep
<1>5. CASE Inspect(p)
  <2>1. /\ plan' = [plan EXCEPT ![p] = Missing(p, Columns)]
        /\ phase' = [phase EXCEPT ![p] = "columns"]
        /\ phase[p] = "tables" /\ plan[p] = {}
    BY <1>5 DEF Inspect
  <2>2. plan'[p] = Missing(p, Columns) /\ phase'[p] = "columns" /\ Order(p)' = Columns
    BY <1>1, <2>1 DEF Order
  <2>3. \A i \in DOMAIN Tables : ThereFor(p, Tables[i])
    BY <1>1, <2>1 DEF LookedFor
  <2>4. LookedFor(p)'
    BY <1>1, <1>2, <1>3, <2>2, <2>3 DEF LookedFor
  <2>5. plan' \in [Processes -> SUBSET Nat]
    BY <1>1, <1>2, <2>1, Places
  <2> QED
    BY <1>1, <2>1, <2>2, <2>4, <2>5, OthersKeep
<1> QED
  BY <1>4, <1>5

\* A process that fails or ends starts again, without what it had not committed.
LEMMA StartAgainKeeps ==
    ASSUME SchemaInv, NEW p \in Processes, schema' = schema,
           made' = [made EXCEPT ![p] = {}], plan' = [plan EXCEPT ![p] = {}],
           phase' = [phase EXCEPT ![p] = "off"]
    PROVE  SchemaInv'
<1>1. /\ schema \subseteq Objects /\ made \in [Processes -> SUBSET Objects]
      /\ plan \in [Processes -> SUBSET Nat] /\ DOMAIN phase = Processes
  BY DEF SchemaInv
<1>2. phase'[p] = "off" /\ made'[p] = {}
  BY <1>1
<1>3. LookedFor(p)'
  BY <1>2 DEF LookedFor
<1> QED
  BY <1>1, <1>2, <1>3, OthersKeep

\* A statement that runs puts what it makes into the transaction or the schema.
LEMMA AlterKeeps ==
    ASSUME SchemaInv, NEW p \in Processes, Alter(p) PROVE SchemaInv'
<1> DEFINE i == NextPlace(p)
           x == Statement(p)
<1>0. /\ schema \subseteq Objects /\ made \in [Processes -> SUBSET Objects]
      /\ plan \in [Processes -> SUBSET Nat] /\ DOMAIN phase = Processes /\ LookedFor(p)
      /\ phase[p] \in {"tables", "columns"} /\ plan[p] # {}
  BY DEF SchemaInv, Alter
<1>1. i \in plan[p] /\ i \in DOMAIN Order(p) /\ x = Order(p)[i]
  BY <1>0, NextIsPlanned DEF LookedFor, Statement
<1>2. x \in Made(x) /\ Made(x) \subseteq Objects
  <2>1. x \in Objects
    BY <1>1, Places DEF Order
  <2> HIDE DEF x
  <2> QED
    BY <2>1, MadeIsKnown
<1>3. CASE ~ Runs(p)
  BY <1>3, StartAgainKeeps DEF Alter
<1>4. CASE Runs(p)
  <2>1. /\ plan' = [plan EXCEPT ![p] = @ \ {i}] /\ phase' = phase
        /\ \/ made' = [made EXCEPT ![p] = @ \cup Made(x)] /\ schema' = schema
           \/ schema' = schema \cup Made(x) /\ made' = made
    BY <1>4 DEF Alter
  <2> HIDE DEF i, x
  <2>2. /\ schema \subseteq schema' /\ schema' \subseteq Objects
        /\ made' \in [Processes -> SUBSET Objects] /\ made[p] \subseteq made'[p]
        /\ x \in schema' \cup made'[p]
        /\ \A q \in Processes \ {p} : made'[q] = made[q]
    <3>1. CASE made' = [made EXCEPT ![p] = @ \cup Made(x)] /\ schema' = schema
      BY <1>0, <1>2, <3>1
    <3>2. CASE schema' = schema \cup Made(x) /\ made' = made
      BY <1>0, <1>2, <3>2
    <3> QED
      BY <2>1, <3>1, <3>2
  <2>3. /\ plan' \in [Processes -> SUBSET Nat] /\ plan'[p] = plan[p] \ {i}
        /\ \A q \in Processes \ {p} : plan'[q] = plan[q]
    BY <1>0, <2>1
  <2>4. (x \in schema' \cup made'[p]) /\ \A y : ThereFor(p, y) => ThereFor(p, y)'
    BY <2>2 DEF ThereFor
  <2>5. Order(p)' = Order(p)
    BY <2>1 DEF Order
  <2>6. \A j \in DOMAIN Order(p) \ plan'[p] :
           j \in DOMAIN Order(p) \ plan[p] \/ Order(p)[j] = x
    BY <1>1, <2>3
  <2>7. LookedFor(p)'
    <3>1. CASE phase[p] = "tables"
      <4>1. Order(p) = Tables
        BY <3>1 DEF Order
      <4>2. \A j \in DOMAIN Tables \ plan'[p] : ThereFor(p, Tables[j])'
        BY <1>0, <2>4, <2>6, <3>1, <4>1 DEF LookedFor, ThereFor
      <4> QED
        BY <1>0, <2>1, <2>2, <2>3, <2>5, <3>1, <4>2 DEF LookedFor
    <3>2. CASE phase[p] = "columns"
      <4>1. Order(p) = Columns
        BY <3>2 DEF Order
      <4>2. \A j \in DOMAIN Columns \ plan'[p] : ThereFor(p, Columns[j])'
        BY <1>0, <2>4, <2>6, <3>2, <4>1 DEF LookedFor, ThereFor
      <4>3. \A j \in DOMAIN Tables : ThereFor(p, Tables[j])'
        BY <1>0, <2>4, <3>2 DEF LookedFor
      <4> QED
        BY <1>0, <2>1, <2>2, <2>3, <2>5, <3>2, <4>2, <4>3 DEF LookedFor
    <3> QED
      BY <1>0, <3>1, <3>2
  <2>8. phase'[p] # "up"
    BY <1>0, <2>1
  <2> QED
    BY <1>0, <2>1, <2>2, <2>3, <2>7, <2>8, OthersKeep
<1> QED
  BY <1>3, <1>4

\* With nothing left to make, what is committed then is everything.
LEMMA CommitKeeps ==
    ASSUME SchemaInv, NEW p \in Processes, CommitSchema(p) PROVE SchemaInv'
<1>0. /\ schema \subseteq Objects /\ made \in [Processes -> SUBSET Objects]
      /\ plan \in [Processes -> SUBSET Nat] /\ DOMAIN phase = Processes /\ LookedFor(p)
      /\ phase[p] = "columns" /\ plan[p] = {} /\ plan' = plan
      /\ schema' = schema \cup made[p] /\ made' = [made EXCEPT ![p] = {}]
      /\ phase' = [phase EXCEPT ![p] = "up"]
  BY DEF SchemaInv, CommitSchema
<1>1. \A y \in Objects : y \in schema \cup made[p]
  BY <1>0, Places DEF LookedFor, ThereFor
<1>2. schema' = Objects
  BY <1>0, <1>1
<1>3. phase'[p] = "up" /\ made'[p] = {}
  BY <1>0
<1>4. LookedFor(p)'
  BY <1>3 DEF LookedFor
<1> QED
  BY <1>0, <1>2, <1>3, <1>4, OthersKeep

\* SchemaInv is inductive.
LEMMA SchemaStep == SchemaInv /\ [SchemaNext]_schemaVars => SchemaInv'
<1> SUFFICES ASSUME SchemaInv, [SchemaNext]_schemaVars PROVE SchemaInv'
  OBVIOUS
<1>1. CASE SchemaNext
  <2>1. PICK p \in Processes : Start(p) \/ StopProcess(p)
    BY <1>1 DEF SchemaNext
  <2>2. CASE Boot(p) \/ Inspect(p)
    BY <2>2, LookKeeps
  <2>3. CASE Alter(p)
    BY <2>3, AlterKeeps
  <2>4. CASE CommitSchema(p)
    BY <2>4, CommitKeeps
  <2>5. CASE StopProcess(p)
    BY <2>5, StartAgainKeeps DEF StopProcess
  <2> QED
    BY <2>1, <2>2, <2>3, <2>4, <2>5 DEF Start
<1>2. CASE UNCHANGED schemaVars
  BY <1>2 DEF schemaVars, SchemaInv, LookedFor, ThereFor, Order, UpIsComplete
<1> QED
  BY <1>1, <1>2

\* A process that serves finds every table and column, for any processes, tables and
\* columns, whichever version the database had (core/dependencies.py:71-77, 128-182).
THEOREM ServesOnAll == SchemaSpec => []UpIsComplete
<1>1. SchemaInv => UpIsComplete
  BY DEF SchemaInv
<1> QED
  BY <1>1, SchemaInitHolds, SchemaStep, PTL DEF SchemaSpec

-----------------------------------------------------------------------------
(* The worker's heartbeat: WorkerHeartbeat.                                 *)

\* What a beat leaves in the file is no younger than the worker's end, and, while a
\* worker lives that has beaten, no older than its last beat.
HeartbeatInv ==
    /\ worker \in {"dead", "alive", "writing"}
    /\ file \in {"absent", "empty", "beat"}
    /\ age \in Nat /\ idle \in Nat /\ dead \in Nat
    /\ age <= MaxAge + 1 /\ dead <= MaxAge + 1
    /\ worker = "dead" /\ file = "beat" => dead <= age
    /\ worker # "dead" => dead = 0 /\ idle <= Interval + MaxLag
    /\ worker = "writing" => file = "empty" /\ idle = 0
    /\ worker = "alive" /\ beaten => file = "beat" /\ age <= idle
    /\ BadgeTellsTheWorker

LEMMA CapBounds ==
    ASSUME NEW n \in Nat
    PROVE  /\ Cap(n) \in Nat /\ Cap(n) <= MaxAge + 1 /\ Cap(n) <= n
           /\ \A m \in Nat : n <= m => Cap(n) <= Cap(m)
  BY HeartbeatConstantsOK DEF Cap, HeartbeatConstantsOK

LEMMA HeartbeatInitHolds == HeartbeatInit => HeartbeatInv
  BY HeartbeatConstantsOK
     DEF HeartbeatInit, HeartbeatInv, BadgeTellsTheWorker, HeartbeatConstantsOK

\* The file is read: the badge follows from what the file and the worker are.
LEMMA BadgeIsTrue ==
    ASSUME HeartbeatInv, ReadStatus PROVE BadgeTellsTheWorker'
<1>0. /\ Interval \in Nat /\ MaxAge \in Nat /\ MaxLag \in Nat
      /\ age \in Nat /\ idle \in Nat /\ dead \in Nat
      /\ shown' = {Status} /\ dead' = dead /\ worker' = worker /\ beaten' = beaten
  BY HeartbeatConstantsOK DEF HeartbeatInv, HeartbeatConstantsOK, ReadStatus
<1>1. CASE file = "absent"
  <2>1. Status = "OFFLINE"
    BY <1>1 DEF Status
  <2> QED
    BY <1>0, <1>1, <2>1 DEF HeartbeatInv, BadgeTellsTheWorker
<1>2. CASE file = "empty"
  <2>1. Status = "UNKNOWN"
    BY <1>2 DEF Status
  <2> QED
    BY <1>0, <2>1 DEF BadgeTellsTheWorker
<1>3. CASE file = "beat"
  <2>1. Status = IF age <= MaxAge THEN "RUNNING" ELSE "STALE"
    BY <1>3 DEF Status
  <2>2. age <= MaxAge => dead <= MaxAge
    BY <1>0, <1>3 DEF HeartbeatInv
  <2>3. age > MaxAge => worker = "dead" \/ Interval + MaxLag > MaxAge \/ ~ beaten
    BY <1>0, <1>3 DEF HeartbeatInv
  <2> QED
    BY <1>0, <2>1, <2>2, <2>3 DEF BadgeTellsTheWorker
<1> QED
  BY <1>1, <1>2, <1>3 DEF HeartbeatInv

\* HeartbeatInv is inductive.
LEMMA HeartbeatStep == HeartbeatInv /\ [HeartbeatNext]_heartbeatVars => HeartbeatInv'
<1> SUFFICES ASSUME HeartbeatInv, [HeartbeatNext]_heartbeatVars PROVE HeartbeatInv'
  OBVIOUS
<1> USE HeartbeatConstantsOK DEF HeartbeatConstantsOK
<1>1. CASE StartBeating
  BY <1>1 DEF StartBeating, HeartbeatInv, BadgeTellsTheWorker
<1>2. CASE BeatBegins
  BY <1>2 DEF BeatBegins, HeartbeatInv, BadgeTellsTheWorker
<1>3. CASE BeatEnds
  BY <1>3 DEF BeatEnds, HeartbeatInv, BadgeTellsTheWorker
<1>4. CASE StopBeating
  BY <1>4 DEF StopBeating, HeartbeatInv, BadgeTellsTheWorker
<1>5. CASE ReadStatus
  BY <1>5, BadgeIsTrue DEF ReadStatus, HeartbeatInv
<1>6. CASE Second
  <2>1. /\ worker' = worker /\ file' = file /\ beaten' = beaten /\ shown' = {}
        /\ age' = Cap(age + 1) /\ worker # "writing"
        /\ idle' = IF worker = "dead" THEN idle ELSE idle + 1
        /\ dead' = IF worker = "dead" THEN Cap(dead + 1) ELSE 0
        /\ worker # "dead" => idle < Interval + MaxLag
    BY <1>6 DEF Second
  <2>2. /\ age' \in Nat /\ age' <= MaxAge + 1 /\ age' <= age + 1
        /\ dead <= age => Cap(dead + 1) <= age'
    BY <2>1, CapBounds DEF HeartbeatInv
  <2>3. Cap(dead + 1) \in Nat /\ Cap(dead + 1) <= MaxAge + 1
    BY CapBounds DEF HeartbeatInv
  <2> QED
    BY <2>1, <2>2, <2>3 DEF HeartbeatInv, BadgeTellsTheWorker
<1>7. CASE UNCHANGED heartbeatVars
  BY <1>7 DEF heartbeatVars, HeartbeatInv, BadgeTellsTheWorker
<1> QED
  BY <1>1, <1>2, <1>3, <1>4, <1>5, <1>6, <1>7 DEF HeartbeatNext

\* The badge of the dashboard, for any period, age and delay
\* (worker_status.py:15-30).
THEOREM BadgeIsHonest == HeartbeatSpec => []BadgeTellsTheWorker
<1>1. HeartbeatInv => BadgeTellsTheWorker
  BY DEF HeartbeatInv
<1> QED
  BY <1>1, HeartbeatInitHolds, HeartbeatStep, PTL DEF HeartbeatSpec

-----------------------------------------------------------------------------
(* The pages of the trade log: LogPages.                                    *)

TableRow == [id : Nat, kind : Kinds, time : Times]

\* The rows that come before one in any order the database may choose, and how many
\* rows are on the pages that were fetched.
Ahead(r) == {s \in Matching : Precedes(s, r)}
Reached == IF awaiting THEN page * Limit ELSE (page - 1) * Limit

\* A row there was at the beginning, as long as it has its place, was seen or is on a page
\* to come.
Kept(b) ==
    HasItsPlace(b) => \/ b \in read \cup rows
                      \/ page > 0 /\ Reached <= Cardinality(Ahead(b))

LogInv ==
    /\ IsFiniteSet(log) /\ log \subseteq TableRow /\ written \in Nat /\ page \in Nat
    /\ awaiting \in BOOLEAN
    /\ awaiting => page > 0
    /\ ~ awaiting => rows = {}
    /\ before \subseteq Matching
    /\ \A b \in before : Kept(b)

LEMMA ReachedIsNumber == page \in Nat => Reached \in Int
<1>1. Limit \in Nat
  BY LogConstantsOK DEF LogConstantsOK
<1> QED
  BY <1>1 DEF Reached

\* As many pages as the answer names hold all rows there are.
LEMMA PagesHoldAll ==
    ASSUME NEW t \in Nat, NEW p \in Nat, p >= PageCount(t)
    PROVE  t <= p * Limit
<1> DEFINE q == (t + Limit - 1) \div Limit
<1>1. Limit \in Nat /\ Limit > 0
  BY LogConstantsOK DEF LogConstantsOK
<1>2. q \in Int /\ t + Limit - 1 < (q + 1) * Limit
  BY <1>1
<1>3. p >= q
  BY <1>2 DEF PageCount
<1> HIDE DEF q
<1>4. (q + 1) * Limit = q * Limit + Limit /\ q * Limit \in Int
  BY <1>1, <1>2
<1>5. q * Limit <= p * Limit /\ p * Limit \in Int
  <2>1. p - q \in Nat /\ (p - q) * Limit >= 0 /\ (p - q) * Limit = p * Limit - q * Limit
    BY <1>1, <1>2, <1>3
  <2> QED
    BY <1>1, <1>2, <2>1
<1> QED
  BY <1>1, <1>2, <1>4, <1>5

\* Keys are numbers, and no row is ahead of itself.
LEMMA AheadIsLess ==
    ASSUME LogInv, NEW b \in Matching
    PROVE  /\ \A r \in Matching : SortKey(r) \in Int
           /\ IsFiniteSet(Matching) /\ Cardinality(Matching) \in Nat
           /\ Ahead(b) \subseteq Matching /\ b \notin Ahead(b)
           /\ IsFiniteSet(Ahead(b)) /\ Cardinality(Ahead(b)) \in Nat
           /\ Cardinality(Ahead(b)) < Cardinality(Matching)
<1>1. \A r \in Matching : SortKey(r) \in Int
  <2> SUFFICES ASSUME NEW r \in Matching PROVE SortKey(r) \in Int
    OBVIOUS
  <2>1. r \in TableRow
    BY DEF LogInv, Matching
  <2>2. r.time \in Int /\ 0 \in Int
    <3>1. r.time \in Times
      BY <2>1 DEF TableRow
    <3>2. Times \subseteq Int
      BY LogConstantsOK DEF LogConstantsOK
    <3>3. r.time \in Int
      BY <3>1, <3>2, Zenon
    <3> QED
      BY <3>3
  <2> QED
    BY <2>2, Zenon DEF SortKey
<1>2. IsFiniteSet(Matching) /\ Cardinality(Matching) \in Nat
  <2>1. Matching \in SUBSET log
    BY DEF Matching
  <2> QED
    BY <2>1, FS_Subset, FS_CardinalityType DEF LogInv
<1>3. Ahead(b) \subseteq Matching /\ b \notin Ahead(b)
  BY <1>1 DEF Ahead, Precedes
<1>4. /\ IsFiniteSet(Matching \ {b})
      /\ Cardinality(Matching \ {b}) = Cardinality(Matching) - 1
  BY <1>2, FS_RemoveElement
<1>5. Ahead(b) \in SUBSET (Matching \ {b})
  BY <1>3
<1>6. IsFiniteSet(Ahead(b)) /\ Cardinality(Ahead(b)) <= Cardinality(Matching) - 1
  BY <1>4, <1>5, FS_Subset
<1> QED
  BY <1>1, <1>2, <1>3, <1>6, FS_CardinalityType

\* Whatever numbering the database chooses, a row comes behind those ahead of it, and
\* right behind them if nothing ties with it.
LEMMA NumbersTellThePlace ==
    ASSUME LogInv, NEW b \in Matching, NEW number \in Orderings
    PROVE  /\ number[b] \in 1 .. Cardinality(Matching)
           /\ Cardinality(Ahead(b)) < number[b]
           /\ (\A s \in Matching : SortKey(s) = SortKey(b) => s = b)
              => number[b] <= Cardinality(Ahead(b)) + 1
<1> DEFINE N == Cardinality(Matching)
           A == Ahead(b)
           n == number[b]
<1>1. /\ \A r \in Matching : SortKey(r) \in Int
      /\ IsFiniteSet(Matching) /\ N \in Nat /\ A \subseteq Matching /\ b \notin A
      /\ IsFiniteSet(A) /\ Cardinality(A) \in Nat
  BY AheadIsLess
<1>2. /\ number \in [Matching -> 1 .. N]
      /\ \A r, s \in Matching : number[r] = number[s] => r = s
      /\ \A r, s \in Matching : Precedes(r, s) => number[r] < number[s]
  <2>1. number \in Injection(Matching, 1 .. N)
    BY DEF Orderings
  <2> QED
    BY <2>1 DEF Orderings, Injection, IsInjective
<1>3. n \in 1 .. N
  BY <1>2
<1>4. \A s \in A : number[s] \in 1 .. n - 1
  BY <1>2, <1>3 DEF Ahead
<1> HIDE DEF n, A, N
<1>5. Cardinality(A) <= n - 1
  <2> DEFINE f == [s \in A |-> number[s]]
  <2>1. f \in Injection(A, 1 .. n - 1)
    BY <1>1, <1>2, <1>4 DEF Injection, IsInjective
  <2>2. IsFiniteSet(1 .. n - 1) /\ Cardinality(1 .. n - 1) = n - 1
    BY <1>3, FS_Interval
  <2> HIDE DEF f
  <2> QED
    BY <2>1, <2>2, FS_Injection
<1>6. ASSUME \A s \in Matching : SortKey(s) = SortKey(b) => s = b PROVE n <= Cardinality(A) + 1
  <2> DEFINE C == (Matching \ A) \ {b}
             f == [s \in C |-> number[s]]
  <2>1. \A s \in C : number[s] \in n + 1 .. N
    <3> SUFFICES ASSUME NEW s \in C PROVE number[s] \in n + 1 .. N
      OBVIOUS
    <3>1. s \in Matching /\ SortKey(s) # SortKey(b) /\ ~ Precedes(s, b)
      BY <1>6 DEF A, Ahead
    <3>2. Precedes(b, s)
      BY <1>1, <3>1 DEF Precedes
    <3>3. number[s] \in 1 .. N /\ number[b] < number[s]
      BY <1>2, <3>1, <3>2
    <3> QED
      BY <1>1, <1>3, <3>3 DEF n
  <2>2. f \in Injection(C, n + 1 .. N)
    BY <1>2, <2>1 DEF Injection, IsInjective
  <2>3. IsFiniteSet(n + 1 .. N) /\ Cardinality(n + 1 .. N) = N - n
    <3>1. n + 1 \in Int /\ N \in Int
      BY <1>1, <1>3
    <3>2. /\ IsFiniteSet(n + 1 .. N)
          /\ Cardinality(n + 1 .. N) = IF n + 1 > N THEN 0 ELSE N - (n + 1) + 1
      BY <3>1, FS_Interval
    <3> QED
      BY <1>1, <1>3, <3>2
  <2>4. Cardinality(C) = N - Cardinality(A) - 1
    <3>1. /\ IsFiniteSet(Matching \ A)
          /\ Cardinality(Matching \ A) = N - Cardinality(Matching \cap A)
      BY <1>1, FS_Difference DEF N
    <3>2. Matching \cap A = A
      BY <1>1
    <3>3. Cardinality(C) = Cardinality(Matching \ A) - 1
      BY <1>1, <3>1, FS_RemoveElement
    <3> QED
      BY <3>1, <3>2, <3>3
  <2> HIDE DEF C, f
  <2>5. Cardinality(C) <= N - n
    BY <2>2, <2>3, FS_Injection
  <2> QED
    BY <1>1, <1>3, <2>4, <2>5
<1> QED
  BY <1>1, <1>3, <1>5, <1>6 DEF n, A, N

LEMMA LogInitHolds == LogInit => LogInv
<1> SUFFICES ASSUME LogInit PROVE LogInv
  OBVIOUS
<1>1. PICK n \in 0 .. MaxRows : \E kind \in [1 .. n -> Kinds], time \in [1 .. n -> Times] :
         log = {LogRow(i, kind[i], time[i]) : i \in 1 .. n} /\ written = n
  BY DEF LogInit
<1>2. PICK kind \in [1 .. n -> Kinds], time \in [1 .. n -> Times] :
         log = {LogRow(i, kind[i], time[i]) : i \in 1 .. n} /\ written = n
  BY <1>1
<1>3. n \in Nat /\ written \in Nat
  BY <1>2, LogConstantsOK DEF LogConstantsOK
<1>4. log \subseteq TableRow
  BY <1>2, <1>3 DEF TableRow, LogRow
<1>5. IsFiniteSet(log)
  <2> DEFINE f == [i \in 1 .. n |-> LogRow(i, kind[i], time[i])]
  <2>1. f \in Surjection(1 .. n, log)
    BY <1>2 DEF Surjection
  <2>2. IsFiniteSet(1 .. n)
    BY <1>3, FS_Interval
  <2> HIDE DEF f
  <2> QED
    BY <2>1, <2>2, FS_Surjection
<1>6. page = 1 /\ rows = {} /\ awaiting = FALSE /\ before = Matching /\ read = {}
  BY DEF LogInit
<1>7. ASSUME NEW b \in before PROVE Kept(b)
  <2>1. Reached = 0
    <3>1. Limit \in Nat
      BY LogConstantsOK DEF LogConstantsOK
    <3> QED
      BY <1>6, <3>1 DEF Reached
  <2>2. IsFiniteSet(Ahead(b))
    <3>1. Ahead(b) \in SUBSET log
      BY DEF Ahead, Matching
    <3> QED
      BY <1>5, <3>1, FS_Subset
  <2> QED
    BY <1>6, <2>1, <2>2, FS_CardinalityType DEF Kept
<1>8. awaiting \in BOOLEAN /\ (awaiting => page > 0)
  BY <1>6, Zenon
<1>9. page \in Nat /\ before \subseteq Matching
  BY <1>6
<1> QED
  BY <1>3, <1>4, <1>5, <1>6, <1>7, <1>8, <1>9 DEF LogInv

\* A row that is added never takes a row forward, and never gives back a place.
LEMMA AppendKeeps == ASSUME LogInv, AppendRow PROVE LogInv'
<1>1. PICK kind \in Kinds, time \in Times : log' = log \cup {LogRow(written + 1, kind, time)}
  BY DEF AppendRow
<1>2. /\ written' = written + 1 /\ filter' = filter /\ sort' = sort /\ order' = order
      /\ page' = page /\ rows' = rows /\ awaiting' = awaiting /\ before' = before
      /\ read' = read
  BY DEF AppendRow
<1>3. log' \subseteq TableRow /\ written' \in Nat
  BY <1>1, <1>2 DEF LogInv, TableRow, LogRow
<1>4. IsFiniteSet(log')
  <2>1. IsFiniteSet(log \cup {LogRow(written + 1, kind, time)})
    BY FS_AddElement DEF LogInv
  <2> QED
    BY <1>1, <2>1
<1>5. Matching \subseteq Matching' /\ Matching' \subseteq log'
  BY <1>1, <1>2 DEF Matching
<1>6. /\ \A r : SortKey(r)' = SortKey(r)
      /\ \A r, s : Precedes(r, s)' = Precedes(r, s)
  BY <1>2 DEF SortKey, Precedes
<1>7. IsFiniteSet(Matching') /\ Cardinality(Matching) <= Cardinality(Matching')
  <2>1. IsFiniteSet(Matching')
    BY <1>4, <1>5, FS_Subset
  <2> QED
    BY <1>5, <2>1, FS_Subset
<1>8. ASSUME NEW b \in before PROVE Kept(b)'
  <2> SUFFICES ASSUME HasItsPlace(b)', ~ (b \in read \cup rows)
               PROVE  page > 0 /\ Reached' <= Cardinality(Ahead(b)')
    BY <1>2 DEF Kept
  <2>1. b \in Matching /\ Limit \in Nat
    BY LogConstantsOK DEF LogInv, LogConstantsOK
  <2>2. HasItsPlace(b)
    <3>1. CASE \A s \in Matching' : SortKey(s)' = SortKey(b)' => s = b
      BY <1>5, <1>6, <3>1 DEF HasItsPlace
    <3>2. CASE Cardinality(Matching') <= Limit
      <4>1. Cardinality(Matching) \in Nat /\ Cardinality(Matching') \in Nat
        BY <1>7, <2>1, AheadIsLess, FS_CardinalityType
      <4> QED
        BY <1>7, <2>1, <3>2, <4>1 DEF HasItsPlace
    <3> QED
      BY <3>1, <3>2 DEF HasItsPlace
  <2>3. page > 0 /\ Reached <= Cardinality(Ahead(b)) /\ page \in Nat
    BY <2>2 DEF LogInv, Kept
  <2>4. Reached' = Reached /\ Reached \in Int
    BY <1>2, <2>3, ReachedIsNumber DEF Reached
  <2>5. Ahead(b) \subseteq Ahead(b)' /\ Ahead(b)' \subseteq Matching'
    BY <1>5, <1>6 DEF Ahead
  <2>6. IsFiniteSet(Ahead(b)')
    BY <1>7, <2>5, FS_Subset
  <2>7. Cardinality(Ahead(b)) <= Cardinality(Ahead(b)')
    BY <2>5, <2>6, FS_Subset
  <2>8. Cardinality(Ahead(b)) \in Nat /\ Cardinality(Ahead(b)') \in Nat
    BY <2>1, <2>6, AheadIsLess, FS_CardinalityType
  <2> QED
    BY <2>3, <2>4, <2>7, <2>8
<1>9. before' \subseteq Matching'
  BY <1>2, <1>5 DEF LogInv
<1>10. /\ page' \in Nat /\ awaiting' \in BOOLEAN /\ (awaiting' => page' > 0)
       /\ (~ awaiting' => rows' = {})
  BY <1>2 DEF LogInv
<1> QED
  BY <1>2, <1>3, <1>4, <1>8, <1>9, <1>10 DEF LogInv

\* What is fetched is the page that comes next, in one of the orders there are.
LEMMA ReadKeeps == ASSUME LogInv, ReadRows PROVE LogInv'
<1>1. PICK number \in Orderings :
         rows' = {r \in Matching : (page - 1) * Limit < number[r] /\ number[r] <= page * Limit}
  BY DEF ReadRows
<1>2. /\ page > 0 /\ awaiting = FALSE /\ rows = {} /\ awaiting' = TRUE
      /\ log' = log /\ written' = written /\ filter' = filter /\ sort' = sort
      /\ order' = order /\ page' = page /\ before' = before /\ read' = read
      /\ page \in Nat
  BY DEF ReadRows, LogInv
<1>3. /\ Matching' = Matching
      /\ \A r : Ahead(r)' = Ahead(r) /\ HasItsPlace(r)' = HasItsPlace(r)
  BY <1>2 DEF Matching, Ahead, Precedes, SortKey, HasItsPlace
<1>4. Limit \in Nat /\ Limit > 0
  BY LogConstantsOK DEF LogConstantsOK
<1>5. /\ Reached = (page - 1) * Limit /\ Reached' = page * Limit
      /\ (page - 1) * Limit \in Int /\ page * Limit = (page - 1) * Limit + Limit
  BY <1>2, <1>4 DEF Reached
<1>6. ASSUME NEW b \in before PROVE Kept(b)'
  <2> SUFFICES ASSUME HasItsPlace(b), b \notin read, b \notin rows'
               PROVE  page * Limit <= Cardinality(Ahead(b))
    BY <1>2, <1>3, <1>5 DEF Kept
  <2> DEFINE low == (page - 1) * Limit
             n == number[b]
             a == Cardinality(Ahead(b))
  <2>1. b \in Matching /\ low <= a
    BY <1>2, <1>5 DEF LogInv, Kept
  <2>2. /\ a \in Nat /\ Cardinality(Matching) \in Nat /\ a < Cardinality(Matching)
        /\ n \in 1 .. Cardinality(Matching) /\ a < n
        /\ (\A s \in Matching : SortKey(s) = SortKey(b) => s = b) => n <= a + 1
    BY <2>1, AheadIsLess, NumbersTellThePlace
  <2>3. ~ (low < n) \/ ~ (n <= page * Limit)
    BY <1>1, <2>1
  <2> HIDE DEF n, a, low
  <2>4. low \in Int /\ page * Limit = low + Limit
    BY <1>5 DEF low
  <2>5. page * Limit < n
    BY <1>4, <2>1, <2>2, <2>3, <2>4
  <2>6. CASE \A s \in Matching : SortKey(s) = SortKey(b) => s = b
    BY <1>4, <2>2, <2>4, <2>5, <2>6 DEF a
  <2>7. CASE Cardinality(Matching) <= Limit
    <3>1. low >= 0
      BY <1>2, <1>4 DEF low
    <3> QED
      BY <1>4, <2>2, <2>4, <2>5, <2>7, <3>1
  <2> QED
    BY <2>6, <2>7 DEF HasItsPlace
<1>7. awaiting' \in BOOLEAN /\ page' > 0 /\ awaiting' /\ before' \subseteq Matching'
  BY <1>2, <1>3 DEF LogInv
<1>8. \A b \in before' : Kept(b)'
  BY <1>2, <1>6
<1>9. IsFiniteSet(log') /\ log' \subseteq TableRow /\ written' \in Nat /\ page' \in Nat
  BY <1>2 DEF LogInv
<1> QED
  BY <1>7, <1>8, <1>9 DEF LogInv

\* The pages go on until their number is that of an answer: all rows are on them.
LEMMA AnswerKeeps == ASSUME LogInv, AnswerPage PROVE LogInv'
<1>1. /\ awaiting = TRUE /\ awaiting' = FALSE /\ rows' = {} /\ read' = read \cup rows
      /\ log' = log /\ written' = written /\ filter' = filter /\ sort' = sort
      /\ order' = order /\ before' = before /\ page > 0
      /\ page \in Nat
      /\ \A b \in before : Kept(b)
  BY DEF AnswerPage, LogInv
<1>2. /\ Matching' = Matching
      /\ \A r : Ahead(r)' = Ahead(r) /\ HasItsPlace(r)' = HasItsPlace(r)
  BY <1>1 DEF Matching, Ahead, Precedes, SortKey, HasItsPlace
<1>3. IsFiniteSet(log') /\ log' \subseteq TableRow /\ written' \in Nat /\ before' \subseteq Matching'
  BY <1>1, <1>2 DEF LogInv
<1>4. awaiting' \in BOOLEAN /\ ~ awaiting' /\ rows' = {}
  BY <1>1, Zenon
<1>5. CASE page < PageCount(Cardinality(Matching)) /\ page' = page + 1
  <2>1. Reached' = Reached
    <3>1. Reached' = (page + 1 - 1) * Limit /\ Reached = page * Limit
      BY <1>1, <1>5 DEF Reached
    <3>2. page + 1 - 1 = page
      BY <1>1
    <3> QED
      BY <3>1, <3>2
  <2>2. page' \in Nat /\ page' > 0
    BY <1>1, <1>5
  <2>3. ASSUME NEW b \in before PROVE Kept(b)'
    BY <1>1, <1>2, <2>1, <2>2 DEF Kept
  <2>4. \A b \in before' : Kept(b)'
    BY <1>1, <2>3
  <2> QED
    BY <1>3, <1>4, <2>2, <2>4, Zenon DEF LogInv
<1>6. CASE ~ (page < PageCount(Cardinality(Matching))) /\ page' = 0
  <2>1. ASSUME NEW b \in before, HasItsPlace(b) PROVE b \in read'
    <3>1. b \in Matching
      BY DEF LogInv
    <3>2. /\ Cardinality(Ahead(b)) \in Nat /\ Cardinality(Matching) \in Nat
          /\ Cardinality(Ahead(b)) < Cardinality(Matching)
      BY <3>1, AheadIsLess
    <3>3. Cardinality(Matching) <= page * Limit
      <4>1. PICK t \in Nat : t = Cardinality(Matching)
        BY <3>2
      <4>2. PICK p \in Nat : p = page
        BY <1>1
      <4>3. PageCount(t) \in Int
        BY LogConstantsOK DEF LogConstantsOK, PageCount
      <4>4. p >= PageCount(t)
        BY <1>6, <4>1, <4>2, <4>3
      <4> QED
        BY <4>1, <4>2, <4>4, PagesHoldAll
    <3>4. ~ (Reached <= Cardinality(Ahead(b)))
      <4>1. Reached = page * Limit /\ Reached \in Int
        BY <1>1, ReachedIsNumber DEF Reached
      <4> QED
        BY <3>2, <3>3, <4>1
    <3> QED
      BY <1>1, <2>1, <3>4 DEF Kept
  <2>2. \A b \in before' : Kept(b)'
    BY <1>1, <1>2, <2>1 DEF Kept
  <2>3. page' \in Nat
    BY <1>6
  <2> QED
    BY <1>3, <1>4, <2>2, <2>3, Zenon DEF LogInv
<1> QED
  BY <1>5, <1>6 DEF AnswerPage

\* LogInv is inductive.
LEMMA LogStep == LogInv /\ [LogNext]_logVars => LogInv'
<1> SUFFICES ASSUME LogInv, [LogNext]_logVars PROVE LogInv'
  OBVIOUS
<1>1. CASE UNCHANGED logVars
  <2>1. /\ Matching' = Matching /\ Reached' = Reached
        /\ \A r : Ahead(r)' = Ahead(r) /\ HasItsPlace(r)' = HasItsPlace(r)
    BY <1>1 DEF logVars, Matching, Ahead, Precedes, SortKey, HasItsPlace, Reached
  <2> QED
    BY <1>1, <2>1 DEF logVars, LogInv, Kept
<1> QED
  BY <1>1, AppendKeeps, ReadKeeps, AnswerKeeps DEF LogNext

\* Whoever turns the pages to the last has seen every row there was when he began, unless
\* rows tie over more than one page: for any table, filter, sort column, order and
\* page size, and whatever order the database gives to rows that tie, anew in every
\* query (signal_repository.py:234-273, routes.py:1144).
THEOREM PagesSkipNothing == LogSpec => []NothingIsSkipped
<1>1. LogInv => NothingIsSkipped
  <2> SUFFICES ASSUME LogInv, page = 0, NEW r \in before, HasItsPlace(r) PROVE r \in read
    BY DEF NothingIsSkipped
  <2>1. awaiting = FALSE /\ rows = {}
    BY DEF LogInv
  <2> QED
    BY <2>1 DEF LogInv, Kept
<1> QED
  BY <1>1, LogInitHolds, LogStep, PTL DEF LogSpec

-----------------------------------------------------------------------------
(* The dashboard's stream: DashboardStream.                                 *)

\* What a round reads and a browser shows has three parts.
IsSnapshot(p) ==
    /\ p = [log |-> p.log, tasks |-> p.tasks, others |-> p.others]
    /\ p.log \in Int

\* A snapshot whose log was read before its tasks: if no newer log came since, its
\* tasks are those of the table. The order of the two queries makes this true.
LogBeforeTasks(p) ==
    /\ p.log <= newest
    /\ p.log = newest /\ ~ late => p.tasks = statuses

Current == [log |-> newest, tasks |-> statuses, others |-> others]

\* What is read so far is what is there, unless something was committed since.
QuietSoFar ==
    quiet => /\ query \in {"tasks", "others", "send"} => round.log = newest
             /\ query \in {"others", "send"} => round.tasks = statuses
             /\ query = "send" => round.others = others

DashboardInv ==
    /\ newest \in Nat
    /\ query \in {"logs", "tasks", "others", "send", "wait"}
    /\ IsSnapshot(round) /\ IsSnapshot(screen)
    /\ sent = Key(screen)
    /\ LogBeforeTasks(screen)
    /\ query = "tasks" => round.log <= newest
    /\ query \in {"others", "send"} => LogBeforeTasks(round)
    /\ QuietSoFar
    /\ QuietRoundShowsTheRows

LEMMA NothingIsSnapshot ==
    ASSUME NEW n \in Nat PROVE IsSnapshot(Nothing) /\ Nothing.log < n
  BY DEF IsSnapshot, Nothing

LEMMA DashboardInitHolds == DashboardInit => DashboardInv
<1> SUFFICES ASSUME DashboardInit PROVE DashboardInv
  OBVIOUS
<1>1. newest = 0 /\ query = "logs" /\ round = Nothing /\ screen = Nothing /\ sent = Key(Nothing)
  BY DEF DashboardInit
<1>2. IsSnapshot(Nothing) /\ Nothing.log < newest
  BY <1>1, NothingIsSnapshot
<1> QED
  BY <1>1, <1>2 DEF DashboardInv, LogBeforeTasks, QuietSoFar, QuietRoundShowsTheRows, IsSnapshot

\* A commit that plans or executes a task adds the newest log, or leaves a late one.
LEMMA TaskCommitKeeps ==
    ASSUME DashboardInv, Commit, Logged \/ LoggedLate, UNCHANGED others
    PROVE  DashboardInv'
<1>1. /\ query' = query /\ round' = round /\ sent' = sent /\ screen' = screen
      /\ quiet' = FALSE
  BY DEF Commit
<1>2. /\ newest' \in Nat /\ newest <= newest'
      /\ newest' = newest => late'
  BY DEF Logged, LoggedLate, DashboardInv
<1>3. \A p : IsSnapshot(p) /\ p.log <= newest => p.log <= newest' /\ LogBeforeTasks(p)'
  BY <1>2 DEF LogBeforeTasks, IsSnapshot, DashboardInv
<1> QED
  BY <1>1, <1>2, <1>3 DEF DashboardInv, QuietSoFar, QuietRoundShowsTheRows, LogBeforeTasks,
                          IsSnapshot, Key

LEMMA DashboardStep == DashboardInv /\ [DashboardNext]_dashboardVars => DashboardInv'
<1> SUFFICES ASSUME DashboardInv, [DashboardNext]_dashboardVars PROVE DashboardInv'
  OBVIOUS
<1>1. CASE PlanTask
  BY <1>1, TaskCommitKeeps DEF PlanTask
<1>2. CASE ExecuteTask
  BY <1>2, TaskCommitKeeps DEF ExecuteTask
<1>3. CASE ChangeRegistry
  <2>1. /\ query' = query /\ round' = round /\ sent' = sent /\ screen' = screen
        /\ quiet' = FALSE /\ newest' = newest /\ late' = late /\ statuses' = statuses
    BY <1>3 DEF ChangeRegistry, Commit
  <2> QED
    BY <2>1 DEF DashboardInv, QuietSoFar, QuietRoundShowsTheRows, LogBeforeTasks, IsSnapshot, Key
<1>4. CASE ReadNewestLog
  <2>1. /\ query' = "tasks" /\ sent' = sent /\ screen' = screen
        /\ newest' = newest /\ late' = late /\ statuses' = statuses /\ others' = others
        /\ round' = [Nothing EXCEPT !.log = newest]
    BY <1>4 DEF ReadNewestLog, Query
  <2>2. round'.log = newest /\ IsSnapshot(round')
    BY <2>1 DEF Nothing, IsSnapshot, DashboardInv
  <2> QED
    BY <2>1, <2>2 DEF DashboardInv, QuietSoFar, QuietRoundShowsTheRows, LogBeforeTasks,
                      IsSnapshot, Key
<1>5. CASE ReadTasks
  <2>1. /\ query = "tasks" /\ query' = "others" /\ sent' = sent /\ screen' = screen
        /\ newest' = newest /\ late' = late /\ statuses' = statuses /\ others' = others
        /\ quiet' = quiet /\ round' = [round EXCEPT !.tasks = statuses]
    BY <1>5 DEF ReadTasks, Query
  <2>2. round'.log = round.log /\ round'.tasks = statuses /\ IsSnapshot(round')
    BY <2>1 DEF IsSnapshot, DashboardInv
  <2> QED
    BY <2>1, <2>2 DEF DashboardInv, QuietSoFar, QuietRoundShowsTheRows, LogBeforeTasks,
                      IsSnapshot, Key
<1>6. CASE ReadOthers
  <2>1. /\ query = "others" /\ query' = "send" /\ sent' = sent /\ screen' = screen
        /\ newest' = newest /\ late' = late /\ statuses' = statuses /\ others' = others
        /\ quiet' = quiet /\ round' = [round EXCEPT !.others = others]
    BY <1>6 DEF ReadOthers, Query
  <2>2. /\ round'.log = round.log /\ round'.tasks = round.tasks /\ round'.others = others
        /\ IsSnapshot(round')
    BY <2>1 DEF IsSnapshot, DashboardInv
  <2> QED
    BY <2>1, <2>2 DEF DashboardInv, QuietSoFar, QuietRoundShowsTheRows, LogBeforeTasks,
                      IsSnapshot, Key
<1>7. CASE SendIfChanged
  <2>1. /\ query = "send" /\ query' = "wait" /\ round' = round
        /\ newest' = newest /\ late' = late /\ statuses' = statuses /\ others' = others
        /\ quiet' = quiet
        /\ IF Key(round) # sent THEN screen' = round /\ sent' = Key(round)
           ELSE screen' = screen /\ sent' = sent
    BY <1>7 DEF SendIfChanged, Query
  <2>2. IsSnapshot(screen') /\ sent' = Key(screen') /\ LogBeforeTasks(screen)'
    BY <2>1 DEF DashboardInv, LogBeforeTasks
  <2>3. quiet => round = Current
    BY <2>1 DEF DashboardInv, QuietSoFar, IsSnapshot, Current
  <2>4. quiet /\ ~ late => screen' = Current
    <3> SUFFICES ASSUME quiet, ~ late PROVE screen' = Current
      OBVIOUS
    <3>1. CASE Key(round) # sent
      BY <2>1, <2>3, <3>1
    <3>2. CASE Key(round) = sent
      <4>1. screen' = screen /\ Key(round) = Key(screen)
        BY <2>1, <3>2 DEF DashboardInv
      <4>2. screen.log = round.log /\ screen.others = round.others
        BY <4>1 DEF Key
      <4>3. screen.log = newest /\ screen.others = others
        BY <2>3, <4>2 DEF Current
      <4>4. screen.tasks = statuses
        BY <4>3 DEF DashboardInv, LogBeforeTasks
      <4> QED
        BY <4>1, <4>3, <4>4 DEF DashboardInv, IsSnapshot, Current
    <3> QED
      BY <3>1, <3>2
  <2> QED
    BY <2>1, <2>2, <2>4 DEF DashboardInv, QuietSoFar, QuietRoundShowsTheRows, IsSnapshot, Current
<1>8. CASE NextRound
  BY <1>8 DEF NextRound, Query, DashboardInv, QuietSoFar, QuietRoundShowsTheRows, LogBeforeTasks,
              IsSnapshot, Key
<1>9. CASE Reconnect
  <2>1. /\ query' = "logs" /\ round' = Nothing /\ sent' = Key(Nothing) /\ screen' = Nothing
        /\ newest' = newest /\ newest \in Nat
    BY <1>9 DEF Reconnect, DashboardInv
  <2>2. IsSnapshot(Nothing) /\ Nothing.log < newest
    BY <2>1, NothingIsSnapshot
  <2> QED
    BY <2>1, <2>2 DEF DashboardInv, QuietSoFar, QuietRoundShowsTheRows, LogBeforeTasks, IsSnapshot
<1>10. CASE UNCHANGED dashboardVars
  BY <1>10 DEF dashboardVars, DashboardInv, QuietSoFar, QuietRoundShowsTheRows, LogBeforeTasks,
               IsSnapshot, Key
<1> QED
  BY <1>1, <1>2, <1>3, <1>4, <1>5, <1>6, <1>7, <1>8, <1>9, <1>10 DEF DashboardNext

\* The browser shows the rows as they are after every round in which nothing was
\* committed, whatever was committed between the queries of earlier rounds: the log
\* is read before the tasks, and no task changes without one (api/routes.py:1474-1511).
THEOREM ShowsTheRows == DashboardSpec => []QuietRoundShowsTheRows
<1>1. DashboardInv => QuietRoundShowsTheRows
  BY DEF DashboardInv
<1> QED
  BY <1>1, DashboardInitHolds, DashboardStep, PTL DEF DashboardSpec
================================================================================
