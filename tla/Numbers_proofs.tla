----------------------------- MODULE Numbers_proofs -----------------------------
(***************************************************************************)
(* Lemmas about numbers that the other proofs cite: least elements, sums,   *)
(* signs of products and rounding to whole steps.                           *)
(***************************************************************************)
EXTENDS Integers, FiniteSets, FiniteSetTheorems, WellFoundedInduction, TLAPS

\* A set of numbers has a least one. The prefixes below its members are finite sets,
\* which their strict inclusion orders well.
LEMMA HasLeast ==
    ASSUME NEW T \in SUBSET Nat, T # {} PROVE \E m \in T : \A n \in T : m <= n
<1> DEFINE Below(n) == 0 .. (n - 1)
           F == {Below(n) : n \in T}
           R == StrictSubsetOrdering(Nat)
<1>1. IsWellFoundedOn(R, FiniteSubsetsOf(Nat))
  BY FS_StrictSubsetOrderingWellFounded
<1>2. F \subseteq FiniteSubsetsOf(Nat) /\ F # {}
  <2>1. \A n \in T : IsFiniteSet(Below(n)) /\ Below(n) \in SUBSET Nat
    BY FS_Interval
  <2> QED
    BY <2>1 DEF FiniteSubsetsOf
<1> HIDE DEF R
<1>3. \E x \in F : \A y \in F : ~ (<<y, x>> \in R)
  <2> HIDE DEF F
  <2> QED
    BY <1>1, <1>2, WFMin
<1>4. PICK m \in T : \A n \in T : ~ (<<Below(n), Below(m)>> \in R)
  BY <1>3
<1>5. ASSUME NEW n \in T, ~ (m <= n) PROVE FALSE
  <2>1. /\ Below(n) \subseteq Below(m) /\ Below(m) \in SUBSET Nat
        /\ n \in Below(m) /\ n \notin Below(n)
    BY <1>5
  <2>2. Below(n) # Below(m)
    BY <2>1
  <2> QED
    BY <2>1, <2>2, <1>4 DEF R, StrictSubsetOrdering
<1> QED
  BY <1>5

\* Two functions that start together and grow by the same end together.
LEMMA SameSums ==
    ASSUME NEW n \in Nat, NEW f \in [0 .. n -> Int], NEW g \in [0 .. n -> Int],
           f[0] = g[0], \A i \in 1 .. n : f[i] - f[i - 1] = g[i] - g[i - 1]
    PROVE  f[n] = g[n]
<1> SUFFICES ASSUME f[n] # g[n] PROVE FALSE
  OBVIOUS
<1> DEFINE T == {i \in 0 .. n : f[i] # g[i]}
<1>1. T \in SUBSET Nat /\ n \in T
  OBVIOUS
<1>2. PICK m \in T : \A i \in T : m <= i
  <2> HIDE DEF T
  <2> QED
    BY <1>1, HasLeast
<1>3. m \in 1 .. n /\ m - 1 \in 0 .. n /\ m - 1 \notin T
  BY <1>2
<1>4. f[m - 1] = g[m - 1] /\ f[m] # g[m] /\ f[m] - f[m - 1] = g[m] - g[m - 1]
  BY <1>2, <1>3
<1>5. f[m] \in Int /\ g[m] \in Int /\ f[m - 1] \in Int /\ g[m - 1] \in Int
  BY <1>3
<1> QED
  BY <1>4, <1>5

\* The signs of a negative product.
LEMMA ProductSign ==
    ASSUME NEW a \in Int, NEW b \in Int, a * b < 0
    PROVE  (a > 0 /\ b < 0) \/ (a < 0 /\ b > 0)
  OBVIOUS

\* Numbers of one sign have no negative product.
LEMMA SameSign ==
    ASSUME NEW a \in Int, NEW b \in Int, (a >= 0 /\ b >= 0) \/ (a <= 0 /\ b <= 0)
    PROVE  a * b >= 0
  OBVIOUS

\* A larger factor makes a larger product, and the other way round.
LEMMA ProductOrder ==
    ASSUME NEW a \in Int, NEW b \in Int, NEW s \in Nat \ {0}
    PROVE  /\ a * s \in Int /\ b * s \in Int
           /\ a <= b => a * s <= b * s
           /\ a * s < b * s => a < b
           /\ (a + 1) * s = a * s + s
<1>1. a * s \in Int /\ b * s \in Int /\ (b - a) * s = b * s - a * s /\ (a - b) * s = a * s - b * s
  OBVIOUS
<1>2. (a + 1) * s = a * s + s
  OBVIOUS
<1>3. ASSUME a <= b PROVE a * s <= b * s
  <2>1. (b - a) * s >= 0
    BY <1>3
  <2> QED
    BY <1>1, <2>1
<1>4. ASSUME a * s < b * s, ~ (a < b) PROVE FALSE
  <2>1. (a - b) * s >= 0
    BY <1>4
  <2> QED
    BY <1>1, <1>4, <2>1
<1> QED
  BY <1>1, <1>2, <1>3, <1>4

\* Rounding down to whole steps leaves less than a step.
LEMMA RoundsDown ==
    ASSUME NEW q \in Nat, NEW s \in Nat \ {0}
    PROVE  /\ q \div s \in Nat /\ (q \div s) * s \in Nat
           /\ (q \div s) * s <= q /\ q < (q \div s) * s + s
<1> DEFINE d == q \div s
<1>1. d \in Int /\ s * d <= q /\ q < s * (d + 1)
  OBVIOUS
<1>2. d \in Nat
  OBVIOUS
<1> HIDE DEF d
<1>3. d * s = s * d /\ s * (d + 1) = d * s + s /\ d * s \in Nat
  BY <1>2
<1> QED
  BY <1>1, <1>2, <1>3 DEF d

\* A whole number of steps is rounded to itself.
LEMMA WholeStepsStay ==
    ASSUME NEW k \in Nat, NEW s \in Nat \ {0}
    PROVE  ((k * s) \div s) * s = k * s
<1>1. k * s \in Nat
  OBVIOUS
<1> DEFINE d == (k * s) \div s
<1>2. d \in Nat /\ d * s <= k * s /\ k * s < d * s + s
  BY <1>1, RoundsDown
<1> HIDE DEF d
<1>3. (d + 1) * s = d * s + s
  BY <1>2, ProductOrder
<1>4. k < d + 1
  BY <1>1, <1>2, <1>3, ProductOrder
<1>5. d <= k
  <2>1. ~ (k * s < d * s)
    BY <1>1, <1>2, ProductOrder
  <2>2. (k + 1) * s = k * s + s
    BY ProductOrder
  <2>3. d < k + 1
    <3>1. d * s < (k + 1) * s
      BY <1>1, <1>2, <2>2, ProductOrder
    <3> QED
      BY <1>2, <3>1, ProductOrder
  <2> QED
    BY <1>2, <2>3
<1> QED
  BY <1>2, <1>4, <1>5 DEF d

\* What is dropped, less than the smallest order or less than a step, is at most the
\* smallest order, up to whole steps.
LEMMA DroppedIsSmall ==
    ASSUME NEW q \in Nat, NEW s \in Nat \ {0}, NEW m \in Nat \ {0}
    PROVE  LET r == (q \div s) * s
               g == ((m + s - 1) \div s) * s
           IN  /\ g \in Nat /\ r \in Nat
               /\ q < m \/ r < m => q <= g
               /\ r <= q /\ q - r <= g
<1> DEFINE a == q \div s
           b == (m + s - 1) \div s
<1>1. a \in Nat /\ a * s \in Nat /\ a * s <= q /\ q < a * s + s
  BY RoundsDown
<1>2. b \in Nat /\ b * s \in Nat /\ m + s - 1 < b * s + s
  <2>1. m + s - 1 \in Nat
    OBVIOUS
  <2> QED
    BY <2>1, RoundsDown
<1> HIDE DEF a, b
<1>3. m <= b * s
  BY <1>2
<1>4. s <= b * s
  <2>1. 0 * s < b * s
    BY <1>2, <1>3
  <2>2. 0 < b
    BY <1>2, <2>1, ProductOrder
  <2>3. 1 * s <= b * s
    BY <1>2, <2>2, ProductOrder
  <2> QED
    BY <2>3
<1>5. ASSUME a * s < m PROVE q <= b * s
  <2>1. a * s < b * s
    BY <1>1, <1>2, <1>3, <1>5
  <2>2. a + 1 <= b
    BY <1>1, <1>2, <2>1, ProductOrder
  <2>3. (a + 1) * s <= b * s /\ (a + 1) * s = a * s + s
    <3>1. a + 1 \in Int
      BY <1>1
    <3> QED
      BY <1>1, <1>2, <2>2, <3>1, ProductOrder
  <2> QED
    BY <1>1, <1>2, <2>3
<1>6. q < m => q <= b * s
  BY <1>2, <1>3
<1>7. a * s <= q /\ q - a * s <= b * s
  BY <1>1, <1>2, <1>4
<1> QED
  BY <1>1, <1>2, <1>5, <1>6, <1>7 DEF a, b
=============================================================================
