----------------------------- MODULE RingLemmas -----------------------------
(***************************************************************************)
(* Arithmetic of rings: an index or a counter modulo the size of a ring,   *)
(* and the lap a counter is in.  The ring of page requests, the event      *)
(* queues and the work queues all rest on these facts.                     *)
(***************************************************************************)
EXTENDS Integers, TLAPS

\* An index less than two laps wraps once at most.
LEMMA ModWrap ==
  ASSUME NEW N \in Nat \ {0}, NEW a \in 0 .. 2 * N - 1
  PROVE  a % N = IF a < N THEN a ELSE a - N
OBVIOUS

\* A remainder is a slot of the ring.
LEMMA ModRange ==
  ASSUME NEW N \in Nat \ {0}, NEW a \in Nat
  PROVE  a % N \in 0 .. N - 1
OBVIOUS

\* A lap is a natural number.
LEMMA DivRange ==
  ASSUME NEW N \in Nat \ {0}, NEW a \in Nat
  PROVE  a \div N \in Nat
OBVIOUS

\* A counter is its lap and its slot.
LEMMA DivMod ==
  ASSUME NEW N \in Nat \ {0}, NEW a \in Nat
  PROVE  a = N * (a \div N) + (a % N)
OBVIOUS

\* Lap and slot determine each other.
LEMMA DivModUnique ==
  ASSUME NEW N \in Nat \ {0}, NEW q \in Nat, NEW r \in 0 .. N - 1
  PROVE  (N * q + r) % N = r /\ (N * q + r) \div N = q
OBVIOUS

\* A step forward goes to the next slot, or to the first one of the next lap.
LEMMA ModPlusOne ==
  ASSUME NEW N \in Nat \ {0}, NEW a \in Nat
  PROVE  /\ (a + 1) % N = IF (a % N) + 1 = N THEN 0 ELSE (a % N) + 1
         /\ (a + 1) \div N = IF (a % N) + 1 = N THEN (a \div N) + 1 ELSE a \div N
OBVIOUS

\* Two counters less than a lap apart are in the same slot only if equal.
LEMMA DistinctSlots ==
  ASSUME NEW N \in Nat \ {0}, NEW a \in Nat, NEW b \in Nat,
         a < b, b < a + N
  PROVE  a % N # b % N
<1> DEFINE p == a \div N
           q == b \div N
           m == a % N
           n == b % N
<1>1. /\ p \in Nat /\ a = N * p + m
      /\ q \in Nat /\ b = N * q + n
      /\ m \in Nat /\ n \in Nat
  BY DivRange, DivMod, ModRange
<1> HIDE DEF p, q, m, n
<1>2. ASSUME m = n  PROVE  FALSE
  <2>1. N * q - N * p > 0 /\ N * q - N * p < N
    BY <1>1, <1>2
  <2>2. CASE q =< p
    BY <1>1, <2>1, <2>2
  <2>3. CASE q >= p + 1
    <3>1. N * q >= N * (p + 1)
      BY <1>1, <2>3
    <3>2. N * (p + 1) = N * p + N
      BY <1>1
    <3> QED  BY <1>1, <2>1, <3>1, <3>2
  <2> QED  BY <1>1, <2>2, <2>3
<1> QED  BY <1>2 DEF m, n

\* A counter a lap ahead is in the same slot, in the next lap.
LEMMA NextLap ==
  ASSUME NEW N \in Nat \ {0}, NEW a \in Nat
  PROVE  /\ (a + N) % N = a % N
         /\ (a + N) \div N = (a \div N) + 1
OBVIOUS

\* A counter that wraps after a whole number of double laps keeps its slot and
\* the parity of its lap.
LEMMA LapOfWrapped ==
  ASSUME NEW N \in Nat \ {0}, NEW W \in Nat \ {0}, W % (2 * N) = 0, NEW c \in Nat
  PROVE  /\ (c % W) % N = c % N
         /\ ((c % W) \div N) % 2 = (c \div N) % 2
<1> DEFINE m == W \div (2 * N)
           j == c \div W
           r == c % W
           x == r \div N
           y == r % N
<1>1. /\ m \in Nat /\ W = (2 * N) * m
  BY DivMod, DivRange
<1>2. /\ j \in Nat /\ r \in Nat /\ c = W * j + r
  BY DivMod, DivRange, ModRange
<1>3. /\ x \in Nat /\ y \in 0 .. N - 1 /\ r = N * x + y
  BY <1>2, DivMod, DivRange, ModRange
<1> HIDE DEF m, j, r, x, y
<1> DEFINE z == m * j
<1>4. z \in Nat
  BY <1>1, <1>2
<1>5. W * j = N * (2 * z)
  BY <1>1, <1>2
<1> HIDE DEF z
<1>6. c = N * (2 * z + x) + y
  <2>1. N * (2 * z + x) = N * (2 * z) + N * x
    BY <1>3, <1>4
  <2> QED  BY <1>2, <1>3, <1>5, <2>1
<1>7. c % N = y /\ c \div N = 2 * z + x
  BY <1>3, <1>4, <1>6, DivModUnique
<1>8. (2 * z + x) % 2 = x % 2
  BY <1>3, <1>4
<1> QED  BY <1>7, <1>8 DEF r, x, y

\* The range of such a counter is two laps at least.
LEMMA WrapIsLarge ==
  ASSUME NEW N \in Nat \ {0}, NEW W \in Nat \ {0}, W % (2 * N) = 0
  PROVE  W >= 2 * N
<1>1. W < 2 * N => W % (2 * N) = W
  BY ModWrap
<1> QED  BY <1>1

=============================================================================
