---------------------------- MODULE ProofLemmas ----------------------------
(***************************************************************************)
(* Lemmas that belong to no component: positions and the blocks of B bytes *)
(* they fall into, which the provers do not know for a B that is not a     *)
(* number; the least and the greatest element of a set of naturals, which  *)
(* the models take with Min and Max; induction up to a number, and what it *)
(* shows of the recursive functions of the models.                         *)
(***************************************************************************)
EXTENDS Integers, FiniteSetsExt, WellFoundedInduction, TLAPS

----------------------------------------------------------------------------
(* Positions and blocks.                                                   *)

\* The offset of a position within its block.
LEMMA ModRange ==
  ASSUME NEW B \in Nat \ {0}, NEW x \in Int
  PROVE  x % B \in 0 .. B - 1
OBVIOUS

\* A position inside the first block is its own offset.
LEMMA ModSmall ==
  ASSUME NEW B \in Nat \ {0}, NEW x \in 0 .. B - 1
  PROVE  x % B = x
OBVIOUS

\* A positive multiple of B is at least B.
LEMMA Multiple ==
  ASSUME NEW B \in Nat \ {0}, NEW k \in Int, k >= 1
  PROVE  B * k >= B
OBVIOUS

\* The offset within the block is the only remainder there is.
LEMMA Remainder ==
  ASSUME NEW B \in Nat \ {0}, NEW q \in Int, NEW r \in 0 .. B - 1
  PROVE  (B * q + r) % B = r
<1> DEFINE y == B * q + r
           d == y \div B
<1>1. y \in Int /\ d \in Int /\ y = B * d + (y % B) /\ y % B \in 0 .. B - 1
  OBVIOUS
<1>2. B * (q - d) = (y % B) - r
  <2>1. B * q + r = B * d + (y % B)
    BY <1>1
  <2>2. B * (q - d) = B * q - B * d
    BY <1>1
  <2>3. B * q \in Int /\ B * d \in Int
    BY <1>1
  <2> QED BY <1>1, <2>1, <2>2, <2>3
<1>3. ~ (q - d >= 1)
  <2> SUFFICES ASSUME q - d >= 1 PROVE FALSE
    OBVIOUS
  <2>1. B * (q - d) >= B
    BY <1>1, Multiple
  <2> QED BY <1>1, <1>2, <2>1
<1>4. ~ (d - q >= 1)
  <2> SUFFICES ASSUME d - q >= 1 PROVE FALSE
    OBVIOUS
  <2>1. B * (d - q) >= B
    BY <1>1, Multiple
  <2>2. B * (d - q) = - (B * (q - d))
    BY <1>1
  <2>3. B * (q - d) \in Int
    BY <1>1
  <2> QED BY <1>1, <1>2, <2>1, <2>2, <2>3
<1>5. q = d
  BY <1>1, <1>3, <1>4
<1> QED BY <1>1, <1>2, <1>5

\* Taking the offset away leaves the first position of the block.
LEMMA StartAligned ==
  ASSUME NEW B \in Nat \ {0}, NEW x \in Int
  PROVE  (x - (x % B)) % B = 0
<1>1. x \div B \in Int /\ x = B * (x \div B) + (x % B)
  OBVIOUS
<1>2. B * (x \div B) \in Int /\ x % B \in Int
  BY <1>1
<1>3. x - (x % B) = B * (x \div B) + 0
  BY <1>1, <1>2
<1>4. (B * (x \div B) + 0) % B = 0
  BY <1>1, Remainder
<1> QED BY <1>3, <1>4

\* The block after a block starts B positions later.
LEMMA NextAligned ==
  ASSUME NEW B \in Nat \ {0}, NEW x \in Int, x % B = 0
  PROVE  (x + B) % B = 0
<1>1. x \div B \in Int /\ x = B * (x \div B) + (x % B)
  OBVIOUS
<1>2. B * ((x \div B) + 1) = B * (x \div B) + B
  BY <1>1
<1>3. x + B = B * ((x \div B) + 1) + 0
  <2>1. B * (x \div B) \in Int
    BY <1>1
  <2> QED BY <1>1, <1>2, <2>1
<1>4. (B * ((x \div B) + 1) + 0) % B = 0
  BY <1>1, Remainder
<1> QED BY <1>3, <1>4

\* Going back by a block keeps the offset in it.
LEMMA ModLess ==
  ASSUME NEW B \in Nat \ {0}, NEW x \in Int
  PROVE  (x - B) % B = x % B
<1> DEFINE q == x \div B
           r == x % B
<1>1. q \in Int /\ r \in 0 .. B - 1 /\ x = B * q + r
  OBVIOUS
<1> HIDE DEF q, r
<1>2. B * (q - 1) = B * q - B /\ B * q \in Int
  BY <1>1
<1>3. x - B = B * (q - 1) + r
  BY <1>1, <1>2
<1>4. (B * (q - 1) + r) % B = r
  BY <1>1, Remainder
<1> QED BY <1>3, <1>4 DEF r

\* Two different block starts are at least a block apart.
LEMMA AlignedApart ==
  ASSUME NEW B \in Nat \ {0}, NEW x \in Int, NEW y \in Int,
         x % B = 0, y % B = 0, x < y
  PROVE  x + B <= y
<1> DEFINE p == x \div B
           q == y \div B
<1>1. p \in Int /\ x = B * p /\ q \in Int /\ y = B * q
  OBVIOUS
<1> HIDE DEF p, q
<1>2. B * (q - p) = y - x
  BY <1>1
<1>3. q - p >= 1
  <2> SUFFICES ASSUME p - q >= 0 PROVE FALSE
    BY <1>1
  <2>1. B * (p - q) >= 0
    BY <1>1
  <2>2. B * (p - q) = x - y
    BY <1>1
  <2> QED BY <2>1, <2>2
<1>4. B * (q - p) >= B
  BY <1>1, <1>3, Multiple
<1> QED BY <1>2, <1>4

\* The first position of a block is in it, and the next block is after it.
LEMMA Within ==
  ASSUME NEW B \in Nat \ {0}, NEW x \in Nat
  PROVE  /\ x \div B \in Nat
         /\ (x \div B) * B <= x
         /\ x < ((x \div B) + 1) * B
<1> DEFINE q == x \div B
<1>1. q \in Int /\ x = B * q + (x % B) /\ x % B \in 0 .. B - 1
  OBVIOUS
<1> HIDE DEF q
<1>2. B * q \in Int /\ B * q = q * B /\ (q + 1) * B = q * B + B
  BY <1>1
<1>3. q * B <= x /\ x < (q + 1) * B
  BY <1>1, <1>2
<1>4. ~ (- q >= 1)
  <2> SUFFICES ASSUME - q >= 1 PROVE FALSE
    OBVIOUS
  <2>1. B * (- q) >= B
    BY <1>1, Multiple
  <2>2. B * (- q) = - (B * q)
    BY <1>1
  <2>3. B * q + B <= 0
    BY <1>2, <2>1, <2>2
  <2>4. x < B * q + B
    BY <1>2, <1>3
  <2> QED BY <1>2, <2>3, <2>4
<1> QED BY <1>1, <1>3, <1>4 DEF q

\* Multiples of B are ordered as what they are multiples of.
LEMMA Scaled ==
  ASSUME NEW B \in Nat \ {0}, NEW x \in Int, NEW y \in Int
  PROVE  /\ x <= y => x * B <= y * B
         /\ x * B < y * B => x < y
<1>1. \A d \in Nat : B * d >= 0
  OBVIOUS
<1>2. ASSUME x <= y PROVE x * B <= y * B
  <2>1. y - x \in Nat
    BY <1>2
  <2>2. B * (y - x) = y * B - x * B /\ x * B \in Int /\ y * B \in Int
    OBVIOUS
  <2> QED BY <1>1, <2>1, <2>2
<1>3. ASSUME y <= x PROVE y * B <= x * B
  <2>1. x - y \in Nat
    BY <1>3
  <2>2. B * (x - y) = x * B - y * B /\ x * B \in Int /\ y * B \in Int
    OBVIOUS
  <2> QED BY <1>1, <2>1, <2>2
<1>4. x * B \in Int /\ y * B \in Int
  OBVIOUS
<1> QED BY <1>2, <1>3, <1>4

\* What a multiple of B is a multiple of.
LEMMA Quotient ==
  ASSUME NEW B \in Nat \ {0}, NEW q \in Nat
  PROVE  (q * B) \div B = q
<1> DEFINE d == (q * B) \div B
<1>1. q * B \in Nat
  OBVIOUS
<1>2. d \in Nat /\ d * B <= q * B /\ q * B < (d + 1) * B
  BY <1>1, Within
<1> HIDE DEF d
<1>3. ~ (q + 1 <= d)
  <2>1. (q + 1) * B = q * B + B /\ d * B \in Int
    BY <1>2
  <2>2. q + 1 <= d => (q + 1) * B <= d * B
    BY <1>2, Scaled
  <2> QED BY <1>1, <1>2, <2>1, <2>2
<1>4. q < d + 1
  BY <1>2, Scaled
<1> QED BY <1>2, <1>3, <1>4 DEF d

----------------------------------------------------------------------------
(* Least and greatest elements.                                            *)

\* A non-empty set of naturals has a least element, and Min returns it.
LEMMA MinNat ==
  ASSUME NEW S \in SUBSET Nat, S # {}
  PROVE  Min(S) \in S /\ \A m \in S : Min(S) <= m
<1> DEFINE R == {p \in Nat \X Nat : p[1] < p[2]}
<1>1. IsWellFoundedOn(R, Nat)
  BY NatLessThanWellFounded DEF OpToRel
<1>2. \E x \in S : \A y \in S : ~ (<<y, x>> \in R)
  <2> HIDE DEF R
  <2> QED BY <1>1, WFMin
<1>3. \E x \in S : \A y \in S : x <= y
  <2>1. PICK x \in S : \A y \in S : ~ (<<y, x>> \in R)
    BY <1>2
  <2>2. \A y \in S : ~ (y < x)
    BY <2>1
  <2> QED BY <2>2
<1> QED BY <1>3 DEF Min

\* A non-empty set of naturals up to a bound has a greatest element, and Max
\* returns it: what lacks least to the bound.
LEMMA MaxNat ==
  ASSUME NEW S \in SUBSET Nat, S # {}, NEW b \in Nat, \A s \in S : s <= b
  PROVE  Max(S) \in S /\ \A m \in S : m <= Max(S)
<1> DEFINE T == {b - s : s \in S}
<1>1. T \in SUBSET Nat /\ T # {}
  <2>1. \A s \in S : b - s \in Nat
    <3> SUFFICES ASSUME NEW s \in S PROVE b - s \in Nat
      OBVIOUS
    <3>1. s \in Nat /\ s <= b
      OBVIOUS
    <3> QED BY <3>1
  <2>2. PICK s \in S : TRUE
    OBVIOUS
  <2>3. b - s \in T
    BY <2>2
  <2> QED BY <2>1, <2>3
<1>2. PICK t \in T : \A u \in T : t <= u
  <2> HIDE DEF T
  <2> QED BY <1>1, MinNat
<1>3. PICK x \in S : t = b - x
  BY <1>2
<1>4. \A y \in S : x >= y
  <2> SUFFICES ASSUME NEW y \in S PROVE x >= y
    OBVIOUS
  <2>1. b - x <= b - y
    BY <1>2, <1>3
  <2>2. x \in Nat /\ y \in Nat
    OBVIOUS
  <2> HIDE DEF T
  <2> QED BY <2>1, <2>2
<1> QED BY <1>4 DEF Max

----------------------------------------------------------------------------
(* Induction.                                                              *)

\* A set that has 0, and each of the next N numbers if it has the one before.
LEMMA UpTo ==
  ASSUME NEW N \in Nat, NEW S, 0 \in S, \A n \in 1 .. N : n - 1 \in S => n \in S
  PROVE  0 .. N \subseteq S
<1> DEFINE out == {n \in 0 .. N : n \notin S}
<1>1. SUFFICES ASSUME out # {} PROVE FALSE
  OBVIOUS
<1>2. out \in SUBSET Nat
  OBVIOUS
<1>3. Min(out) \in out /\ \A m \in out : Min(out) <= m
  BY <1>1, <1>2, MinNat
<1> DEFINE least == Min(out)
<1>4. least \in 1 .. N /\ least \notin S
  BY <1>3
<1> HIDE DEF least
<1>5. least - 1 \in S
  <2>1. least - 1 \in 0 .. N /\ ~ (least <= least - 1)
    BY <1>4
  <2>2. least - 1 \notin out
    BY <1>3, <2>1 DEF least
  <2> QED BY <2>1, <2>2
<1> QED BY <1>4, <1>5

\* What adds up over the first numbers: there is a function that does so.
LEMMA SumExists ==
  ASSUME NEW V, NEW zero \in V, NEW N \in Nat, NEW add \in [1 .. N -> [V -> V]]
  PROVE  \E f \in [0 .. N -> V] : f[0] = zero /\ \A n \in 1 .. N : f[n] = add[n][f[n - 1]]
<1> DEFINE Sums(n) == {f \in [0 .. n -> V] : f[0] = zero /\ \A k \in 1 .. n : f[k] = add[k][f[k - 1]]}
           S       == {n \in 0 .. N : Sums(n) # {}}
<1>1. 0 \in S
  <2>1. [k \in 0 .. 0 |-> zero] \in Sums(0)
    OBVIOUS
  <2> QED BY <2>1
<1>2. ASSUME NEW n \in 1 .. N, n - 1 \in S PROVE n \in S
  <2>1. PICK f : f \in Sums(n - 1)
    BY <1>2
  <2> DEFINE g == [k \in 0 .. n |-> IF k = n THEN add[n][f[n - 1]] ELSE f[k]]
  <2>2. f \in [0 .. n - 1 -> V] /\ f[0] = zero /\ \A k \in 1 .. n - 1 : f[k] = add[k][f[k - 1]]
    BY <2>1
  <2>3. add[n] \in [V -> V] /\ f[n - 1] \in V
    BY <2>2
  <2>4. g \in [0 .. n -> V] /\ g[0] = zero
    BY <2>2, <2>3
  <2>5. ASSUME NEW k \in 1 .. n PROVE g[k] = add[k][g[k - 1]]
    BY <2>2
  <2> HIDE DEF g
  <2>6. g \in Sums(n)
    BY <2>4, <2>5
  <2> QED BY <2>6
<1> HIDE DEF S
<1>3. 0 .. N \subseteq S
  BY <1>1, <1>2, UpTo, Zenon
<1>4. N \in S
  BY <1>3
<1> QED BY <1>4 DEF S

\* The function f adds up the first N of the numbers c.
AddsUp(f, N, c) == f = [n \in 0 .. N |-> IF n = 0 THEN 0 ELSE f[n - 1] + c[n]]

\* There is such a function, and naturals add up to naturals.
LEMMA SumOfNaturals ==
  ASSUME NEW N \in Nat, NEW c \in [1 .. N -> Nat]
  PROVE  /\ \E f : AddsUp(f, N, c)
         /\ \A f : AddsUp(f, N, c) =>
              /\ f[0] = 0
              /\ \A n \in 0 .. N : f[n] \in Nat
              /\ \A n \in 1 .. N : f[n] = f[n - 1] + c[n]
<1> DEFINE add == [n \in 1 .. N |-> [v \in Nat |-> v + c[n]]]
<1>1. add \in [1 .. N -> [Nat -> Nat]]
  OBVIOUS
<1>2. \A n \in 1 .. N : \A v \in Nat : add[n][v] = v + c[n]
  OBVIOUS
<1> HIDE DEF add
<1>3. PICK f \in [0 .. N -> Nat] : f[0] = 0 /\ \A n \in 1 .. N : f[n] = add[n][f[n - 1]]
  <2> DEFINE V    == Nat
             zero == 0
  <2>1. zero \in V /\ N \in Nat /\ add \in [1 .. N -> [V -> V]]
    BY <1>1
  <2> HIDE DEF V, zero
  <2>2. \E f \in [0 .. N -> V] : f[0] = zero /\ \A n \in 1 .. N : f[n] = add[n][f[n - 1]]
    BY <2>1, SumExists, SMTT(30)
  <2> QED BY <2>2 DEF V, zero
<1>4. f = [n \in 0 .. N |-> IF n = 0 THEN 0 ELSE f[n - 1] + c[n]]
  <2>1. ASSUME NEW n \in 1 .. N PROVE f[n] = f[n - 1] + c[n]
    <3>1. n - 1 \in 0 .. N
      OBVIOUS
    <3> QED BY <1>2, <1>3, <3>1
  <2> QED BY <1>3, <2>1
<1>5. ASSUME NEW g, AddsUp(g, N, c)
      PROVE  /\ g[0] = 0
             /\ \A n \in 0 .. N : g[n] \in Nat
             /\ \A n \in 1 .. N : g[n] = g[n - 1] + c[n]
  <2> DEFINE S == {n \in 0 .. N : g[n] \in Nat}
  <2>1. g[0] = 0 /\ \A n \in 1 .. N : g[n] = g[n - 1] + c[n]
    BY <1>5 DEF AddsUp
  <2>2. ASSUME NEW n \in 1 .. N, n - 1 \in S PROVE n \in S
    <3>1. g[n - 1] \in Nat /\ c[n] \in Nat /\ g[n] = g[n - 1] + c[n] /\ n \in 0 .. N
      BY <2>1, <2>2
    <3>2. g[n] \in Nat
      BY <3>1
    <3> QED BY <3>1, <3>2
  <2>3. 0 \in S
    BY <2>1
  <2> HIDE DEF S
  <2>4. 0 .. N \subseteq S
    BY <2>2, <2>3, UpTo, Zenon
  <2> QED BY <2>1, <2>4 DEF S
<1> QED BY <1>4, <1>5, Zenon DEF AddsUp
=============================================================================
