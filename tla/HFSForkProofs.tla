---------------------------- MODULE HFSForkProofs ----------------------------
(***************************************************************************)
(* Proofs about HFSFork, for every fork, every overflow tree, every block  *)
(* size and every sequence of reads.                                       *)
(*                                                                         *)
(* The argument: the sums and the sequences that recursive functions       *)
(* compute add up as they should (BlocksAddUp, ExtentsTaken), by induction *)
(* up to the length (UpTo).  What a read has counted are the blocks before *)
(* its place (PlaceInv), so what it looks for in the tree is what follows  *)
(* the catalog record, and that is all there is (AllMissing); behind it    *)
(* nothing is found (NoneMissing).  A position in the fork is therefore    *)
(* one place of one extent (ByteInExtent), and the buffer is filled with   *)
(* the bytes asked for, without a gap (FillInv).                           *)
(***************************************************************************)
EXTENDS HFSFork, ProofLemmas, SequenceTheorems

----------------------------------------------------------------------------
(* Extents.                                                                *)

\* The blocks before an extent add up.
LEMMA BlocksAddUp ==
  ASSUME NEW e \in Seq(Extent)
  PROVE  /\ BlocksBefore(e, 1) = 0
         /\ \A k \in 1 .. Len(e) + 1 : BlocksBefore(e, k) \in Nat
         /\ \A k \in 1 .. Len(e) : BlocksBefore(e, k + 1) = BlocksBefore(e, k) + e[k].count
<1> DEFINE N   == Len(e)
           c   == [n \in 1 .. N |-> e[n].count]
           sum == CHOOSE f : f = [n \in 0 .. N |-> IF n = 0 THEN 0 ELSE f[n - 1] + e[n].count]
<1>1. N \in Nat /\ c \in [1 .. N -> Nat] /\ \A n \in 1 .. N : c[n] = e[n].count
  <2>1. \A n \in 1 .. Len(e) : e[n] \in Extent
    OBVIOUS
  <2> QED BY <2>1 DEF Extent
<1>2. \A k : BlocksBefore(e, k) = sum[k - 1]
  BY DEF BlocksBefore
<1> HIDE DEF N, c
<1>3. PICK f : AddsUp(f, N, c)
  BY <1>1, SumOfNaturals
<1>4. f = [n \in 0 .. N |-> IF n = 0 THEN 0 ELSE f[n - 1] + e[n].count]
  BY <1>1, <1>3, SMTT(30) DEF AddsUp
<1>5. sum = [n \in 0 .. N |-> IF n = 0 THEN 0 ELSE sum[n - 1] + e[n].count]
  BY <1>4, Zenon
<1> HIDE DEF sum
<1>6. AddsUp(sum, N, c)
  <2>1. [n \in 0 .. N |-> IF n = 0 THEN 0 ELSE sum[n - 1] + e[n].count]
          = [n \in 0 .. N |-> IF n = 0 THEN 0 ELSE sum[n - 1] + c[n]]
    BY <1>1
  <2> QED BY <1>5, <2>1, Zenon DEF AddsUp
<1>7. /\ sum[0] = 0 /\ \A n \in 0 .. N : sum[n] \in Nat
      /\ \A n \in 1 .. N : sum[n] = sum[n - 1] + e[n].count
  <2>1. /\ sum[0] = 0 /\ \A n \in 0 .. N : sum[n] \in Nat
        /\ \A n \in 1 .. N : sum[n] = sum[n - 1] + c[n]
    BY <1>1, <1>6, SumOfNaturals
  <2> QED BY <1>1, <2>1
<1>8. BlocksBefore(e, 1) = 0
  BY <1>2, <1>7
<1>9. ASSUME NEW k \in 1 .. N + 1 PROVE BlocksBefore(e, k) \in Nat
  <2>1. k - 1 \in 0 .. N
    BY <1>1
  <2> QED BY <1>2, <1>7, <2>1
<1>10. ASSUME NEW k \in 1 .. N PROVE BlocksBefore(e, k + 1) = BlocksBefore(e, k) + e[k].count
  <2>1. (k + 1) - 1 = k
    BY <1>1
  <2> QED BY <1>2, <1>7, <2>1
<1> QED BY <1>8, <1>9, <1>10 DEF N

\* Each extent has blocks of its own.
LEMMA BlocksGrow ==
  ASSUME NEW e \in Seq(Extent), NEW k \in 1 .. Len(e) + 1, NEW n \in 0 .. Len(e) + 1 - k
  PROVE  BlocksBefore(e, k) + n <= BlocksBefore(e, k + n)
<1> DEFINE B(j) == BlocksBefore(e, j)
           N    == Len(e) + 1 - k
           S    == {j \in 0 .. N : B(k) + j <= B(k + j)}
<1>1. /\ Len(e) \in Nat /\ N \in Nat
      /\ \A j \in 1 .. Len(e) + 1 : B(j) \in Nat
      /\ \A j \in 1 .. Len(e) : B(j + 1) = B(j) + e[j].count
  BY BlocksAddUp
<1>2. \A j \in 1 .. Len(e) : e[j].count \in Nat \ {0}
  <2>1. \A j \in 1 .. Len(e) : e[j] \in Extent
    OBVIOUS
  <2> QED BY <2>1 DEF Extent
<1> HIDE DEF B
<1>3. 0 \in S
  BY <1>1
<1>4. ASSUME NEW j \in 1 .. N, j - 1 \in S PROVE j \in S
  <2>1. k + (j - 1) \in 1 .. Len(e) /\ (k + (j - 1)) + 1 = k + j /\ k + j \in 1 .. Len(e) + 1
    BY <1>1
  <2>2. B(k + j) = B(k + (j - 1)) + e[k + (j - 1)].count
    BY <1>1, <2>1
  <2>3. B(k) + (j - 1) <= B(k + (j - 1))
    BY <1>4
  <2>4. /\ B(k) \in Nat /\ B(k + j) \in Nat /\ B(k + (j - 1)) \in Nat
        /\ e[k + (j - 1)].count \in Nat \ {0}
    BY <1>1, <1>2, <2>1
  <2>5. B(k) + j <= B(k + j)
    <3> DEFINE x == B(k)
               y == B(k + (j - 1))
               z == B(k + j)
               w == e[k + (j - 1)].count
    <3>1. x \in Nat /\ y \in Nat /\ w \in Nat /\ w > 0 /\ z = y + w /\ x + (j - 1) <= y
      BY <2>2, <2>3, <2>4, SMTT(30)
    <3> HIDE DEF x, y, z, w
    <3>2. x + j <= z
      BY <3>1
    <3> QED BY <3>2 DEF x, z
  <2> QED BY <2>5
<1> HIDE DEF S
<1>5. 0 .. N \subseteq S
  BY <1>1, <1>3, <1>4, UpTo, Zenon
<1>6. n \in S
  BY <1>5
<1> QED BY <1>6 DEF S, B

\* Extents behind others add to their blocks, and change none before.
LEMMA BlocksOfBoth ==
  ASSUME NEW a \in Seq(Extent), NEW b \in Seq(Extent)
  PROVE  /\ a \o b \in Seq(Extent)
         /\ \A k \in 1 .. Len(a) + 1 : BlocksBefore(a \o b, k) = BlocksBefore(a, k)
         /\ Blocks(a) \in Nat /\ Blocks(a \o b) \in Nat /\ Blocks(a) <= Blocks(a \o b)
         /\ b # <<>> => Blocks(a) < Blocks(a \o b)
<1> DEFINE c == a \o b
           S == {n \in 0 .. Len(a) : BlocksBefore(c, n + 1) = BlocksBefore(a, n + 1)}
<1>1. /\ c \in Seq(Extent) /\ Len(a) \in Nat /\ Len(b) \in Nat /\ Len(c) = Len(a) + Len(b)
      /\ \A j \in 1 .. Len(a) : c[j] = a[j]
      /\ b # <<>> => Len(b) > 0
  OBVIOUS
<1> HIDE DEF c
<1>2. /\ BlocksBefore(a, 1) = 0 /\ BlocksBefore(c, 1) = 0
      /\ \A k \in 1 .. Len(a) : BlocksBefore(a, k + 1) = BlocksBefore(a, k) + a[k].count
      /\ \A k \in 1 .. Len(c) : BlocksBefore(c, k + 1) = BlocksBefore(c, k) + c[k].count
      /\ Blocks(a) \in Nat /\ Blocks(c) \in Nat
  BY <1>1, BlocksAddUp DEF Blocks
<1>3. 0 \in S
  BY <1>1, <1>2
<1>4. ASSUME NEW n \in 1 .. Len(a), n - 1 \in S PROVE n \in S
  <2>1. (n - 1) + 1 = n /\ n \in 1 .. Len(c) /\ n \in 0 .. Len(a)
    BY <1>1
  <2>2. BlocksBefore(c, n) = BlocksBefore(a, n)
    BY <1>4, <2>1
  <2>3. BlocksBefore(c, n + 1) = BlocksBefore(a, n + 1)
    BY <1>1, <1>2, <2>1, <2>2
  <2> QED BY <2>1, <2>3
<1> HIDE DEF S
<1>5. 0 .. Len(a) \subseteq S
  BY <1>1, <1>3, <1>4, UpTo, Zenon
<1>6. ASSUME NEW k \in 1 .. Len(a) + 1 PROVE BlocksBefore(c, k) = BlocksBefore(a, k)
  <2>1. k - 1 \in 0 .. Len(a) /\ (k - 1) + 1 = k
    BY <1>1
  <2>2. k - 1 \in S
    BY <1>5, <2>1
  <2>3. BlocksBefore(c, (k - 1) + 1) = BlocksBefore(a, (k - 1) + 1)
    BY <2>2 DEF S
  <2> QED BY <2>1, <2>3
<1>7. Blocks(a) + Len(b) <= Blocks(c)
  <2>1. Len(a) + 1 \in 1 .. Len(c) + 1 /\ Len(b) \in 0 .. Len(c) + 1 - (Len(a) + 1)
        /\ Len(a) + 1 + Len(b) = Len(c) + 1 /\ Len(a) + 1 \in 1 .. Len(a) + 1
    BY <1>1
  <2>2. BlocksBefore(c, Len(a) + 1) + Len(b) <= BlocksBefore(c, Len(c) + 1)
    BY <1>1, <2>1, BlocksGrow
  <2> QED BY <1>6, <2>1, <2>2 DEF Blocks
<1>8. Blocks(a) <= Blocks(c) /\ (b # <<>> => Blocks(a) < Blocks(c))
  BY <1>1, <1>2, <1>7
<1> QED BY <1>1, <1>2, <1>6, <1>8 DEF c

\* A tree whose records have extents.
IsTree(tree) ==
  /\ Len(tree) \in Nat
  /\ \A i \in 1 .. Len(tree) : tree[i].extents \in Seq(Extent)

\* The extents of a tree are taken record by record.
LEMMA ExtentsTaken ==
  ASSUME NEW tree, IsTree(tree), NEW S
  PROVE  /\ ExtentsUpTo(tree, S, 0) = <<>>
         /\ \A k \in 0 .. Len(tree) : ExtentsUpTo(tree, S, k) \in Seq(Extent)
         /\ \A k \in 1 .. Len(tree) :
              /\ k \in S => ExtentsUpTo(tree, S, k) = ExtentsUpTo(tree, S, k - 1) \o tree[k].extents
              /\ k \notin S => ExtentsUpTo(tree, S, k) = ExtentsUpTo(tree, S, k - 1)
<1> DEFINE N     == Len(tree)
           V     == Seq(Extent)
           zero  == <<>>
           add   == [n \in 1 .. N |-> [v \in V |-> IF n \in S THEN v \o tree[n].extents ELSE v]]
           taken == CHOOSE f : f = [n \in 0 .. N |-> IF n = 0 THEN <<>>
                                                     ELSE IF n \in S THEN f[n - 1] \o tree[n].extents
                                                     ELSE f[n - 1]]
           T     == {n \in 0 .. N : taken[n] \in V}
<1>1. N \in Nat /\ zero \in V /\ \A n \in 1 .. N : tree[n].extents \in V
  BY DEF IsTree
<1>2. \A k : ExtentsUpTo(tree, S, k) = taken[k]
  BY DEF ExtentsUpTo
<1>3. \A n \in 1 .. N : \A v \in V : (IF n \in S THEN v \o tree[n].extents ELSE v) \in V
  BY <1>1
<1> HIDE DEF N, V, zero
<1>4. add \in [1 .. N -> [V -> V]]
  BY <1>3
<1>5. \A n \in 1 .. N : \A v \in V : add[n][v] = IF n \in S THEN v \o tree[n].extents ELSE v
  OBVIOUS
<1> HIDE DEF add
<1>6. PICK f \in [0 .. N -> V] : f[0] = zero /\ \A n \in 1 .. N : f[n] = add[n][f[n - 1]]
  BY <1>1, <1>4, SumExists, SMTT(30)
<1>7. f = [n \in 0 .. N |-> IF n = 0 THEN <<>>
                            ELSE IF n \in S THEN f[n - 1] \o tree[n].extents ELSE f[n - 1]]
  <2>1. ASSUME NEW n \in 1 .. N
        PROVE  f[n] = IF n \in S THEN f[n - 1] \o tree[n].extents ELSE f[n - 1]
    <3>1. n - 1 \in 0 .. N
      BY <1>1
    <3> QED BY <1>5, <1>6, <3>1
  <2>2. \A n \in 0 .. N : n = 0 \/ n \in 1 .. N
    BY <1>1
  <2>3. \A n \in 0 .. N : f[n] = IF n = 0 THEN <<>>
                               ELSE IF n \in S THEN f[n - 1] \o tree[n].extents ELSE f[n - 1]
    BY <1>6, <2>1, <2>2, Zenon DEF zero
  <2>4. f = [n \in 0 .. N |-> f[n]]
    OBVIOUS
  <2> QED BY <2>3, <2>4, Zenon
<1>8. taken = [n \in 0 .. N |-> IF n = 0 THEN <<>>
                                ELSE IF n \in S THEN taken[n - 1] \o tree[n].extents ELSE taken[n - 1]]
  BY <1>7, Zenon
<1> HIDE DEF taken
<1>9. /\ taken[0] = <<>>
      /\ \A n \in 1 .. N : taken[n] = IF n \in S THEN taken[n - 1] \o tree[n].extents ELSE taken[n - 1]
  <2>1. 0 \in 0 .. N /\ \A n \in 1 .. N : n \in 0 .. N /\ n # 0
    BY <1>1
  <2>2. \A n \in 0 .. N : taken[n] = IF n = 0 THEN <<>>
                                   ELSE IF n \in S THEN taken[n - 1] \o tree[n].extents
                                   ELSE taken[n - 1]
    BY <1>8, Zenon
  <2> QED BY <2>1, <2>2, Zenon
<1>10. \A n \in 0 .. N : taken[n] \in V
  <2>1. ASSUME NEW n \in 1 .. N, n - 1 \in T PROVE n \in T
    <3>1. n \in 0 .. N /\ taken[n - 1] \in V
      BY <1>1, <2>1
    <3>2. taken[n] \in V
      BY <1>3, <1>9, <3>1
    <3> QED BY <3>1, <3>2
  <2>2. 0 \in T
    BY <1>1, <1>9 DEF zero
  <2> HIDE DEF T
  <2>3. 0 .. N \subseteq T
    BY <1>1, <2>1, <2>2, UpTo, Zenon
  <2> QED BY <2>3 DEF T
<1>11. \A n \in 1 .. N : /\ n \in S => taken[n] = taken[n - 1] \o tree[n].extents
                        /\ n \notin S => taken[n] = taken[n - 1]
  BY <1>9
<1> QED BY <1>2, <1>9, <1>10, <1>11 DEF N, V

\* What the program knows of a fork.
LEMMA ForkParts ==
  ASSUME NEW f \in Forks
  PROVE  /\ f.size \in Nat /\ f.inline \in Seq(Extent) /\ Len(f.inline) <= MaxInline
         /\ IsTree(f.tree) /\ DOMAIN f.tree = 1 .. Len(f.tree)
         /\ \A i \in DOMAIN f.tree : f.tree[i].startBlock \in Nat
         /\ AllExtents(f) \in Seq(Extent)
<1>1. /\ f.size \in Nat /\ f.inline \in Seq(Extent) /\ Len(f.inline) <= MaxInline
      /\ Len(f.tree) \in Nat /\ DOMAIN f.tree = 1 .. Len(f.tree)
      /\ \A i \in DOMAIN f.tree : f.tree[i].startBlock \in Nat /\ f.tree[i].extents \in Seq(Extent)
  BY ForkAssumption
<1>2. IsTree(f.tree)
  BY <1>1 DEF IsTree
<1>3. ExtentsOf(f.tree, Own(f)) \in Seq(Extent)
  <2>1. Len(f.tree) \in 0 .. Len(f.tree)
    BY <1>1
  <2> QED BY <1>2, <2>1, ExtentsTaken DEF ExtentsOf
<1>4. AllExtents(f) \in Seq(Extent)
  BY <1>1, <1>3, BlocksOfBoth DEF AllExtents
<1> QED BY <1>1, <1>2, <1>4

\* Records without extents add none.
LEMMA NoneTaken ==
  ASSUME NEW tree, IsTree(tree), NEW S, \A i \in S \cap 1 .. Len(tree) : tree[i].extents = <<>>
  PROVE  ExtentsOf(tree, S) = <<>>
<1> DEFINE N == Len(tree)
           T == {n \in 0 .. N : ExtentsUpTo(tree, S, n) = <<>>}
<1>1. N \in Nat
  BY DEF IsTree
<1> HIDE DEF N
<1>a. /\ ExtentsUpTo(tree, S, 0) = <<>>
      /\ \A k \in 1 .. N :
           /\ k \in S => ExtentsUpTo(tree, S, k) = ExtentsUpTo(tree, S, k - 1) \o tree[k].extents
           /\ k \notin S => ExtentsUpTo(tree, S, k) = ExtentsUpTo(tree, S, k - 1)
  BY ExtentsTaken, Zenon DEF N
<1>2. 0 \in T
  BY <1>1, <1>a
<1>3. ASSUME NEW n \in 1 .. N, n - 1 \in T PROVE n \in T
  <2>1. ExtentsUpTo(tree, S, n - 1) = <<>> /\ n \in 0 .. N
    BY <1>1, <1>3
  <2>2. ExtentsUpTo(tree, S, n) = IF n \in S THEN <<>> \o <<>> ELSE <<>>
    BY <1>a, <2>1 DEF N
  <2> QED BY <2>1, <2>2
<1> HIDE DEF T
<1>4. 0 .. N \subseteq T
  BY <1>1, <1>2, <1>3, UpTo, Zenon
<1>5. N \in T
  BY <1>1, <1>4
<1> QED BY <1>5 DEF T, N, ExtentsOf

\* The blocks up to a record are blocks of the fork, and not all if the record
\* has extents.
LEMMA BlocksUpTo ==
  ASSUME NEW f \in Forks, NEW k \in 0 .. Len(f.tree)
  PROVE  LET upTo == Blocks(f.inline \o ExtentsUpTo(f.tree, Own(f), k)) IN
         /\ upTo \in Nat /\ Blocks(f.inline) <= upTo /\ upTo <= Blocks(AllExtents(f))
         /\ k + 1 \in Own(f) /\ f.tree[k + 1].extents # <<>> => upTo < Blocks(AllExtents(f))
<1> DEFINE N    == Len(f.tree)
           X(n) == ExtentsUpTo(f.tree, Own(f), n)
           B(n) == Blocks(f.inline \o X(n))
           S    == {n \in 0 .. N : B(N - n) <= B(N)}
<1>1. /\ N \in Nat /\ f.inline \in Seq(Extent) /\ IsTree(f.tree) /\ DOMAIN f.tree = 1 .. N
      /\ \A n \in 1 .. N : f.tree[n].extents \in Seq(Extent)
  BY ForkParts DEF IsTree
<1>2. /\ \A n \in 0 .. N : X(n) \in Seq(Extent)
      /\ \A n \in 1 .. N : n \in Own(f) => X(n) = X(n - 1) \o f.tree[n].extents
      /\ \A n \in 1 .. N : n \notin Own(f) => X(n) = X(n - 1)
  BY <1>1, ExtentsTaken, Zenon
<1> HIDE DEF X
<1>3. \A n \in 0 .. N : B(n) \in Nat /\ Blocks(f.inline) <= B(n)
  BY <1>1, <1>2, BlocksOfBoth
<1>4. ASSUME NEW n \in 1 .. N
      PROVE  /\ B(n - 1) <= B(n)
             /\ n \in Own(f) /\ f.tree[n].extents # <<>> => B(n - 1) < B(n)
  <2>1. n - 1 \in 0 .. N /\ n \in 0 .. N
    BY <1>1
  <2>2. CASE n \in Own(f)
    <3> DEFINE a == f.inline \o X(n - 1)
               b == f.tree[n].extents
    <3>1. a \in Seq(Extent) /\ b \in Seq(Extent)
      BY <1>1, <1>2, <2>1, BlocksOfBoth
    <3>2. f.inline \o X(n) = a \o b
      <4>1. ASSUME NEW s \in Seq(Extent), NEW t \in Seq(Extent), NEW u \in Seq(Extent)
            PROVE  s \o (t \o u) = (s \o t) \o u
        BY ConcatAssociative, SMTT(30)
      <4>2. X(n - 1) \in Seq(Extent) /\ b \in Seq(Extent)
        BY <1>1, <1>2, <2>1
      <4>3. X(n) = X(n - 1) \o b
        BY <1>2, <2>2
      <4> HIDE DEF b
      <4>4. f.inline \o (X(n - 1) \o b) = (f.inline \o X(n - 1)) \o b
        BY <1>1, <4>1, <4>2, Zenon
      <4> QED BY <4>3, <4>4, Zenon
    <3> HIDE DEF a, b
    <3>3. Blocks(a) <= Blocks(a \o b) /\ (b # <<>> => Blocks(a) < Blocks(a \o b))
      BY <3>1, BlocksOfBoth
    <3> QED BY <3>2, <3>3 DEF a, b
  <2>3. CASE n \notin Own(f)
    <3>1. X(n) = X(n - 1)
      BY <1>2, <2>3
    <3>2. B(n) = B(n - 1)
      BY <3>1
    <3> QED BY <1>3, <2>1, <2>3, <3>2
  <2> QED BY <2>2, <2>3
<1> HIDE DEF B
<1>5. 0 \in S
  BY <1>1, <1>3
<1>6. ASSUME NEW n \in 1 .. N, n - 1 \in S PROVE n \in S
  <2>1. /\ N - n \in 0 .. N /\ N - (n - 1) \in 1 .. N /\ (N - (n - 1)) - 1 = N - n
        /\ n \in 0 .. N /\ N \in 0 .. N /\ N - (n - 1) \in 0 .. N
    BY <1>1
  <2>2. B(N - n) <= B(N - (n - 1)) /\ B(N - (n - 1)) <= B(N)
    BY <1>4, <1>6, <2>1
  <2>3. B(N - n) \in Nat /\ B(N - (n - 1)) \in Nat /\ B(N) \in Nat
    BY <1>3, <2>1
  <2>4. B(N - n) <= B(N)
    BY <2>2, <2>3
  <2> QED BY <2>1, <2>4
<1> HIDE DEF S
<1>7. 0 .. N \subseteq S
  BY <1>1, <1>5, <1>6, UpTo, Zenon
<1>8. ASSUME NEW n \in 0 .. N PROVE B(n) <= B(N)
  <2>1. N - n \in 0 .. N /\ N - (N - n) = n
    BY <1>1
  <2>2. N - n \in S
    BY <1>7, <2>1
  <2>3. B(N - (N - n)) <= B(N)
    BY <2>2 DEF S
  <2> QED BY <2>1, <2>3
<1>9. B(N) = Blocks(AllExtents(f))
  BY DEF B, X, AllExtents, ExtentsOf
<1>10. ASSUME k + 1 \in Own(f), f.tree[k + 1].extents # <<>> PROVE B(k) < B(N)
  <2>1. k + 1 \in 1 .. N /\ (k + 1) - 1 = k /\ k + 1 \in 0 .. N /\ N \in 0 .. N
    BY <1>1, <1>10 DEF Own
  <2>2. B(k) < B(k + 1) /\ B(k + 1) <= B(N)
    BY <1>4, <1>8, <1>10, <2>1
  <2>3. B(k) \in Nat /\ B(k + 1) \in Nat /\ B(N) \in Nat
    BY <1>3, <2>1
  <2> QED BY <2>2, <2>3
<1> QED BY <1>3, <1>8, <1>9, <1>10 DEF B, X

----------------------------------------------------------------------------
(* The overflow tree.                                                      *)

\* Behind the extents of the catalog record all records of the fork are
\* missing, and the first of them is the one that is looked for.
LEMMA AllMissing ==
  ASSUME fork \in Forks, Chained(fork)
  PROVE  /\ Found(Blocks(fork.inline)) = ExtentsOf(fork.tree, Own(fork))
         /\ ~ Unexpected(Blocks(fork.inline))
<1> DEFINE b == Blocks(fork.inline)
<1>1. Missing(b) = Own(fork)
  <2>1. ASSUME NEW i \in Own(fork) PROVE fork.tree[i].startBlock >= b
    <3>1. i - 1 \in 0 .. Len(fork.tree)
      BY ForkParts DEF Own, IsTree
    <3>2. fork.tree[i].startBlock = Blocks(fork.inline \o ExtentsUpTo(fork.tree, Own(fork), i - 1))
      BY DEF Chained
    <3>3. fork.tree[i].startBlock \in Nat /\ b \in Nat /\ b <= fork.tree[i].startBlock
      <4>1. Blocks(fork.inline) \in Nat
        BY ForkParts, BlocksAddUp DEF Blocks
      <4> QED BY <3>1, <3>2, <4>1, BlocksUpTo
    <3> QED BY <3>3
  <2> QED BY <2>1 DEF Missing, Own, Mine
<1>2. Found(b) = ExtentsOf(fork.tree, Own(fork))
  BY <1>1 DEF Found
<1>3. ASSUME NEW i \in Own(fork), \A j \in Own(fork) : i <= j
      PROVE  fork.tree[i].startBlock = b
  <2> DEFINE S == Own(fork)
             N == Len(fork.tree)
             T == {n \in 0 .. i - 1 : ExtentsUpTo(fork.tree, S, n) = <<>>}
  <2>1. i \in 1 .. N /\ N \in Nat /\ IsTree(fork.tree)
    BY ForkParts DEF Own, IsTree
  <2>2. ASSUME NEW n \in 1 .. i - 1 PROVE n \in 1 .. N /\ n \notin S
    <3>1. n \in 1 .. N /\ ~ (i <= n)
      BY <2>1
    <3> QED BY <1>3, <3>1
  <2> HIDE DEF N, S
  <2>3. /\ ExtentsUpTo(fork.tree, S, 0) = <<>>
        /\ \A k \in 1 .. N : k \notin S => ExtentsUpTo(fork.tree, S, k) = ExtentsUpTo(fork.tree, S, k - 1)
    BY <2>1, ExtentsTaken DEF N
  <2>4. 0 \in T
    BY <2>1, <2>3
  <2>5. ASSUME NEW n \in 1 .. i - 1, n - 1 \in T PROVE n \in T
    <3>1. n \in 0 .. i - 1 /\ ExtentsUpTo(fork.tree, S, n - 1) = <<>>
      BY <2>1, <2>5
    <3>2. ExtentsUpTo(fork.tree, S, n) = <<>>
      BY <2>2, <2>3, <3>1
    <3> QED BY <3>1, <3>2
  <2> HIDE DEF T
  <2>6. i - 1 \in Nat /\ i - 1 \in 0 .. i - 1
    BY <2>1
  <2>7. 0 .. i - 1 \subseteq T
    BY <2>4, <2>5, <2>6, UpTo, Zenon
  <2>8. ExtentsUpTo(fork.tree, S, i - 1) = <<>>
    BY <2>6, <2>7 DEF T
  <2>9. fork.inline \o <<>> = fork.inline
    <3>1. fork.inline \in Seq(Extent)
      BY ForkParts
    <3> QED BY <3>1
  <2>10. fork.tree[i].startBlock = Blocks(fork.inline \o ExtentsUpTo(fork.tree, Own(fork), i - 1))
    BY DEF Chained
  <2> QED BY <2>8, <2>9, <2>10 DEF S
<1>4. ~ Unexpected(b)
  BY <1>1, <1>3 DEF Unexpected
<1> QED BY <1>2, <1>4

\* Behind all extents of the fork none is missing.
LEMMA NoneMissing ==
  ASSUME fork \in Forks, Chained(fork)
  PROVE  Found(Blocks(AllExtents(fork))) = <<>>
<1> DEFINE b == Blocks(AllExtents(fork))
<1>1. ASSUME NEW i \in Missing(b) PROVE fork.tree[i].extents = <<>>
  <2> SUFFICES ASSUME fork.tree[i].extents # <<>> PROVE FALSE
    OBVIOUS
  <2>1. i \in Own(fork) /\ fork.tree[i].startBlock >= b /\ fork.tree[i].startBlock \in Nat
    BY ForkParts DEF Missing, Own, Mine
  <2>2. i - 1 \in 0 .. Len(fork.tree) /\ (i - 1) + 1 = i
    BY <2>1, ForkParts DEF Own, IsTree
  <2>3. fork.tree[i].startBlock = Blocks(fork.inline \o ExtentsUpTo(fork.tree, Own(fork), i - 1))
    BY <2>1 DEF Chained
  <2>4. fork.tree[i].startBlock < b
    BY <2>1, <2>2, <2>3, BlocksUpTo
  <2>5. b \in Nat
    BY ForkParts, BlocksAddUp DEF Blocks
  <2> HIDE DEF b
  <2> QED BY <2>1, <2>4, <2>5
<1>2. IsTree(fork.tree)
  BY ForkParts
<1> QED BY <1>1, <1>2, NoneTaken DEF Found

----------------------------------------------------------------------------
(* The invariant.                                                          *)

\* Every variable has its type.
ForkTypeOK ==
  /\ fork \in Forks /\ m_extents \in Seq(Extent)
  /\ pc \in {"idle", "begin", "search", "copy", "returned", "failed"}
  /\ offset \in Nat /\ count \in Nat /\ extent \in 1 .. Len(m_extents) + 1
  /\ blocksSoFar \in Nat /\ offsetInExtent \in Int /\ read \in Int

\* The place in the extents is where the reading is: the offset of the next
\* byte is in the extent, or looked for behind it.
PlaceInv ==
  /\ pc = "begin" => extent = 1 /\ blocksSoFar = 0 /\ offsetInExtent = offset /\ read = 0
  /\ pc = "search" => read = 0 /\ 0 < Wanted
  /\ pc \in {"search", "copy"} =>
       /\ blocksSoFar = BlocksBefore(m_extents, extent)
       /\ read \in 0 .. Wanted
       /\ read < Wanted => /\ blocksSoFar * BlockSize + offsetInExtent = offset + read
                           /\ offsetInExtent >= 0
  /\ pc = "copy" /\ read < Wanted =>
       IF Known THEN offsetInExtent < Here.count * BlockSize ELSE offsetInExtent = 0

\* The extents are those of the catalog record, or all.
OwnInv == Chained(fork) => ExtentsAreOwn

ForkInv == ForkTypeOK /\ PlaceInv /\ OwnInv /\ Succeeds

\* Blocks have a size.
LEMMA BlockSizeTyped == BlockSize \in Nat /\ BlockSize > 0 /\ BlockSize \in Nat \ {0}
BY ForkAssumption

\* The bytes of extents.
LEMMA BytesOf ==
  ASSUME NEW b \in Nat, NEW c \in Nat
  PROVE  (b + c) * BlockSize = b * BlockSize + c * BlockSize /\ b * BlockSize \in Nat
BY ForkAssumption

\* The extent at a place.
LEMMA HereTyped ==
  ASSUME ForkTypeOK, Known
  PROVE  /\ extent \in 1 .. Len(m_extents) /\ extent + 1 \in 1 .. Len(m_extents) + 1
         /\ Here \in Extent /\ Here.start \in Nat /\ Here.count \in Nat /\ Here.count > 0
         /\ BlocksBefore(m_extents, extent) \in Nat
         /\ BlocksBefore(m_extents, extent + 1) = BlocksBefore(m_extents, extent) + Here.count
<1>1. extent \in 1 .. Len(m_extents) /\ extent + 1 \in 1 .. Len(m_extents) + 1 /\ Len(m_extents) \in Nat
  BY DEF ForkTypeOK, Known
<1>2. Here \in Extent
  BY <1>1 DEF ForkTypeOK, Here
<1>3. Here.start \in Nat /\ Here.count \in Nat /\ Here.count > 0
  BY <1>2 DEF Extent
<1>4. /\ BlocksBefore(m_extents, extent) \in Nat
      /\ BlocksBefore(m_extents, extent + 1) = BlocksBefore(m_extents, extent) + Here.count
  BY <1>1, BlocksAddUp DEF ForkTypeOK, Here
<1> QED BY <1>1, <1>2, <1>3, <1>4

\* How much there is to read.
LEMMA WantedTyped ==
  ASSUME ForkTypeOK
  PROVE  /\ Wanted \in Nat /\ fork.size \in Nat /\ Wanted <= count
         /\ Wanted > 0 => offset + Wanted <= fork.size
         /\ Wanted < count => offset + Wanted >= fork.size
<1>1. fork.size \in Nat /\ offset \in Nat /\ count \in Nat
  BY ForkParts DEF ForkTypeOK
<1> QED BY <1>1 DEF Wanted

\* While a read looks for an extent it does not know, what it has counted are
\* the blocks of all that are known.
LEMMA BehindKnown ==
  ASSUME ForkInv, NeedsMore
  PROVE  /\ pc \in {"search", "copy"} /\ read < Wanted
         /\ extent = Len(m_extents) + 1 /\ blocksSoFar = Blocks(m_extents)
         /\ blocksSoFar * BlockSize <= offset + read /\ offset + read < fork.size
<1>1. /\ pc \in {"search", "copy"} /\ read < Wanted /\ ~ Known
      /\ extent \in 1 .. Len(m_extents) + 1 /\ Len(m_extents) \in Nat
      /\ blocksSoFar = BlocksBefore(m_extents, extent) /\ read \in 0 .. Wanted
      /\ blocksSoFar \in Nat /\ offsetInExtent \in Int /\ offset \in Nat
      /\ blocksSoFar * BlockSize + offsetInExtent = offset + read /\ offsetInExtent >= 0
  BY DEF ForkInv, ForkTypeOK, PlaceInv, NeedsMore
<1>2. extent = Len(m_extents) + 1
  BY <1>1 DEF Known
<1>3. blocksSoFar = Blocks(m_extents)
  BY <1>1, <1>2 DEF Blocks
<1>4. blocksSoFar * BlockSize \in Nat /\ 0 \in Nat
  BY <1>1, BytesOf
<1>5. Wanted \in Nat /\ fork.size \in Nat /\ (Wanted > 0 => offset + Wanted <= fork.size)
  BY WantedTyped DEF ForkInv
<1>6. blocksSoFar * BlockSize <= offset + read
  BY <1>1, <1>4
<1>7. offset + read < fork.size
  BY <1>1, <1>5
<1> QED BY <1>1, <1>2, <1>3, <1>6, <1>7

\* What a load adds.
LEMMA LoadAdds ==
  ASSUME ForkInv, Load
  PROVE  /\ m_extents' \in Seq(Extent) /\ Len(m_extents) < Len(m_extents')
         /\ \A k \in 1 .. Len(m_extents) : m_extents'[k] = m_extents[k]
         /\ \A k \in 1 .. Len(m_extents) + 1 :
              BlocksBefore(m_extents', k) = BlocksBefore(m_extents, k)
         /\ Chained(fork) => m_extents' = AllExtents(fork)
<1> DEFINE x == Found(blocksSoFar)
<1>1. /\ m_extents \in Seq(Extent) /\ fork \in Forks /\ blocksSoFar = Blocks(m_extents)
      /\ NeedsMore /\ m_extents' = m_extents \o x /\ x # <<>>
  BY BehindKnown DEF ForkInv, ForkTypeOK, Load
<1>2. x \in Seq(Extent)
  <2>1. IsTree(fork.tree) /\ Len(fork.tree) \in 0 .. Len(fork.tree)
    BY <1>1, ForkParts DEF IsTree
  <2> QED BY <2>1, ExtentsTaken DEF Found, ExtentsOf
<1>3. Chained(fork) => m_extents' = AllExtents(fork)
  <2> SUFFICES ASSUME Chained(fork) PROVE m_extents' = AllExtents(fork)
    OBVIOUS
  <2>1. m_extents \in {fork.inline, AllExtents(fork)}
    BY DEF ForkInv, OwnInv, ExtentsAreOwn
  <2>2. m_extents # AllExtents(fork)
    BY <1>1, NoneMissing
  <2>3. m_extents = fork.inline
    BY <2>1, <2>2
  <2> QED BY <1>1, <2>3, AllMissing DEF AllExtents
<1> HIDE DEF x
<1>4. m_extents \o x \in Seq(Extent) /\ Len(m_extents) < Len(m_extents \o x)
      /\ \A k \in 1 .. Len(m_extents) : (m_extents \o x)[k] = m_extents[k]
  BY <1>1, <1>2
<1>5. \A k \in 1 .. Len(m_extents) + 1 : BlocksBefore(m_extents \o x, k) = BlocksBefore(m_extents, k)
  BY <1>1, <1>2, BlocksOfBoth
<1> QED BY <1>1, <1>3, <1>4, <1>5

\* An intact fork is not refused a load.
LEMMA NotInVain ==
  ASSUME ForkInv, LoadsNothing
  PROVE  ~ Intact
<1> SUFFICES ASSUME Intact PROVE FALSE
  OBVIOUS
<1>1. /\ fork \in Forks /\ Chained(fork) /\ m_extents \in {fork.inline, AllExtents(fork)}
      /\ blocksSoFar = Blocks(m_extents)
      /\ blocksSoFar * BlockSize <= offset + read /\ offset + read < fork.size
      /\ Blocks(AllExtents(fork)) * BlockSize >= fork.size
  BY BehindKnown DEF ForkInv, ForkTypeOK, OwnInv, ExtentsAreOwn, Intact, LoadsNothing
<1>2. m_extents # AllExtents(fork)
  <2> SUFFICES ASSUME m_extents = AllExtents(fork) PROVE FALSE
    OBVIOUS
  <2> DEFINE b == blocksSoFar * BlockSize
  <2>1. b <= offset + read /\ offset + read < fork.size /\ b >= fork.size
    BY <1>1
  <2>2. b \in Nat /\ offset + read \in Int /\ fork.size \in Nat
    <3>1. blocksSoFar \in Nat /\ offset \in Nat /\ read \in Int /\ fork.size \in Nat
      BY ForkParts DEF ForkInv, ForkTypeOK
    <3>2. b \in Nat
      BY <3>1, BytesOf
    <3> QED BY <3>1, <3>2
  <2> HIDE DEF b
  <2> QED BY <2>1, <2>2
<1>3. m_extents = fork.inline /\ AllExtents(fork) # fork.inline
  BY <1>1, <1>2
<1>4. fork.cnid # NullID /\ Len(fork.inline) = MaxInline
  BY <1>3 DEF Intact
<1>5. fork.inline \in Seq(Extent)
  BY <1>1, ForkParts
<1>6. ~ NoOthers
  BY <1>3, <1>4, <1>5 DEF NoOthers
<1>7. ~ Unexpected(blocksSoFar) /\ Found(blocksSoFar) # <<>>
  <2>1. fork.inline \o <<>> = fork.inline
    BY <1>5
  <2> QED BY <1>1, <1>3, <2>1, AllMissing DEF AllExtents
<1> QED BY <1>4, <1>6, <1>7 DEF LoadsNothing

\* The initial states.
LEMMA ForkInvInit == Init => ForkInv
<1> SUFFICES ASSUME Init PROVE ForkInv
  OBVIOUS
<1>1. fork \in Forks /\ m_extents = fork.inline /\ m_extents \in Seq(Extent)
  BY ForkParts DEF Init
<1>2. ForkTypeOK
  BY <1>1 DEF Init, ForkTypeOK
<1>3. PlaceInv
  BY DEF Init, PlaceInv
<1> QED BY <1>1, <1>2, <1>3 DEF Init, ForkInv, OwnInv, ExtentsAreOwn, Succeeds

\* A step from one place to another, with the extents as they are.
LEMMA ForkInvKept ==
  ASSUME ForkInv, UNCHANGED <<fork, m_extents>>, ForkTypeOK', PlaceInv',
         pc' # "failed" \/ (pc = "failed" /\ UNCHANGED faulted) \/ faulted' = TRUE
  PROVE  ForkInv'
<1>1. OwnInv'
  BY DEF ForkInv, OwnInv, ExtentsAreOwn, Chained
<1>2. Succeeds'
  BY DEF ForkInv, Succeeds, Intact, Chained
<1> QED BY <1>1, <1>2 DEF ForkInv

LEMMA ReadKeeps ==
  ASSUME ForkInv, NEW o \in Offsets, NEW n \in Counts, Read(o, n)
  PROVE  ForkInv'
<1>1. ForkTypeOK'
  BY ForkAssumption DEF ForkInv, ForkTypeOK, Read
<1>2. PlaceInv'
  BY DEF Read, PlaceInv
<1> QED BY <1>1, <1>2, ForkInvKept DEF Read

LEMMA BeginKeeps ==
  ASSUME ForkInv, Begin
  PROVE  ForkInv'
<1>1. ForkTypeOK'
  BY DEF ForkInv, ForkTypeOK, Begin, local
<1>2. PlaceInv'
  <2>1. Wanted' = Wanted /\ Wanted \in Nat
    BY WantedTyped DEF Begin, local, Wanted, ForkInv
  <2>2. m_extents \in Seq(Extent) /\ BlocksBefore(m_extents, 1) = 0
    BY BlocksAddUp DEF ForkInv, ForkTypeOK
  <2>3. /\ extent = 1 /\ blocksSoFar = 0 /\ offsetInExtent = offset /\ read = 0 /\ offset \in Nat
        /\ UNCHANGED <<m_extents, extent, blocksSoFar, offsetInExtent, read, offset>>
        /\ pc' = IF Wanted = 0 THEN "returned" ELSE "search"
    BY DEF ForkInv, ForkTypeOK, PlaceInv, Begin, local
  <2>4. 0 * BlockSize + offset = offset + 0
    BY <2>3, ForkAssumption
  <2> QED BY <2>1, <2>2, <2>3, <2>4 DEF PlaceInv
<1> QED BY <1>1, <1>2, ForkInvKept DEF Begin

\* The place after an extent is the place in the next.
LEMMA PassByKeeps ==
  ASSUME ForkInv, PassBy
  PROVE  ForkInv'
<1>1. /\ pc = "search" /\ pc' = "search" /\ read = 0 /\ 0 < Wanted /\ Known
      /\ extent \in 1 .. Len(m_extents) + 1 /\ offset \in Nat /\ offsetInExtent \in Int
      /\ blocksSoFar \in Nat /\ blocksSoFar = BlocksBefore(m_extents, extent)
      /\ blocksSoFar * BlockSize + offsetInExtent = offset
      /\ Here.count + blocksSoFar <= offset \div BlockSize
      /\ UNCHANGED <<fork, m_extents, offset, count, read, faulted>>
  BY DEF ForkInv, ForkTypeOK, PlaceInv, PassBy
<1> DEFINE b == blocksSoFar + Here.count
           o == offsetInExtent - Here.count * BlockSize
<1>2. blocksSoFar' = b /\ offsetInExtent' = o /\ extent' = extent + 1
  BY DEF PassBy
<1>3. /\ Here.count \in Nat /\ extent + 1 \in 1 .. Len(m_extents) + 1
      /\ BlocksBefore(m_extents, extent + 1) = b
  BY <1>1, HereTyped DEF ForkInv
<1>4. /\ b \in Nat /\ Here.count * BlockSize \in Nat /\ blocksSoFar * BlockSize \in Nat
      /\ b * BlockSize = blocksSoFar * BlockSize + Here.count * BlockSize /\ b * BlockSize \in Nat
  <2>1. b \in Nat /\ Here.count \in Nat /\ blocksSoFar \in Nat
    BY <1>1, <1>3
  <2>2. b * BlockSize = blocksSoFar * BlockSize + Here.count * BlockSize
    BY <2>1, BytesOf
  <2> HIDE DEF b
  <2> QED BY <2>1, <2>2, BytesOf
<1>5. o \in Int /\ b * BlockSize + o = offset
  BY <1>1, <1>4
<1>6. b * BlockSize <= offset
  <2>1. /\ offset \div BlockSize \in Nat /\ (offset \div BlockSize) * BlockSize <= offset
        /\ b <= offset \div BlockSize
    BY <1>1, <1>3, Within, BlockSizeTyped, SMTT(30)
  <2>2. b * BlockSize <= (offset \div BlockSize) * BlockSize
    BY <1>4, <2>1, Scaled, ForkAssumption
  <2>3. (offset \div BlockSize) * BlockSize \in Nat
    BY <2>1, BytesOf
  <2> QED BY <1>1, <1>4, <2>1, <2>2, <2>3
<1> DEFINE bytes == b * BlockSize
<1>7. bytes \in Nat /\ o >= 0 /\ bytes + o = offset
  <2>1. bytes \in Nat /\ bytes + o = offset /\ bytes <= offset
    BY <1>4, <1>5, <1>6
  <2> HIDE DEF bytes, o
  <2> QED BY <1>1, <1>5, <2>1
<1>8. Wanted' = Wanted
  BY <1>1 DEF Wanted
<1>9. blocksSoFar' * BlockSize + offsetInExtent' = offset' + read'
  BY <1>1, <1>2, <1>7
<1> HIDE DEF b, o
<1>10. ForkTypeOK'
  BY <1>1, <1>2, <1>3, <1>4, <1>5 DEF ForkInv, ForkTypeOK
<1>11. PlaceInv'
  BY <1>1, <1>2, <1>3, <1>7, <1>8, <1>9, WantedTyped DEF PlaceInv, ForkInv
<1> QED BY <1>1, <1>10, <1>11, ForkInvKept

\* The extent that holds the offset has been found.
LEMMA LocateKeeps ==
  ASSUME ForkInv, Locate
  PROVE  ForkInv'
<1>1. /\ pc = "search" /\ pc' = "copy" /\ Known
      /\ offset \in Nat /\ offsetInExtent \in Int /\ blocksSoFar \in Nat /\ read = 0
      /\ blocksSoFar * BlockSize + offsetInExtent = offset
      /\ Here.count + blocksSoFar > offset \div BlockSize
      /\ UNCHANGED <<fork, m_extents, local, faulted>>
  BY DEF ForkInv, ForkTypeOK, PlaceInv, Locate
<1>2. offsetInExtent < Here.count * BlockSize
  <2> DEFINE b == blocksSoFar + Here.count
             q == offset \div BlockSize
  <2>1. b \in Nat /\ Here.count \in Nat /\ q + 1 <= b /\ q \in Nat /\ offset < (q + 1) * BlockSize
    <3>1. Here.count \in Nat /\ b \in Nat
      BY <1>1, HereTyped DEF ForkInv
    <3>2. q \in Nat /\ offset < (q + 1) * BlockSize
      BY <1>1, Within, ForkAssumption
    <3>3. Here.count + blocksSoFar > q
      BY <1>1
    <3> HIDE DEF q
    <3> QED BY <1>1, <3>1, <3>2, <3>3
  <2>2. b * BlockSize = blocksSoFar * BlockSize + Here.count * BlockSize
    BY <1>1, <2>1, BytesOf
  <2> HIDE DEF b, q
  <2>3. (q + 1) * BlockSize <= b * BlockSize /\ q + 1 \in Nat
    BY <2>1, Scaled, ForkAssumption
  <2>4. /\ (q + 1) * BlockSize \in Nat /\ b * BlockSize \in Nat
        /\ blocksSoFar * BlockSize \in Nat /\ Here.count * BlockSize \in Nat
    BY <1>1, <2>1, <2>3, BytesOf
  <2> QED BY <1>1, <2>1, <2>2, <2>3, <2>4
<1>3. Wanted' = Wanted /\ Known' /\ Here' = Here
  BY <1>1 DEF Wanted, Known, Here, local
<1>4. ForkTypeOK'
  BY <1>1 DEF ForkInv, ForkTypeOK, local
<1>5. PlaceInv'
  <2>1. UNCHANGED <<offset, extent, blocksSoFar, offsetInExtent, read, m_extents>> /\ pc' = "copy"
    BY <1>1 DEF local
  <2>2. Here.count' = Here.count
    BY <1>3
  <2> QED BY <1>1, <1>2, <1>3, <2>1, <2>2 DEF ForkInv, PlaceInv
<1> QED BY <1>1, <1>4, <1>5, ForkInvKept

\* What is loaded goes on where the extents ended.
LEMMA LoadKeeps ==
  ASSUME ForkInv, Load
  PROVE  ForkInv'
<1>1. /\ pc \in {"search", "copy"} /\ read < Wanted /\ extent = Len(m_extents) + 1
      /\ UNCHANGED <<fork, pc, local, faulted>> /\ ~ Known /\ m_extents \in Seq(Extent)
  BY BehindKnown DEF Load, NeedsMore, ForkInv, ForkTypeOK
<1>2. /\ UNCHANGED <<pc, offset, count, extent, blocksSoFar, offsetInExtent, read, fork, faulted>>
      /\ Wanted' = Wanted
  BY <1>1 DEF local, Wanted
<1>3. /\ m_extents' \in Seq(Extent) /\ Len(m_extents) < Len(m_extents')
      /\ BlocksBefore(m_extents', extent) = BlocksBefore(m_extents, extent)
  BY <1>1, LoadAdds
<1>4. /\ extent \in 1 .. Len(m_extents') /\ extent \in 1 .. Len(m_extents') + 1
      /\ Len(m_extents) \in Nat /\ Len(m_extents') \in Nat
  BY <1>1, <1>3
<1>5. ForkTypeOK'
  BY <1>2, <1>3, <1>4 DEF ForkInv, ForkTypeOK
<1>6. Known' /\ Here'.count \in Nat \ {0}
  <2>1. m_extents'[extent] \in Extent
    BY <1>3, <1>4
  <2> QED BY <1>2, <1>4, <2>1 DEF Known, Here, Extent
<1>7. PlaceInv'
  <2>1. 0 < Here'.count * BlockSize
    <3> DEFINE c == Here'.count
    <3>1. c \in Nat /\ 0 < c
      BY <1>6
    <3> HIDE DEF c
    <3>2. 0 < c * BlockSize
      BY <3>1, ForkAssumption
    <3> QED BY <3>2 DEF c
  <2>2. pc = "copy" => offsetInExtent = 0
    BY <1>1 DEF ForkInv, PlaceInv
  <2>3. pc' = "copy" => offsetInExtent' < Here'.count * BlockSize
    BY <1>2, <2>1, <2>2
  <2> QED BY <1>1, <1>2, <1>3, <1>6, <2>3 DEF ForkInv, PlaceInv
<1>8. OwnInv'
  BY <1>2, LoadAdds DEF OwnInv, ExtentsAreOwn, Chained
<1>9. Succeeds'
  BY <1>1, <1>2 DEF Succeeds
<1> QED BY <1>5, <1>7, <1>8, <1>9 DEF ForkInv

LEMMA LoadsNothingKeeps ==
  ASSUME ForkInv, LoadsNothing
  PROVE  ForkInv'
<1>1. pc' = "failed" /\ UNCHANGED <<fork, m_extents, local, faulted>> /\ ~ Intact
  BY NotInVain DEF LoadsNothing, Throw
<1>2. ForkTypeOK'
  BY <1>1 DEF ForkInv, ForkTypeOK, local
<1>3. PlaceInv'
  BY <1>1 DEF PlaceInv
<1>4. OwnInv'
  BY <1>1 DEF ForkInv, OwnInv, ExtentsAreOwn, Chained
<1>5. Succeeds'
  <2>1. Intact' = Intact
    BY <1>1 DEF Intact, Chained
  <2> QED BY <1>1, <2>1 DEF Succeeds
<1> QED BY <1>2, <1>3, <1>4, <1>5 DEF ForkInv

\* What is copied ends where the extent ends, or all is read.
LEMMA CopyKeeps ==
  ASSUME ForkInv, Copy
  PROVE  /\ ForkInv'
         /\ ThisTime \in Nat /\ read + ThisTime <= Wanted
         /\ offsetInExtent + ThisTime <= Here.count * BlockSize
<1> DEFINE n    == ThisTime
           rest == Here.count * BlockSize - offsetInExtent
           b    == blocksSoFar + Here.count
<1>1. /\ pc = "copy" /\ pc' = "copy" /\ read < Wanted /\ Known
      /\ offset \in Nat /\ offsetInExtent \in Int /\ blocksSoFar \in Nat /\ read \in 0 .. Wanted
      /\ blocksSoFar = BlocksBefore(m_extents, extent)
      /\ blocksSoFar * BlockSize + offsetInExtent = offset + read
      /\ offsetInExtent >= 0 /\ offsetInExtent < Here.count * BlockSize
      /\ UNCHANGED <<fork, m_extents, offset, count, faulted>>
  BY DEF ForkInv, ForkTypeOK, PlaceInv, Copy
<1>2. blocksSoFar' = b /\ extent' = extent + 1 /\ offsetInExtent' = 0 /\ read' = read + n
  BY DEF Copy, BlocksRead, NextOffset
<1>3. /\ Here.count \in Nat /\ extent + 1 \in 1 .. Len(m_extents) + 1
      /\ BlocksBefore(m_extents, extent + 1) = b /\ b \in Nat /\ Wanted \in Nat
  BY <1>1, HereTyped, WantedTyped, SMTT(30) DEF ForkInv
<1>4. /\ Here.count * BlockSize \in Nat /\ blocksSoFar * BlockSize \in Nat
      /\ b * BlockSize = blocksSoFar * BlockSize + Here.count * BlockSize
  BY <1>1, <1>3, BytesOf
<1>5. n = IF rest <= Wanted - read THEN rest ELSE Wanted - read
  BY DEF ThisTime, Smaller
<1>6. rest \in Nat /\ rest > 0
  BY <1>1, <1>4
<1> HIDE DEF n, rest, b
<1>7. /\ n \in Nat /\ read + n \in 0 .. Wanted /\ n <= rest
      /\ read + n < Wanted => n = rest
  BY <1>1, <1>3, <1>5, <1>6
<1>8. offsetInExtent + n <= Here.count * BlockSize
  BY <1>1, <1>4, <1>7 DEF rest
<1>9. read + n < Wanted => b * BlockSize + 0 = offset + (read + n)
  BY <1>1, <1>4, <1>7 DEF rest
<1>10. Wanted' = Wanted
  BY <1>1 DEF Wanted
<1>11. ForkTypeOK'
  BY <1>1, <1>2, <1>3, <1>7 DEF ForkInv, ForkTypeOK
<1>12. PlaceInv'
  <2> DEFINE r == read + n
  <2>1. read' = r
    BY <1>2
  <2>2. r \in 0 .. Wanted /\ (r < Wanted => b * BlockSize + 0 = offset + r)
    BY <1>7, <1>9
  <2>3. Known' => 0 < Here'.count * BlockSize
    <3> SUFFICES ASSUME Known' PROVE 0 < Here'.count * BlockSize
      OBVIOUS
    <3> DEFINE c == Here'.count
    <3>1. extent + 1 \in 1 .. Len(m_extents)
      BY <1>1, <1>2, <1>3 DEF Known, ForkInv, ForkTypeOK
    <3>2. Here' = m_extents[extent + 1] /\ m_extents[extent + 1] \in Extent
      BY <1>1, <1>2, <3>1 DEF Here, ForkInv, ForkTypeOK
    <3>3. c \in Nat /\ 0 < c
      BY <3>2 DEF Extent
    <3> HIDE DEF c
    <3>4. 0 < c * BlockSize
      BY <3>3, ForkAssumption
    <3> QED BY <3>4 DEF c
  <2> HIDE DEF r
  <2>4. Known' => offsetInExtent' < Here'.count * BlockSize
    BY <1>2, <2>3
  <2> QED BY <1>1, <1>2, <1>3, <1>10, <2>1, <2>2, <2>4, SMTT(30) DEF PlaceInv
<1> QED BY <1>1, <1>7, <1>8, <1>11, <1>12, ForkInvKept DEF n

\* What ends a call leaves the extents as they are.
LEMMA EndKeeps ==
  ASSUME ForkInv, LoadFails \/ CopyShort \/ CopyFails \/ Finish \/ Leave
  PROVE  ForkInv'
<1>1. CASE CopyShort
  <2>1. PICK n \in -1 .. ThisTime - 1 : read' = read + n
    BY <1>1 DEF CopyShort
  <2>2. ForkTypeOK'
    BY <1>1, <2>1 DEF ForkInv, ForkTypeOK, CopyShort
  <2>3. PlaceInv'
    BY <1>1 DEF CopyShort, PlaceInv
  <2> QED BY <1>1, <2>2, <2>3, ForkInvKept DEF CopyShort
<1>2. CASE LoadFails \/ CopyFails \/ Finish
  <2>1. ForkTypeOK'
    BY <1>2 DEF ForkInv, ForkTypeOK, LoadFails, CopyFails, Finish, Throw, local
  <2>2. PlaceInv'
    BY <1>2 DEF LoadFails, CopyFails, Finish, Throw, PlaceInv
  <2> QED BY <1>2, <2>1, <2>2, ForkInvKept DEF LoadFails, CopyFails, Finish, Throw
<1>3. CASE Leave
  <2>1. ForkTypeOK'
    BY <1>3 DEF ForkInv, ForkTypeOK, Leave
  <2>2. PlaceInv'
    BY <1>3 DEF Leave, PlaceInv
  <2> QED BY <1>3, <2>1, <2>2, ForkInvKept DEF Leave
<1> QED BY <1>1, <1>2, <1>3

\* Every step keeps the invariant.
LEMMA ForkInvNext == ForkInv /\ [Next]_vars => ForkInv'
<1> SUFFICES ASSUME ForkInv, [Next]_vars PROVE ForkInv'
  OBVIOUS
<1>1. CASE UNCHANGED vars
  <2>1. ForkTypeOK' /\ PlaceInv' /\ pc' = pc /\ UNCHANGED <<fork, m_extents, faulted>>
    BY <1>1 DEF ForkInv, ForkTypeOK, PlaceInv, vars, Wanted, Known, Here
  <2> QED BY <2>1, ForkInvKept
<1>2. CASE Next
  BY <1>2, ReadKeeps, BeginKeeps, PassByKeeps, LocateKeeps, LoadKeeps, LoadsNothingKeeps,
     CopyKeeps, EndKeeps
  DEF Next, Step
<1> QED BY <1>1, <1>2

----------------------------------------------------------------------------
(* The theorems.                                                           *)

\* At every moment of a read, and across a load of extents in its middle, the
\* blocks counted are those of the extents before the current one.
THEOREM ForkPlaceKnown == Spec => []PlaceKnown
<1>1. ForkInv => PlaceKnown
  BY DEF ForkInv, PlaceInv, PlaceKnown
<1> QED BY <1>1, ForkInvInit, ForkInvNext, PTL DEF Spec

\* If the records of each fork in its tree go on where the one before ends,
\* the extents known are those of the catalog record or all the fork has, in
\* whatever order reads have loaded them.
THEOREM ForkExtentsAreOwn ==
  ASSUME \A f \in Forks : Chained(f)
  PROVE  Spec => []ExtentsAreOwn
<1>1. ForkInv => ExtentsAreOwn
  BY DEF ForkInv, ForkTypeOK, OwnInv
<1> QED BY <1>1, ForkInvInit, ForkInvNext, PTL DEF Spec

\* A read of an intact fork fails only if the volume or the tree fails during
\* that read.
THEOREM ForkSucceeds == Spec => []Succeeds
<1>1. ForkInv => Succeeds
  BY DEF ForkInv
<1> QED BY <1>1, ForkInvInit, ForkInvNext, PTL DEF Spec

----------------------------------------------------------------------------
(* The contract of Reader.                                                 *)

\* No block of the volume is in two extents of a fork.
Disjoint(f) ==
  LET all == AllExtents(f) IN
  \A j, k \in DOMAIN all : j # k =>
    \/ all[j].start + all[j].count <= all[k].start
    \/ all[k].start + all[k].count <= all[j].start

\* What read() has put into the buffer: the bytes asked for, from the first
\* on, and all of them when it returns.
FillInv ==
  /\ pc \in {"begin", "search", "copy", "returned"} =>
       buf = [i \in 0 .. read - 1 |-> <<fork, offset + i>>]
  /\ pc = "returned" => read = Wanted

\* The extents known are the first of the fork.
LEMMA KnownAreFirst ==
  ASSUME ForkInv, Chained(fork)
  PROVE  /\ AllExtents(fork) \in Seq(Extent) /\ DOMAIN AllExtents(fork) = 1 .. Len(AllExtents(fork))
         /\ \A k \in 1 .. Len(m_extents) :
              k \in DOMAIN AllExtents(fork) /\ AllExtents(fork)[k] = m_extents[k]
         /\ \A k \in 1 .. Len(m_extents) + 1 :
              BlocksBefore(AllExtents(fork), k) = BlocksBefore(m_extents, k)
<1> DEFINE x == ExtentsOf(fork.tree, Own(fork))
<1>1. /\ m_extents \in {fork.inline, AllExtents(fork)} /\ AllExtents(fork) = fork.inline \o x
      /\ fork \in Forks /\ fork.inline \in Seq(Extent) /\ AllExtents(fork) \in Seq(Extent)
  BY ForkParts DEF ForkInv, ForkTypeOK, OwnInv, ExtentsAreOwn, AllExtents
<1>2. x \in Seq(Extent)
  <2>1. IsTree(fork.tree) /\ Len(fork.tree) \in 0 .. Len(fork.tree)
    BY <1>1, ForkParts DEF IsTree
  <2> QED BY <2>1, ExtentsTaken DEF ExtentsOf
<1> HIDE DEF x
<1>3. CASE m_extents = AllExtents(fork)
  BY <1>1, <1>3
<1>4. CASE m_extents = fork.inline
  <2>1. \A k \in 1 .. Len(fork.inline) :
          k \in 1 .. Len(fork.inline \o x) /\ (fork.inline \o x)[k] = fork.inline[k]
    BY <1>1, <1>2
  <2>2. \A k \in 1 .. Len(fork.inline) + 1 :
          BlocksBefore(fork.inline \o x, k) = BlocksBefore(fork.inline, k)
    BY <1>1, <1>2, BlocksOfBoth
  <2> QED BY <1>1, <1>4, <2>1, <2>2
<1> QED BY <1>1, <1>3, <1>4

\* A position behind a block.
LEMMA InBlock ==
  ASSUME NEW B \in Nat \ {0}, NEW s \in Nat, NEW q \in Nat
  PROVE  /\ (s * B + q) \div B = s + (q \div B)
         /\ (s * B + q) % B = q % B
         /\ q \div B \in Nat /\ q % B \in 0 .. B - 1 /\ (q \div B) * B + (q % B) = q
OBVIOUS

\* The byte at an offset of an extent.
LEMMA ByteInExtent ==
  ASSUME ForkInv, Chained(fork), Disjoint(fork), Known,
         NEW q \in Nat, q < Here.count * BlockSize,
         BlocksBefore(m_extents, extent) * BlockSize + q < fork.size
  PROVE  At(Here.start * BlockSize + q)
           = <<fork, BlocksBefore(m_extents, extent) * BlockSize + q>>
<1> DEFINE all   == AllExtents(fork)
           v     == Here.start * BlockSize + q
           block == v \div BlockSize
           homes == {k \in DOMAIN all : block - all[k].start \in 0 .. all[k].count - 1}
           home  == CHOOSE k \in homes : TRUE
           b     == BlocksBefore(m_extents, extent)
           p     == (BlocksBefore(all, home) + block - all[home].start) * BlockSize + (v % BlockSize)
           d     == q \div BlockSize
           m     == q % BlockSize
<1>1. /\ extent \in 1 .. Len(m_extents) /\ extent \in 1 .. Len(m_extents) + 1
      /\ Here.start \in Nat /\ Here.count \in Nat /\ b \in Nat
  BY HereTyped DEF ForkInv, ForkTypeOK
<1>2. /\ all \in Seq(Extent) /\ DOMAIN all = 1 .. Len(all)
      /\ extent \in DOMAIN all /\ all[extent] = Here /\ BlocksBefore(all, extent) = b
  BY <1>1, KnownAreFirst DEF Here
<1>3. /\ d \in Nat /\ m \in 0 .. BlockSize - 1 /\ block = Here.start + d /\ v % BlockSize = m
      /\ d * BlockSize + m = q
  BY <1>1, InBlock, ForkAssumption
<1> HIDE DEF d, m, block
<1>4. d < Here.count
  <2>1. d * BlockSize \in Nat /\ Here.count * BlockSize \in Nat
    BY <1>1, <1>3, BytesOf
  <2>2. d * BlockSize < Here.count * BlockSize
    BY <1>3, <2>1, ForkAssumption
  <2>3. BlockSize \in Nat \ {0} /\ d \in Int /\ Here.count \in Int
    BY <1>1, <1>3, BlockSizeTyped, SMTT(30)
  <2> QED BY <2>2, <2>3, Scaled
<1>5. homes = {extent}
  <2>1. extent \in homes
    <3>1. block - Here.start = d
      BY <1>1, <1>3
    <3>2. d \in 0 .. Here.count - 1
      BY <1>1, <1>3, <1>4
    <3> HIDE DEF all
    <3> QED BY <1>2, <3>1, <3>2
  <2>2. ASSUME NEW k \in homes, k # extent PROVE FALSE
    <3>1. /\ k \in DOMAIN all /\ all[k] \in Extent
          /\ block - all[k].start \in 0 .. all[k].count - 1
      BY <1>2
    <3>2. all[k].start \in Nat /\ all[k].count \in Nat
      BY <3>1 DEF Extent
    <3>3. \/ all[k].start + all[k].count <= Here.start
          \/ Here.start + Here.count <= all[k].start
      BY <1>2, <2>2, <3>1 DEF Disjoint
    <3> DEFINE s == all[k].start
               c == all[k].count
    <3>4. s \in Nat /\ c \in Nat /\ block - s \in 0 .. c - 1
          /\ (s + c <= Here.start \/ Here.start + Here.count <= s)
      BY <3>1, <3>2, <3>3
    <3>5. /\ Here.start \in Nat /\ Here.count \in Nat /\ d \in Nat
          /\ block = Here.start + d /\ d < Here.count
      BY <1>1, <1>3, <1>4
    <3> HIDE DEF s, c, all, homes
    <3>6. s <= block /\ block < s + c
      BY <3>4, <3>5
    <3> QED BY <3>4, <3>5, <3>6
  <2> QED BY <2>1, <2>2
<1>6. home = extent /\ homes # {}
  BY <1>5
<1>7. p = b * BlockSize + q
  <2>1. BlocksBefore(all, home) + block - all[home].start = b + d
    <3>1. BlocksBefore(all, home) = b /\ all[home].start = Here.start
      BY <1>2, <1>6
    <3> HIDE DEF home, b, all
    <3> QED BY <1>1, <1>3, <3>1
  <2>2. (b + d) * BlockSize = b * BlockSize + d * BlockSize
        /\ b * BlockSize \in Nat /\ d * BlockSize \in Nat
    BY <1>1, <1>3, BytesOf
  <2> QED BY <1>3, <2>1, <2>2, ForkAssumption, SMTT(30)
<1>8. At(v) = IF homes = {} \/ p >= fork.size THEN Garbage ELSE <<fork, p>>
  BY DEF At, block
<1>9. ~ (b * BlockSize + q >= fork.size)
  <2>1. b * BlockSize \in Nat /\ fork.size \in Nat
    BY <1>1, BytesOf, ForkParts DEF ForkInv, ForkTypeOK
  <2> HIDE DEF b
  <2> QED BY <2>1 DEF b
<1> HIDE DEF homes, p, v, b
<1> QED BY <1>6, <1>7, <1>8, <1>9 DEF v, b

\* What is copied follows what is in the buffer.
LEMMA CopyFills ==
  ASSUME ForkInv, FillInv, Chained(fork), Disjoint(fork), Copy
  PROVE  FillInv'
<1> DEFINE n   == ThisTime
           end == read + n
           b   == BlocksBefore(m_extents, extent)
<1>1. /\ n \in Nat /\ end <= Wanted /\ offsetInExtent + n <= Here.count * BlockSize
      /\ end \in Nat
  BY CopyKeeps DEF ForkInv, PlaceInv, Copy
<1>2. /\ pc = "copy" /\ pc' = "copy" /\ Known /\ read \in Nat /\ offset \in Nat
      /\ offsetInExtent \in Nat /\ b * BlockSize + offsetInExtent = offset + read
      /\ buf = [i \in 0 .. read - 1 |-> <<fork, offset + i>>]
      /\ read' = end /\ Put(n) /\ UNCHANGED <<fork, offset>>
  BY DEF ForkInv, ForkTypeOK, PlaceInv, FillInv, Copy
<1>3. Here.start \in Nat /\ Here.count * BlockSize \in Nat /\ b * BlockSize \in Nat
  <2>1. Here.count \in Nat /\ Here.start \in Nat /\ b \in Nat
    BY <1>2, HereTyped DEF ForkInv
  <2> HIDE DEF b
  <2> QED BY <2>1, BytesOf
<1>4. end > 0 => offset + end <= fork.size /\ fork.size \in Nat
  <2>1. Wanted \in Nat /\ fork.size \in Nat /\ (Wanted > 0 => offset + Wanted <= fork.size)
    BY WantedTyped DEF ForkInv
  <2> HIDE DEF end
  <2> QED BY <1>1, <1>2, <2>1
<1>5. ASSUME NEW i \in read .. end - 1
      PROVE  At(VolumeOffset + i - read) = <<fork, offset + i>>
  <2> DEFINE q == offsetInExtent + (i - read)
             w == b * BlockSize
  <2>1. i \in Nat /\ read <= i /\ i < read + n
    BY <1>1, <1>2
  <2>2. q \in Nat /\ q < Here.count * BlockSize
    BY <1>1, <1>2, <1>3, <2>1
  <2>3. w + q = offset + i
    <3>1. w \in Nat /\ w + offsetInExtent = offset + read
      BY <1>2, <1>3
    <3> HIDE DEF w
    <3> QED BY <1>2, <2>1, <3>1
  <2>4. w + q < fork.size
    <3>1. i < end /\ end > 0
      BY <1>1, <2>1
    <3> HIDE DEF end, w, q
    <3> QED BY <1>1, <1>2, <1>4, <2>1, <2>3, <3>1
  <2>5. VolumeOffset + i - read = Here.start * BlockSize + q
    <3> DEFINE s == Here.start * BlockSize
    <3>1. s \in Nat
      BY <1>3, BytesOf
    <3>2. VolumeOffset = s + offsetInExtent
      BY DEF VolumeOffset
    <3> HIDE DEF s
    <3>3. (s + offsetInExtent) + i - read = s + q
      BY <1>2, <2>1, <3>1
    <3> QED BY <3>2, <3>3 DEF s
  <2>6. At(Here.start * BlockSize + q) = <<fork, w + q>>
    <3> HIDE DEF q
    <3> QED BY <1>2, <2>2, <2>4, ByteInExtent
  <2> QED BY <2>3, <2>5, <2>6
<1>6. buf' = [i \in 0 .. end - 1 |-> <<fork, offset + i>>]
  <2>1. buf' = [i \in DOMAIN buf \cup read .. end - 1 |->
                  IF i < read THEN buf[i] ELSE At(VolumeOffset + i - read)]
    <3>1. (read .. end - 1) = (read .. read + n - 1)
      BY <1>1, <1>2
    <3>2. buf' = [i \in DOMAIN buf \cup read .. read + n - 1 |->
                    IF i < read THEN buf[i] ELSE At(VolumeOffset + i - read)]
      BY <1>2, Zenon DEF Put
    <3> HIDE DEF end, n
    <3> QED BY <3>1, <3>2, Zenon
  <2> HIDE DEF end
  <2>2. read <= end
    BY <1>1, <1>2 DEF end
  <2>3. (DOMAIN buf \cup read .. end - 1) = 0 .. end - 1
    BY <1>1, <1>2, <2>2
  <2>4. ASSUME NEW i \in 0 .. end - 1
        PROVE  (IF i < read THEN buf[i] ELSE At(VolumeOffset + i - read)) = <<fork, offset + i>>
    <3>1. CASE i < read
      <4>1. i \in 0 .. read - 1
        BY <1>1, <1>2, <3>1
      <4> QED BY <1>2, <3>1, <4>1
    <3>2. CASE ~ (i < read)
      <4>1. i \in read .. end - 1
        BY <1>1, <1>2, <3>2
      <4> QED BY <1>5, <3>2, <4>1
    <3> QED BY <3>1, <3>2
  <2> QED BY <2>1, <2>3, <2>4
<1> HIDE DEF end
<1> QED BY <1>2, <1>6 DEF FillInv

\* Every step keeps the buffer right.
LEMMA FillInvNext ==
  ASSUME ForkInv, FillInv, Chained(fork), Disjoint(fork), [Next]_vars
  PROVE  FillInv'
<1>1. ASSUME NEW o \in Offsets, NEW n \in Counts, Read(o, n) PROVE FillInv'
  <2>1. pc' = "begin" /\ read' = 0 /\ buf' = Nothing
    BY <1>1 DEF Read
  <2>2. Nothing = [i \in 0 .. 0 - 1 |-> <<fork', offset' + i>>]
    BY DEF Nothing
  <2> QED BY <2>1, <2>2 DEF FillInv
<1>2. ASSUME Begin PROVE FillInv'
  BY <1>2 DEF FillInv, Begin, local, ForkInv, PlaceInv, Wanted
<1>3. ASSUME PassBy \/ Locate \/ Load \/ UNCHANGED vars PROVE FillInv'
  <2>1. UNCHANGED <<fork, offset, count, read, buf>>
    BY <1>3 DEF PassBy, Locate, Load, local, vars
  <2>2. CASE UNCHANGED vars
    BY <2>1, <2>2 DEF FillInv, vars, Wanted
  <2>3. CASE PassBy \/ Locate \/ Load
    <3>1. pc \in {"search", "copy"} /\ pc' \in {"search", "copy"}
      BY <2>3 DEF PassBy, Locate, Load, NeedsMore
    <3> QED BY <2>1, <3>1 DEF FillInv
  <2> QED BY <1>3, <2>2, <2>3
<1>4. ASSUME Finish PROVE FillInv'
  <2>1. read = Wanted
    BY <1>4, WantedTyped DEF Finish, ForkInv, PlaceInv
  <2> QED BY <1>4, <2>1 DEF FillInv, Finish, local, Wanted
<1>5. ASSUME pc' \in {"failed", "idle"} PROVE FillInv'
  BY <1>5 DEF FillInv
<1>6. CASE Step
  BY <1>2, <1>3, <1>4, <1>5, <1>6, CopyFills
  DEF Step, LoadsNothing, LoadFails, CopyShort, CopyFails, Throw, Leave
<1> QED BY <1>1, <1>3, <1>6 DEF Next

\* When read() returns, it has delivered what the contract prescribes.
LEMMA ReturnsSlice ==
  ASSUME ForkInv, FillInv, (pc = "copy" /\ read = Wanted) \/ (pc = "begin" /\ Wanted = 0)
  PROVE  buf = R!Slice(fork, offset, count)
<1> DEFINE c == R!Clamped(fork, offset, count)
<1>1. /\ fork \in Forks /\ fork.size \in Nat /\ offset \in Nat /\ count \in Nat
      /\ read = Wanted /\ buf = [i \in 0 .. read - 1 |-> <<fork, offset + i>>]
  BY ForkParts DEF ForkInv, ForkTypeOK, PlaceInv, FillInv
<1>2. c = IF offset >= fork.size THEN 0
          ELSE IF offset + count > fork.size THEN fork.size - offset ELSE count
  BY <1>1 DEF R!Clamped
<1> HIDE DEF c
<1>3. c = Wanted
  BY <1>1, <1>2 DEF Wanted
<1> QED BY <1>1, <1>3 DEF R!Slice, R!Byte, c

\* The call as the contract sees it while it runs, and when it has ended.
LEMMA CallsWhile ==
  /\ pc = "idle" => Calls = <<>>
  /\ pc # "idle" => Calls # <<>> /\ Len(Calls) = 1 /\ R!Innermost = Calls[1]
  /\ pc \in {"begin", "search", "copy"} => R!Running
       /\ Calls = <<R!CallWith(fork, offset, count, "running", Nothing)>>
  /\ pc = "failed" => Calls = <<R!CallWith(fork, offset, count, "failed", Nothing)>>
  /\ pc = "returned" => Calls = <<R!CallWith(fork, offset, count, "answered", buf)>>
BY DEF Calls, R!Innermost, R!Running, R!CallWith

\* The call goes on, or fails.
LEMMA RefGoesOn ==
  ASSUME pc \in {"begin", "search", "copy"}, pc' \in {"begin", "search", "copy", "failed"},
         UNCHANGED <<fork, offset, count>>
  PROVE  R!Fail \/ Calls' = Calls
<1> DEFINE c == R!CallWith(fork, offset, count, "running", Nothing)
           d == R!CallWith(fork, offset, count, "failed", Nothing)
<1>1. Calls = <<c>> /\ R!Running /\ Len(Calls) = 1
  BY CallsWhile
<1>2. CASE pc' # "failed"
  <2>1. Calls' = <<c>>
    BY <1>2 DEF Calls, R!CallWith
  <2> QED BY <1>1, <2>1
<1>3. CASE pc' = "failed"
  <2>1. Calls' = <<d>>
    BY <1>3 DEF Calls, R!CallWith
  <2>2. d = [c EXCEPT !.status = "failed"]
    BY DEF R!CallWith
  <2> HIDE DEF c, d
  <2>3. Calls' = [Calls EXCEPT ![1].status = "failed"]
    BY <1>1, <2>1, <2>2
  <2> QED BY <1>1, <2>3 DEF R!Fail
<1> QED BY <1>2, <1>3

\* All has been read.
LEMMA RefAnswer ==
  ASSUME ForkInv, FillInv, (pc = "copy" /\ read = Wanted) \/ (pc = "begin" /\ Wanted = 0),
         pc' = "returned", UNCHANGED <<fork, offset, count, buf>>
  PROVE  R!Answer
<1> DEFINE c     == R!CallWith(fork, offset, count, "running", Nothing)
           slice == R!Slice(fork, offset, count)
<1>1. buf = slice
  BY ReturnsSlice
<1>2. Calls = <<c>> /\ R!Running /\ Len(Calls) = 1 /\ R!Innermost = c
  BY CallsWhile
<1>3. c.tag = fork /\ c.offset = offset /\ c.count = count
  BY DEF R!CallWith
<1> HIDE DEF c, slice
<1>4. Calls' = <<R!CallWith(fork, offset, count, "answered", slice)>>
  BY <1>1 DEF Calls, R!CallWith
<1>5. Calls' = [Calls EXCEPT ![1] = R!CallWith(fork, offset, count, "answered", slice)]
  BY <1>2, <1>4
<1> QED BY <1>2, <1>3, <1>5 DEF R!Answer, slice

\* The caller leaves with what it got.
LEMMA RefLeave ==
  ASSUME Leave
  PROVE  R!Return \/ R!Raise
<1>1. pc \in {"returned", "failed"} /\ pc' = "idle"
  BY DEF Leave
<1>2. Calls' = <<>> /\ Calls # <<>> /\ Len(Calls) = 1 /\ R!Innermost = Calls[1]
  <2>1. Calls' = <<>>
    BY <1>1 DEF Calls
  <2> QED BY <1>1, <2>1, CallsWhile
<1>3. SubSeq(Calls, 1, 0) = <<>>
  BY <1>2
<1>4. CASE pc = "returned"
  <2>1. R!Innermost.status = "answered"
    BY <1>2, <1>4, CallsWhile DEF R!CallWith
  <2> QED BY <1>2, <1>3, <2>1 DEF R!Return
<1>5. CASE pc = "failed"
  <2>1. R!Innermost.status = "failed"
    BY <1>2, <1>5, CallsWhile DEF R!CallWith
  <2> QED BY <1>2, <1>3, <2>1 DEF R!Raise
<1> QED BY <1>1, <1>4, <1>5

\* A fork implements the contract of Reader, but for its fairness: if its
\* extents do not overlap and its records in the tree go on where the one
\* before ends, an answer is the slice that was asked for, whichever extents it
\* spans and whenever they were loaded, and a short read of the volume is no
\* answer.
THEOREM ForkImplementsReader ==
  ASSUME \A f \in Forks : Chained(f) /\ Disjoint(f)
  PROVE  Spec => R!SafeSpec
<1>1. Init => R!Init /\ FillInv
  BY DEF Init, R!Init, Calls, FillInv
<1>2. ForkInv => Chained(fork) /\ Disjoint(fork)
  BY DEF ForkInv, ForkTypeOK
<1>3. ForkInv /\ FillInv /\ [Next]_vars => FillInv'
  BY <1>2, FillInvNext
<1>4. ASSUME ForkInv, FillInv, [Next]_vars PROVE [R!Next]_Calls
  <2>1. ASSUME NEW o \in Offsets, NEW n \in Counts, Read(o, n) PROVE R!Next
    <3>1. Calls = <<>>
      BY <2>1 DEF Read, Calls
    <3>2. Calls' = <<R!CallWith(fork, o, n, "running", Nothing)>>
      BY <2>1 DEF Read, Calls, R!CallWith
    <3>3. Nothing = R!Nothing
      BY DEF Nothing, R!Nothing
    <3>4. R!Call(fork, o, n) /\ fork \in Forks
      BY <1>4, <3>1, <3>2, <3>3 DEF R!Call, ForkInv, ForkTypeOK
    <3> QED BY <3>4 DEF R!Next
  <2>2. ASSUME Begin PROVE [R!Next]_Calls
    <3>1. pc = "begin" /\ UNCHANGED <<fork, offset, count, buf>>
          /\ pc' = IF Wanted = 0 THEN "returned" ELSE "search"
      BY <2>2 DEF Begin, local
    <3> QED BY <1>4, <3>1, RefAnswer, RefGoesOn DEF R!Next, R!Progress
  <2>3. ASSUME Finish PROVE R!Next
    <3>1. pc = "copy" /\ read = Wanted /\ pc' = "returned" /\ UNCHANGED <<fork, offset, count, buf>>
      BY <1>4, <2>3, WantedTyped DEF Finish, local, ForkInv, PlaceInv
    <3>2. R!Answer
      BY <1>4, <3>1, RefAnswer
    <3> QED BY <3>2 DEF R!Next, R!Progress
  <2>4. ASSUME Leave PROVE R!Next
    BY <2>4, RefLeave DEF R!Next, R!Progress
  <2>5. ASSUME PassBy \/ Locate \/ Load \/ LoadsNothing \/ LoadFails \/ Copy \/ CopyShort \/ CopyFails
        PROVE  [R!Next]_Calls
    <3>1. /\ pc \in {"begin", "search", "copy"} /\ pc' \in {"begin", "search", "copy", "failed"}
          /\ UNCHANGED <<fork, offset, count>>
      BY <2>5 DEF PassBy, Locate, Load, LoadsNothing, LoadFails, Copy, CopyShort, CopyFails,
                  NeedsMore, Throw, local
    <3> QED BY <3>1, RefGoesOn DEF R!Next, R!Progress
  <2>6. CASE UNCHANGED vars
    BY <2>6 DEF vars, Calls
  <2> QED BY <1>4, <2>1, <2>2, <2>3, <2>4, <2>5, <2>6 DEF Next, Step
<1> QED BY <1>1, <1>3, <1>4, ForkInvInit, ForkInvNext, PTL DEF Spec, R!SafeSpec
=============================================================================
