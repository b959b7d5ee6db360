--------------------------- MODULE HFSBTreeProofs ---------------------------
(***************************************************************************)
(* Proofs about HFSBTree, for every sound tree of any depth and width and  *)
(* every search of it.                                                     *)
(*                                                                         *)
(* The argument: a layout gives each leaf its place and each node the      *)
(* places of the leaves below it.  The key of a record of an index node is *)
(* the first of the leaf where its child begins, so where the bisection    *)
(* ends says on which side of that leaf there can be no match: none is     *)
(* left of the node (DescendInv), and in an exact search none right of it. *)
(* The links then lead through the leaves place by place (WalkInv); a loop *)
(* is entered from the last of them only.                                  *)
(*                                                                         *)
(* What the trees must be: Sound, laid out as HFS+ asks, with the records  *)
(* in the order of their keys, and searched by comparators that agree with *)
(* that order; the last leaf may link back to any other.                   *)
(***************************************************************************)
EXTENDS HFSBTree, ProofLemmas, FiniteSetTheorems

----------------------------------------------------------------------------
(* Sound trees.                                                            *)

\* A layout l of a tree: its leaves in order, and for each node the first and
\* the last place of the leaves below it and its height.
Ordered(t, l) ==
  LET keys(p) == t.nodes[l.order[p]].keys IN
  /\ l.order \in Seq(LeavesOf(t)) /\ ToSet(l.order) = LeavesOf(t)
  /\ \A p, q \in 1 .. Len(l.order) : \A k \in DOMAIN keys(p), m \in DOMAIN keys(q) :
       p < q \/ (p = q /\ k < m) => Precedes(keys(p)[k], keys(q)[m])

\* Each leaf links to the next; the last one to none, or back to any.
Linked(t, l) ==
  /\ \A p \in 1 .. Len(l.order) - 1 : t.nodes[l.order[p]].link = l.order[p + 1]
  /\ \A i \in LeavesOf(t) : t.nodes[i].link \in LeavesOf(t) \cup {0}

\* A node covers the places from the first to the last, its children share
\* them, and the keys of its records are the first ones of its children.
Covers(t, l) ==
  LET nodes == DOMAIN t.nodes \ {0}
      n     == Len(l.order)
  IN
  /\ l.first \in [nodes -> 1 .. n] /\ l.last \in [nodes -> 1 .. n]
  /\ l.level \in [nodes -> 0 .. Cardinality(DOMAIN t.nodes)]
  /\ \A p \in 1 .. n : l.first[l.order[p]] = p /\ l.last[l.order[p]] = p
  /\ \A j \in nodes : l.first[j] <= l.last[j]
  /\ \A j \in nodes : t.nodes[j].kind = "index" =>
       LET c == t.nodes[j].children
           m == Len(t.nodes[j].keys)
       IN
       /\ l.first[j] = l.first[c[1]] /\ l.last[j] = l.last[c[m]]
       /\ \A k \in 1 .. m - 1 : l.first[c[k + 1]] = l.last[c[k]] + 1
       /\ \A k \in 1 .. m : c[k] # 0 /\ l.level[c[k]] < l.level[j]
       /\ \A k \in 1 .. m : t.nodes[j].keys[k] = t.nodes[l.order[l.first[c[k]]]].keys[1]

Rooted(t, l) ==
  IF t.root = 0 THEN LeavesOf(t) = {}
  ELSE l.first[t.root] = 1 /\ l.last[t.root] = Len(l.order)

Layout(t, l) == Ordered(t, l) /\ Linked(t, l) /\ Covers(t, l) /\ Rooted(t, l)

\* The comparator of a search does not contradict the order on disk: a tree
\* that is searched for a fork has its forks in the order of the files, and
\* one that is searched for an attribute has it once.
Agrees(t) ==
  \A s \in Searches(t), x, y \in Records(t) :
    /\ s.by = "fork" /\ Precedes(x, y) => x.sub <= y.sub
    /\ s.by = "attribute" /\ x.id = y.id /\ x.sub = y.sub => x = y

Sound(t) == Agrees(t) /\ \E l : Layout(t, l)

SoundTrees == \A t \in Trees : Sound(t)

----------------------------------------------------------------------------
(* The order.                                                              *)

\* The nodes of a tree, without the header.
LEMMA NodeTyped ==
  ASSUME NEW t \in Trees, NEW i \in DOMAIN t.nodes \ {0}
  PROVE  /\ t.nodes[i].kind \in {"index", "leaf"}
         /\ t.nodes[i].keys \in Seq(Key) /\ Len(t.nodes[i].keys) \in Nat \ {0}
         /\ DOMAIN t.nodes[i].keys = 1 .. Len(t.nodes[i].keys)
         /\ t.nodes[i].kind = "index" =>
              t.nodes[i].children \in [1 .. Len(t.nodes[i].keys) -> DOMAIN t.nodes]
BY TreesAssumption

\* The leaves are nodes other than the header.
LEMMA LeafTyped ==
  ASSUME NEW t \in Trees
  PROVE  /\ LeavesOf(t) \subseteq DOMAIN t.nodes \ {0} /\ 0 \notin LeavesOf(t)
         /\ Records(t) \subseteq Key
         /\ \A i \in LeavesOf(t) : t.nodes[i].keys[1] \in Records(t)
<1>1. 0 \notin LeavesOf(t)
  BY TreesAssumption DEF LeavesOf
<1>2. LeavesOf(t) \subseteq DOMAIN t.nodes \ {0}
  BY <1>1 DEF LeavesOf
<1>3. ASSUME NEW i \in LeavesOf(t)
      PROVE  ToSet(t.nodes[i].keys) \subseteq Key /\ t.nodes[i].keys[1] \in ToSet(t.nodes[i].keys)
  <2>1. t.nodes[i].keys \in Seq(Key) /\ Len(t.nodes[i].keys) \in Nat \ {0}
    BY <1>2, NodeTyped
  <2> QED BY <2>1 DEF ToSet
<1>4. Records(t) \subseteq Key
  BY <1>3 DEF Records
<1>5. \A i \in LeavesOf(t) : t.nodes[i].keys[1] \in Records(t)
  BY <1>3 DEF Records
<1> QED BY <1>1, <1>2, <1>4, <1>5

\* A record that matches is to the comparator what the key is.
LEMMA MatchIsKey ==
  ASSUME search.by \in {"id", "attribute", "fork"}, search.key \in Key,
         NEW r \in Key, Matches(search, r), NEW f \in Key
  PROVE  /\ Less(f, search.key) <=> Less(f, r)
         /\ Less(search.key, f) <=> Less(r, f)
BY DEF Matches, Less, Key

\* What is before on disk is not behind to the comparator, and before to that
\* of an exact search.
LEMMA OrdersAgree ==
  ASSUME tree \in Trees, Agrees(tree), search \in Searches(tree),
         NEW x \in Records(tree), NEW y \in Records(tree), Precedes(x, y)
  PROVE  /\ ~ Less(y, x)
         /\ ~ Wildcard => Less(x, y)
<1>1. x \in Key /\ y \in Key /\ search.by \in {"id", "attribute", "fork"}
  BY LeafTyped, TreesAssumption
<1>2. /\ search.by = "fork" => x.sub <= y.sub
      /\ search.by = "attribute" /\ x.id = y.id /\ x.sub = y.sub => x = y
  BY DEF Agrees
<1>3. x # y
  BY <1>1 DEF Precedes, Key
<1>4. \/ x.id < y.id
      \/ x.id = y.id /\ x.sub < y.sub
      \/ x.id = y.id /\ x.sub = y.sub /\ x.pos < y.pos
  BY DEF Precedes
<1>5. x.id \in Nat /\ y.id \in Nat /\ x.sub \in Nat /\ y.sub \in Nat
  BY <1>1 DEF Key
<1>6. CASE search.by = "id"
  BY <1>4, <1>5, <1>6 DEF Less, Wildcard
<1>7. CASE search.by = "attribute"
  BY <1>2, <1>3, <1>4, <1>5, <1>7 DEF Less, Wildcard
<1>8. CASE search.by = "fork"
  BY <1>2, <1>4, <1>5, <1>8 DEF Less, Wildcard
<1> QED BY <1>1, <1>6, <1>7, <1>8

\* The places of the leaves.
LEMMA Places ==
  ASSUME NEW t \in Trees, NEW l, Layout(t, l)
  PROVE  /\ Len(l.order) \in Nat /\ DOMAIN l.order = 1 .. Len(l.order)
         /\ \A p \in 1 .. Len(l.order) : l.order[p] \in LeavesOf(t)
         /\ \A i \in LeavesOf(t) : \E p \in 1 .. Len(l.order) : i = l.order[p]
         /\ \A p, q \in 1 .. Len(l.order) : l.order[p] = l.order[q] => p = q
<1>1. l.order \in Seq(LeavesOf(t)) /\ ToSet(l.order) = LeavesOf(t)
  BY DEF Layout, Ordered
<1>2. \A p \in 1 .. Len(l.order) : l.first[l.order[p]] = p
  BY DEF Layout, Covers
<1> QED BY <1>1, <1>2 DEF ToSet

\* A record of a leaf is before the first one of each later leaf, and not
\* before the first one of its own or an earlier leaf.
LEMMA FirstOfLeaf ==
  ASSUME NEW t \in Trees, NEW l, Layout(t, l),
         NEW p \in 1 .. Len(l.order), NEW r \in ToSet(t.nodes[l.order[p]].keys),
         NEW q \in 1 .. Len(l.order)
  PROVE  LET f == t.nodes[l.order[q]].keys[1] IN
         /\ f \in Records(t) /\ r \in Records(t)
         /\ p < q => Precedes(r, f)
         /\ q <= p => r = f \/ Precedes(f, r)
<1> DEFINE a == t.nodes[l.order[p]].keys
           b == t.nodes[l.order[q]].keys
<1>1. l.order[p] \in LeavesOf(t) /\ l.order[q] \in LeavesOf(t) /\ Len(l.order) \in Nat
  BY Places
<1>2. DOMAIN a = 1 .. Len(a) /\ DOMAIN b = 1 .. Len(b) /\ Len(b) \in Nat \ {0} /\ Len(a) \in Nat
  BY <1>1, LeafTyped, NodeTyped
<1>3. PICK k \in DOMAIN a : r = a[k]
  BY DEF ToSet
<1>4. b[1] \in Records(t) /\ r \in Records(t)
  BY <1>1, LeafTyped DEF Records
<1>5. /\ \A n \in DOMAIN a, m \in DOMAIN b : p < q => Precedes(a[n], b[m])
      /\ \A n \in DOMAIN b, m \in DOMAIN a : q < p \/ (q = p /\ n < m) => Precedes(b[n], a[m])
  BY DEF Layout, Ordered
<1> HIDE DEF a, b
<1>6. p < q => Precedes(r, b[1])
  <2>1. 1 \in DOMAIN b
    BY <1>2
  <2> QED BY <1>3, <1>5, <2>1
<1>7. q <= p => r = b[1] \/ Precedes(b[1], r)
  <2>1. 1 \in DOMAIN b /\ k \in Nat /\ k >= 1
    BY <1>2, <1>3
  <2>2. CASE q = p /\ k = 1
    BY <1>3, <2>2 DEF a, b
  <2>3. CASE q < p \/ (q = p /\ k # 1)
    <3>1. q < p \/ (q = p /\ 1 < k)
      BY <2>1, <2>3
    <3> QED BY <1>3, <1>5, <2>1, <3>1
  <2> QED BY <1>1, <2>2, <2>3
<1> QED BY <1>4, <1>6, <1>7 DEF b
----------------------------------------------------------------------------
(* The leaves below a node.                                                *)

\* Pieces f[k] .. g[k], each of which starts behind the one before.
LEMMA Adjacent ==
  ASSUME NEW m \in Nat \ {0}, NEW f \in [1 .. m -> Nat], NEW g \in [1 .. m -> Nat],
         \A k \in 1 .. m : f[k] <= g[k], \A k \in 1 .. m - 1 : f[k + 1] = g[k] + 1
  PROVE  /\ \A p \in f[1] .. g[m] : \E k \in 1 .. m : p \in f[k] .. g[k]
         /\ \A j, k \in 1 .. m : j < k => g[j] < f[k]
         /\ \A k \in 1 .. m : f[1] <= f[k] /\ g[k] <= g[m]
<1> DEFINE Done(n) == /\ \A p \in f[1] .. g[n + 1] : \E k \in 1 .. n + 1 : p \in f[k] .. g[k]
                      /\ \A j \in 1 .. n : g[j] < f[n + 1]
                      /\ f[1] <= f[n + 1]
           S       == {n \in 0 .. m - 1 : Done(n)}
<1>1. 0 \in S
  <2>1. Done(0)
    OBVIOUS
  <2> QED BY <2>1
<1>2. ASSUME NEW n \in 1 .. m - 1, n - 1 \in S PROVE n \in S
  <2>1. Done(n - 1)
    BY <1>2
  <2>2. n \in 1 .. m /\ n + 1 \in 1 .. m /\ (n - 1) + 1 = n
    OBVIOUS
  <2>3. f[n + 1] = g[n] + 1 /\ f[n] <= g[n]
    BY <2>2
  <2>4. f[n] \in Nat /\ g[n] \in Nat /\ f[n + 1] \in Nat /\ g[n + 1] \in Nat /\ f[1] \in Nat
    BY <2>2
  <2>5. ASSUME NEW p \in f[1] .. g[n + 1] PROVE \E k \in 1 .. n + 1 : p \in f[k] .. g[k]
    <3>1. CASE p <= g[n]
      <4>1. p \in f[1] .. g[(n - 1) + 1]
        BY <2>2, <2>4, <3>1
      <4>2. PICK k \in 1 .. (n - 1) + 1 : p \in f[k] .. g[k]
        BY <2>1, <4>1
      <4> QED BY <2>2, <4>2
    <3>2. CASE p > g[n]
      <4>1. p \in f[n + 1] .. g[n + 1]
        BY <2>3, <2>4, <3>2
      <4> QED BY <2>2, <4>1
    <3> QED BY <2>4, <3>1, <3>2
  <2>6. ASSUME NEW j \in 1 .. n PROVE g[j] < f[n + 1]
    <3>1. CASE j = n
      BY <2>3, <2>4, <3>1
    <3>2. CASE j # n
      <4>1. j \in 1 .. n - 1 /\ j \in 1 .. m
        BY <3>2
      <4>2. g[j] < f[n] /\ g[j] \in Nat
        BY <2>1, <2>2, <4>1
      <4> QED BY <2>3, <2>4, <4>2, SMTT(30)
    <3> QED BY <3>1, <3>2
  <2>7. f[1] <= f[n + 1]
    BY <2>1, <2>2, <2>3, <2>4
  <2> HIDE DEF Done
  <2>8. Done(n)
    BY <2>5, <2>6, <2>7 DEF Done
  <2> QED BY <2>8
<1> HIDE DEF S
<1>3. 0 .. m - 1 \subseteq S
  <2>1. m - 1 \in Nat
    OBVIOUS
  <2> QED BY <1>1, <1>2, <2>1, UpTo
<1> HIDE DEF Done
<1>4. ASSUME NEW k \in 1 .. m
      PROVE  /\ \A p \in f[1] .. g[k] : \E i \in 1 .. k : p \in f[i] .. g[i]
             /\ \A j \in 1 .. k - 1 : g[j] < f[k]
             /\ f[1] <= f[k]
  <2>1. k - 1 \in 0 .. m - 1 /\ (k - 1) + 1 = k
    OBVIOUS
  <2>2. Done(k - 1)
    BY <1>3, <2>1 DEF S
  <2> QED BY <2>1, <2>2 DEF Done
<1>5. \A p \in f[1] .. g[m] : \E k \in 1 .. m : p \in f[k] .. g[k]
  BY <1>4
<1>6. \A j, k \in 1 .. m : j < k => g[j] < f[k]
  BY <1>4
<1>7. ASSUME NEW k \in 1 .. m PROVE f[1] <= f[k] /\ g[k] <= g[m]
  <2>1. CASE k = m
    BY <1>4, <2>1
  <2>2. CASE k # m
    <3>1. g[k] < f[m] /\ f[m] <= g[m] /\ g[k] \in Nat /\ f[m] \in Nat /\ g[m] \in Nat
      BY <1>6, <2>2
    <3> QED BY <1>4, <3>1
  <2> QED BY <2>1, <2>2
<1> QED BY <1>5, <1>6, <1>7

\* LeavesBelow is what its definition says, level by level.
LEMMA BelowDefined ==
  ASSUME NEW t \in Trees
  PROVE  LET N == Cardinality(DOMAIN t.nodes) IN
         /\ N \in Nat
         /\ \A n \in 0 .. N : \A j \in DOMAIN t.nodes :
              LeavesBelow(t, n)[j] =
                IF t.nodes[j].kind = "leaf" THEN {j}
                ELSE IF n = 0 \/ t.nodes[j].kind = "header" THEN {}
                ELSE UNION {LeavesBelow(t, n - 1)[c] : c \in ToSet(t.nodes[j].children)}
<1> DEFINE N == Cardinality(DOMAIN t.nodes)
           D == DOMAIN t.nodes
           V == [D -> SUBSET D]
           up(v) == [j \in D |->
                       IF t.nodes[j].kind = "leaf" THEN {j}
                       ELSE IF t.nodes[j].kind = "header" THEN {}
                       ELSE UNION {v[c] : c \in ToSet(t.nodes[j].children)}]
           zero == [j \in D |-> IF t.nodes[j].kind = "leaf" THEN {j} ELSE {}]
           add  == [n \in 1 .. N |-> [v \in V |-> up(v)]]
           below == CHOOSE f : f =
             [k \in 0 .. N |->
               [j \in D |->
                  IF t.nodes[j].kind = "leaf" THEN {j}
                  ELSE IF k = 0 \/ t.nodes[j].kind = "header" THEN {}
                  ELSE UNION {f[k - 1][c] : c \in ToSet(t.nodes[j].children)}]]
<1>1. N \in Nat
  BY TreesAssumption, FS_CardinalityType
<1>2. zero \in V
  OBVIOUS
<1>3. ASSUME NEW v \in V PROVE up(v) \in V
  <2> SUFFICES ASSUME NEW j \in D, t.nodes[j].kind \notin {"leaf", "header"}
               PROVE  UNION {v[c] : c \in ToSet(t.nodes[j].children)} \subseteq D
    OBVIOUS
  <2>1. j \in DOMAIN t.nodes \ {0}
    BY TreesAssumption
  <2>2. t.nodes[j].kind = "index"
    BY <2>1, NodeTyped
  <2>3. ToSet(t.nodes[j].children) \subseteq D
    BY <2>1, <2>2, NodeTyped DEF ToSet
  <2> QED BY <2>3
<1>4. add \in [1 .. N -> [V -> V]] /\ \A n \in 1 .. N : \A v \in V : add[n][v] = up(v)
  <2> HIDE DEF up, V
  <2> QED BY <1>3
<1> HIDE DEF N, V, zero, add
<1>5. PICK f \in [0 .. N -> V] : f[0] = zero /\ \A n \in 1 .. N : f[n] = add[n][f[n - 1]]
  <2>1. add \in [1 .. N -> [V -> V]]
    BY <1>4
  <2> QED BY <1>1, <1>2, <2>1, SumExists
<1> DEFINE row(h, k) == [j \in D |->
                  IF t.nodes[j].kind = "leaf" THEN {j}
                  ELSE IF k = 0 \/ t.nodes[j].kind = "header" THEN {}
                  ELSE UNION {h[k - 1][c] : c \in ToSet(t.nodes[j].children)}]
<1>6. \A k \in 0 .. N : f[k] = row(f, k)
  <2>1. f[0] = row(f, 0)
    BY <1>5 DEF zero
  <2>2. ASSUME NEW k \in 1 .. N PROVE f[k] = row(f, k)
    <3>1. f[k - 1] \in V
      BY <1>1, <1>5
    <3>2. f[k] = up(f[k - 1])
      BY <1>4, <1>5, <3>1
    <3> QED BY <3>2
  <2> HIDE DEF row
  <2> QED BY <1>1, <2>1, <2>2
<1>7. f = [k \in 0 .. N |-> row(f, k)]
  <2> HIDE DEF row
  <2> QED BY <1>5, <1>6
<1>8. below = [k \in 0 .. N |-> row(below, k)]
  BY <1>7, ZenonT(40)
<1> HIDE DEF below
<1>9. \A k \in 0 .. N : below[k] = row(below, k)
  <2> HIDE DEF row
  <2> QED BY <1>8, Zenon
<1>10. \A n : LeavesBelow(t, n) = below[n]
  BY Zenon DEF LeavesBelow, below, N
<1>11. ASSUME NEW n \in 0 .. N, NEW j \in D
       PROVE  LeavesBelow(t, n)[j] =
                IF t.nodes[j].kind = "leaf" THEN {j}
                ELSE IF n = 0 \/ t.nodes[j].kind = "header" THEN {}
                ELSE UNION {LeavesBelow(t, n - 1)[c] : c \in ToSet(t.nodes[j].children)}
  <2>1. LeavesBelow(t, n)[j] = row(below, n)[j]
    <3> HIDE DEF row
    <3> QED BY <1>9, <1>10
  <2> QED BY <1>10, <2>1
<1> QED BY <1>1, <1>11 DEF N

\* Below an index node is what is below its children.
LEMMA BelowIndex ==
  ASSUME NEW t \in Trees, NEW n \in 1 .. Cardinality(DOMAIN t.nodes),
         NEW j \in DOMAIN t.nodes, t.nodes[j].kind = "index"
  PROVE  LeavesBelow(t, n)[j] =
           UNION {LeavesBelow(t, n - 1)[c] : c \in ToSet(t.nodes[j].children)}
<1>1. Cardinality(DOMAIN t.nodes) \in Nat
  BY BelowDefined
<1>2. n \in 0 .. Cardinality(DOMAIN t.nodes) /\ n # 0
  BY <1>1
<1>3. t.nodes[j].kind \notin {"leaf", "header"}
  OBVIOUS
<1>4. LeavesBelow(t, n)[j] =
        IF t.nodes[j].kind = "leaf" THEN {j}
        ELSE IF n = 0 \/ t.nodes[j].kind = "header" THEN {}
        ELSE UNION {LeavesBelow(t, n - 1)[c] : c \in ToSet(t.nodes[j].children)}
  BY <1>2, BelowDefined, Zenon
<1> QED BY <1>2, <1>3, <1>4, Zenon

\* The m children c of an index node j share its places among them, from the
\* first to the last.
Shared(t, l, j, c, m) ==
  /\ m \in Nat \ {0} /\ DOMAIN c = 1 .. m
  /\ \A k \in 1 .. m : /\ c[k] \in DOMAIN t.nodes \ {0}
                       /\ l.first[c[k]] \in Nat /\ l.last[c[k]] \in Nat
                       /\ l.first[j] <= l.first[c[k]] /\ l.last[c[k]] <= l.last[j]
                       /\ l.level[c[k]] \in Nat /\ l.level[c[k]] < l.level[j]
  /\ l.first[c[1]] = l.first[j]
  /\ l.last[c[m]] = l.last[j]
  /\ \A k \in 1 .. m - 1 : l.first[c[k + 1]] = l.last[c[k]] + 1
  /\ \A p \in l.first[j] .. l.last[j] : \E k \in 1 .. m : p \in l.first[c[k]] .. l.last[c[k]]

LEMMA ChildrenShare ==
  ASSUME NEW t \in Trees, NEW l, Layout(t, l),
         NEW j \in DOMAIN t.nodes \ {0}, t.nodes[j].kind = "index",
         NEW c, c = t.nodes[j].children, NEW m, m = Len(t.nodes[j].keys)
  PROVE  Shared(t, l, j, c, m)
<1> DEFINE f == [k \in 1 .. m |-> l.first[c[k]]]
           g == [k \in 1 .. m |-> l.last[c[k]]]
<1>1. m \in Nat \ {0} /\ c \in [1 .. m -> DOMAIN t.nodes]
  BY NodeTyped
<1>2. /\ l.first[j] = l.first[c[1]] /\ l.last[j] = l.last[c[m]]
      /\ \A k \in 1 .. m - 1 : l.first[c[k + 1]] = l.last[c[k]] + 1
      /\ \A k \in 1 .. m : c[k] # 0 /\ l.level[c[k]] < l.level[j]
  BY DEF Layout, Covers
<1>3. \A i \in DOMAIN t.nodes \ {0} : /\ l.first[i] \in 1 .. Len(l.order) /\ l.last[i] \in 1 .. Len(l.order)
                                      /\ l.first[i] <= l.last[i]
                                      /\ l.level[i] \in 0 .. Cardinality(DOMAIN t.nodes)
  BY DEF Layout, Covers
<1>4. Len(l.order) \in Nat /\ Cardinality(DOMAIN t.nodes) \in Nat
  BY Places, BelowDefined
<1>5. ASSUME NEW k \in 1 .. m
      PROVE  /\ c[k] \in DOMAIN t.nodes \ {0} /\ l.first[c[k]] \in Nat /\ l.last[c[k]] \in Nat
             /\ l.first[c[k]] <= l.last[c[k]] /\ l.level[c[k]] \in Nat
  <2>1. c[k] \in DOMAIN t.nodes \ {0}
    BY <1>1, <1>2
  <2> QED BY <1>3, <1>4, <2>1, SMTT(30)
<1>6. f \in [1 .. m -> Nat] /\ g \in [1 .. m -> Nat]
  BY <1>5
<1>7. /\ \A k \in 1 .. m : f[k] = l.first[c[k]] /\ g[k] = l.last[c[k]]
      /\ 1 \in 1 .. m /\ m \in 1 .. m
  BY <1>1, SMTT(30)
<1>8. \A k \in 1 .. m : f[k] <= g[k]
  BY <1>5, <1>7
<1>9. \A k \in 1 .. m - 1 : f[k + 1] = g[k] + 1
  <2> SUFFICES ASSUME NEW k \in 1 .. m - 1 PROVE f[k + 1] = g[k] + 1
    OBVIOUS
  <2>1. k \in 1 .. m /\ k + 1 \in 1 .. m
    BY <1>1
  <2> QED BY <1>2, <1>7, <2>1
<1>0. f[1] = l.first[j] /\ g[m] = l.last[j]
  BY <1>2, <1>7
<1> HIDE DEF f, g
<1>10. /\ \A p \in f[1] .. g[m] : \E k \in 1 .. m : p \in f[k] .. g[k]
       /\ \A i, k \in 1 .. m : i < k => g[i] < f[k]
       /\ \A k \in 1 .. m : f[1] <= f[k] /\ g[k] <= g[m]
  BY <1>1, <1>6, <1>8, <1>9, Adjacent
<1>11. DOMAIN c = 1 .. m
  BY <1>1
<1>12. \A p \in l.first[j] .. l.last[j] : \E k \in 1 .. m : p \in l.first[c[k]] .. l.last[c[k]]
  BY <1>0, <1>7, <1>10
<1>13. \A k \in 1 .. m : l.first[j] <= l.first[c[k]] /\ l.last[c[k]] <= l.last[j]
  BY <1>0, <1>7, <1>10
<1> QED BY <1>1, <1>2, <1>5, <1>11, <1>12, <1>13 DEF Shared

\* The leaves below a node are those at its places.
LEMMA BelowCovered ==
  ASSUME NEW t \in Trees, NEW l, Layout(t, l), NEW j \in DOMAIN t.nodes \ {0}
  PROVE  LeavesBelow(t, Cardinality(DOMAIN t.nodes))[j] =
           {l.order[p] : p \in l.first[j] .. l.last[j]}
<1> DEFINE N == Cardinality(DOMAIN t.nodes)
           D == DOMAIN t.nodes \ {0}
           span(i) == {l.order[p] : p \in l.first[i] .. l.last[i]}
           S == {n \in 0 .. N : \A i \in D : l.level[i] <= n => LeavesBelow(t, n)[i] = span(i)}
<1>1. N \in Nat
  BY BelowDefined
<1>2. ASSUME NEW i \in D, t.nodes[i].kind = "leaf" PROVE span(i) = {i}
  <2>1. PICK p \in 1 .. Len(l.order) : i = l.order[p]
    BY <1>2, Places DEF LeavesOf
  <2>2. l.first[i] = p /\ l.last[i] = p
    BY <2>1 DEF Layout, Covers
  <2>3. p .. p = {p}
    BY Places
  <2> QED BY <2>1, <2>2, <2>3
<1>3. ASSUME NEW n \in 0 .. N, NEW i \in D, t.nodes[i].kind = "leaf"
      PROVE  LeavesBelow(t, n)[i] = span(i)
  <2>1. LeavesBelow(t, n)[i] = {i}
    BY <1>3, BelowDefined
  <2> QED BY <1>2, <1>3, <2>1
<1>4. ASSUME NEW i \in D PROVE l.level[i] \in 0 .. N
  BY DEF Layout, Covers
<1>5. 0 \in S
  <2>1. ASSUME NEW i \in D, l.level[i] <= 0 PROVE t.nodes[i].kind = "leaf"
    <3>1. CASE t.nodes[i].kind = "index"
      <4>1. Shared(t, l, i, t.nodes[i].children, Len(t.nodes[i].keys))
        BY <3>1, ChildrenShare
      <4>2. 1 \in 1 .. Len(t.nodes[i].keys)
        BY <3>1, NodeTyped
      <4>3. /\ l.level[t.nodes[i].children[1]] \in Nat
            /\ l.level[t.nodes[i].children[1]] < l.level[i]
        BY <4>1, <4>2, Zenon DEF Shared
      <4> QED BY <1>4, <2>1, <4>3
    <3> QED BY <3>1, NodeTyped
  <2> QED BY <1>1, <1>3, <2>1
<1>6. ASSUME NEW n \in 1 .. N, n - 1 \in S PROVE n \in S
  <2> SUFFICES ASSUME NEW i \in D, l.level[i] <= n PROVE LeavesBelow(t, n)[i] = span(i)
    BY <1>6
  <2>0. \A x \in D : l.level[x] <= n - 1 => LeavesBelow(t, n - 1)[x] = span(x)
    BY <1>6
  <2> HIDE DEF S, span
  <2>1. CASE t.nodes[i].kind = "leaf"
    <3>1. n \in 0 .. N
      BY <1>1
    <3> QED BY <1>3, <2>1, <3>1
  <2>2. CASE t.nodes[i].kind = "index"
    <3> DEFINE c == t.nodes[i].children
               m == Len(t.nodes[i].keys)
    <3>1. LeavesBelow(t, n)[i] = UNION {LeavesBelow(t, n - 1)[x] : x \in ToSet(c)}
      <4>1. i \in DOMAIN t.nodes
        OBVIOUS
      <4> QED BY <2>2, <4>1, BelowIndex, Zenon
    <3>2. Shared(t, l, i, c, m)
      BY <2>2, ChildrenShare
    <3>3. l.first[i] \in Nat /\ l.last[i] \in Nat
      <4>1. l.first[i] \in 1 .. Len(l.order) /\ l.last[i] \in 1 .. Len(l.order)
        BY DEF Layout, Covers
      <4> QED BY <4>1, Places
    <3> HIDE DEF c, m
    <3>4. ASSUME NEW k \in 1 .. m PROVE LeavesBelow(t, n - 1)[c[k]] = span(c[k])
      <4>1. c[k] \in D /\ l.level[c[k]] <= n - 1
        BY <1>4, <3>2 DEF Shared
      <4> QED BY <2>0, <4>1
    <3>5. ToSet(c) = {c[k] : k \in 1 .. m}
      BY <3>2 DEF Shared, ToSet
    <3>6. UNION {LeavesBelow(t, n - 1)[x] : x \in ToSet(c)} = UNION {span(c[k]) : k \in 1 .. m}
      BY <3>4, <3>5
    <3>7. UNION {span(c[k]) : k \in 1 .. m} = span(i)
      <4>1. ASSUME NEW k \in 1 .. m PROVE span(c[k]) \subseteq span(i)
        <5>1. l.first[c[k]] .. l.last[c[k]] \subseteq l.first[i] .. l.last[i]
          BY <3>2, <3>3, SMTT(30) DEF Shared
        <5> QED BY <5>1 DEF span
      <4>2. ASSUME NEW p \in l.first[i] .. l.last[i]
            PROVE  \E k \in 1 .. m : l.order[p] \in span(c[k])
        BY <3>2 DEF Shared, span
      <4> QED BY <4>1, <4>2 DEF span
    <3> QED BY <3>1, <3>6, <3>7
  <2> QED BY <2>1, <2>2, NodeTyped
<1> HIDE DEF S
<1>7. N \in S
  <2>1. 0 .. N \subseteq S
    BY <1>1, <1>5, <1>6, UpTo
  <2> QED BY <1>1, <2>1
<1>8. l.level[j] <= N
  BY <1>1, <1>4
<1> QED BY <1>7, <1>8 DEF S

----------------------------------------------------------------------------
(* The invariant.                                                          *)

\* A layout of the tree, the number of its leaves and the leaf at a place.
Plan == CHOOSE l : Layout(tree, l)
Breadth == Len(Plan.order)
Leaf(p) == Plan.order[p]

\* Whether the leaf at a place holds a match.
Hit(p) == Matching(Leaf(p)) # {}

Typed ==
  /\ tree \in Trees /\ pc \in {"idle", "descend", "walk", "returned", "failed"}
  /\ pc # "idle" => search \in Searches(tree)
  /\ pc = "idle" => leaves = <<>>

\* The descent has no match to its left, and an exact one none to its right.
DescendInv ==
  pc = "descend" =>
    /\ leaves = <<>> /\ uniqLink = {}
    /\ IF node = 0 THEN tree.root = 0
       ELSE /\ node \in DOMAIN tree.nodes
            /\ \A p \in 1 .. Breadth : Hit(p) =>
                 Plan.first[node] <= p /\ (Wildcard \/ p <= Plan.last[node])

\* The leaves of all matches have been read.
AllRead == \A p \in 1 .. Breadth : Hit(p) => Leaf(p) \in ToSet(leaves)

\* The walk has been through the places from q to c, by their links.
StraightFrom(q, c) ==
  /\ node = Leaf(c) /\ leaves = [n \in 1 .. c - q + 1 |-> Leaf(q + n - 1)]
  /\ uniqLink = {Leaf(x) : x \in q + 1 .. c}
  /\ \A p \in 1 .. Breadth : Hit(p) => q <= p

Straight == \E c \in 1 .. Breadth : \E q \in 1 .. c : StraightFrom(q, c)

\* The walk is back from the last leaf, behind which no match can be.
Looped ==
  /\ node \in LeavesOf(tree) /\ AllRead
  /\ \A i \in LeavesOf(tree) : tree.nodes[i].link # 0

WalkInv == pc = "walk" => Wildcard /\ (Straight \/ Looped)

ReturnedInv == pc = "returned" => AllRead

\* The leaves that have been read have neighbouring places.
Neighbours ==
  \E q \in Nat : \A n \in 1 .. Len(leaves) : q + n - 1 \in 1 .. Breadth /\ leaves[n] = Leaf(q + n - 1)

LeavesInv ==
  /\ leaves \in Seq(LeavesOf(tree))
  /\ (\E i \in LeavesOf(tree) : tree.nodes[i].link = 0) => Neighbours

TreeInv == Typed /\ DescendInv /\ WalkInv /\ ReturnedInv /\ LeavesInv

----------------------------------------------------------------------------
(* What the steps may rest on.                                             *)

\* The plan is a layout.
LEMMA PlanIsLayout ==
  ASSUME SoundTrees, tree \in Trees
  PROVE  Layout(tree, Plan) /\ Agrees(tree)
BY DEF SoundTrees, Sound, Plan

\* The plan and the matches stay.
LEMMA PlanStays ==
  ASSUME tree' = tree
  PROVE  /\ Plan' = Plan /\ Breadth' = Breadth /\ \A p : Leaf(p)' = Leaf(p)
         /\ search' = search => Wildcard' = Wildcard /\ \A p : Hit(p)' = Hit(p)
<1>1. Plan' = Plan
  BY DEF Plan
<1>2. Breadth' = Breadth /\ \A p : Leaf(p)' = Leaf(p)
  BY <1>1 DEF Breadth, Leaf
<1>3. ASSUME search' = search PROVE Wildcard' = Wildcard /\ \A p : Hit(p)' = Hit(p)
  BY <1>2, <1>3 DEF Wildcard, Hit, Matching, Matches
<1> QED BY <1>1, <1>2, <1>3

\* A comparison says yes or no, and of a key and itself no.
LEMMA LessTyped ==
  ASSUME search.by \in {"id", "attribute", "fork"}, NEW a \in Key, NEW b \in Key
  PROVE  Less(a, b) \in BOOLEAN /\ ~ Less(a, a)
<1>1. CASE search.by = "id"
  BY <1>1 DEF Less, Key
<1>2. CASE search.by = "attribute"
  BY <1>2 DEF Less, Key
<1>3. CASE search.by = "fork"
  BY <1>3 DEF Less, Key
<1> QED BY <1>1, <1>2, <1>3

\* On which side of the first record of a leaf the matches are.
LEMMA Sides ==
  ASSUME SoundTrees, tree \in Trees, search \in Searches(tree),
         NEW p \in 1 .. Breadth, Hit(p), NEW q \in 1 .. Breadth
  PROVE  LET f == tree.nodes[Leaf(q)].keys[1] IN
         /\ p < q => ~ Less(f, search.key) /\ (~ Wildcard => Less(search.key, f))
         /\ q <= p => ~ Less(search.key, f)
<1> DEFINE f == tree.nodes[Leaf(q)].keys[1]
<1>1. Layout(tree, Plan) /\ Agrees(tree)
  BY PlanIsLayout
<1>2. PICK r \in ToSet(tree.nodes[Leaf(p)].keys) : Matches(search, r)
  BY DEF Hit, Matching
<1>3. /\ f \in Records(tree) /\ r \in Records(tree)
      /\ p < q => Precedes(r, f)
      /\ q <= p => r = f \/ Precedes(f, r)
  BY <1>1, <1>2, FirstOfLeaf DEF Leaf, Breadth
<1> HIDE DEF f
<1>4. f \in Key /\ r \in Key /\ search.by \in {"id", "attribute", "fork"} /\ search.key \in Key
  BY <1>3, LeafTyped, TreesAssumption
<1>5. /\ Less(f, search.key) <=> Less(f, r)
      /\ Less(search.key, f) <=> Less(r, f)
  BY <1>2, <1>4, MatchIsKey
<1>6. p < q => ~ Less(f, r) /\ (~ Wildcard => Less(r, f))
  BY <1>1, <1>3, OrdersAgree
<1>7. q <= p => ~ Less(r, f)
  BY <1>1, <1>3, <1>4, OrdersAgree, LessTyped
<1> QED BY <1>5, <1>6, <1>7 DEF f

\* Where a bisection ends.
LEMMA Bisected ==
  ASSUME NEW m \in Nat, NEW left \in [1 .. m -> BOOLEAN], NEW n \in Bisect(left)
  PROVE  n \in 0 .. m /\ (n > 0 => left[n]) /\ (n < m => ~ left[n + 1])
<1>1. left \in Seq(BOOLEAN) /\ Len(left) = m
  OBVIOUS
<1> QED BY <1>1 DEF Bisect

\* Where the bisection of an index node ends.
LEMMA Bounded ==
  ASSUME tree \in Trees, search \in Searches(tree), NEW m \in Nat,
         Node.keys \in Seq(Key), Len(Node.keys) = m, NEW n \in Bounds
  PROVE  /\ n \in 0 .. m
         /\ n > 0 => IF Wildcard THEN Less(Node.keys[n], search.key)
                     ELSE ~ Less(search.key, Node.keys[n])
         /\ n < m => IF Wildcard THEN ~ Less(Node.keys[n + 1], search.key)
                     ELSE Less(search.key, Node.keys[n + 1])
<1> DEFINE left == [i \in DOMAIN Node.keys |->
                      IF Wildcard THEN Less(Node.keys[i], search.key)
                      ELSE ~ Less(search.key, Node.keys[i])]
<1>1. DOMAIN Node.keys = 1 .. m /\ \A i \in 1 .. m : Node.keys[i] \in Key
  OBVIOUS
<1>2. search.key \in Key /\ search.by \in {"id", "attribute", "fork"}
  BY TreesAssumption
<1>3. \A i \in 1 .. m : /\ Less(Node.keys[i], search.key) \in BOOLEAN
                        /\ Less(search.key, Node.keys[i]) \in BOOLEAN
  BY <1>1, <1>2, LessTyped
<1>4. left \in [1 .. m -> BOOLEAN]
  BY <1>1, <1>3
<1>5. \A i \in 1 .. m : left[i] <=> IF Wildcard THEN Less(Node.keys[i], search.key)
                                    ELSE ~ Less(search.key, Node.keys[i])
  BY <1>1
<1>6. n \in Bisect(left)
  BY DEF Bounds
<1> HIDE DEF left
<1>7. n \in 0 .. m /\ (n > 0 => left[n]) /\ (n < m => ~ left[n + 1])
  BY <1>4, <1>6, Bisected
<1>8. (n > 0 => n \in 1 .. m) /\ (n < m => n + 1 \in 1 .. m)
  BY <1>7
<1> QED BY <1>5, <1>7, <1>8

----------------------------------------------------------------------------
(* The steps.                                                              *)

\* Facts about the leaves that the steps share.
LEMMA LeavesOfPlan ==
  ASSUME SoundTrees, tree \in Trees
  PROVE  /\ Breadth \in Nat
         /\ \A p \in 1 .. Breadth : Leaf(p) \in LeavesOf(tree)
         /\ \A i \in LeavesOf(tree) : /\ \E p \in 1 .. Breadth : i = Leaf(p)
                                      /\ i \in DOMAIN tree.nodes \ {0} /\ tree.nodes[i].kind = "leaf"
                                      /\ tree.nodes[i].link \in LeavesOf(tree) \cup {0}
         /\ \A p, q \in 1 .. Breadth : Leaf(p) = Leaf(q) => p = q
         /\ \A p \in 1 .. Breadth : Plan.first[Leaf(p)] = p /\ Plan.last[Leaf(p)] = p
         /\ \A p \in 1 .. Breadth - 1 : tree.nodes[Leaf(p)].link = Leaf(p + 1)
         /\ tree.root = 0 => Breadth = 0
         /\ 0 \notin LeavesOf(tree)
<1>1. Layout(tree, Plan)
  BY PlanIsLayout
<1>2. /\ Breadth \in Nat
      /\ \A p \in 1 .. Breadth : Leaf(p) \in LeavesOf(tree)
      /\ \A i \in LeavesOf(tree) : \E p \in 1 .. Breadth : i = Leaf(p)
      /\ \A p, q \in 1 .. Breadth : Leaf(p) = Leaf(q) => p = q
  BY <1>1, Places DEF Breadth, Leaf
<1>3. \A i \in LeavesOf(tree) : i \in DOMAIN tree.nodes \ {0} /\ tree.nodes[i].kind = "leaf"
  <2>1. LeavesOf(tree) \subseteq DOMAIN tree.nodes \ {0}
    BY LeafTyped
  <2> QED BY <2>1 DEF LeavesOf
<1>4. /\ \A i \in LeavesOf(tree) : tree.nodes[i].link \in LeavesOf(tree) \cup {0}
      /\ \A p \in 1 .. Breadth - 1 : tree.nodes[Leaf(p)].link = Leaf(p + 1)
  BY <1>1 DEF Layout, Linked, Breadth, Leaf
<1>5. \A p \in 1 .. Breadth : Plan.first[Leaf(p)] = p /\ Plan.last[Leaf(p)] = p
  BY <1>1 DEF Layout, Covers, Breadth, Leaf
<1>6. ASSUME tree.root = 0 PROVE Breadth = 0
  <2>1. LeavesOf(tree) = {}
    BY <1>1, <1>6 DEF Layout, Rooted
  <2>2. 1 \notin 1 .. Breadth
    BY <1>2, <2>1
  <2> QED BY <1>2, <2>2
<1>7. 0 \notin LeavesOf(tree)
  BY LeafTyped
<1> QED BY <1>2, <1>3, <1>4, <1>5, <1>6, <1>7

\* An index node, with what its plan says of its children.
LEMMA IndexNode ==
  ASSUME SoundTrees, tree \in Trees, node \in DOMAIN tree.nodes \ {0}, Node.kind = "index",
         NEW m, m = Len(Node.keys)
  PROVE  /\ m \in Nat \ {0} /\ Node.keys \in Seq(Key)
         /\ \A k \in 1 .. m : /\ Node.children[k] \in DOMAIN tree.nodes \ {0}
                              /\ Plan.first[Node.children[k]] \in 1 .. Breadth
                              /\ Plan.last[Node.children[k]] \in Nat
                              /\ Node.keys[k] = tree.nodes[Leaf(Plan.first[Node.children[k]])].keys[1]
         /\ Plan.first[Node.children[1]] = Plan.first[node]
         /\ Plan.last[Node.children[m]] = Plan.last[node]
         /\ \A k \in 1 .. m - 1 :
              Plan.first[Node.children[k + 1]] = Plan.last[Node.children[k]] + 1
<1>1. Layout(tree, Plan)
  BY PlanIsLayout
<1>0. Shared(tree, Plan, node, Node.children, m)
  BY <1>1, ChildrenShare DEF Node
<1>2. /\ m \in Nat \ {0}
      /\ \A k \in 1 .. m : /\ Node.children[k] \in DOMAIN tree.nodes \ {0}
                           /\ Plan.last[Node.children[k]] \in Nat
      /\ Plan.first[Node.children[1]] = Plan.first[node]
      /\ Plan.last[Node.children[m]] = Plan.last[node]
      /\ \A k \in 1 .. m - 1 :
           Plan.first[Node.children[k + 1]] = Plan.last[Node.children[k]] + 1
  BY <1>0 DEF Shared
<1>3. Node.keys \in Seq(Key)
  BY NodeTyped DEF Node
<1>4. \A i \in DOMAIN tree.nodes \ {0} : Plan.first[i] \in 1 .. Breadth
  BY <1>1 DEF Layout, Covers, Breadth
<1>5. \A k \in 1 .. m : Node.keys[k] = tree.nodes[Leaf(Plan.first[Node.children[k]])].keys[1]
  BY <1>1 DEF Layout, Covers, Leaf, Node
<1> QED BY <1>2, <1>3, <1>4, <1>5

\* The descent keeps the matches on their sides.
LEMMA DescendStep ==
  ASSUME SoundTrees, TreeInv, Descend
  PROVE  DescendInv'
<1> DEFINE m == Len(Node.keys)
           c == Node.children
<1>1. tree' = tree /\ search' = search /\ leaves' = leaves /\ uniqLink' = uniqLink
  BY DEF Descend
<1>2. tree \in Trees /\ search \in Searches(tree) /\ pc = "descend" /\ Node.kind = "index"
  BY DEF Descend, TreeInv, Typed
<1>3. node # 0
  BY <1>2, TreesAssumption DEF Node
<1>4. /\ node \in DOMAIN tree.nodes \ {0} /\ leaves = <<>> /\ uniqLink = {}
      /\ \A p \in 1 .. Breadth : Hit(p) => /\ Plan.first[node] <= p
                                           /\ Wildcard \/ p <= Plan.last[node]
  BY <1>2, <1>3 DEF TreeInv, DescendInv
<1>5. /\ m \in Nat \ {0} /\ Node.keys \in Seq(Key)
      /\ \A k \in 1 .. m : /\ c[k] \in DOMAIN tree.nodes \ {0}
                           /\ Plan.first[c[k]] \in 1 .. Breadth /\ Plan.last[c[k]] \in Nat
                           /\ Node.keys[k] = tree.nodes[Leaf(Plan.first[c[k]])].keys[1]
      /\ Plan.first[c[1]] = Plan.first[node]
      /\ Plan.last[c[m]] = Plan.last[node]
      /\ \A k \in 1 .. m - 1 : Plan.first[c[k + 1]] = Plan.last[c[k]] + 1
  BY <1>2, <1>4, IndexNode
<1>6. PICK n \in Bounds : node' = c[IF n = 0 THEN 1 ELSE n]
  BY DEF Descend, Positions
<1>7. /\ n \in 0 .. m
      /\ n > 0 => IF Wildcard THEN Less(Node.keys[n], search.key)
                  ELSE ~ Less(search.key, Node.keys[n])
      /\ n < m => IF Wildcard THEN ~ Less(Node.keys[n + 1], search.key)
                  ELSE Less(search.key, Node.keys[n + 1])
  BY <1>2, <1>5, Bounded
<1> HIDE DEF m, c
<1>8. ASSUME NEW p \in 1 .. Breadth, Hit(p), NEW k \in 1 .. m
      PROVE  /\ p < Plan.first[c[k]] =>
                  ~ Less(Node.keys[k], search.key) /\ (~ Wildcard => Less(search.key, Node.keys[k]))
             /\ Plan.first[c[k]] <= p => ~ Less(search.key, Node.keys[k])
  BY <1>2, <1>5, <1>8, Sides
<1>9. Breadth \in Nat
  BY <1>2, LeavesOfPlan
<1>10. ASSUME NEW p \in 1 .. Breadth, Hit(p) PROVE Plan.first[node'] <= p
  <2>1. CASE n = 0
    BY <1>4, <1>5, <1>6, <1>10, <2>1
  <2>2. CASE n # 0
    <3>1. n \in 1 .. m /\ n > 0 /\ node' = c[n]
      BY <1>5, <1>6, <1>7, <2>2
    <3>2. ~ (p < Plan.first[c[n]])
      BY <1>7, <1>8, <1>10, <3>1
    <3> QED BY <1>5, <1>9, <3>1, <3>2
  <2> QED BY <2>1, <2>2
<1>11. ASSUME NEW p \in 1 .. Breadth, Hit(p), ~ Wildcard PROVE p <= Plan.last[node']
  <2>1. ASSUME n = 0 PROVE FALSE
    <3>1. 1 \in 1 .. m /\ n < m /\ n + 1 = 1
      BY <1>5, <2>1
    <3>2. Less(search.key, Node.keys[1])
      BY <1>7, <1>11, <3>1
    <3>3. Plan.first[c[1]] <= p
      BY <1>4, <1>5, <1>11
    <3> QED BY <1>8, <1>11, <3>1, <3>2, <3>3
  <2>2. n \in 1 .. m /\ node' = c[n]
    BY <1>5, <1>6, <1>7, <2>1
  <2>3. CASE n = m
    BY <1>4, <1>5, <1>11, <2>2, <2>3
  <2>4. CASE n # m
    <3>1. n < m /\ n + 1 \in 1 .. m /\ n \in 1 .. m - 1
      BY <1>5, <2>2, <2>4
    <3>2. Less(search.key, Node.keys[n + 1])
      BY <1>7, <1>11, <3>1
    <3>3. ~ (Plan.first[c[n + 1]] <= p)
      BY <1>8, <1>11, <3>1, <3>2
    <3>4. Plan.first[c[n + 1]] = Plan.last[c[n]] + 1 /\ Plan.last[c[n]] \in Nat
      BY <1>5, <2>2, <3>1
    <3> QED BY <1>9, <2>2, <3>3, <3>4
  <2> QED BY <2>3, <2>4
<1>12. node' \in DOMAIN tree.nodes \ {0}
  <2>1. (IF n = 0 THEN 1 ELSE n) \in 1 .. m
    BY <1>5, <1>7
  <2> QED BY <1>5, <1>6, <2>1
<1>13. /\ Plan' = Plan /\ Breadth' = Breadth /\ Wildcard' = Wildcard
       /\ \A p : Hit(p)' = Hit(p)
  BY <1>1, PlanStays
<1> QED BY <1>1, <1>4, <1>10, <1>11, <1>12, <1>13 DEF DescendInv

\* A function from 1 .. k is a sequence of length k.
LEMMA FunctionIsSeq ==
  ASSUME NEW S, NEW k \in Nat, NEW f \in [1 .. k -> S]
  PROVE  f \in Seq(S) /\ Len(f) = k
OBVIOUS

\* The leaves of a straight walk are at the places from q to c.
LEMMA StraightReads ==
  ASSUME SoundTrees, tree \in Trees, NEW c \in 1 .. Breadth, NEW q \in 1 .. c,
         leaves = [n \in 1 .. c - q + 1 |-> Leaf(q + n - 1)]
  PROVE  /\ leaves \in Seq(LeavesOf(tree)) /\ Len(leaves) = c - q + 1
         /\ \A p \in q .. c : Leaf(p) \in ToSet(leaves)
         /\ Neighbours
<1>1. Breadth \in Nat /\ \A p \in 1 .. Breadth : Leaf(p) \in LeavesOf(tree)
  BY LeavesOfPlan
<1>2. c \in Nat /\ q \in Nat /\ c - q + 1 \in Nat
  BY <1>1
<1>3. \A n \in 1 .. c - q + 1 : q + n - 1 \in 1 .. Breadth
  BY <1>1, <1>2
<1>4. leaves \in Seq(LeavesOf(tree)) /\ Len(leaves) = c - q + 1
  <2>1. leaves \in [1 .. c - q + 1 -> LeavesOf(tree)]
    BY <1>1, <1>3
  <2> QED BY <1>2, <2>1, FunctionIsSeq
<1>5. ASSUME NEW p \in q .. c PROVE Leaf(p) \in ToSet(leaves)
  <2>1. p - q + 1 \in 1 .. c - q + 1 /\ q + (p - q + 1) - 1 = p
    BY <1>2
  <2>2. leaves[p - q + 1] = Leaf(p)
    BY <2>1
  <2>3. p - q + 1 \in DOMAIN leaves
    BY <2>1
  <2> QED BY <2>2, <2>3 DEF ToSet
<1>6. Neighbours
  <2>1. \A n \in 1 .. Len(leaves) : q + n - 1 \in 1 .. Breadth /\ leaves[n] = Leaf(q + n - 1)
    BY <1>3, <1>4
  <2> QED BY <1>2, <2>1 DEF Neighbours
<1> QED BY <1>4, <1>5, <1>6

\* A walk whose next leaf is not the one at the next place has read the leaves
\* of all matches, and if there is a next one links never end.
LEMMA WalkEnd ==
  ASSUME SoundTrees, TreeInv, pc = "walk",
         ~ \E c \in 1 .. Breadth - 1 : \E q \in 1 .. c : StraightFrom(q, c)
  PROVE  /\ AllRead /\ node \in LeavesOf(tree)
         /\ Node.link # 0 => \A i \in LeavesOf(tree) : tree.nodes[i].link # 0
<1>1. tree \in Trees /\ Wildcard /\ (Straight \/ Looped)
  BY DEF TreeInv, Typed, WalkInv
<1>2. CASE Looped
  BY <1>2 DEF Looped
<1>3. CASE Straight
  <2>0. PICK c \in 1 .. Breadth : \E q \in 1 .. c : StraightFrom(q, c)
    BY <1>3 DEF Straight
  <2>1. PICK q \in 1 .. c : StraightFrom(q, c)
    BY <2>0
  <2>2. Breadth \in Nat
    BY <1>1, LeavesOfPlan
  <2>3. c = Breadth
    <3>1. c \notin 1 .. Breadth - 1
      BY <2>1
    <3> QED BY <2>2, <3>1
  <2>4. \A p \in q .. c : Leaf(p) \in ToSet(leaves)
    BY <1>1, <2>1, StraightReads DEF StraightFrom
  <2>5. AllRead
    <3>1. ASSUME NEW p \in 1 .. Breadth, Hit(p) PROVE p \in q .. c
      BY <2>1, <2>2, <2>3, <3>1 DEF StraightFrom
    <3> QED BY <2>4, <3>1 DEF AllRead
  <2>6. node \in LeavesOf(tree)
    BY <1>1, <2>1, LeavesOfPlan DEF StraightFrom
  <2>7. ASSUME Node.link # 0, NEW i \in LeavesOf(tree) PROVE tree.nodes[i].link # 0
    <3>1. PICK p \in 1 .. Breadth : i = Leaf(p)
      BY <1>1, LeavesOfPlan
    <3>2. CASE p = Breadth
      BY <2>1, <2>3, <2>7, <3>1, <3>2 DEF Node, StraightFrom
    <3>3. CASE p # Breadth
      <4>1. p \in 1 .. Breadth - 1 /\ p + 1 \in 1 .. Breadth
        BY <2>2, <3>3
      <4>2. tree.nodes[i].link = Leaf(p + 1) /\ Leaf(p + 1) # 0
        BY <1>1, <3>1, <4>1, LeavesOfPlan
      <4> QED BY <4>2
    <3> QED BY <3>2, <3>3
  <2> QED BY <2>5, <2>6, <2>7
<1> QED BY <1>1, <1>2, <1>3

\* A search that arrives has all matches to its right, and an exact one has
\* them in its leaf.
LEMMA ArriveStep ==
  ASSUME SoundTrees, TreeInv, Arrive
  PROVE  WalkInv' /\ ReturnedInv' /\ LeavesInv'
<1>1. /\ tree' = tree /\ search' = search /\ leaves' = <<node>> /\ node' = node
      /\ uniqLink' = uniqLink /\ pc' = IF Wildcard THEN "walk" ELSE "returned"
  BY DEF Arrive
<1>2. tree \in Trees /\ pc = "descend" /\ Node.kind = "leaf"
  BY DEF Arrive, TreeInv, Typed
<1>3. node # 0
  BY <1>2, TreesAssumption DEF Node
<1>4. /\ node \in DOMAIN tree.nodes /\ uniqLink = {}
      /\ \A p \in 1 .. Breadth : Hit(p) => /\ Plan.first[node] <= p
                                           /\ Wildcard \/ p <= Plan.last[node]
  BY <1>2, <1>3 DEF TreeInv, DescendInv
<1>5. node \in LeavesOf(tree)
  BY <1>2, <1>4 DEF LeavesOf, Node
<1>6. PICK c \in 1 .. Breadth : node = Leaf(c)
  BY <1>2, <1>5, LeavesOfPlan
<1>7. Plan.first[node] = c /\ Plan.last[node] = c /\ Breadth \in Nat
  BY <1>2, <1>6, LeavesOfPlan
<1>8. /\ Plan' = Plan /\ Breadth' = Breadth /\ \A p : Leaf(p)' = Leaf(p)
      /\ Wildcard' = Wildcard /\ \A p : Hit(p)' = Hit(p)
  BY <1>1, PlanStays
<1>9. leaves' \in Seq(LeavesOf(tree)) /\ Len(leaves') = 1 /\ leaves'[1] = Leaf(c)
  BY <1>1, <1>5, <1>6
<1>10. WalkInv'
  <2> SUFFICES ASSUME Wildcard PROVE Straight'
    BY <1>1, <1>8 DEF WalkInv
  <2>1. leaves' = [n \in 1 .. c - c + 1 |-> Leaf(c + n - 1)]
    <3>1. c - c + 1 = 1 /\ \A n \in 1 .. 1 : c + n - 1 = c
      BY <1>7
    <3> QED BY <1>1, <1>6, <3>1
  <2>2. uniqLink' = {Leaf(x) : x \in c + 1 .. c}
    <3>1. c + 1 .. c = {}
      BY <1>7
    <3> QED BY <1>1, <1>4, <3>1
  <2>3. \A p \in 1 .. Breadth : Hit(p) => c <= p
    BY <1>4, <1>7
  <2>4. c \in 1 .. c
    BY <1>7
  <2>5. StraightFrom(c, c)'
    BY <1>1, <1>6, <1>8, <2>1, <2>2, <2>3 DEF StraightFrom
  <2> QED BY <1>8, <2>4, <2>5 DEF Straight
<1>11. ReturnedInv'
  <2> SUFFICES ASSUME ~ Wildcard, NEW p \in 1 .. Breadth, Hit(p) PROVE Leaf(p) \in ToSet(leaves')
    BY <1>1, <1>8 DEF ReturnedInv, AllRead
  <2>1. p = c
    BY <1>4, <1>7
  <2>2. 1 \in DOMAIN leaves'
    BY <1>9
  <2> QED BY <1>9, <2>1, <2>2 DEF ToSet
<1>12. Neighbours'
  <2>1. \A n \in 1 .. Len(leaves') : n = 1 /\ c + n - 1 = c
    BY <1>7, <1>9
  <2>2. c \in Nat
    BY <1>7
  <2>3. \A n \in 1 .. Len(leaves') : c + n - 1 \in 1 .. Breadth /\ leaves'[n] = Leaf(c + n - 1)
    BY <1>9, <2>1
  <2> QED BY <1>8, <2>2, <2>3 DEF Neighbours
<1> QED BY <1>1, <1>9, <1>10, <1>11, <1>12 DEF LeavesInv

\* From a place that is not the last the walk goes on to the next one.
LEMMA FollowStraight ==
  ASSUME SoundTrees, TreeInv, Follow,
         NEW c \in 1 .. Breadth - 1, NEW q \in 1 .. c, StraightFrom(q, c)
  PROVE  WalkInv' /\ ReturnedInv' /\ LeavesInv'
<1> DEFINE beyond == Beyond(tree.nodes[Node.link].keys[1])
<1>1. /\ pc = "walk" /\ tree' = tree /\ search' = search
      /\ node' = Node.link /\ uniqLink' = uniqLink \cup {Node.link}
      /\ IF beyond THEN pc' = "returned" /\ leaves' = leaves
         ELSE leaves' = Append(leaves, Node.link) /\ pc' = pc
  BY DEF Follow
<1>2. tree \in Trees /\ search \in Searches(tree) /\ Wildcard
  BY <1>1 DEF TreeInv, Typed, WalkInv
<1>3. Breadth \in Nat /\ \A p \in 1 .. Breadth : Leaf(p) \in LeavesOf(tree)
  BY <1>2, LeavesOfPlan
<1>4. c \in 1 .. Breadth /\ c + 1 \in 1 .. Breadth /\ c \in Nat /\ q \in Nat
  BY <1>3
<1>5. Node.link = Leaf(c + 1)
  BY <1>2, <1>4, LeavesOfPlan DEF StraightFrom, Node
<1>6. /\ leaves = [n \in 1 .. c - q + 1 |-> Leaf(q + n - 1)]
      /\ uniqLink = {Leaf(x) : x \in q + 1 .. c}
      /\ \A p \in 1 .. Breadth : Hit(p) => q <= p
  BY DEF StraightFrom
<1>7. /\ leaves \in Seq(LeavesOf(tree)) /\ Len(leaves) = c - q + 1
      /\ \A p \in q .. c : Leaf(p) \in ToSet(leaves)
      /\ Neighbours
  BY <1>2, <1>4, <1>6, StraightReads
<1>8. /\ Plan' = Plan /\ Breadth' = Breadth /\ \A p : Leaf(p)' = Leaf(p)
      /\ Wildcard' = Wildcard /\ \A p : Hit(p)' = Hit(p)
  BY <1>1, PlanStays
<1> HIDE DEF beyond
<1>9. CASE beyond
  <2>1. ASSUME NEW p \in 1 .. Breadth, Hit(p) PROVE Leaf(p) \in ToSet(leaves)
    <3>1. ~ (c + 1 <= p)
      BY <1>2, <1>4, <1>5, <1>9, <2>1, Sides DEF beyond, Beyond
    <3>2. p \in q .. c
      BY <1>3, <1>4, <1>6, <2>1, <3>1
    <3> QED BY <1>7, <3>2
  <2>2. ReturnedInv'
    BY <1>1, <1>8, <1>9, <2>1 DEF ReturnedInv, AllRead
  <2>3. LeavesInv'
    BY <1>1, <1>7, <1>8, <1>9 DEF LeavesInv, Neighbours
  <2> QED BY <1>1, <1>9, <2>2, <2>3 DEF WalkInv
<1>10. CASE ~ beyond
  <2>1. leaves' = [n \in 1 .. (c + 1) - q + 1 |-> Leaf(q + n - 1)]
    <3> DEFINE s == [n \in 1 .. (c + 1) - q + 1 |-> Leaf(q + n - 1)]
               k == c - q + 1
    <3>1. k \in Nat /\ (c + 1) - q + 1 = k + 1 /\ q + (k + 1) - 1 = c + 1
      BY <1>4
    <3>2. leaves' = Append(leaves, Leaf(c + 1)) /\ Len(leaves) = k
      BY <1>1, <1>5, <1>7, <1>10
    <3>3. \A n \in 1 .. k : leaves[n] = Leaf(q + n - 1)
      BY <1>6
    <3> HIDE DEF k
    <3>4. \A n \in 1 .. k + 1 : leaves'[n] = Leaf(q + n - 1)
      <4> SUFFICES ASSUME NEW n \in 1 .. k + 1 PROVE leaves'[n] = Leaf(q + n - 1)
        OBVIOUS
      <4>1. CASE n = k + 1
        BY <1>7, <3>1, <3>2, <4>1
      <4>2. CASE n # k + 1
        <5>1. n \in 1 .. k
          BY <3>1, <4>2
        <5>2. leaves'[n] = leaves[n]
          BY <1>7, <3>1, <3>2, <5>1
        <5> QED BY <3>3, <5>1, <5>2
      <4> QED BY <4>1, <4>2
    <3>5. leaves' \in [1 .. k + 1 -> LeavesOf(tree)]
      <4>1. leaves' \in Seq(LeavesOf(tree)) /\ Len(leaves') = k + 1
        BY <1>3, <1>4, <1>7, <3>1, <3>2
      <4> QED BY <4>1
    <3> QED BY <3>1, <3>4, <3>5
  <2>2. uniqLink' = {Leaf(x) : x \in q + 1 .. c + 1}
    <3>1. q + 1 .. c + 1 = (q + 1 .. c) \cup {c + 1}
      BY <1>4
    <3> QED BY <1>1, <1>5, <1>6, <3>1
  <2>3. q \in 1 .. c + 1
    BY <1>4
  <2>4. StraightFrom(q, c + 1)'
    BY <1>1, <1>5, <1>6, <1>8, <2>1, <2>2 DEF StraightFrom
  <2>5. Straight'
    BY <1>4, <1>8, <2>3, <2>4 DEF Straight
  <2>6. leaves' \in Seq(LeavesOf(tree')) /\ Len(leaves') = c - q + 2
    <3>1. leaves' = Append(leaves, Leaf(c + 1)) /\ tree' = tree
      BY <1>1, <1>5, <1>10
    <3>2. Len(leaves) + 1 = c - q + 2 /\ Leaf(c + 1) \in LeavesOf(tree)
      BY <1>3, <1>4, <1>7
    <3> QED BY <1>7, <3>1, <3>2
  <2>7. Neighbours'
    <3>1. \A n \in 1 .. c - q + 2 : q + n - 1 \in 1 .. Breadth /\ n \in 1 .. (c + 1) - q + 1
      BY <1>3, <1>4
    <3>2. \A n \in 1 .. Len(leaves') : q + n - 1 \in 1 .. Breadth /\ leaves'[n] = Leaf(q + n - 1)
      BY <2>1, <2>6, <3>1
    <3> QED BY <1>4, <1>8, <3>2 DEF Neighbours
  <2> QED BY <1>1, <1>2, <1>8, <1>10, <2>5, <2>6, <2>7 DEF WalkInv, ReturnedInv, LeavesInv
<1> QED BY <1>9, <1>10

\* A link from the last place leads to a leaf that was read or has no match.
LEMMA FollowBack ==
  ASSUME SoundTrees, TreeInv, Follow,
         ~ \E c \in 1 .. Breadth - 1 : \E q \in 1 .. c : StraightFrom(q, c)
  PROVE  WalkInv' /\ ReturnedInv' /\ LeavesInv'
<1>1. /\ pc = "walk" /\ Node.link # 0 /\ tree' = tree /\ search' = search /\ node' = Node.link
      /\ \/ pc' = "returned" /\ leaves' = leaves
         \/ leaves' = Append(leaves, Node.link) /\ pc' = pc
  BY DEF Follow
<1>2. tree \in Trees /\ Wildcard /\ leaves \in Seq(LeavesOf(tree))
  BY <1>1 DEF TreeInv, Typed, WalkInv, LeavesInv
<1>3. /\ AllRead /\ node \in LeavesOf(tree)
      /\ \A i \in LeavesOf(tree) : tree.nodes[i].link # 0
  BY <1>1, WalkEnd
<1>4. Node.link \in LeavesOf(tree)
  BY <1>1, <1>2, <1>3, LeavesOfPlan DEF Node
<1>5. leaves' \in Seq(LeavesOf(tree)) /\ ToSet(leaves) \subseteq ToSet(leaves')
  <2>1. CASE leaves' = leaves
    BY <1>2, <2>1
  <2>2. CASE leaves' = Append(leaves, Node.link)
    <3>1. /\ leaves' \in Seq(LeavesOf(tree))
          /\ Len(leaves') = Len(leaves) + 1 /\ Len(leaves) \in Nat
          /\ \A n \in 1 .. Len(leaves) : leaves'[n] = leaves[n]
      BY <1>2, <1>4, <2>2
    <3>2. DOMAIN leaves' = 1 .. Len(leaves') /\ DOMAIN leaves = 1 .. Len(leaves)
      BY <1>2, <3>1
    <3> QED BY <3>1, <3>2 DEF ToSet
  <2> QED BY <1>1, <2>1, <2>2
<1>6. /\ Breadth' = Breadth /\ \A p : Leaf(p)' = Leaf(p)
      /\ Wildcard' = Wildcard /\ \A p : Hit(p)' = Hit(p)
  BY <1>1, PlanStays
<1>7. AllRead'
  BY <1>3, <1>5, <1>6 DEF AllRead
<1>8. Looped'
  BY <1>1, <1>3, <1>4, <1>7 DEF Looped
<1>9. LeavesInv'
  BY <1>1, <1>3, <1>5 DEF LeavesInv
<1> QED BY <1>2, <1>6, <1>7, <1>8, <1>9 DEF WalkInv, ReturnedInv

\* Where the links end, or come to a leaf that was read, the leaves of all
\* matches have been read.
LEMMA EndOfLinksStep ==
  ASSUME SoundTrees, TreeInv, EndOfLinks
  PROVE  ReturnedInv'
<1>1. /\ pc = "walk" /\ (Node.link = 0 \/ Followed)
      /\ tree' = tree /\ search' = search /\ leaves' = leaves
  BY DEF EndOfLinks
<1>2. tree \in Trees
  BY DEF TreeInv, Typed
<1>3. ASSUME NEW c \in 1 .. Breadth - 1, NEW q \in 1 .. c, StraightFrom(q, c) PROVE FALSE
  <2>1. Breadth \in Nat /\ c \in 1 .. Breadth /\ c + 1 \in 1 .. Breadth /\ c \in Nat /\ q \in Nat
    BY <1>2, LeavesOfPlan
  <2>2. Node.link = Leaf(c + 1) /\ Leaf(c + 1) # 0
    BY <1>2, <1>3, <2>1, LeavesOfPlan DEF StraightFrom, Node
  <2>3. PICK x \in q + 1 .. c : Leaf(c + 1) = Leaf(x)
    BY <1>1, <1>3, <2>2 DEF Followed, StraightFrom
  <2>4. x \in 1 .. Breadth /\ x # c + 1
    BY <2>1
  <2> QED BY <1>2, <2>1, <2>3, <2>4, LeavesOfPlan
<1>4. AllRead
  BY <1>1, <1>3, WalkEnd
<1>5. Breadth' = Breadth /\ (\A p : Leaf(p)' = Leaf(p)) /\ \A p : Hit(p)' = Hit(p)
  BY <1>1, PlanStays
<1> QED BY <1>1, <1>4, <1>5 DEF ReturnedInv, AllRead

----------------------------------------------------------------------------
(* The invariant holds.                                                    *)

LEMMA InitInv ==
  ASSUME Init
  PROVE  TreeInv
<1>1. LeavesInv
  <2>1. leaves = <<>> /\ Len(leaves) = 0
    BY DEF Init
  <2>2. Neighbours
    BY <2>1 DEF Neighbours
  <2> QED BY <2>1, <2>2 DEF LeavesInv
<1> QED BY <1>1 DEF Init, TreeInv, Typed, DescendInv, WalkInv, ReturnedInv

\* A step that leaves the answer alone leaves it in order.
LEMMA LeavesStay ==
  ASSUME LeavesInv, tree' = tree, leaves' = leaves \/ leaves' = <<>>
  PROVE  LeavesInv'
<1>1. Breadth' = Breadth /\ \A p : Leaf(p)' = Leaf(p)
  BY PlanStays
<1>2. CASE leaves' = leaves
  BY <1>1, <1>2 DEF LeavesInv, Neighbours
<1>3. CASE leaves' = <<>>
  <2>1. Len(leaves') = 0
    BY <1>3
  <2>2. Neighbours'
    <3>1. 0 \in Nat /\ \A n \in 1 .. Len(leaves') : FALSE
      BY <2>1
    <3> QED BY <3>1 DEF Neighbours
  <2> QED BY <1>3, <2>2 DEF LeavesInv
<1> QED BY <1>2, <1>3

\* A call starts at the root, with all leaves of the tree below.
LEMMA FindStep ==
  ASSUME SoundTrees, TreeInv, NEW s \in Searches(tree), Find(s)
  PROVE  DescendInv'
<1>1. /\ tree' = tree /\ search' = s /\ node' = tree.root
      /\ leaves' = <<>> /\ uniqLink' = {}
  BY DEF Find
<1>2. tree \in Trees /\ Layout(tree, Plan)
  BY PlanIsLayout DEF TreeInv, Typed
<1>3. tree.root \in DOMAIN tree.nodes
  BY <1>2, TreesAssumption
<1>4. tree.root # 0 => Plan.first[tree.root] = 1 /\ Plan.last[tree.root] = Breadth
  BY <1>2 DEF Layout, Rooted, Breadth
<1>5. Breadth \in Nat
  BY <1>2, LeavesOfPlan
<1>6. Plan' = Plan /\ Breadth' = Breadth
  BY <1>1, PlanStays
<1>7. tree.root # 0 => \A p \in 1 .. Breadth : /\ Plan.first[tree.root] <= p
                                               /\ p <= Plan.last[tree.root]
  BY <1>4, <1>5
<1> QED BY <1>1, <1>3, <1>6, <1>7 DEF DescendInv

\* An empty tree has no match.
LEMMA NoLeafStep ==
  ASSUME SoundTrees, TreeInv, NoLeaf
  PROVE  ReturnedInv'
<1>1. pc = "descend" /\ Node.kind = "header" /\ tree' = tree
  BY DEF NoLeaf
<1>2. tree \in Trees
  BY DEF TreeInv, Typed
<1>3. node = 0
  <2>1. node # 0 => node \in DOMAIN tree.nodes \ {0}
    BY <1>1 DEF TreeInv, DescendInv
  <2> QED BY <1>1, <1>2, <2>1, TreesAssumption DEF Node
<1>4. tree.root = 0
  BY <1>1, <1>3 DEF TreeInv, DescendInv
<1>5. Breadth = 0 /\ Breadth' = Breadth
  BY <1>1, <1>2, <1>4, LeavesOfPlan, PlanStays
<1>6. 1 .. Breadth' = {}
  BY <1>5
<1> QED BY <1>6 DEF ReturnedInv, AllRead

LEMMA NextInv ==
  ASSUME SoundTrees, TreeInv, [Next]_vars
  PROVE  TreeInv'
<1> USE DEF TreeInv
<1>1. ASSUME NEW s \in Searches(tree), Find(s) PROVE TreeInv'
  <2>1. Typed' /\ WalkInv' /\ ReturnedInv'
    BY <1>1 DEF Find, Typed, WalkInv, ReturnedInv
  <2>2. DescendInv'
    BY <1>1, FindStep
  <2>3. LeavesInv'
    BY <1>1, LeavesStay DEF Find
  <2> QED BY <2>1, <2>2, <2>3
<1>2. CASE Descend
  <2>1. Typed' /\ WalkInv' /\ ReturnedInv'
    BY <1>2 DEF Descend, Typed, WalkInv, ReturnedInv
  <2>2. DescendInv'
    BY <1>2, DescendStep
  <2>3. LeavesInv'
    BY <1>2, LeavesStay DEF Descend
  <2> QED BY <2>1, <2>2, <2>3
<1>3. CASE Arrive
  <2>1. Typed' /\ DescendInv'
    BY <1>3 DEF Arrive, Typed, DescendInv
  <2> QED BY <1>3, <2>1, ArriveStep
<1>4. CASE NoLeaf
  <2>1. Typed' /\ DescendInv' /\ WalkInv'
    BY <1>4 DEF NoLeaf, Typed, DescendInv, WalkInv
  <2>2. LeavesInv'
    BY <1>4, LeavesStay DEF NoLeaf
  <2> QED BY <1>4, <2>1, <2>2, NoLeafStep
<1>5. CASE Follow
  <2>1. Typed' /\ DescendInv'
    BY <1>5 DEF Follow, Typed, DescendInv
  <2>2. WalkInv' /\ ReturnedInv' /\ LeavesInv'
    BY <1>5, FollowStraight, FollowBack
  <2> QED BY <2>1, <2>2
<1>6. CASE EndOfLinks
  <2>1. Typed' /\ DescendInv' /\ WalkInv'
    BY <1>6 DEF EndOfLinks, Typed, DescendInv, WalkInv
  <2>2. LeavesInv'
    BY <1>6, LeavesStay DEF EndOfLinks
  <2> QED BY <1>6, <2>1, <2>2, EndOfLinksStep
<1>7. CASE ReadFails \/ Leave
  <2>1. Typed' /\ DescendInv' /\ WalkInv' /\ ReturnedInv'
    BY <1>7 DEF ReadFails, Leave, Typed, DescendInv, WalkInv, ReturnedInv
  <2>2. LeavesInv'
    BY <1>7, LeavesStay DEF ReadFails, Leave
  <2> QED BY <2>1, <2>2
<1>8. CASE UNCHANGED vars
  <2>1. /\ Plan' = Plan /\ Breadth' = Breadth /\ \A p : Leaf(p)' = Leaf(p)
        /\ Wildcard' = Wildcard /\ \A p : Hit(p)' = Hit(p)
    BY <1>8, PlanStays DEF vars
  <2>2. Typed'
    BY <1>8 DEF vars, Typed
  <2>3. DescendInv'
    BY <1>8, <2>1 DEF vars, DescendInv
  <2>4. WalkInv'
    BY <1>8, <2>1 DEF vars, WalkInv, Straight, StraightFrom, Looped, AllRead
  <2>5. ReturnedInv'
    BY <1>8, <2>1 DEF vars, ReturnedInv, AllRead
  <2>6. LeavesInv'
    BY <1>8, LeavesStay DEF vars
  <2> QED BY <2>2, <2>3, <2>4, <2>5, <2>6
<1> QED BY <1>1, <1>2, <1>3, <1>4, <1>5, <1>6, <1>7, <1>8 DEF Next, Step

LEMMA TreeInvHolds ==
  ASSUME SoundTrees
  PROVE  Spec => []TreeInv
<1>1. Init => TreeInv
  BY InitInv
<1>2. TreeInv /\ [Next]_vars => TreeInv'
  BY NextInv
<1> QED BY <1>1, <1>2, PTL DEF Spec

----------------------------------------------------------------------------
(* What follows from it.                                                   *)

\* The order of leaves by their first records is that of their places.
LEMMA BeforeIsPlace ==
  ASSUME SoundTrees, tree \in Trees, NEW p \in 1 .. Breadth, NEW q \in 1 .. Breadth
  PROVE  Before(Leaf(p), Leaf(q)) <=> p < q
<1> DEFINE a == tree.nodes[Leaf(p)].keys
           b == tree.nodes[Leaf(q)].keys
<1>1. Layout(tree, Plan) /\ Breadth \in Nat
  BY PlanIsLayout, LeavesOfPlan
<1>2. Leaf(p) \in LeavesOf(tree) /\ Leaf(q) \in LeavesOf(tree)
  BY LeavesOfPlan
<1>3. 1 \in DOMAIN a /\ 1 \in DOMAIN b
  BY <1>2, LeafTyped, NodeTyped
<1>4. a[1] \in Key /\ b[1] \in Key
  BY <1>2, LeafTyped
<1>5. /\ p < q => Precedes(a[1], b[1])
      /\ q < p => Precedes(b[1], a[1])
  BY <1>1, <1>3 DEF Layout, Ordered, Breadth, Leaf
<1> HIDE DEF a, b
<1>6. ~ (Precedes(a[1], b[1]) /\ Precedes(b[1], a[1])) /\ ~ Precedes(a[1], a[1])
  BY <1>4 DEF Precedes, Key
<1>7. p = q => a = b
  BY DEF a, b
<1> QED BY <1>1, <1>5, <1>6, <1>7 DEF Before, a, b

LEMMA InvOnTheWay ==
  ASSUME SoundTrees, TreeInv
  PROVE  OnTheWay
<1> SUFFICES ASSUME pc = "descend", NEW i \in LeavesOf(tree), Matching(i) # {}
             PROVE  \/ i \in Below(node)
                    \/ Wildcard /\ \A j \in Below(node) : Before(j, i)
  BY DEF OnTheWay
<1>1. tree \in Trees /\ DescendInv
  BY DEF TreeInv, Typed
<1>2. PICK p \in 1 .. Breadth : i = Leaf(p)
  BY <1>1, LeavesOfPlan
<1>3. Breadth \in Nat /\ (tree.root = 0 => Breadth = 0)
  BY <1>1, LeavesOfPlan
<1>4. node # 0
  BY <1>1, <1>2, <1>3 DEF DescendInv
<1>5. /\ node \in DOMAIN tree.nodes \ {0}
      /\ Plan.first[node] <= p /\ (Wildcard \/ p <= Plan.last[node])
  BY <1>1, <1>2, <1>4 DEF DescendInv, Hit
<1>6. Plan.first[node] \in 1 .. Breadth /\ Plan.last[node] \in 1 .. Breadth
  BY <1>1, <1>5, PlanIsLayout DEF Layout, Covers, Breadth
<1>7. Below(node) = {Leaf(x) : x \in Plan.first[node] .. Plan.last[node]}
  BY <1>1, <1>5, PlanIsLayout, BelowCovered DEF Below, Leaf
<1>8. CASE p <= Plan.last[node]
  <2>1. p \in Plan.first[node] .. Plan.last[node]
    BY <1>3, <1>5, <1>6, <1>8
  <2> QED BY <1>2, <1>7, <2>1
<1>9. CASE ~ (p <= Plan.last[node])
  <2>1. ASSUME NEW j \in Below(node) PROVE Before(j, i)
    <3>1. PICK x \in Plan.first[node] .. Plan.last[node] : j = Leaf(x)
      BY <1>7, <2>1
    <3>2. x \in 1 .. Breadth /\ x < p
      BY <1>3, <1>6, <1>9
    <3> QED BY <1>1, <1>2, <3>1, <3>2, BeforeIsPlace
  <2> QED BY <1>5, <1>9, <2>1
<1> QED BY <1>8, <1>9

LEMMA InvInOrder ==
  ASSUME SoundTrees, TreeInv
  PROVE  InOrder
<1> SUFFICES ASSUME Neighbours, NEW n \in 1 .. Len(leaves) - 1
             PROVE  /\ Before(leaves[n], leaves[n + 1])
                    /\ \A i \in LeavesOf(tree) : ~ (Before(leaves[n], i) /\ Before(i, leaves[n + 1]))
  BY DEF InOrder, TreeInv, LeavesInv
<1>1. tree \in Trees /\ leaves \in Seq(LeavesOf(tree))
  BY DEF TreeInv, Typed, LeavesInv
<1>2. PICK q \in Nat : \A x \in 1 .. Len(leaves) : q + x - 1 \in 1 .. Breadth /\ leaves[x] = Leaf(q + x - 1)
  BY DEF Neighbours
<1>3. n \in 1 .. Len(leaves) /\ n + 1 \in 1 .. Len(leaves) /\ q + (n + 1) - 1 = q + n
  BY <1>1
<1>4. /\ q + n - 1 \in 1 .. Breadth /\ leaves[n] = Leaf(q + n - 1)
      /\ q + n \in 1 .. Breadth /\ leaves[n + 1] = Leaf(q + n)
  BY <1>2, <1>3
<1>5. q + n - 1 < q + n
  OBVIOUS
<1>6. Before(leaves[n], leaves[n + 1])
  BY <1>1, <1>4, <1>5, BeforeIsPlace
<1>7. ASSUME NEW i \in LeavesOf(tree), Before(leaves[n], i), Before(i, leaves[n + 1]) PROVE FALSE
  <2>1. PICK p \in 1 .. Breadth : i = Leaf(p)
    BY <1>1, LeavesOfPlan
  <2>2. q + n - 1 < p /\ p < q + n
    BY <1>1, <1>4, <1>7, <2>1, BeforeIsPlace
  <2> QED BY <2>2
<1> QED BY <1>6, <1>7

\* No descent goes past a record that matches, whatever the depth of the tree
\* and however often a key is repeated: the bisection of
\* HFSBTree::traverseTree() (HFSBTree.cpp:98-115).
THEOREM TreeOnTheWay ==
  ASSUME SoundTrees
  PROVE  Spec => []OnTheWay
<1>1. TreeInv => OnTheWay
  BY InvOnTheWay
<1> QED BY <1>1, TreeInvHolds, PTL

\* The leaves come in the order of the tree, none left out and none twice: the
\* loop of HFSBTree::findLeafNodes() (HFSBTree.cpp:56-80).
THEOREM TreeInOrder ==
  ASSUME SoundTrees
  PROVE  Spec => []InOrder
<1>1. TreeInv => InOrder
  BY InvInOrder
<1> QED BY <1>1, TreeInvHolds, PTL

----------------------------------------------------------------------------
(* The contract.                                                           *)

\* The records that match are in the leaves that hold one.
LEMMA AllFound ==
  ASSUME NEW t \in Trees, NEW s, NEW L \in SUBSET LeavesOf(t),
         \A i \in LeavesOf(t) : {k \in ToSet(t.nodes[i].keys) : Matches(s, k)} # {} => i \in L
  PROVE  UNION {{k \in ToSet(t.nodes[i].keys) : Matches(s, k)} : i \in L}
           = {r \in Records(t) : \A x \in {s} : Matches(x, r)}
BY DEF Records

\* What a step does is what a step of the contract does.
LEMMA ContractStep ==
  ASSUME SoundTrees, TreeInv, TreeInv', [Next]_vars
  PROVE  [C!Next]_(C!vars)
<1> USE DEF C!Next, C!Progress, C!vars
<1>1. ASSUME NEW s \in Searches(tree), Find(s) PROVE C!Ask(s)
  BY <1>1 DEF Find, C!Ask
<1>2. CASE Descend
  BY <1>2 DEF Descend
<1>3. ASSUME tree' = tree, search' = search, pc \in {"descend", "walk"}, pc' = "returned"
      PROVE  C!Answer
  <2>1. tree \in Trees /\ AllRead' /\ leaves' \in Seq(LeavesOf(tree))
    BY <1>3 DEF TreeInv, Typed, ReturnedInv, LeavesInv
  <2>2. ToSet(leaves') \in SUBSET LeavesOf(tree)
    BY <2>1 DEF ToSet
  <2>3. \A p \in 1 .. Breadth : Hit(p) => Leaf(p) \in ToSet(leaves')
    <3>1. Breadth' = Breadth /\ (\A p : Leaf(p)' = Leaf(p)) /\ \A p : Hit(p)' = Hit(p)
      BY <1>3, PlanStays
    <3> QED BY <2>1, <3>1 DEF AllRead
  <2>4. \A i \in LeavesOf(tree) : Matching(i) # {} => i \in ToSet(leaves')
    <3> SUFFICES ASSUME NEW i \in LeavesOf(tree), Matching(i) # {} PROVE i \in ToSet(leaves')
      OBVIOUS
    <3>1. PICK p \in 1 .. Breadth : i = Leaf(p)
      BY <2>1, LeavesOfPlan
    <3>2. Hit(p)
      BY <3>1 DEF Hit
    <3> QED BY <2>3, <3>1, <3>2
  <2>5. UNION {Matching(i) : i \in ToSet(leaves')}
          = {r \in Records(tree) : \A s \in {search} : Matches(s, r)}
    BY <2>1, <2>2, <2>4, AllFound DEF Matching
  <2>6. \A i : Matching(i)' = Matching(i)
    BY <1>3 DEF Matching, Matches
  <2>7. UNION {Matching(i)' : i \in ToSet(leaves')} = UNION {Matching(i) : i \in ToSet(leaves')}
    BY <2>6
  <2> QED BY <1>3, <2>5, <2>7 DEF C!Answer
<1>4. CASE Arrive
  BY <1>3, <1>4 DEF Arrive
<1>5. CASE NoLeaf
  BY <1>3, <1>5 DEF NoLeaf
<1>6. CASE Follow
  BY <1>3, <1>6 DEF Follow
<1>7. CASE EndOfLinks
  BY <1>3, <1>7 DEF EndOfLinks
<1>8. CASE ReadFails
  BY <1>8 DEF ReadFails, C!Fail
<1>9. CASE Leave
  BY <1>9 DEF Leave, C!Done
<1>10. CASE UNCHANGED vars
  BY <1>10 DEF vars, Matching, Matches
<1> QED BY <1>1, <1>2, <1>4, <1>5, <1>6, <1>7, <1>8, <1>9, <1>10 DEF Next, Step

\* A search fails or finds the records that match, all of them and no other
\* (findLeafNode() and findLeafNodes(), HFSBTree.cpp:36-96): the safety of its
\* contract RecordSearch.
THEOREM SearchImplements ==
  ASSUME SoundTrees
  PROVE  Spec => C!SafeSpec
<1>1. Init => C!Init
  BY DEF Init, C!Init
<1>2. TreeInv /\ TreeInv' /\ [Next]_vars => [C!Next]_(C!vars)
  BY ContractStep
<1> QED BY <1>1, <1>2, TreeInvHolds, PTL DEF Spec, C!SafeSpec

=============================================================================
