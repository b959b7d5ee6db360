----------------------------- MODULE MCHFSBTree -----------------------------
(* Model checking of HFSBTree: every tree of two or three levels over a few *)
(* sequences of five records, with one or two records in a leaf.            *)
EXTENDS HFSBTree

K(id, sub, pos) == [id |-> id, sub |-> sub, pos |-> pos]

\* Records with the given ids, those of one id told apart by names.
Named(ids) ==
  [i \in DOMAIN ids |-> K(ids[i], Cardinality({j \in 1 .. i : ids[j] = ids[i]}), 0)]

NamedKeys == { Named(ids) : ids \in {<<1, 1, 2, 2, 3>>, <<1, 2, 2, 2, 3>>, <<2, 2, 2, 2, 2>>, <<1, 2, 3, 4, 5>>} }

\* Extents of data forks, and of both forks of a file.
ForkKeys ==
  { <<K(1, 0, 3), K(2, 0, 3), K(2, 0, 5), K(2, 0, 8), K(4, 0, 3)>>,
    <<K(1, 0, 3), K(1, 0, 5), K(1, 1, 4), K(1, 1, 6), K(3, 1, 8)>> }

Keyed == {[of |-> "names", keys |-> k] : k \in NamedKeys} \cup {[of |-> "forks", keys |-> k] : k \in ForkKeys}

\* The places where leaves begin.
Cuts == {c \in SUBSET (1 .. 5) : 1 \in c /\ \A i \in 1 .. 4 : i \in c \/ i + 1 \in c}

Leaf(keys, link)   == [kind |-> "leaf", keys |-> keys, children |-> <<>>, link |-> link]
Index(keys, below) == [kind |-> "index", keys |-> keys, children |-> below, link |-> 0]
Header             == [kind |-> "header", keys |-> <<>>, children |-> <<>>, link |-> 0]

\* The tree over keys with leaves beginning at the cuts; two index nodes share
\* them at the place split, if it is not 0; the last leaf links to last.
Tree(keyed, cuts, split, last) ==
  LET begins == SetToSortSeq(cuts, <)
      n      == Len(begins)
      leaf(i) == SubSeq(keyed.keys, begins[i], IF i = n THEN 5 ELSE begins[i + 1] - 1)
      index(a, b) == Index([i \in 1 .. b - a + 1 |-> leaf(a + i - 1)[1]],
                           [i \in 1 .. b - a + 1 |-> a + i - 1])
      nodes == [i \in 0 .. n + 3 |->
        CASE i = 0     -> Header
          [] i \in 1 .. n -> Leaf(leaf(i), IF i = n THEN last ELSE i + 1)
          [] i = n + 1 -> IF split = 0 THEN index(1, n) ELSE index(1, split)
          [] i = n + 2 -> IF split = 0 THEN index(1, n) ELSE index(split + 1, n)
          [] OTHER     -> IF split = 0 THEN index(1, n)
                          ELSE Index(<<leaf(1)[1], leaf(split + 1)[1]>>, <<n + 1, n + 2>>)]
  IN  [of |-> keyed.of, root |-> n + 3, nodes |-> nodes]

Empty == [of |-> "names", root |-> 0, nodes |-> [i \in {0} |-> Header]]

\* Whole trees, trees whose links end in a loop, and the empty one.
MCTrees ==
  { Tree(k, c, s, 0) : k \in Keyed, c \in Cuts, s \in 0 .. 2 }
  \cup { Tree(k, c, 0, l) : k \in Keyed, c \in {{1, 3, 5}, {1, 2, 4}}, l \in 1 .. 3 }
  \cup { Empty }

MCSearches(t) ==
  LET any == {K(id, sub, 0) : id \in 0 .. 6, sub \in 0 .. 3} IN
  IF t.of = "forks" THEN {[by |-> "fork", key |-> k] : k \in {k \in any : k.sub < 2}}
  ELSE {[by |-> "attribute", key |-> k] : k \in any}
       \cup {[by |-> "id", key |-> k] : k \in {k \in any : k.sub = 0}}
=============================================================================
