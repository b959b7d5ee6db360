----------------------------- MODULE MCHFSFork -----------------------------
(* Model checking of HFSFork: a catalog record holds two extents, a record  *)
(* of the tree up to two more; blocks of two bytes.                         *)
EXTENDS HFSFork

E(start, n) == [start |-> start, count |-> n]
Rec(cnid, type, startBlock, extents) ==
  [cnid |-> cnid, type |-> type, startBlock |-> startBlock, extents |-> extents]

\* The tree: the records of two forks of the file 7 and of another file.
Tree == << Rec(6, "data", 3, <<E(40, 2)>>),
           Rec(7, "data", 3, <<E(20, 1), E(10, 2)>>), Rec(7, "data", 6, <<E(30, 1)>>),
           Rec(7, "rsrc", 4, <<E(50, 2)>>) >>

F(cnid, type, inline, size) ==
  [cnid |-> cnid, type |-> type, inline |-> inline, tree |-> Tree, size |-> size]

MCForks ==
  { F(7, "data", <<E(4, 2), E(8, 1)>>, 13), F(7, "rsrc", <<E(14, 2), E(2, 2)>>, 11),
    F(8, "data", <<E(4, 3)>>, 6), F(6, "data", <<E(4, 2), E(8, 1)>>, 10),
    \* not intact: too few extents, none in the tree, and a gap before those in the tree
    F(8, "data", <<E(4, 1)>>, 6), F(8, "data", <<E(4, 1), E(9, 1)>>, 7),
    F(7, "data", <<E(4, 1), E(8, 1)>>, 8), F(NullID, "data", <<E(4, 1), E(8, 1)>>, 6) }
=============================================================================
