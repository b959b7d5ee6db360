------------------------------ MODULE HFSBTree ------------------------------
(***************************************************************************)
(* HFSBTree (src/HFSBTree.h, src/HFSBTree.cpp) and the three trees that    *)
(* search with it: the catalog, the attributes and the extents overflow    *)
(* tree.  A search descends from the root to one leaf; an inexact one then *)
(* follows the links from leaf to leaf.  Its caller looks through the      *)
(* records of the leaves it gets.                                          *)
(*                                                                         *)
(* A key is a record [id, sub, pos]: a catalog key is a parent and a name, *)
(* an attribute key a file and a name, an extents key a file, a fork and a *)
(* start block.  A tree is a record [of, root, nodes]; a node has a kind,  *)
(* the keys of its records, the children they name and a forward link.     *)
(* The header node is 0.                                                   *)
(***************************************************************************)
EXTENDS Integers, SequencesExt

CONSTANTS
  Trees,         \* the trees
  Searches(_)    \* what may be looked for in a tree: records [by, key]

\* Names and forks are numbers in the order of the disk.
Key == [id : Nat, sub : Nat, pos : Nat]

ASSUME TreesAssumption ==
  \A t \in Trees :
    /\ IsFiniteSet(DOMAIN t.nodes)
    /\ t.root \in DOMAIN t.nodes /\ 0 \in DOMAIN t.nodes /\ t.nodes[0].kind = "header"
    /\ \A i \in DOMAIN t.nodes \ {0} :
         /\ t.nodes[i].kind \in {"index", "leaf"}
         /\ t.nodes[i].keys \in Seq(Key) \ {<<>>} /\ t.nodes[i].link \in DOMAIN t.nodes
         /\ t.nodes[i].kind = "index" => t.nodes[i].children \in [DOMAIN t.nodes[i].keys -> DOMAIN t.nodes]
    /\ \A s \in Searches(t) : s.by \in {"id", "attribute", "fork"} /\ s.key \in Key

VARIABLES
  tree,      \* m_header and what m_reader reads
  pc,        \* "idle", "descend", "walk", "returned", "failed"
  search,    \* comp and indexKey
  node,      \* the node that is read or was read last
  leaves,    \* rv
  uniqLink   \* the links followed

vars == <<tree, pc, search, node, leaves, uniqLink>>

Node == tree.nodes[node]

----------------------------------------------------------------------------
(* Comparators.                                                            *)

\* idOnlyComparator, and cnidComparator of the attributes, ask for all records
\* of a folder or a file; cnidAttrComparator for one attribute; cnidComparator
\* of the extents for all of a fork, and it looks at the fork first.
Less(a, b) ==
  CASE search.by = "id"        -> a.id < b.id
    [] search.by = "attribute" -> a.id < b.id \/ (a.id = b.id /\ a.sub < b.sub)
    [] search.by = "fork"      -> a.sub < b.sub \/ (a.sub = b.sub /\ a.id < b.id)

\* What the callers take of the records of the leaves.
Matches(s, k) == k.id = s.key.id /\ (s.by = "id" \/ k.sub = s.key.sub)

\* std::lower_bound and std::upper_bound: how many records are to the left.
\* left says of each whether it is; where a bisection ends, the record before
\* is to the left and the one behind is not.
Bisect(left) ==
  {n \in 0 .. Len(left) : (n > 0 => left[n]) /\ (n < Len(left) => ~ left[n + 1])}

\* Whether a search is for many records (findLeafNodes) or for one.
Wildcard == search.by # "attribute"

\* Bug: an inexact search descends like an exact one.
Bounds_Upper == Bisect([i \in DOMAIN Node.keys |-> ~ Less(search.key, Node.keys[i])])

\* Lines 98-115.
Bounds ==
  Bisect([i \in DOMAIN Node.keys |->
            IF Wildcard THEN Less(Node.keys[i], search.key)
            ELSE ~ Less(search.key, Node.keys[i])])

\* The records whose children may be descended to, the first being 1.
Positions == {IF n = 0 THEN 1 ELSE n : n \in Bounds}

----------------------------------------------------------------------------
Init ==
  /\ tree \in Trees /\ pc = "idle" /\ search = [by |-> "id", key |-> [id |-> 0, sub |-> 0, pos |-> 0]]
  /\ node = 0 /\ leaves = <<>> /\ uniqLink = {}

\* findLeafNode() or findLeafNodes() is called.
Find(s) ==
  /\ pc = "idle" /\ pc' = "descend" /\ search' = s /\ node' = tree.root
  /\ leaves' = <<>> /\ uniqLink' = {} /\ UNCHANGED tree

\* traverseTree() of an index node.
Descend ==
  /\ pc = "descend" /\ Node.kind = "index"
  /\ \E n \in Positions : node' = Node.children[n]
  /\ UNCHANGED <<tree, pc, search, leaves, uniqLink>>

\* It has found a leaf: the answer, or the first of several.
Arrive ==
  /\ pc = "descend" /\ Node.kind = "leaf" /\ leaves' = <<node>>
  /\ pc' = IF Wildcard THEN "walk" ELSE "returned"
  /\ UNCHANGED <<tree, search, node, uniqLink>>

\* The root of an empty tree is the header node.
NoLeaf ==
  /\ pc = "descend" /\ Node.kind = "header" /\ pc' = "returned"
  /\ UNCHANGED <<tree, search, node, leaves, uniqLink>>

\* Line 62.
Followed == Node.link \in uniqLink

\* Bug: a leaf that begins with a match is taken for one behind them all.
Beyond_Equal(k) == ~ Less(k, search.key)

\* Line 76: the first record of a leaf is behind all matches.
Beyond(k) == Less(search.key, k)

\* Bug: the leaf that was left is appended, not the one that was read.
Follow_AppendsOld ==
  /\ pc = "walk" /\ Node.link # 0 /\ ~ Followed
  /\ node' = Node.link /\ uniqLink' = uniqLink \cup {Node.link}
  /\ IF Beyond(tree.nodes[Node.link].keys[1])
     THEN pc' = "returned" /\ UNCHANGED leaves
     ELSE leaves' = Append(leaves, node) /\ UNCHANGED pc
  /\ UNCHANGED <<tree, search>>

\* Lines 70-79: the next leaf is read.
Follow ==
  /\ pc = "walk" /\ Node.link # 0 /\ ~ Followed
  /\ node' = Node.link /\ uniqLink' = uniqLink \cup {Node.link}
  /\ IF Beyond(tree.nodes[Node.link].keys[1])
     THEN pc' = "returned" /\ UNCHANGED leaves
     ELSE leaves' = Append(leaves, Node.link) /\ UNCHANGED pc
  /\ UNCHANGED <<tree, search>>

\* Lines 58-66: there is no next leaf, or a loop of links.
EndOfLinks ==
  /\ pc = "walk" /\ (Node.link = 0 \/ Followed) /\ pc' = "returned"
  /\ UNCHANGED <<tree, search, node, leaves, uniqLink>>

\* A node cannot be read.
ReadFails ==
  /\ pc = "descend" \/ (pc = "walk" /\ Node.link # 0 /\ ~ Followed)
  /\ pc' = "failed" /\ UNCHANGED <<tree, search, node, leaves, uniqLink>>

Leave ==
  /\ pc \in {"returned", "failed"} /\ pc' = "idle"
  /\ search' = [by |-> "id", key |-> [id |-> 0, sub |-> 0, pos |-> 0]]
  /\ node' = 0 /\ leaves' = <<>> /\ uniqLink' = {} /\ UNCHANGED tree

Step == Descend \/ Arrive \/ NoLeaf \/ Follow \/ EndOfLinks \/ ReadFails \/ Leave

Next == Step \/ \E s \in Searches(tree) : Find(s)

Spec == Init /\ [][Next]_vars /\ WF_vars(Step)

----------------------------------------------------------------------------
(* Properties.                                                             *)

LeavesOf(t)  == {i \in DOMAIN t.nodes : t.nodes[i].kind = "leaf"}
Records(t)   == UNION {ToSet(t.nodes[i].keys) : i \in LeavesOf(t)}
Matching(i)  == {k \in ToSet(tree.nodes[i].keys) : Matches(search, k)}

\* The leaves below the nodes of a tree, down to the level n.
LeavesBelow(t, n) ==
  LET below[k \in 0 .. Cardinality(DOMAIN t.nodes)] ==
        [j \in DOMAIN t.nodes |->
           IF t.nodes[j].kind = "leaf" THEN {j}
           ELSE IF k = 0 \/ t.nodes[j].kind = "header" THEN {}
           ELSE UNION {below[k - 1][c] : c \in ToSet(t.nodes[j].children)}]
  IN  below[n]

Below(i) == LeavesBelow(tree, Cardinality(DOMAIN tree.nodes))[i]

\* The order of records, and of leaves by their first, on disk.
Precedes(a, b) ==
  \/ a.id < b.id
  \/ a.id = b.id /\ a.sub < b.sub
  \/ a.id = b.id /\ a.sub = b.sub /\ a.pos < b.pos

Before(i, j) == Precedes(tree.nodes[i].keys[1], tree.nodes[j].keys[1])

\* However keys repeat across leaves and levels, the descent never goes past a
\* match: an exact search keeps them below it, an inexact one keeps them
\* below it or to its right, where the links lead.
OnTheWay ==
  pc = "descend" =>
    \A i \in LeavesOf(tree) : Matching(i) # {} =>
      \/ i \in Below(node)
      \/ Wildcard /\ \A j \in Below(node) : Before(j, i)

\* The leaves of a tree whose links end come in the order of the tree and
\* without gap or repetition: findExtentsForFile() appends extents in the
\* order in which it meets them.
InOrder ==
  (\E i \in LeavesOf(tree) : tree.nodes[i].link = 0) =>
    \A n \in 1 .. Len(leaves) - 1 :
      /\ Before(leaves[n], leaves[n + 1])
      /\ \A i \in LeavesOf(tree) : ~ (Before(leaves[n], i) /\ Before(i, leaves[n + 1]))

C == INSTANCE RecordSearch WITH
       search <- IF pc = "idle" THEN {} ELSE {search},
       status <- CASE pc = "idle"     -> "idle"
                   [] pc = "returned" -> "answered"
                   [] pc = "failed"   -> "failed"
                   [] OTHER           -> "running",
       found  <- IF pc = "returned" THEN UNION {Matching(i) : i \in ToSet(leaves)} ELSE {}

\* A search implements the contract of RecordSearch: the records that match
\* are found, all of them, and the search ends, also where links loop.
SearchContract == C!Spec
=============================================================================
