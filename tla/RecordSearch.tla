---------------------------- MODULE RecordSearch ----------------------------
(***************************************************************************)
(* What a search of a B-tree promises (src/HFSBTree.h): it fails, or its   *)
(* caller sees exactly the records of the tree that match, whatever the    *)
(* shape of the tree.  The tree never changes.                             *)
(***************************************************************************)
CONSTANTS
  Trees,            \* the trees
  Searches(_),      \* the searches of a tree
  Records(_),       \* the records of a tree
  Matches(_, _)     \* whether a record is one a search is for

VARIABLES tree, search, status, found

vars == <<tree, search, status, found>>

Init == tree \in Trees /\ search = {} /\ status = "idle" /\ found = {}

Ask(s) == status = "idle" /\ search' = {s} /\ status' = "running" /\ UNCHANGED <<tree, found>>

Answer ==
  /\ status = "running" /\ status' = "answered"
  /\ found' = {r \in Records(tree) : \A s \in search : Matches(s, r)}
  /\ UNCHANGED <<tree, search>>

Fail == status = "running" /\ status' = "failed" /\ UNCHANGED <<tree, search, found>>

Done ==
  /\ status \in {"answered", "failed"} /\ status' = "idle"
  /\ search' = {} /\ found' = {} /\ UNCHANGED tree

Progress == Answer \/ Fail \/ Done

Next == Progress \/ \E s \in Searches(tree) : Ask(s)

SafeSpec == Init /\ [][Next]_vars

Spec == SafeSpec /\ WF_vars(Progress)
=============================================================================
