--------------------------- MODULE MCCachedReader ---------------------------
(* Model checking of CachedReader: the catalog tree's reader, whose backing *)
(* fork may have to read the extents overflow tree, and that tree's reader, *)
(* in one zone; blocks of two bytes.                                        *)
EXTENDS CachedReader

CONSTANTS catalog, overflow

MCTags   == {catalog, overflow}
MCLength == (catalog :> 5) @@ (overflow :> 3)
MCBelow  == (catalog :> {overflow}) @@ (overflow :> {})

Block(start, end) == [start |-> start, end |-> end]

\* The overflow tree advises single blocks, the catalog a block of two cache
\* blocks and then its last, partial one.
MCAdvise ==
  (catalog  :> [p \in 0 .. 4 |-> IF p < 4 THEN Block(0, 4) ELSE Block(4, 5)]) @@
  (overflow :> [p \in 0 .. 2 |-> IF p < 2 THEN Block(0, 2) ELSE Block(2, 3)])
=============================================================================
