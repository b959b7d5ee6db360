---------------------- MODULE MCCachedReaderUnaligned ----------------------
(* Model checking of CachedReader over a DMGPartition whose compressed runs *)
(* do not end where a cache block ends: the partition advises its runs.     *)
EXTENDS CachedReader

CONSTANT partition

MCTags   == {partition}
MCLength == partition :> 6
MCBelow  == partition :> {}

\* Two compressed runs of three bytes, with blocks of two.
MCAdvise ==
  partition :> [p \in 0 .. 5 |-> IF p < 3 THEN [start |-> 0, end |-> 3]
                                  ELSE [start |-> 3, end |-> 6]]
=============================================================================
