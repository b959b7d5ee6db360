---------------------------- MODULE MCCacheZone ----------------------------
(* Model checking of CacheZone: every history of stores, hits and limit     *)
(* changes over a few keys, up to a length of the age list.                 *)
EXTENDS CacheZone, TLC

\* Keys and data are interchangeable.
Symmetry == Permutations(Keys) \cup Permutations(Data)
=============================================================================
