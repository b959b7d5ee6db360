-------------------------- MODULE MCHFSZlibReader --------------------------
(* Model checking of HFSZlibReader: files of two and three runs of four     *)
(* bytes, the last of them shorter, read in any order.                      *)
EXTENDS HFSZlibReader

Zlib(comp, len) == [kind |-> "zlib", comp |-> comp, len |-> len]
Plain(len)      == [kind |-> "stored", comp |-> len + 1, len |-> len]

MCZlibFiles ==
  { [runs |-> <<Zlib(3, 4), Zlib(5, 4), Zlib(2, 3)>>, size |-> 11],
    [runs |-> <<Zlib(3, 4), Zlib(2, 1)>>, size |-> 5],
    [runs |-> <<Zlib(4, 4)>>, size |-> 4] }

MCMixedFiles ==
  { [runs |-> <<Zlib(3, 4), Plain(4), Zlib(2, 3)>>, size |-> 11],
    [runs |-> <<Plain(4), Zlib(3, 4), Plain(2)>>, size |-> 10],
    [runs |-> <<Plain(4), Plain(4), Zlib(4, 4)>>, size |-> 12] }

\* One file whose storage is unreadable now and then.
MCFaulty == { [runs |-> <<Zlib(3, 4), Zlib(5, 4), Plain(2)>>, size |-> 10] }

MCFiles == MCZlibFiles \cup MCMixedFiles \cup MCFaulty

\* Any call, and those from the start of a run, as a CachedReader makes them.
AnyRequest   == [offset : 0 .. 12, count : {0, 1, 2, 3, 6, 8, 11}]
BlockRequest == [offset : {0, 4, 8}, count : {0, 1, 3, 4, 6, 8, 11}]

MCRequests(f) == IF f \in MCZlibFiles THEN AnyRequest ELSE BlockRequest
=============================================================================
