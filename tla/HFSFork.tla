------------------------------ MODULE HFSFork ------------------------------
(***************************************************************************)
(* HFSFork (src/HFSFork.h, src/HFSFork.cpp): a file's data or resource     *)
(* fork, whose bytes are in extents of the volume.  The first few extents  *)
(* are in the catalog record; the others are in the extents overflow tree  *)
(* (src/HFSExtentsOverflowBTree.cpp) and are loaded by the read that first *)
(* needs them, at its start or in the middle of its loop, and kept.        *)
(*                                                                         *)
(* A fork is a record [cnid, type, inline, tree, size]: an extent is a     *)
(* record [start, count] in allocation blocks, a record of the tree is     *)
(* [cnid, type, startBlock, extents].  The search of the tree is below     *)
(* this module: it finds the leaves that hold the records of the file, or  *)
(* fails.  As in Reader, the byte at position p of the fork is <<fork, p>>.*)
(***************************************************************************)
EXTENDS Integers, Sequences

CONSTANTS
  Forks,        \* the forks
  MaxInline,    \* extents in a catalog record, 8
  BlockSize,    \* the volume's blockSize
  NullID,       \* kHFSNullID
  Garbage,      \* a byte of the volume that is not the fork's
  Offsets,      \* the offsets and
  Counts        \* the counts read() is called with

\* Both tables end at an extent without blocks, or leave it out.
Extent == [start : Nat, count : Nat \ {0}]

ASSUME ForkAssumption ==
  /\ BlockSize \in Nat \ {0} /\ Offsets \subseteq Nat /\ Counts \subseteq Nat
  /\ \A f \in Forks :
       /\ f.size \in Nat
       /\ f.inline \in Seq(Extent) /\ Len(f.inline) <= MaxInline
       /\ Len(f.tree) \in Nat /\ DOMAIN f.tree = 1 .. Len(f.tree)
       /\ \A i \in DOMAIN f.tree : f.tree[i].startBlock \in Nat /\ f.tree[i].extents \in Seq(Extent)

VARIABLES
  fork,            \* m_fork, m_cnid, m_resourceFork, and the overflow tree
  m_extents,
  pc,              \* "idle", "begin", "search", "copy", "returned", "failed"
  offset, count,   \* the parameters of read()
  extent,          \* i and later extent, the place in m_extents
  blocksSoFar, offsetInExtent, read,   \* locals
  buf,             \* the caller's buffer
  faulted          \* the volume or the tree failed in this call

vars  == <<fork, m_extents, pc, offset, count, extent, blocksSoFar, offsetInExtent, read, buf, faulted>>
local == <<offset, count, extent, blocksSoFar, offsetInExtent, read, buf>>

Nothing == [i \in {} |-> Garbage]
Smaller(a, b) == IF a <= b THEN a ELSE b

----------------------------------------------------------------------------
(* Extents.                                                                *)

\* The blocks of the extents before the k-th, and of all.
BlocksBefore(extents, k) ==
  LET sum[n \in 0 .. Len(extents)] == IF n = 0 THEN 0 ELSE sum[n - 1] + extents[n].count
  IN  sum[k - 1]

Blocks(extents) == BlocksBefore(extents, Len(extents) + 1)

\* The extents of the records at the first k places of a tree that are in S,
\* one after another.
ExtentsUpTo(tree, S, k) ==
  LET taken[n \in 0 .. Len(tree)] ==
        IF n = 0 THEN <<>>
        ELSE IF n \in S THEN taken[n - 1] \o tree[n].extents
        ELSE taken[n - 1]
  IN  taken[k]

ExtentsOf(tree, S) == ExtentsUpTo(tree, S, Len(tree))

----------------------------------------------------------------------------
(* The overflow tree.                                                      *)

\* Bug: the records of the other fork of the file are taken too.
Mine_EitherFork(r) == r.cnid = fork.cnid

Mine(r) == r.cnid = fork.cnid /\ r.type = fork.type

\* Lines 22-35: the records of the fork that are not contained in m_extents.
Missing(startBlock) ==
  {i \in DOMAIN fork.tree : Mine(fork.tree[i]) /\ fork.tree[i].startBlock >= startBlock}

\* Lines 37-42: the first of them is for another block.
Unexpected(startBlock) ==
  \E i \in Missing(startBlock) :
    /\ \A j \in Missing(startBlock) : i <= j
    /\ fork.tree[i].startBlock # startBlock

\* Lines 44-56: what findExtentsForFile() adds.
Found(startBlock) == ExtentsOf(fork.tree, Missing(startBlock))

----------------------------------------------------------------------------
(* The bytes.                                                              *)

\* The places of a fork's records in its tree, and its extents: those in the
\* tree are behind those in the catalog record.
Own(f) == {i \in DOMAIN f.tree : f.tree[i].cnid = f.cnid /\ f.tree[i].type = f.type}
AllExtents(f) == f.inline \o ExtentsOf(f.tree, Own(f))

\* The byte at a place of the volume.
At(v) ==
  LET all   == AllExtents(fork)
      block == v \div BlockSize
      homes == {k \in DOMAIN all : block - all[k].start \in 0 .. all[k].count - 1}
      home  == CHOOSE k \in homes : TRUE
      p     == (BlocksBefore(all, home) + block - all[home].start) * BlockSize + (v % BlockSize)
  IN  IF homes = {} \/ p >= fork.size THEN Garbage ELSE <<fork, p>>

----------------------------------------------------------------------------
(* read()                                                                  *)

Init ==
  /\ fork \in Forks /\ m_extents = fork.inline
  /\ pc = "idle" /\ offset = 0 /\ count = 0 /\ extent = 1 /\ blocksSoFar = 0
  /\ offsetInExtent = 0 /\ read = 0 /\ buf = Nothing /\ faulted = FALSE

\* Lines 52-55: what there is of the bytes asked for.
Wanted ==
  IF offset > fork.size THEN 0
  ELSE IF offset + count > fork.size THEN fork.size - offset ELSE count

\* read() is called and sets its locals.
Read(o, n) ==
  /\ pc = "idle"
  /\ pc' = "begin" /\ offset' = o /\ count' = n
  /\ extent' = 1 /\ blocksSoFar' = 0 /\ offsetInExtent' = o /\ read' = 0 /\ buf' = Nothing
  /\ UNCHANGED <<fork, m_extents, faulted>>

\* Lines 57-58: there is nothing to read, or the first extent is looked for.
Begin ==
  /\ pc = "begin"
  /\ pc' = IF Wanted = 0 THEN "returned" ELSE "search"
  /\ UNCHANGED <<fork, m_extents, local, faulted>>

Known == extent <= Len(m_extents)
Here  == m_extents[extent]

\* Lines 75-76: the offset is not in this extent.
PassBy ==
  /\ pc = "search" /\ Known /\ Here.count + blocksSoFar <= offset \div BlockSize
  /\ blocksSoFar' = blocksSoFar + Here.count
  /\ offsetInExtent' = offsetInExtent - Here.count * BlockSize
  /\ extent' = extent + 1
  /\ UNCHANGED <<fork, m_extents, pc, offset, count, read, buf, faulted>>

\* Lines 69-73.
Locate ==
  /\ pc = "search" /\ Known /\ Here.count + blocksSoFar > offset \div BlockSize
  /\ pc' = "copy"
  /\ UNCHANGED <<fork, m_extents, local, faulted>>

Throw == pc' = "failed" /\ UNCHANGED <<fork, m_extents, local>>

\* Lines 82-83 and 95-96: an extent is needed that is not known.
NeedsMore == ~ Known /\ (pc = "search" \/ (pc = "copy" /\ read < Wanted))

\* Line 35: a fork whose catalog record has room left has no other extents.
NoOthers == Len(m_extents) < MaxInline

\* loadFromOverflowsFile() finds more.
Load ==
  /\ NeedsMore /\ fork.cnid # NullID /\ ~ NoOthers
  /\ ~ Unexpected(blocksSoFar) /\ Found(blocksSoFar) # <<>>
  /\ m_extents' = m_extents \o Found(blocksSoFar)
  /\ UNCHANGED <<fork, pc, local, faulted>>

\* loadFromOverflowsFile() refuses to look, or looks in vain.
LoadsNothing ==
  /\ NeedsMore
  /\ fork.cnid = NullID \/ NoOthers \/ Unexpected(blocksSoFar) \/ Found(blocksSoFar) = <<>>
  /\ Throw /\ UNCHANGED faulted

\* The tree cannot be read.
LoadFails ==
  /\ NeedsMore /\ fork.cnid # NullID /\ ~ NoOthers
  /\ Throw /\ faulted' = TRUE

ThisTime == Smaller(Here.count * BlockSize - offsetInExtent, Wanted - read)

VolumeOffset == Here.start * BlockSize + offsetInExtent

Put(n) ==
  buf' = [i \in DOMAIN buf \cup read .. read + n - 1 |->
            IF i < read THEN buf[i] ELSE At(VolumeOffset + i - read)]

\* Bug: the offset into the first extent is used for all.
NextOffset_Kept == offsetInExtent

NextOffset == 0

\* Bug: the blocks of an extent are counted when it is passed by only.
BlocksRead_Not == blocksSoFar

\* Line 120.
BlocksRead == blocksSoFar + Here.count

\* Lines 98-123: the rest of an extent.
Copy ==
  /\ pc = "copy" /\ read < Wanted /\ Known
  /\ Put(ThisTime) /\ read' = read + ThisTime
  /\ blocksSoFar' = BlocksRead /\ extent' = extent + 1 /\ offsetInExtent' = NextOffset
  /\ UNCHANGED <<fork, m_extents, pc, offset, count, faulted>>

\* Bug: after a short read of the volume the next extent is read.
CopyShort_GoesOn ==
  /\ pc = "copy" /\ read < Wanted /\ Known
  /\ \E n \in 0 .. ThisTime - 1 : Put(n) /\ read' = read + n
  /\ blocksSoFar' = BlocksRead /\ extent' = extent + 1 /\ offsetInExtent' = NextOffset
  /\ UNCHANGED <<fork, m_extents, pc, offset, count, faulted>>

\* Lines 114-118: the volume delivers too little, or -1, and so does
\* read(); its callers take this for an error.  The unsigned read of -1 is a
\* large number, at which a build with assertions stops in line 126.
CopyShort ==
  /\ pc = "copy" /\ read < Wanted /\ Known
  /\ \E n \in -1 .. ThisTime - 1 : Put(n) /\ read' = read + n
  /\ pc' = "failed" /\ faulted' = TRUE
  /\ UNCHANGED <<fork, m_extents, offset, count, extent, blocksSoFar, offsetInExtent>>

\* The read of the volume throws.
CopyFails ==
  /\ pc = "copy" /\ read < Wanted /\ Known
  /\ Throw /\ faulted' = TRUE

Finish ==
  /\ pc = "copy" /\ read >= Wanted
  /\ pc' = "returned"
  /\ UNCHANGED <<fork, m_extents, local, faulted>>

Leave ==
  /\ pc \in {"returned", "failed"}
  /\ pc' = "idle" /\ offset' = 0 /\ count' = 0 /\ extent' = 1 /\ blocksSoFar' = 0
  /\ offsetInExtent' = 0 /\ read' = 0 /\ buf' = Nothing /\ faulted' = FALSE
  /\ UNCHANGED <<fork, m_extents>>

Step == Begin \/ PassBy \/ Locate \/ Load \/ LoadsNothing \/ LoadFails \/ Copy \/ CopyShort
        \/ CopyFails \/ Finish \/ Leave

Next == Step \/ \E o \in Offsets, n \in Counts : Read(o, n)

Spec == Init /\ [][Next]_vars /\ WF_vars(Step)

----------------------------------------------------------------------------
(* Properties.                                                             *)

\* Each record of the fork in the tree goes on where what is before it ends.
Chained(f) ==
  \A i \in Own(f) : f.tree[i].startBlock = Blocks(f.inline \o ExtentsUpTo(f.tree, Own(f), i - 1))

\* The extents of the fork hold all its bytes, and only a fork with a full
\* catalog record has extents in the tree.
Intact ==
  /\ Chained(fork)
  /\ Blocks(AllExtents(fork)) * BlockSize >= fork.size
  /\ AllExtents(fork) # fork.inline => fork.cnid # NullID /\ Len(fork.inline) = MaxInline

\* At every moment of a read, and also across a load of extents in its
\* middle, the blocks counted are those of the extents before the current
\* one: findExtentsForFile() takes them for the key of what is missing.
PlaceKnown ==
  pc \in {"search", "copy"} =>
    /\ blocksSoFar = BlocksBefore(m_extents, extent)
    /\ read < Wanted => blocksSoFar * BlockSize + offsetInExtent = offset + read

\* What is known of the extents is the fork's own, without a gap and without
\* a repetition, in whatever order reads have loaded them; nothing is
\* forgotten.
ExtentsAreOwn == m_extents \in {fork.inline, AllExtents(fork)}

\* A read of an intact fork fails only if the volume or the tree fails during
\* that read: one that failed leaves nothing wrong behind.
Succeeds == pc = "failed" /\ Intact => faulted

\* The call of read(), if there is one.
Calls ==
  IF pc = "idle" THEN <<>>
  ELSE <<[tag |-> fork, offset |-> offset, count |-> count,
          status |-> CASE pc = "returned" -> "answered"
                       [] pc = "failed"   -> "failed"
                       [] OTHER           -> "running",
          bytes |-> IF pc = "returned" THEN buf ELSE Nothing]>>

R == INSTANCE Reader WITH
       Tags   <- Forks,
       Length <- [f \in Forks |-> f.size],
       calls  <- Calls

\* A fork implements the contract of Reader, and every call ends.
ReaderContract == R!Spec
=============================================================================
