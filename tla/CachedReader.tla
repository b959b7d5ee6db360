---------------------------- MODULE CachedReader ----------------------------
(***************************************************************************)
(* CachedReader (src/CachedReader.h, src/CachedReader.cpp): a Reader that  *)
(* keeps the blocks it reads from a backing reader in a CacheZone, which   *)
(* several CachedReaders share.                                            *)
(*                                                                         *)
(* One thread runs everything (the FUSE front-end passes -s), but calls    *)
(* nest in the same zone: the backing reader of the catalog tree is a fork *)
(* that may have to read the extents overflow tree, itself behind a        *)
(* CachedReader of the same zone, before it can answer.  So the state is   *)
(* the stack of the calls of read() in progress, the innermost last, next  *)
(* to the zone's variables.                                                *)
(*                                                                         *)
(* A block is named by the position of its first byte, not by its number.  *)
(* The bytes are those of the contract in Reader; a buffer is the function *)
(* from the positions written so far to the bytes written there.           *)
(***************************************************************************)
EXTENDS Integers, SequencesExt

CONSTANTS
  Tags,        \* the CachedReaders of the zone, by m_tag
  Length,      \* tag -> length() of the backing reader
  BlockSize,   \* CacheZone::BLOCK_SIZE
  HalfRange,   \* 2^31: an int32_t is in -HalfRange .. HalfRange - 1
  Advise,      \* tag -> position -> the block adviseOptimalBlock() returns
  Below,       \* tag -> the tags its backing reader may read
  Garbage,     \* a byte of a CacheEntry that was never initialised
  Offsets,     \* the offsets and
  Counts,      \* the counts read() is called with
  Limits,      \* the limits of the zone
  AgeBound,    \* no new call once the zone's age list is this long
  NestedBound  \* how often one backing read may call a reader below

ASSUME SizeAssumption ==
  /\ BlockSize \in Nat \ {0}
  /\ HalfRange \in Nat /\ BlockSize <= HalfRange
  /\ Length \in [Tags -> Nat]

ASSUME RequestAssumption ==
  Offsets \subseteq Nat /\ Counts \subseteq 0 .. HalfRange - 1

\* A block advised for a position of the reader contains that position and
\* lies within the reader.
ASSUME AdviceAssumption ==
  \A t \in Tags : \A p \in 0 .. Length[t] - 1 :
    LET b == Advise[t][p] IN
    /\ b.start \in Nat /\ b.end \in Nat
    /\ b.start <= p /\ p < b.end /\ b.end <= Length[t]

ASSUME GarbageAssumption == Garbage \notin Tags \X Nat

VARIABLES
  stack,                                 \* the calls in progress
  cache, itAge, cacheAge, maxBlocks      \* the zone

zoneVars == <<cache, itAge, cacheAge, maxBlocks>>
vars     == <<stack, cache, itAge, cacheAge, maxBlocks>>

----------------------------------------------------------------------------
(* Positions, bytes and blocks.                                            *)

\* The conversion to int32_t of a difference of two uint64_t.
ToInt32(x) == ((x + HalfRange) % (2 * HalfRange)) - HalfRange

\* The block that contains a position, and the first block at or after it.
BlockStart(p) == p - (p % BlockSize)
RoundUp(p)    == BlockStart(p + (BlockSize - 1))

Smaller(a, b) == IF a <= b THEN a ELSE b

Byte(t, p) == <<t, p>>

Nothing == [i \in {} |-> Garbage]

\* What store() puts into a CacheEntry for the block at cachePos of a buffer
\* that ends at end: the rest of the entry is left as it was allocated.
BlockData(t, cachePos, end) ==
  [i \in 0 .. BlockSize - 1 |->
     IF cachePos + i < end THEN Byte(t, cachePos + i) ELSE Garbage]

\* buf with the first n bytes of src written at pos.
Write(buf, pos, n, src) ==
  [i \in DOMAIN buf \cup pos .. pos + n - 1 |->
     IF i \in pos .. pos + n - 1 THEN src[i - pos] ELSE buf[i]]

Keys == UNION {{<<BlockStart(p), t>> : p \in 0 .. Length[t] - 1} : t \in Tags}
Data == [0 .. BlockSize - 1 -> {Garbage} \cup (Tags \X Nat)]

Zone == INSTANCE CacheZone

----------------------------------------------------------------------------
(* The frame of one call.  The first group of fields are the parameters    *)
(* and locals of read(), the second those of nonCachedRead(), which reads  *)
(* the positions readPos .. to - 1 a block start .. end - 1 at a time.     *)
(* nested counts the calls the current backing read has made.              *)

\* Lines 25-26: the count is clamped to what is left of the reader.
NewFrame(t, offset, want) ==
  [tag |-> t, offset |-> offset, want |-> want,
   count |-> IF want + offset > Length[t] THEN ToInt32(Length[t] - offset) ELSE want,
   done |-> 0, last |-> 0, buf |-> Nothing, pc |-> "loop",
   readPos |-> 0, to |-> 0, start |-> 0, end |-> 0, cachePos |-> 0, nested |-> 0]

Top        == stack[Len(stack)]
At(pc)     == stack # <<>> /\ Top.pc = pc
SetTop(f)  == stack' = [stack EXCEPT ![Len(stack)] = f]

\* Bug: the offset within the block is used for every piece.
BlockOffset_EveryPiece(f) == f.offset % BlockSize

\* Bug: the key leaves out the tag, so any reader's block is found.
BlockKey_NoTag(f) ==
  LET p     == BlockStart(f.offset + f.done)
      found == {k \in DOMAIN cache : k[1] = p}
  IN  IF found = {} THEN <<p, f.tag>> ELSE CHOOSE k \in found : TRUE

\* Lines 30-38: where in its block the next piece starts, and its length.
BlockOffset(f) == IF f.done = 0 THEN f.offset % BlockSize ELSE 0
ThisTime(f)    == Smaller(Smaller(f.count - f.done, BlockSize), BlockSize - BlockOffset(f))
BlockKey(f)    == <<BlockStart(f.offset + f.done), f.tag>>

\* The block the backing reader advises; past the end of the reader all of
\* them return one that ends there.
AdvisedBlock(t, p) ==
  IF p < Length[t] THEN Advise[t][p] ELSE [start |-> BlockStart(p), end |-> Length[t]]

----------------------------------------------------------------------------
(* The steps of read().                                                    *)

Init == stack = <<>> /\ Zone!Init

\* A caller outside the zone calls read().
Call(t, offset, want) ==
  /\ stack = <<>> /\ Len(cacheAge) < AgeBound
  /\ stack' = <<NewFrame(t, offset, want)>>
  /\ UNCHANGED zoneVars

\* A backing reader that has to answer a read calls read() of a reader below.
CallNested(t, offset, want) ==
  /\ At("backing") /\ t \in Below[Top.tag] /\ Top.nested < NestedBound
  /\ stack' = Append([stack EXCEPT ![Len(stack)].nested = @ + 1], NewFrame(t, offset, want))
  /\ UNCHANGED zoneVars

\* Bug: lastFetchPos stays before the piece that came from the zone.
Hit_LastNotMoved ==
  /\ At("loop") /\ Top.done < Top.count
  /\ Zone!Get(BlockKey(Top))
  /\ LET f == Top
         n == ThisTime(f)
         hit == [i \in 0 .. n - 1 |-> cache[BlockKey(f)][BlockOffset(f) + i]]
     IN  SetTop([f EXCEPT
           !.buf     = Write(f.buf, f.done, n, hit), !.done = f.done + n, !.last = f.done,
           !.readPos = f.offset + f.last, !.to = f.offset + f.done,
           !.pc      = IF f.done > f.last THEN "fetch" ELSE "loop"])

\* Lines 42-60: the block is in the zone.  What was skipped before it is
\* fetched next.
Hit ==
  /\ At("loop") /\ Top.done < Top.count
  /\ Zone!Get(BlockKey(Top))
  /\ LET f == Top
         n == ThisTime(f)
         hit == [i \in 0 .. n - 1 |-> cache[BlockKey(f)][BlockOffset(f) + i]]
     IN  SetTop([f EXCEPT
           !.buf     = Write(f.buf, f.done, n, hit),
           !.done    = f.done + n,
           !.last    = f.done + n,
           !.readPos = f.offset + f.last,
           !.to      = f.offset + f.done,
           !.pc      = IF f.done > f.last THEN "fetch" ELSE "loop"])

\* Lines 62-67: the block is not in the zone, and is skipped for now.
Miss ==
  /\ At("loop") /\ Top.done < Top.count
  /\ BlockKey(Top) \notin DOMAIN cache
  /\ SetTop([Top EXCEPT !.done = @ + ThisTime(Top)])
  /\ UNCHANGED zoneVars

\* Lines 70-77: blocks skipped at the end of the range are fetched.
FetchTail ==
  /\ At("loop") /\ Top.done >= Top.count /\ Top.last < Top.count
  /\ LET f == Top IN
     SetTop([f EXCEPT !.readPos = f.offset + f.last, !.to = f.offset + f.done,
                      !.last = f.done, !.pc = "fetch"])
  /\ UNCHANGED zoneVars

\* Line 79.
Finish ==
  /\ At("loop") /\ Top.done >= Top.count /\ Top.last >= Top.count
  /\ SetTop([Top EXCEPT !.pc = "returned"])
  /\ UNCHANGED zoneVars

----------------------------------------------------------------------------
(* The steps of nonCachedRead().                                           *)

\* Lines 100-118: ask for the optimal block and read it.
Fetch ==
  /\ At("fetch")
  /\ LET f == Top
         b == AdvisedBlock(f.tag, f.readPos)
     IN  IF \/ b.start > f.readPos \/ b.end <= f.readPos
            \/ b.end - b.start > HalfRange - 1
         THEN SetTop([f EXCEPT !.pc = "failed"])
         ELSE SetTop([f EXCEPT !.pc = "backing", !.start = b.start, !.end = b.end,
                               !.nested = 0])
  /\ UNCHANGED zoneVars

\* Lines 118-124: the backing reader delivers the whole block.
BackingReturns ==
  /\ At("backing")
  /\ SetTop([Top EXCEPT !.pc = "store", !.cachePos = RoundUp(Top.start)])
  /\ UNCHANGED zoneVars

\* Lines 118-121: it delivers less, or throws.
BackingFails ==
  /\ At("backing")
  /\ SetTop([Top EXCEPT !.pc = "failed"])
  /\ UNCHANGED zoneVars

\* Bug: cachePos is advanced before the block is stored.
Store_AdvancesFirst ==
  /\ At("store") /\ Top.cachePos < Top.end
  /\ Zone!Store(<<Top.cachePos + BlockSize, Top.tag>>, BlockData(Top.tag, Top.cachePos, Top.end))
  /\ SetTop([Top EXCEPT !.cachePos = @ + BlockSize])

\* Lines 127-132: one block goes into the zone.
Store ==
  /\ At("store") /\ Top.cachePos < Top.end
  /\ Zone!Store(<<Top.cachePos, Top.tag>>, BlockData(Top.tag, Top.cachePos, Top.end))
  /\ SetTop([Top EXCEPT !.cachePos = @ + BlockSize])

\* Bug: all the rest of the optimal block is copied.
Copy_WholeBlock ==
  /\ At("store") /\ Top.cachePos >= Top.end
  /\ LET f      == Top
         toCopy == f.end - f.readPos
         got    == [i \in 0 .. toCopy - 1 |-> Byte(f.tag, f.readPos + i)]
     IN  SetTop([f EXCEPT
           !.buf      = Write(f.buf, f.readPos - f.offset, toCopy, got),
           !.readPos  = f.readPos + toCopy,
           !.pc       = IF f.readPos + toCopy < f.to THEN "fetch" ELSE "loop",
           !.start    = 0, !.end = 0, !.cachePos = 0])
  /\ UNCHANGED zoneVars

\* Lines 134-151: the part that was asked for goes into the caller's buffer.
Copy ==
  /\ At("store") /\ Top.cachePos >= Top.end
  /\ LET f      == Top
         toCopy == Smaller(f.to - f.readPos, f.end - f.readPos)
         got    == [i \in 0 .. toCopy - 1 |-> Byte(f.tag, f.readPos + i)]
     IN  SetTop([f EXCEPT
           !.buf      = Write(f.buf, f.readPos - f.offset, toCopy, got),
           !.readPos  = f.readPos + toCopy,
           !.pc       = IF f.readPos + toCopy < f.to THEN "fetch" ELSE "loop",
           !.start    = 0, !.end = 0, !.cachePos = 0])
  /\ UNCHANGED zoneVars

----------------------------------------------------------------------------
(* The end of a call.                                                      *)

\* read() returns to its caller.
Return ==
  /\ At("returned")
  /\ stack' = Front(stack)
  /\ UNCHANGED zoneVars

\* Bug: the backing reader catches the error of a reader below and goes on.
Raise_Caught ==
  /\ At("failed")
  /\ stack' = Front(stack)
  /\ UNCHANGED zoneVars

\* The exception leaves read(); a backing reader that called it does not
\* catch it, so the call that waits for that reader fails as well.
Raise ==
  /\ At("failed")
  /\ stack' = LET left == Front(stack)
              IN  IF left = <<>> THEN left ELSE [left EXCEPT ![Len(left)].pc = "failed"]
  /\ UNCHANGED zoneVars

\* HFSHighLevelVolume() sets the limits between two calls.
SetMaxBlocks(limit) == stack = <<>> /\ Zone!SetMaxBlocks(limit) /\ UNCHANGED stack

\* A step of the code of the innermost call, or the return of the backing
\* reader it waits for.
Step ==
  \/ Hit \/ Miss \/ FetchTail \/ Finish
  \/ Fetch \/ BackingReturns \/ BackingFails \/ Store \/ Copy
  \/ Return \/ Raise

Next ==
  \/ \E t \in Tags, offset \in Offsets, want \in Counts :
       Call(t, offset, want) \/ CallNested(t, offset, want)
  \/ Step
  \/ \E limit \in Limits : SetMaxBlocks(limit)

Spec == Init /\ [][Next]_vars /\ WF_vars(Step)

----------------------------------------------------------------------------
(* Properties.                                                             *)

\* The hypothesis under which the cache is right: a block that the backing
\* reader advises ends where a cache block ends, or at the end of the
\* reader.  Reader::adviseOptimalBlock() does that; DMGPartition only if
\* its compressed runs end on 4096-byte boundaries.
EndAligned ==
  \A t \in Tags : \A p \in 0 .. Length[t] - 1 :
    Advise[t][p].end % BlockSize = 0 \/ Advise[t][p].end = Length[t]

\* A frame of read() as a call of the contract in Reader.
CallOf(f) ==
  [tag |-> f.tag, offset |-> f.offset, count |-> f.want,
   status |-> CASE f.pc = "returned" -> "answered"
                [] f.pc = "failed"   -> "failed"
                [] OTHER             -> "running",
   bytes |-> IF f.pc = "returned" THEN f.buf ELSE Nothing]

Calls == [d \in 1 .. Len(stack) |-> CallOf(stack[d])]

R == INSTANCE Reader WITH calls <- Calls

PCs == {"loop", "fetch", "backing", "store", "returned", "failed"}

\* Every frame holds values of the types of its locals; count, done and last
\* are int32_t, and the caller's buffer is only written within its size.
TypeOK ==
  /\ \A d \in DOMAIN stack :
       LET f == stack[d] IN
       /\ f.tag \in Tags /\ f.offset \in Nat /\ f.want \in 0 .. HalfRange - 1
       /\ {f.count, f.done, f.last} \subseteq -HalfRange .. HalfRange - 1
       /\ DOMAIN f.buf \subseteq 0 .. f.want - 1
       /\ \A i \in DOMAIN f.buf : f.buf[i] \in {Garbage} \cup (Tags \X Nat)
       /\ f.pc \in PCs
       /\ {f.readPos, f.to, f.start, f.end, f.cachePos, f.nested} \subseteq Nat
  /\ \A k \in DOMAIN cache : k[1] \in Nat /\ k[2] \in Tags

\* Every block in the zone holds the bytes of the reader whose tag it is
\* stored under, from the block's first byte to its last or to the end of the
\* reader: nothing uninitialised, nothing of another reader or position.
\* store() keeps what is there, so one wrong block would be served for good.
CacheIntegrity ==
  \A k \in DOMAIN cache :
    /\ k[1] < Length[k[2]]
    /\ \A i \in 0 .. BlockSize - 1 :
         k[1] + i < Length[k[2]] => cache[k][i] = Byte(k[2], k[1] + i)

\* A call that returns has filled the caller's buffer with the bytes of the
\* reader, every one of them, whichever came from the zone and whichever from
\* the backing reader, and whatever nested calls evicted in between.
ReturnsContents ==
  \A d \in DOMAIN stack :
    LET f == stack[d] IN
    f.pc = "returned" => f.buf = R!Slice(f.tag, f.offset, f.want)

\* While a call runs too, what it has put into the caller's buffer is right,
\* and exactly the part that is still to be fetched is missing: no hole is
\* left, and nothing that came from the zone is fetched again.
Missing(f) == IF f.pc \in {"fetch", "backing", "store"}
              THEN f.readPos - f.offset .. f.to - f.offset - 1 ELSE {}

FilledUpToLast ==
  \A d \in DOMAIN stack :
    LET f == stack[d] IN
    f.pc # "failed" =>
      /\ DOMAIN f.buf = (0 .. f.last - 1) \ Missing(f)
      /\ \A i \in DOMAIN f.buf : f.buf[i] = Byte(f.tag, f.offset + i)

\* The blocks a call has yet to ask for are all in the zone.
RestCached(f) ==
  /\ f.pc = "loop" /\ f.last = f.done /\ f.count <= Length[f.tag] - f.offset
  /\ \A p \in f.offset + f.done .. f.offset + f.count - 1 :
       <<BlockStart(p), f.tag>> \in DOMAIN cache

\* A call whose remaining blocks are all in the zone returns without a read
\* of the backing reader (and so cannot fail either).
NoFetchWhenCached ==
  [][stack # <<>> /\ RestCached(Top)
       => stack' # <<>> /\ (RestCached(Top)' \/ Top'.pc = "returned")]_vars

\* The CachedReaders of a zone implement the contract of Reader.
ReaderContract == R!Spec
=============================================================================
