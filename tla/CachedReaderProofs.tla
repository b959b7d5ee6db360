------------------------- MODULE CachedReaderProofs -------------------------
(***************************************************************************)
(* Proofs about CachedReader, for any readers, lengths, block size, limit  *)
(* of the zone, depth of nested calls and interleaving of their steps.     *)
(*                                                                         *)
(* The argument: under EndAligned a block is only stored with all the      *)
(* bytes the reader has for it, so the zone never holds a wrong block      *)
(* (CacheIntegrity); and each call keeps the part of its buffer it has     *)
(* accounted for right (FrameOK), whatever the other calls do to the zone. *)
(* From that follow the properties of states, that the stack of calls is   *)
(* one the contract of Reader allows, and that what is cached is not read. *)
(***************************************************************************)
EXTENDS CachedReader, ProofLemmas, SequenceTheorems

Bytes == {Garbage} \cup (Tags \X Nat)

\* The buffers a call may have, and the frames.
Buffers == UNION {[D -> Bytes] : D \in SUBSET Nat}

Frame ==
  [tag : Tags, offset : Nat, want : 0 .. HalfRange - 1,
   count : -HalfRange .. HalfRange - 1, done : 0 .. HalfRange - 1, last : 0 .. HalfRange - 1,
   buf : Buffers, pc : PCs,
   readPos : Nat, to : Nat, start : Nat, end : Nat, cachePos : Nat, nested : Nat]

\* The count is what is left of the reader; past its end the conversion to
\* int32_t makes it positive only at least a block away.
CountOK(f) ==
  \/ f.offset <= Length[f.tag] /\ f.count = R!Clamped(f.tag, f.offset, f.want)
  \/ f.offset > Length[f.tag] /\ (f.count <= 0 \/ f.offset >= Length[f.tag] + BlockSize)

\* read() is between two pieces: all but the first start a block.
ProgressOK(f) ==
  /\ f.last <= f.done
  /\ f.done = 0 \/ f.done <= f.count
  /\ f.done = 0 \/ f.done = f.count \/ (f.offset + f.done) % BlockSize = 0

\* nonCachedRead() is within the range it has to fetch, and within the block
\* it has been advised.
FetchOK(f) ==
  /\ f.pc \in {"fetch", "backing", "store"} =>
       f.offset <= f.readPos /\ f.readPos < f.to /\ f.to <= f.offset + f.last
  /\ f.pc \in {"backing", "store"} =>
       /\ f.start <= f.readPos /\ f.readPos < f.end /\ f.end <= Length[f.tag]
       /\ f.end % BlockSize = 0 \/ f.end = Length[f.tag]
  /\ f.pc = "store" => f.cachePos % BlockSize = 0

\* The buffer holds the bytes of the reader, and holds all of them that are
\* behind last and not being fetched.
BufferOK(f) ==
  /\ DOMAIN f.buf \subseteq 0 .. f.want - 1
  /\ \A i \in DOMAIN f.buf : f.buf[i] = Byte(f.tag, f.offset + i)
  /\ f.pc # "failed" => DOMAIN f.buf = (0 .. f.last - 1) \ Missing(f)

\* A call past the end finds nothing in the zone, and fails when it fetches.
BeyondOK(f) ==
  f.offset > Length[f.tag] =>
    /\ f.pc \in {"loop", "fetch", "returned", "failed"}
    /\ f.pc \in {"loop", "returned"} => f.last = 0
    /\ f.pc = "fetch" => f.readPos = f.offset

FrameOK(f) ==
  /\ CountOK(f) /\ ProgressOK(f) /\ FetchOK(f) /\ BufferOK(f) /\ BeyondOK(f)
  /\ f.pc = "returned" => f.last >= f.count

KeysOK == \A k \in DOMAIN cache : k[1] \in Nat /\ k[2] \in Tags

StackOK == stack \in Seq(Frame) /\ \A d \in 1 .. Len(stack) : FrameOK(stack[d])

CacheInv == StackOK /\ KeysOK /\ CacheIntegrity

----------------------------------------------------------------------------
(* Positions and buffers.                                                  *)

\* Facts about a position, its offset within its block and its block.
LEMMA BlockFacts ==
  ASSUME NEW p \in Nat
  PROVE  /\ p % BlockSize \in 0 .. BlockSize - 1
         /\ BlockStart(p) \in Int /\ BlockStart(p) <= p /\ p < BlockStart(p) + BlockSize
         /\ BlockStart(p) = p - (p % BlockSize)
         /\ BlockStart(p) % BlockSize = 0
         /\ BlockStart(p) >= 0
<1>1. BlockSize \in Nat \ {0}
  BY SizeAssumption
<1>2. p % BlockSize \in 0 .. BlockSize - 1 /\ (p - (p % BlockSize)) % BlockSize = 0
  <2>1. p % BlockSize \in 0 .. BlockSize - 1
    BY <1>1, ModRange
  <2>2. (p - (p % BlockSize)) % BlockSize = 0
    <3>1. p \in Int
      OBVIOUS
    <3> QED BY ONLY <1>1, <3>1, StartAligned, Zenon
  <2> QED BY <2>1, <2>2
<1>3. p % BlockSize <= p
  <2>1. CASE p < BlockSize
    BY <1>1, <2>1, ModSmall
  <2>2. CASE p >= BlockSize
    BY <1>1, <1>2, <2>2
  <2> QED BY <1>1, <2>1, <2>2
<1> QED BY <1>1, <1>2, <1>3 DEF BlockStart

\* Within its range, a difference keeps its value as an int32_t; below it,
\* it is never positive unless it is below -HalfRange.
LEMMA Int32Facts ==
  ASSUME NEW x \in Int
  PROVE  /\ ToInt32(x) \in -HalfRange .. HalfRange - 1
         /\ x \in -HalfRange .. HalfRange - 1 => ToInt32(x) = x
<1> DEFINE W == 2 * HalfRange
<1>1. HalfRange \in Nat /\ HalfRange >= 1 /\ W \in Nat \ {0} /\ W = HalfRange + HalfRange
  BY SizeAssumption
<1>2. ToInt32(x) = ((x + HalfRange) % W) - HalfRange
  BY DEF ToInt32
<1> HIDE DEF W
<1>3. (x + HalfRange) % W \in 0 .. W - 1
  BY <1>1, ModRange
<1>4. x + HalfRange \in 0 .. W - 1 => (x + HalfRange) % W = x + HalfRange
  BY <1>1, ModSmall
<1> QED BY <1>1, <1>2, <1>3, <1>4

\* A buffer with some bytes written is a buffer, with those bytes.
LEMMA WriteFacts ==
  ASSUME NEW buf \in Buffers, NEW pos \in Nat, NEW n \in Nat,
         NEW src \in [0 .. n - 1 -> Bytes]
  PROVE  /\ Write(buf, pos, n, src) \in Buffers
         /\ DOMAIN Write(buf, pos, n, src) = DOMAIN buf \cup (pos .. pos + n - 1)
<1>1. PICK D \in SUBSET Nat : buf \in [D -> Bytes]
  BY DEF Buffers
<1> DEFINE E == DOMAIN buf \cup (pos .. pos + n - 1)
           w == Write(buf, pos, n, src)
<1>2. E \in SUBSET Nat
  BY <1>1
<1>3. w = [i \in E |-> IF i \in pos .. pos + n - 1 THEN src[i - pos] ELSE buf[i]]
  BY DEF Write
<1>4. \A i \in E : w[i] \in Bytes
  BY <1>1, <1>3
<1>5. w \in [E -> Bytes]
  BY <1>3, <1>4
<1> QED BY <1>2, <1>3, <1>5 DEF Buffers

----------------------------------------------------------------------------
(* Steps of one frame.  Each lemma names the frame that a step of          *)
(* CachedReader puts on top of the stack.                                  *)

\* The piece of a call that is due lies within one block, and within the
\* reader unless the call is past its end.
LEMMA PieceFacts ==
  ASSUME NEW f \in Frame, FrameOK(f), f.pc = "loop", f.done < f.count
  PROVE  /\ ThisTime(f) \in Nat /\ ThisTime(f) >= 1
         /\ ThisTime(f) <= f.count - f.done
         /\ BlockOffset(f) \in Nat /\ BlockOffset(f) + ThisTime(f) <= BlockSize
         /\ BlockStart(f.offset + f.done) + BlockOffset(f) = f.offset + f.done
         /\ \/ f.done + ThisTime(f) = f.count
            \/ (f.offset + f.done + ThisTime(f)) % BlockSize = 0
<1> DEFINE p == f.offset + f.done
           o == BlockOffset(f)
           n == ThisTime(f)
<1>1. /\ f.offset \in Nat /\ f.done \in Nat /\ f.count \in Int /\ p \in Nat
      /\ BlockSize \in Nat \ {0}
  BY SizeAssumption DEF Frame
<1>2. /\ p % BlockSize \in 0 .. BlockSize - 1
      /\ BlockStart(p) = p - (p % BlockSize) /\ BlockStart(p) % BlockSize = 0
      /\ BlockStart(p) \in Int
  BY <1>1, BlockFacts
<1>3. o = p % BlockSize
  <2>1. CASE f.done = 0
    BY <1>1, <2>1 DEF BlockOffset
  <2>2. CASE f.done # 0
    BY <1>1, <2>2 DEF BlockOffset, FrameOK, ProgressOK
  <2> QED BY <2>1, <2>2
<1>4. (BlockStart(p) + BlockSize) % BlockSize = 0
  BY <1>1, <1>2, NextAligned
<1>5. n = Smaller(Smaller(f.count - f.done, BlockSize), BlockSize - o)
  BY DEF ThisTime
<1> HIDE DEF p, o, n
<1>6. n \in Nat /\ n >= 1 /\ n <= f.count - f.done /\ o + n <= BlockSize
  BY <1>1, <1>2, <1>3, <1>5 DEF Smaller
<1>7. n = f.count - f.done \/ n = BlockSize - o
  BY <1>1, <1>2, <1>3, <1>5 DEF Smaller
<1>8. BlockStart(p) + o = p
  BY <1>1, <1>2, <1>3
<1>9. f.done + n = f.count \/ p + n = BlockStart(p) + BlockSize
  BY <1>1, <1>2, <1>3, <1>6, <1>7
<1>10. f.done + n = f.count \/ (p + n) % BlockSize = 0
  BY <1>4, <1>9
<1> QED BY <1>2, <1>3, <1>6, <1>8, <1>10 DEF p, o, n

\* A new call has done nothing yet, and has its count clamped.
LEMMA NewFrameOK ==
  ASSUME NEW t \in Tags, NEW offset \in Nat, NEW want \in 0 .. HalfRange - 1
  PROVE  NewFrame(t, offset, want) \in Frame /\ FrameOK(NewFrame(t, offset, want))
<1> DEFINE f == NewFrame(t, offset, want)
<1>1. Length[t] \in Nat /\ HalfRange \in Nat /\ BlockSize \in Nat /\ 1 <= BlockSize /\ BlockSize <= HalfRange
  BY SizeAssumption
<1>2. /\ f.tag = t /\ f.offset = offset /\ f.want = want /\ f.done = 0 /\ f.last = 0
      /\ f.buf = Nothing /\ f.pc = "loop"
      /\ f.count = IF want + offset > Length[t] THEN ToInt32(Length[t] - offset) ELSE want
  BY DEF NewFrame
<1>3. /\ ToInt32(Length[t] - offset) \in -HalfRange .. HalfRange - 1
      /\ Length[t] - offset \in -HalfRange .. HalfRange - 1 =>
           ToInt32(Length[t] - offset) = Length[t] - offset
  BY <1>1, Int32Facts
<1>4. f.count \in -HalfRange .. HalfRange - 1
  BY <1>1, <1>2, <1>3
<1>5. Nothing \in Buffers /\ DOMAIN Nothing = {}
  <2>1. Nothing \in [{} -> Bytes] /\ DOMAIN Nothing = {}
    BY DEF Nothing
  <2>2. {} \in SUBSET Nat
    OBVIOUS
  <2> QED BY <2>1, <2>2 DEF Buffers
<1>6. f \in Frame
  BY <1>1, <1>4, <1>5, <1>2 DEF NewFrame, Frame, PCs
<1>7. CountOK(f)
  <2>1. CASE offset <= Length[t]
    BY <1>1, <1>2, <1>3, <2>1 DEF CountOK, R!Clamped
  <2>2. CASE offset > Length[t] /\ Length[t] - offset >= -HalfRange
    BY <1>1, <1>2, <1>3, <2>2 DEF CountOK
  <2>3. CASE Length[t] - offset < -HalfRange
    BY <1>1, <1>2, <1>3, <2>3 DEF CountOK
  <2> QED BY <1>1, <2>1, <2>2, <2>3
<1>8. BufferOK(f)
  BY <1>1, <1>2, <1>5 DEF BufferOK, Missing
<1> QED BY <1>1, <1>2, <1>4, <1>6, <1>7, <1>8 DEF FrameOK, ProgressOK, FetchOK, BeyondOK

\* A piece that the zone has is right.
LEMMA HitOK ==
  ASSUME NEW f \in Frame, FrameOK(f), KeysOK, CacheIntegrity,
         f.pc = "loop", f.done < f.count, BlockKey(f) \in DOMAIN cache
  PROVE  LET n   == ThisTime(f)
             hit == [i \in 0 .. n - 1 |-> cache[BlockKey(f)][BlockOffset(f) + i]]
             g   == [f EXCEPT
                       !.buf     = Write(f.buf, f.done, n, hit),
                       !.done    = f.done + n,
                       !.last    = f.done + n,
                       !.readPos = f.offset + f.last,
                       !.to      = f.offset + f.done,
                       !.pc      = IF f.done > f.last THEN "fetch" ELSE "loop"]
         IN  g \in Frame /\ FrameOK(g)
<1> DEFINE n   == ThisTime(f)
           o   == BlockOffset(f)
           p   == f.offset + f.done
           hit == [i \in 0 .. n - 1 |-> cache[BlockKey(f)][o + i]]
           b   == Write(f.buf, f.done, n, hit)
           g   == [f EXCEPT
                     !.buf     = b,
                     !.done    = f.done + n,
                     !.last    = f.done + n,
                     !.readPos = f.offset + f.last,
                     !.to      = f.offset + f.done,
                     !.pc      = IF f.done > f.last THEN "fetch" ELSE "loop"]
<1>1. /\ f.tag \in Tags /\ f.offset \in Nat /\ f.want \in 0 .. HalfRange - 1
      /\ f.count \in -HalfRange .. HalfRange - 1
      /\ f.done \in 0 .. HalfRange - 1 /\ f.last \in 0 .. HalfRange - 1
      /\ f.buf \in Buffers /\ Length[f.tag] \in Nat
      /\ BlockSize \in Nat \ {0} /\ HalfRange \in Nat
  BY SizeAssumption DEF Frame
<1>2. /\ n \in Nat /\ n >= 1 /\ n <= f.count - f.done /\ o \in Nat /\ o + n <= BlockSize
      /\ BlockStart(p) + o = p
      /\ f.done + n = f.count \/ (f.offset + f.done + n) % BlockSize = 0
  BY PieceFacts
<1>3. BlockKey(f) = <<BlockStart(p), f.tag>>
  BY DEF BlockKey
<1>4. /\ BlockStart(p) < Length[f.tag]
      /\ \A i \in 0 .. BlockSize - 1 :
           BlockStart(p) + i < Length[f.tag] =>
             cache[BlockKey(f)][i] = Byte(f.tag, BlockStart(p) + i)
  BY <1>3 DEF CacheIntegrity
<1>5. BlockStart(p) \in Int /\ p \in Nat /\ p < BlockStart(p) + BlockSize
  <2>1. p \in Nat
    BY <1>1
  <2> QED BY <2>1, BlockFacts
<1>6. f.offset <= Length[f.tag] /\ f.count = R!Clamped(f.tag, f.offset, f.want)
  <2>1. CASE f.offset > Length[f.tag]
    <3>1. f.offset >= Length[f.tag] + BlockSize
      BY <1>1, <2>1 DEF FrameOK, CountOK
    <3> QED BY <1>1, <1>4, <1>5, <3>1
  <2> QED BY <1>1, <2>1 DEF FrameOK, CountOK
<1>7. f.offset + f.count <= Length[f.tag] /\ f.count <= f.want
  BY <1>1, <1>6 DEF R!Clamped
<1>8. \A i \in 0 .. n - 1 : hit[i] = Byte(f.tag, p + i)
  <2> SUFFICES ASSUME NEW i \in 0 .. n - 1 PROVE hit[i] = Byte(f.tag, p + i)
    OBVIOUS
  <2>1. o + i \in 0 .. BlockSize - 1 /\ BlockStart(p) + (o + i) = p + i
    BY <1>1, <1>2, <1>5
  <2>2. p + i < Length[f.tag]
    BY <1>1, <1>2, <1>7
  <2>3. cache[BlockKey(f)][o + i] = Byte(f.tag, BlockStart(p) + (o + i))
    BY <1>4, <2>1, <2>2
  <2> QED BY <2>1, <2>3
<1>9. hit \in [0 .. n - 1 -> Bytes]
  <2>1. \A i \in 0 .. n - 1 : hit[i] \in Bytes
    BY <1>1, <1>2, <1>5, <1>8 DEF Bytes, Byte
  <2> QED BY <2>1
<1> HIDE DEF n, o, hit
<1>10. /\ b \in Buffers /\ DOMAIN b = DOMAIN f.buf \cup (f.done .. f.done + n - 1)
       /\ \A i \in DOMAIN b : b[i] = IF i \in f.done .. f.done + n - 1 THEN hit[i - f.done] ELSE f.buf[i]
  <2>1. f.done \in Nat /\ f.buf \in Buffers
    BY <1>1
  <2>2. n \in Nat
    BY <1>2
  <2>3. b \in Buffers /\ DOMAIN b = DOMAIN f.buf \cup (f.done .. f.done + n - 1)
    BY ONLY <1>9, <2>1, <2>2, WriteFacts, ZenonT(40)
  <2>4. \A i \in DOMAIN b : b[i] = IF i \in f.done .. f.done + n - 1 THEN hit[i - f.done] ELSE f.buf[i]
    BY <2>3 DEF Write
  <2> QED BY <2>3, <2>4
<1> HIDE DEF b
<1>11. /\ g.tag = f.tag /\ g.offset = f.offset /\ g.want = f.want /\ g.count = f.count
       /\ g.done = f.done + n /\ g.last = f.done + n /\ g.buf = b
       /\ g.readPos = f.offset + f.last /\ g.to = f.offset + f.done
       /\ g.pc = IF f.done > f.last THEN "fetch" ELSE "loop"
  BY DEF Frame
<1>12. f.done + n \in 0 .. HalfRange - 1 /\ f.offset + f.last \in Nat /\ f.offset + f.done \in Nat
  BY <1>1, <1>2
<1>13. g \in Frame
  BY <1>10, <1>12 DEF Frame, PCs
<1> HIDE DEF g
<1>14. CountOK(g)
  BY <1>6, <1>11 DEF CountOK
<1>15. f.last <= f.done
  BY DEF FrameOK, ProgressOK
<1>16. ProgressOK(g)
  <2>1. g.offset + g.done = f.offset + f.done + n
    BY <1>1, <1>2, <1>11
  <2>2. g.last <= g.done /\ g.done <= g.count
    BY <1>1, <1>2, <1>11
  <2>3. g.done = g.count \/ (g.offset + g.done) % BlockSize = 0
    BY <1>2, <1>11, <2>1
  <2> QED BY <2>2, <2>3 DEF ProgressOK
<1>17. FetchOK(g)
  BY <1>1, <1>2, <1>11, <1>15 DEF FetchOK
<1>18. DOMAIN f.buf = 0 .. f.last - 1 /\ \A i \in DOMAIN f.buf : f.buf[i] = Byte(f.tag, f.offset + i)
  BY DEF FrameOK, BufferOK, Missing
<1>19. BufferOK(g)
  <2>1. DOMAIN b = (0 .. f.last - 1) \cup (f.done .. f.done + n - 1)
    BY <1>10, <1>18
  <2>5. DOMAIN b \subseteq 0 .. f.want - 1
    <3>1. f.done + n <= f.want /\ f.last <= f.want
      BY <1>1, <1>2, <1>7, <1>15
    <3>2. (0 .. f.last - 1) \cup (f.done .. f.done + n - 1) \subseteq 0 .. f.want - 1
      BY <1>1, <1>2, <3>1
    <3> QED BY <2>1, <3>2
  <2>2. \A i \in DOMAIN b : b[i] = Byte(f.tag, f.offset + i)
    <3> SUFFICES ASSUME NEW i \in DOMAIN b PROVE b[i] = Byte(f.tag, f.offset + i)
      OBVIOUS
    <3>1. CASE i \in f.done .. f.done + n - 1
      <4>1. i - f.done \in 0 .. n - 1 /\ p + (i - f.done) = f.offset + i
        BY <1>1, <1>2, <3>1
      <4> QED BY <1>8, <1>10, <3>1, <4>1
    <3>2. CASE i \notin f.done .. f.done + n - 1
      BY <1>10, <1>18, <3>2
    <3> QED BY <3>1, <3>2
  <2>3. Missing(g) = f.last .. f.done - 1
    <3>1. CASE f.done > f.last
      BY <1>1, <1>11, <3>1 DEF Missing
    <3>2. CASE f.done = f.last
      BY <1>1, <1>11, <3>2 DEF Missing
    <3> QED BY <1>1, <1>15, <3>1, <3>2
  <2>4. DOMAIN b = (0 .. f.done + n - 1) \ (f.last .. f.done - 1)
    <3>1. (0 .. f.last - 1) \cup (f.done .. f.done + n - 1)
            = (0 .. f.done + n - 1) \ (f.last .. f.done - 1)
      BY <1>1, <1>2, <1>15
    <3> QED BY <2>1, <3>1
  <2>6. DOMAIN g.buf = (0 .. g.last - 1) \ Missing(g)
    <3>1. g.buf = b /\ g.last = f.done + n
      BY <1>11
    <3>2. (0 .. g.last - 1) \ Missing(g) = (0 .. f.done + n - 1) \ (f.last .. f.done - 1)
      <4>1. (0 .. g.last - 1) = (0 .. f.done + n - 1)
        BY <1>1, <1>2, <3>1
      <4> QED BY <2>3, <4>1
    <3>3. DOMAIN g.buf = DOMAIN b
      BY <3>1
    <3> QED BY ONLY <2>4, <3>2, <3>3
  <2>7. DOMAIN g.buf \subseteq 0 .. g.want - 1
    BY <1>11, <2>5
  <2>8. \A i \in DOMAIN g.buf : g.buf[i] = Byte(g.tag, g.offset + i)
    BY <1>11, <2>2
  <2> QED BY <2>6, <2>7, <2>8 DEF BufferOK
<1>20. BeyondOK(g) /\ g.pc # "returned"
  BY <1>1, <1>6, <1>11 DEF BeyondOK
<1>21. FrameOK(g)
  BY <1>14, <1>16, <1>17, <1>19, <1>20 DEF FrameOK
<1> QED BY <1>13, <1>21 DEF g, b, hit, n, o

\* Skipping a piece, going on to fetch what was skipped last, and returning.
LEMMA MissOK ==
  ASSUME NEW f \in Frame, FrameOK(f), f.pc = "loop", f.done < f.count
  PROVE  LET g == [f EXCEPT !.done = f.done + ThisTime(f)] IN g \in Frame /\ FrameOK(g)
<1> DEFINE n == ThisTime(f)
           g == [f EXCEPT !.done = f.done + n]
<1>1. /\ f.offset \in Nat /\ f.count \in -HalfRange .. HalfRange - 1
      /\ f.done \in 0 .. HalfRange - 1 /\ f.last \in 0 .. HalfRange - 1
  BY DEF Frame
<1>2. /\ n \in Nat /\ n >= 1 /\ n <= f.count - f.done
      /\ f.done + n = f.count \/ (f.offset + f.done + n) % BlockSize = 0
  BY PieceFacts
<1> HIDE DEF n
<1>3. f.done + n \in 0 .. HalfRange - 1
  BY <1>1, <1>2, SizeAssumption
<1>4. g \in Frame
  BY <1>3 DEF Frame
<1>5. /\ g.tag = f.tag /\ g.offset = f.offset /\ g.want = f.want /\ g.count = f.count
      /\ g.done = f.done + n /\ g.last = f.last /\ g.buf = f.buf /\ g.pc = "loop"
  BY DEF Frame
<1> HIDE DEF g
<1>6. ProgressOK(g)
  <2>1. g.offset + g.done = f.offset + f.done + n
    BY <1>1, <1>2, <1>5
  <2>2. g.last <= g.done /\ g.done <= g.count
    BY <1>1, <1>2, <1>5 DEF FrameOK, ProgressOK
  <2>3. g.done = g.count \/ (g.offset + g.done) % BlockSize = 0
    BY <1>2, <1>5, <2>1
  <2> QED BY <2>2, <2>3 DEF ProgressOK
<1>7. CountOK(g) /\ FetchOK(g) /\ BufferOK(g) /\ BeyondOK(g) /\ g.pc # "returned"
  BY <1>5 DEF FrameOK, CountOK, FetchOK, BufferOK, BeyondOK, Missing
<1>8. FrameOK(g)
  BY <1>6, <1>7 DEF FrameOK
<1> QED BY <1>4, <1>8 DEF g, n

LEMMA FetchTailOK ==
  ASSUME NEW f \in Frame, FrameOK(f), f.pc = "loop", f.done >= f.count, f.last < f.count
  PROVE  LET g == [f EXCEPT !.readPos = f.offset + f.last, !.to = f.offset + f.done,
                            !.last = f.done, !.pc = "fetch"]
         IN  g \in Frame /\ FrameOK(g)
<1> DEFINE g == [f EXCEPT !.readPos = f.offset + f.last, !.to = f.offset + f.done,
                          !.last = f.done, !.pc = "fetch"]
<1>1. /\ f.offset \in Nat /\ f.count \in -HalfRange .. HalfRange - 1
      /\ f.done \in 0 .. HalfRange - 1 /\ f.last \in 0 .. HalfRange - 1
  BY DEF Frame
<1>2. g \in Frame
  <2>1. f.offset + f.last \in Nat /\ f.offset + f.done \in Nat
    BY <1>1
  <2> QED BY <2>1 DEF Frame, PCs
<1>3. /\ g.tag = f.tag /\ g.offset = f.offset /\ g.want = f.want /\ g.count = f.count
      /\ g.done = f.done /\ g.last = f.done /\ g.buf = f.buf /\ g.pc = "fetch"
      /\ g.readPos = f.offset + f.last /\ g.to = f.offset + f.done
  BY DEF Frame
<1> HIDE DEF g
<1>4. f.last < f.done /\ f.done = f.count
  BY <1>1, SizeAssumption DEF FrameOK, ProgressOK
<1>5. ProgressOK(g) /\ CountOK(g)
  BY <1>1, <1>3, <1>4 DEF FrameOK, ProgressOK, CountOK
<1>6. FetchOK(g)
  BY <1>1, <1>3, <1>4 DEF FetchOK
<1>7. BufferOK(g)
  <2>1. DOMAIN f.buf = 0 .. f.last - 1
    BY DEF FrameOK, BufferOK, Missing
  <2>2. Missing(g) = f.last .. f.done - 1
    BY <1>1, <1>3 DEF Missing
  <2>3. DOMAIN f.buf = (0 .. f.done - 1) \ (f.last .. f.done - 1)
    BY <1>1, <1>4, <2>1
  <2> QED BY <1>3, <2>2, <2>3 DEF FrameOK, BufferOK
<1>8. BeyondOK(g)
  BY <1>1, <1>3 DEF FrameOK, BeyondOK
<1>9. FrameOK(g)
  BY <1>3, <1>5, <1>6, <1>7, <1>8 DEF FrameOK
<1> QED BY <1>2, <1>9 DEF g

LEMMA FinishOK ==
  ASSUME NEW f \in Frame, FrameOK(f), f.pc = "loop", f.last >= f.count
  PROVE  LET g == [f EXCEPT !.pc = "returned"] IN g \in Frame /\ FrameOK(g)
<1> DEFINE g == [f EXCEPT !.pc = "returned"]
<1>1. g \in Frame
  BY DEF Frame, PCs
<1>2. /\ g.tag = f.tag /\ g.offset = f.offset /\ g.want = f.want /\ g.count = f.count
      /\ g.done = f.done /\ g.last = f.last /\ g.buf = f.buf /\ g.pc = "returned"
  BY DEF Frame
<1> HIDE DEF g
<1>3. FrameOK(g)
  BY <1>2 DEF FrameOK, CountOK, ProgressOK, FetchOK, BufferOK, BeyondOK, Missing
<1> QED BY <1>1, <1>3 DEF g

\* A call that fails, wherever it was, keeps what is right in its buffer.
LEMMA FailOK ==
  ASSUME NEW f \in Frame, FrameOK(f)
  PROVE  LET g == [f EXCEPT !.pc = "failed"] IN g \in Frame /\ FrameOK(g)
<1> DEFINE g == [f EXCEPT !.pc = "failed"]
<1>1. g \in Frame
  BY DEF Frame, PCs
<1>2. /\ g.tag = f.tag /\ g.offset = f.offset /\ g.want = f.want /\ g.count = f.count
      /\ g.done = f.done /\ g.last = f.last /\ g.buf = f.buf /\ g.pc = "failed"
  BY DEF Frame
<1> HIDE DEF g
<1>3. FrameOK(g)
  BY <1>2 DEF FrameOK, CountOK, ProgressOK, FetchOK, BufferOK, BeyondOK
<1> QED BY <1>1, <1>3 DEF g

\* What the fetch loop needs of a call that fetches: it is within its
\* reader, unless it has just asked for its first piece past the end.
LEMMA FetchRange ==
  ASSUME NEW f \in Frame, FrameOK(f), f.pc \in {"fetch", "backing", "store"},
         f.readPos < Length[f.tag]
  PROVE  f.offset <= Length[f.tag] /\ f.last <= f.done /\ f.done <= f.count /\ f.count <= f.want
<1>1. /\ f.tag \in Tags /\ f.offset \in Nat /\ f.want \in Nat /\ f.count \in Int
      /\ f.done \in Nat /\ f.last \in Nat /\ f.readPos \in Nat /\ f.to \in Nat
      /\ Length[f.tag] \in Nat
  BY SizeAssumption DEF Frame
<1>2. f.offset <= f.readPos /\ f.readPos < f.to /\ f.to <= f.offset + f.last
  BY DEF FrameOK, FetchOK
<1>3. f.offset <= Length[f.tag] /\ f.last >= 1
  BY <1>1, <1>2
<1>4. f.last <= f.done /\ (f.done = 0 \/ f.done <= f.count)
  BY DEF FrameOK, ProgressOK
<1>5. f.count = R!Clamped(f.tag, f.offset, f.want)
  BY <1>1, <1>3 DEF FrameOK, CountOK
<1>6. f.count <= f.want
  BY <1>1, <1>5 DEF R!Clamped
<1> QED BY <1>1, <1>3, <1>4, <1>6

\* The advised block contains the position, ends within the reader and ends
\* where a cache block or the reader does.
LEMMA AdvisedOK ==
  ASSUME EndAligned, NEW f \in Frame, FrameOK(f), f.pc = "fetch",
         AdvisedBlock(f.tag, f.readPos).end > f.readPos
  PROVE  LET b == AdvisedBlock(f.tag, f.readPos)
             g == [f EXCEPT !.pc = "backing", !.start = b.start, !.end = b.end, !.nested = 0]
         IN  g \in Frame /\ FrameOK(g)
<1> DEFINE b == AdvisedBlock(f.tag, f.readPos)
           g == [f EXCEPT !.pc = "backing", !.start = b.start, !.end = b.end, !.nested = 0]
<1>1. /\ f.tag \in Tags /\ f.offset \in Nat /\ f.readPos \in Nat /\ f.to \in Nat
      /\ f.last \in Nat /\ Length[f.tag] \in Nat
  BY SizeAssumption DEF Frame
<1>2. f.readPos < Length[f.tag]
  <2> SUFFICES ASSUME ~ (f.readPos < Length[f.tag]) PROVE FALSE
    OBVIOUS
  <2>1. b.end = Length[f.tag]
    BY DEF AdvisedBlock
  <2> QED BY <1>1, <2>1
<1>3. b = Advise[f.tag][f.readPos] /\ f.readPos \in 0 .. Length[f.tag] - 1
  BY <1>1, <1>2 DEF AdvisedBlock
<1> HIDE DEF b
<1>4. /\ b.start \in Nat /\ b.end \in Nat
      /\ b.start <= f.readPos /\ f.readPos < b.end /\ b.end <= Length[f.tag]
      /\ b.end % BlockSize = 0 \/ b.end = Length[f.tag]
  BY <1>1, <1>3, AdviceAssumption DEF EndAligned
<1>5. g \in Frame
  BY <1>4 DEF Frame, PCs
<1>6. /\ g.tag = f.tag /\ g.offset = f.offset /\ g.want = f.want /\ g.count = f.count
      /\ g.done = f.done /\ g.last = f.last /\ g.buf = f.buf /\ g.pc = "backing"
      /\ g.readPos = f.readPos /\ g.to = f.to /\ g.start = b.start /\ g.end = b.end
  BY DEF Frame
<1> HIDE DEF g
<1>7. CountOK(g) /\ ProgressOK(g) /\ g.pc # "returned"
  BY <1>6 DEF FrameOK, CountOK, ProgressOK
<1>8. FetchOK(g)
  BY <1>4, <1>6 DEF FrameOK, FetchOK
<1>9. BufferOK(g)
  <2>1. Missing(g) = Missing(f)
    BY <1>6 DEF Missing
  <2> QED BY <1>6, <2>1 DEF FrameOK, BufferOK
<1>10. BeyondOK(g)
  BY <1>1, <1>2, <1>6, FetchRange DEF BeyondOK
<1>11. FrameOK(g)
  BY <1>7, <1>8, <1>9, <1>10 DEF FrameOK
<1> QED BY <1>5, <1>11 DEF g, b

\* A step of storing leaves a frame.
LEMMA StoreFrame ==
  ASSUME NEW f \in Frame, NEW p \in PCs, NEW c \in Nat
  PROVE  [f EXCEPT !.pc = p, !.cachePos = c] \in Frame
BY DEF Frame

\* The first block to store starts a cache block, and so does the next.
LEMMA CachePosOK ==
  ASSUME NEW f \in Frame, FrameOK(f), f.pc \in {"backing", "store"},
         NEW c \in Nat, c % BlockSize = 0
  PROVE  LET g == [f EXCEPT !.pc = "store", !.cachePos = c] IN g \in Frame /\ FrameOK(g)
<1> DEFINE g == [f EXCEPT !.pc = "store", !.cachePos = c]
<1>1. g \in Frame
  <2>1. "store" \in PCs
    BY DEF PCs
  <2> QED BY <2>1, StoreFrame
<1>2. /\ g.tag = f.tag /\ g.offset = f.offset /\ g.want = f.want /\ g.count = f.count
      /\ g.done = f.done /\ g.last = f.last /\ g.buf = f.buf /\ g.pc = "store"
      /\ g.readPos = f.readPos /\ g.to = f.to /\ g.start = f.start /\ g.end = f.end
      /\ g.cachePos = c
  BY DEF Frame
<1> HIDE DEF g
<1>3. CountOK(g) /\ ProgressOK(g) /\ FetchOK(g) /\ BeyondOK(g) /\ g.pc # "returned"
  BY <1>2 DEF FrameOK, CountOK, ProgressOK, FetchOK, BeyondOK
<1>4. BufferOK(g)
  <2>1. Missing(g) = Missing(f)
    BY <1>2 DEF Missing
  <2> QED BY <1>2, <2>1 DEF FrameOK, BufferOK
<1>5. FrameOK(g)
  BY <1>3, <1>4 DEF FrameOK
<1> QED BY <1>1, <1>5 DEF g

\* The part of the fetched block that was asked for fills the start of what
\* is missing from the buffer.
LEMMA CopyOK ==
  ASSUME NEW f \in Frame, FrameOK(f), f.pc = "store"
  PROVE  LET toCopy == Smaller(f.to - f.readPos, f.end - f.readPos)
             got    == [i \in 0 .. toCopy - 1 |-> Byte(f.tag, f.readPos + i)]
             g      == [f EXCEPT
                          !.buf      = Write(f.buf, f.readPos - f.offset, toCopy, got),
                          !.readPos  = f.readPos + toCopy,
                          !.pc       = IF f.readPos + toCopy < f.to THEN "fetch" ELSE "loop",
                          !.start    = 0, !.end = 0, !.cachePos = 0]
         IN  g \in Frame /\ FrameOK(g)
<1> DEFINE n   == Smaller(f.to - f.readPos, f.end - f.readPos)
           got == [i \in 0 .. n - 1 |-> Byte(f.tag, f.readPos + i)]
           pos == f.readPos - f.offset
           b   == Write(f.buf, pos, n, got)
           g   == [f EXCEPT
                     !.buf      = b,
                     !.readPos  = f.readPos + n,
                     !.pc       = IF f.readPos + n < f.to THEN "fetch" ELSE "loop",
                     !.start    = 0, !.end = 0, !.cachePos = 0]
<1>1. /\ f.tag \in Tags /\ f.offset \in Nat /\ f.want \in Nat /\ f.count \in Int
      /\ f.done \in Nat /\ f.last \in Nat /\ f.readPos \in Nat /\ f.to \in Nat
      /\ f.end \in Nat /\ Length[f.tag] \in Nat /\ f.buf \in Buffers
  BY SizeAssumption DEF Frame
<1>2. /\ f.offset <= f.readPos /\ f.readPos < f.to /\ f.to <= f.offset + f.last
      /\ f.readPos < f.end /\ f.end <= Length[f.tag]
  BY DEF FrameOK, FetchOK
<1>3. f.offset <= Length[f.tag] /\ f.last <= f.want
  <2>1. f.readPos < Length[f.tag]
    BY <1>1, <1>2
  <2> QED BY <1>1, <2>1, FetchRange
<1>4. n \in Nat /\ n >= 1 /\ f.readPos + n <= f.to /\ pos \in Nat
  BY <1>1, <1>2 DEF Smaller
<1>5. got \in [0 .. n - 1 -> Bytes] /\ \A i \in 0 .. n - 1 : got[i] = Byte(f.tag, f.readPos + i)
  <2>1. \A i \in 0 .. n - 1 : f.readPos + i \in Nat
    BY <1>1, <1>4
  <2>2. \A i \in 0 .. n - 1 : Byte(f.tag, f.readPos + i) \in Bytes
    BY <1>1, <2>1 DEF Bytes, Byte
  <2> QED BY <2>2
<1>6. /\ pos = f.readPos - f.offset
      /\ pos + n <= f.last /\ f.to - f.offset \in Nat /\ f.to - f.offset <= f.last
  BY <1>1, <1>2, <1>4
<1> HIDE DEF n, got, pos
<1>7. b \in Buffers /\ DOMAIN b = DOMAIN f.buf \cup (pos .. pos + n - 1)
  <2>1. f.buf \in Buffers
    BY <1>1
  <2>2. pos \in Nat
    BY <1>4
  <2>3. n \in Nat
    BY <1>4
  <2>4. got \in [0 .. n - 1 -> Bytes]
    BY <1>5
  <2> QED BY ONLY <2>1, <2>2, <2>3, <2>4, WriteFacts, ZenonT(40)
<1>8. \A i \in DOMAIN b : b[i] = IF i \in pos .. pos + n - 1 THEN got[i - pos] ELSE f.buf[i]
  BY <1>7 DEF Write
<1> HIDE DEF b
<1>9. g \in Frame
  <2>1. f.readPos + n \in Nat
    BY <1>1, <1>4
  <2> QED BY <1>7, <2>1 DEF Frame, PCs
<1>10. /\ g.tag = f.tag /\ g.offset = f.offset /\ g.want = f.want /\ g.count = f.count
       /\ g.done = f.done /\ g.last = f.last /\ g.buf = b
       /\ g.readPos = f.readPos + n /\ g.to = f.to
       /\ g.pc = IF f.readPos + n < f.to THEN "fetch" ELSE "loop"
  BY DEF Frame
<1> HIDE DEF g
<1>11. CountOK(g) /\ ProgressOK(g) /\ g.pc # "returned"
  BY <1>10 DEF FrameOK, CountOK, ProgressOK
<1>12. FetchOK(g)
  BY <1>1, <1>2, <1>4, <1>10 DEF FetchOK
<1>13. BufferOK(g)
  <2>1. DOMAIN f.buf = (0 .. f.last - 1) \ (pos .. f.to - f.offset - 1)
    BY <1>6 DEF FrameOK, BufferOK, Missing
  <2>2. DOMAIN b = (0 .. f.last - 1) \ (pos + n .. f.to - f.offset - 1)
    <3>1. ((0 .. f.last - 1) \ (pos .. f.to - f.offset - 1)) \cup (pos .. pos + n - 1)
            = (0 .. f.last - 1) \ (pos + n .. f.to - f.offset - 1)
      BY <1>1, <1>4, <1>6
    <3> QED BY <1>7, <2>1, <3>1
  <2>3. Missing(g) = pos + n .. f.to - f.offset - 1
    <3>1. CASE f.readPos + n < f.to
      <4>1. Missing(g) = g.readPos - g.offset .. g.to - g.offset - 1
        BY <1>10, <3>1 DEF Missing
      <4>2. g.readPos - g.offset = pos + n
        BY <1>1, <1>4, <1>6, <1>10
      <4>3. g.to - g.offset = f.to - f.offset
        BY <1>10
      <4> QED BY <4>1, <4>2, <4>3
    <3>2. CASE ~ (f.readPos + n < f.to)
      <4>1. Missing(g) = {}
        BY <1>10, <3>2 DEF Missing
      <4>2. f.readPos + n = f.to
        BY <1>1, <1>4, <3>2
      <4>3. (pos + n .. f.to - f.offset - 1) = {}
        BY <1>1, <1>4, <1>6, <4>2
      <4> QED BY <4>1, <4>3
    <3> QED BY <3>1, <3>2
  <2>4. DOMAIN g.buf = (0 .. g.last - 1) \ Missing(g)
    <3>1. g.buf = b /\ g.last = f.last
      BY <1>10
    <3> QED BY <2>2, <2>3, <3>1
  <2>5. DOMAIN g.buf \subseteq 0 .. g.want - 1
    <3>1. DOMAIN b \subseteq 0 .. f.last - 1
      BY <2>2
    <3>2. (0 .. f.last - 1) \subseteq 0 .. f.want - 1
      BY <1>1, <1>3
    <3> QED BY <1>10, <3>1, <3>2
  <2>6. \A i \in DOMAIN b : b[i] = Byte(f.tag, f.offset + i)
    <3> SUFFICES ASSUME NEW i \in DOMAIN b PROVE b[i] = Byte(f.tag, f.offset + i)
      OBVIOUS
    <3>1. CASE i \in pos .. pos + n - 1
      <4>1. i - pos \in 0 .. n - 1 /\ f.readPos + (i - pos) = f.offset + i
        BY <1>1, <1>4, <1>6, <3>1
      <4>2. got[i - pos] = Byte(f.tag, f.readPos + (i - pos))
        BY <1>5, <4>1
      <4> QED BY <1>8, <3>1, <4>1, <4>2
    <3>2. CASE i \notin pos .. pos + n - 1
      BY <1>7, <1>8, <3>2 DEF FrameOK, BufferOK
    <3> QED BY <3>1, <3>2
  <2>7. \A i \in DOMAIN g.buf : g.buf[i] = Byte(g.tag, g.offset + i)
    BY <1>10, <2>6
  <2> QED BY <2>4, <2>5, <2>7 DEF BufferOK
<1>14. BeyondOK(g)
  BY <1>1, <1>3, <1>10 DEF BeyondOK
<1>15. FrameOK(g)
  BY <1>11, <1>12, <1>13, <1>14 DEF FrameOK
<1> QED BY <1>9, <1>15 DEF g, b, pos, got, n

\* What a call has put into the buffer when it returns.
LEMMA ReturnedRight ==
  ASSUME NEW f \in Frame, FrameOK(f), f.pc = "returned"
  PROVE  f.buf = R!Slice(f.tag, f.offset, f.want)
<1> DEFINE c == R!Clamped(f.tag, f.offset, f.want)
<1>1. /\ f.tag \in Tags /\ f.offset \in Nat /\ f.want \in Nat /\ f.count \in Int
      /\ f.done \in Nat /\ f.last \in Nat /\ Length[f.tag] \in Nat /\ f.buf \in Buffers
  BY SizeAssumption DEF Frame
<1>2. /\ f.last >= f.count /\ f.last <= f.done /\ (f.done = 0 \/ f.done <= f.count)
      /\ \A i \in DOMAIN f.buf : f.buf[i] = Byte(f.tag, f.offset + i)
  BY DEF FrameOK, ProgressOK, BufferOK
<1>3. DOMAIN f.buf = 0 .. f.last - 1
  BY DEF FrameOK, BufferOK, Missing
<1>4. (0 .. f.last - 1) = (0 .. c - 1)
  <2>1. CASE f.offset > Length[f.tag]
    <3>1. f.last = 0
      BY <2>1 DEF FrameOK, BeyondOK
    <3>2. c = 0
      BY <1>1, <2>1 DEF R!Clamped
    <3> QED BY <3>1, <3>2
  <2>2. CASE f.offset <= Length[f.tag]
    <3>1. f.count = c
      BY <1>1, <2>2 DEF FrameOK, CountOK
    <3>2. c \in Nat
      BY <1>1, <2>2 DEF R!Clamped
    <3>3. f.last = c
      BY <1>1, <1>2, <3>1, <3>2
    <3> QED BY <3>3
  <2> QED BY <1>1, <2>1, <2>2
<1>5. \A i \in 0 .. c - 1 : f.buf[i] = <<f.tag, f.offset + i>>
  BY <1>2, <1>3, <1>4 DEF Byte
<1>6. PICK D \in SUBSET Nat : f.buf \in [D -> Bytes]
  BY <1>1 DEF Buffers
<1> HIDE DEF c
<1>7. f.buf = [i \in 0 .. c - 1 |-> <<f.tag, f.offset + i>>]
  BY <1>3, <1>4, <1>5, <1>6
<1> QED BY <1>7 DEF R!Slice, R!Byte, c

----------------------------------------------------------------------------
(* What the operations of the zone do to the blocks in it.                 *)

\* Eviction only drops entries.
LEMMA EvictKeeps ==
  ASSUME NEW entries, NEW ages, NEW age, NEW limit,
         Zone!EvictCache(entries, ages, age, limit)
  PROVE  /\ DOMAIN cache' \subseteq DOMAIN entries
         /\ \A k \in DOMAIN cache' : cache'[k] = entries[k]
<1> DEFINE left == DOMAIN entries \ Zone!OldestKeys(age, Zone!EvictCount(DOMAIN entries, age, limit))
<1>1. cache' = [k \in left |-> entries[k]]
  BY DEF Zone!EvictCache
<1> HIDE DEF left
<1>2. DOMAIN cache' = left /\ \A k \in left : cache'[k] = entries[k]
  BY <1>1
<1> QED BY <1>2 DEF left

\* get() and setMaxBlocks() put nothing into the zone.
LEMMA GetKeeps ==
  ASSUME NEW key, Zone!Get(key), KeysOK, CacheIntegrity
  PROVE  key \in DOMAIN cache /\ KeysOK' /\ CacheIntegrity'
<1>1. key \in DOMAIN cache /\ cache' = cache
  BY DEF Zone!Get, Zone!Cached
<1> QED BY <1>1 DEF KeysOK, CacheIntegrity

LEMMA SetMaxBlocksKeeps ==
  ASSUME NEW limit, Zone!SetMaxBlocks(limit), KeysOK, CacheIntegrity
  PROVE  KeysOK' /\ CacheIntegrity'
<1>1. Zone!EvictCache(cache, itAge, cacheAge, limit)
  BY DEF Zone!SetMaxBlocks
<1>2. DOMAIN cache' \subseteq DOMAIN cache /\ \A k \in DOMAIN cache' : cache'[k] = cache[k]
  BY <1>1, EvictKeeps
<1> QED BY <1>2 DEF KeysOK, CacheIntegrity

\* What nonCachedRead() stores is the whole block, or all the reader has of
\* it.
LEMMA StoreKeeps ==
  ASSUME NEW f \in Frame, FrameOK(f), f.pc = "store", f.cachePos < f.end,
         KeysOK, CacheIntegrity,
         Zone!Store(<<f.cachePos, f.tag>>, BlockData(f.tag, f.cachePos, f.end))
  PROVE  KeysOK' /\ CacheIntegrity'
<1> DEFINE key     == <<f.cachePos, f.tag>>
           data    == BlockData(f.tag, f.cachePos, f.end)
           keys    == DOMAIN cache \cup {key}
           entries == [k \in keys |-> IF k \in DOMAIN cache THEN cache[k] ELSE data]
           ages    == [k \in keys |-> IF k = key THEN Len(Append(cacheAge, key)) ELSE itAge[k]]
<1>1. /\ f.tag \in Tags /\ f.cachePos \in Nat /\ f.end \in Nat /\ Length[f.tag] \in Nat
      /\ BlockSize \in Nat \ {0}
  BY SizeAssumption DEF Frame
<1>2. /\ f.cachePos % BlockSize = 0 /\ f.end <= Length[f.tag]
      /\ f.end % BlockSize = 0 \/ f.end = Length[f.tag]
  BY DEF FrameOK, FetchOK
<1>3. f.end = Length[f.tag] \/ f.cachePos + BlockSize <= f.end
  <2>1. CASE f.end % BlockSize = 0
    <3>1. f.cachePos \in Int /\ f.end \in Int
      BY <1>1
    <3> QED BY <1>1, <1>2, <2>1, <3>1, AlignedApart
  <2> QED BY <1>2, <2>1
<1>4. \A i \in 0 .. BlockSize - 1 :
        f.cachePos + i < Length[f.tag] => data[i] = Byte(f.tag, f.cachePos + i)
  <2> SUFFICES ASSUME NEW i \in 0 .. BlockSize - 1, f.cachePos + i < Length[f.tag]
               PROVE  data[i] = Byte(f.tag, f.cachePos + i)
    OBVIOUS
  <2>1. f.cachePos + i < f.end
    BY <1>1, <1>3
  <2> QED BY <2>1 DEF BlockData
<1>5. Zone!EvictCache(entries, ages, Append(cacheAge, key), maxBlocks)
  BY DEF Zone!Store, Zone!Cached
<1>6. DOMAIN cache' \subseteq DOMAIN entries /\ \A k \in DOMAIN cache' : cache'[k] = entries[k]
  <2> HIDE DEF entries, ages, key
  <2> QED BY ONLY <1>5, EvictKeeps
<1>7. DOMAIN entries = keys
  OBVIOUS
<1>8. \A k \in keys : entries[k] = IF k \in DOMAIN cache THEN cache[k] ELSE data
  OBVIOUS
<1>9. key[1] = f.cachePos /\ key[2] = f.tag /\ f.cachePos < Length[f.tag]
  BY <1>1, <1>2
<1> HIDE DEF entries, ages, key, data
<1>10. KeysOK'
  BY <1>1, <1>6, <1>7, <1>9 DEF KeysOK
<1>11. CacheIntegrity'
  <2> SUFFICES ASSUME NEW k \in DOMAIN cache'
               PROVE  /\ k[1] < Length[k[2]]
                      /\ \A i \in 0 .. BlockSize - 1 :
                           k[1] + i < Length[k[2]] => cache'[k][i] = Byte(k[2], k[1] + i)
    BY DEF CacheIntegrity
  <2>1. k \in keys /\ cache'[k] = IF k \in DOMAIN cache THEN cache[k] ELSE data
    BY <1>6, <1>7, <1>8
  <2>2. CASE k \in DOMAIN cache
    BY <2>1, <2>2 DEF CacheIntegrity
  <2>3. CASE k \notin DOMAIN cache
    <3>1. k = key /\ cache'[k] = data
      BY <2>1, <2>3
    <3> QED BY <1>4, <1>9, <3>1
  <2> QED BY <2>2, <2>3
<1> QED BY <1>10, <1>11

----------------------------------------------------------------------------
(* Steps of the stack: only the innermost call moves.                      *)

\* The innermost call is one of the stack.
LEMMA TopFacts ==
  ASSUME StackOK, stack # <<>>
  PROVE  /\ Len(stack) \in Nat /\ Len(stack) \in 1 .. Len(stack)
         /\ Top \in Frame /\ FrameOK(Top)
<1>1. stack \in Seq(Frame) /\ Len(stack) \in Nat
  BY LenProperties DEF StackOK
<1>2. Len(stack) # 0
  BY <1>1, EmptySeq
<1>3. Len(stack) \in 1 .. Len(stack)
  BY <1>1, <1>2
<1> QED BY <1>1, <1>3, ElementOfSeq DEF StackOK, Top

\* Replacing the innermost call by one that is right keeps the rest.
LEMMA SetTopOK ==
  ASSUME StackOK, stack # <<>>, NEW g \in Frame, FrameOK(g), SetTop(g)
  PROVE  StackOK'
<1>1. stack \in Seq(Frame) /\ Len(stack) \in Nat /\ Len(stack) \in 1 .. Len(stack)
  BY TopFacts DEF StackOK
<1>2. stack' = [stack EXCEPT ![Len(stack)] = g]
  BY DEF SetTop
<1>3. /\ stack' \in Seq(Frame) /\ Len(stack') = Len(stack)
      /\ \A d \in 1 .. Len(stack) : stack'[d] = IF d = Len(stack) THEN g ELSE stack[d]
  BY <1>1, <1>2, ExceptSeq
<1> QED BY <1>3 DEF StackOK

\* A new call on top.
LEMMA AppendOK ==
  ASSUME NEW s \in Seq(Frame), \A d \in 1 .. Len(s) : FrameOK(s[d]),
         NEW g \in Frame, FrameOK(g), stack' = Append(s, g)
  PROVE  StackOK'
<1>1. /\ stack' \in Seq(Frame) /\ Len(stack') = Len(s) + 1 /\ Len(s) \in Nat
      /\ \A d \in 1 .. Len(s) : stack'[d] = s[d]
      /\ stack'[Len(s) + 1] = g
  BY AppendProperties, LenProperties
<1>2. \A d \in 1 .. Len(stack') : d \in 1 .. Len(s) \/ d = Len(s) + 1
  BY <1>1
<1> QED BY <1>1, <1>2 DEF StackOK

\* The calls left when the innermost one is gone.
LEMMA FrontOK ==
  ASSUME StackOK, stack # <<>>
  PROVE  /\ Front(stack) \in Seq(Frame)
         /\ \A d \in 1 .. Len(Front(stack)) : FrameOK(Front(stack)[d])
<1>1. stack \in Seq(Frame) /\ Len(stack) \in Nat /\ Len(stack) \in 1 .. Len(stack)
  BY TopFacts DEF StackOK
<1>2. \A i \in 1 .. Len(stack) - 1 : stack[i] \in Frame
  <2>1. \A i \in 1 .. Len(stack) : stack[i] \in Frame
    BY <1>1, ElementOfSeq
  <2> QED BY <1>1, <2>1
<1>3. Front(stack) = SubSeq(stack, 1, Len(stack) - 1)
  BY DEF Front
<1>4. /\ Front(stack) \in Seq(Frame)
      /\ Len(Front(stack)) = IF 1 <= Len(stack) - 1 THEN (Len(stack) - 1) - 1 + 1 ELSE 0
      /\ \A i \in 1 .. (Len(stack) - 1) - 1 + 1 : Front(stack)[i] = stack[1 + i - 1]
  <2>1. 1 \in Int /\ Len(stack) - 1 \in Int
    BY <1>1
  <2> QED BY <1>2, <1>3, <2>1, SubSeqProperties
<1>5. \A d \in 1 .. Len(Front(stack)) : d \in 1 .. Len(stack) /\ Front(stack)[d] = stack[d]
  BY <1>1, <1>4
<1> QED BY <1>4, <1>5 DEF StackOK

----------------------------------------------------------------------------
(* The inductive invariant.                                                *)

\* Before the first call the zone is empty.
LEMMA CacheInvInit == Init => CacheInv
<1> SUFFICES ASSUME Init PROVE CacheInv
  OBVIOUS
<1>1. stack = <<>> /\ cache = [k \in {} |-> 0]
  BY DEF Init, Zone!Init
<1>2. StackOK
  BY <1>1, EmptySeq DEF StackOK
<1>3. KeysOK /\ CacheIntegrity
  BY <1>1 DEF KeysOK, CacheIntegrity
<1> QED BY <1>2, <1>3 DEF CacheInv

\* A step that leaves the zone alone leaves its blocks right.
LEMMA ZoneUnchanged ==
  ASSUME UNCHANGED zoneVars, KeysOK, CacheIntegrity
  PROVE  KeysOK' /\ CacheIntegrity'
<1>1. cache' = cache
  BY DEF zoneVars
<1> QED BY <1>1 DEF KeysOK, CacheIntegrity

\* read() is called, from outside or by a backing reader.
LEMMA CallInv ==
  ASSUME CacheInv, NEW t \in Tags, NEW offset \in Offsets, NEW want \in Counts,
         Call(t, offset, want) \/ CallNested(t, offset, want)
  PROVE  CacheInv'
<1>1. offset \in Nat /\ want \in 0 .. HalfRange - 1
  BY RequestAssumption
<1>2. NewFrame(t, offset, want) \in Frame /\ FrameOK(NewFrame(t, offset, want))
  BY <1>1, NewFrameOK
<1>3. CASE Call(t, offset, want)
  <2> DEFINE g == NewFrame(t, offset, want)
  <2>1. stack' = <<g>> /\ UNCHANGED zoneVars
    BY <1>3 DEF Call
  <2> HIDE DEF g
  <2>2. stack' \in Seq(Frame) /\ Len(stack') = 1 /\ stack'[1] = g
    BY <1>2, <2>1 DEF g
  <2>3. \A d \in 1 .. Len(stack') : d = 1
    BY <2>2
  <2>4. StackOK'
    BY <1>2, <2>2, <2>3 DEF StackOK, g
  <2> QED BY <2>1, <2>4, ZoneUnchanged DEF CacheInv
<1>4. CASE CallNested(t, offset, want)
  <2> DEFINE f == Top
             h == [f EXCEPT !.nested = f.nested + 1]
             s == [stack EXCEPT ![Len(stack)] = h]
  <2>1. stack # <<>> /\ stack' = Append(s, NewFrame(t, offset, want)) /\ UNCHANGED zoneVars
    BY <1>4 DEF CallNested, At, Top
  <2>2. stack \in Seq(Frame) /\ Len(stack) \in 1 .. Len(stack) /\ f \in Frame /\ FrameOK(f)
    BY <2>1, TopFacts DEF CacheInv, StackOK
  <2> HIDE DEF f
  <2>3. h \in Frame
    <3>0. f \in Frame
      BY <2>2
    <3>1. f.nested + 1 \in Nat
      BY <3>0 DEF Frame
    <3> QED BY <2>2, <3>1 DEF Frame
  <2>4. /\ h.tag = f.tag /\ h.offset = f.offset /\ h.want = f.want /\ h.count = f.count
        /\ h.done = f.done /\ h.last = f.last /\ h.buf = f.buf /\ h.pc = f.pc
        /\ h.readPos = f.readPos /\ h.to = f.to /\ h.start = f.start /\ h.end = f.end
        /\ h.cachePos = f.cachePos
    BY <2>2 DEF Frame
  <2> HIDE DEF h
  <2>5. FrameOK(h)
    <3>1. Missing(h) = Missing(f)
      BY <2>4 DEF Missing
    <3>2. BufferOK(h)
      BY <2>2, <2>4, <3>1 DEF FrameOK, BufferOK
    <3> QED BY <2>2, <2>4, <3>2 DEF FrameOK, CountOK, ProgressOK, FetchOK, BeyondOK
  <2>6. /\ s \in Seq(Frame) /\ Len(s) = Len(stack)
        /\ \A d \in 1 .. Len(stack) : s[d] = IF d = Len(stack) THEN h ELSE stack[d]
    BY <2>2, <2>3, ExceptSeq
  <2> HIDE DEF s
  <2>7. \A d \in 1 .. Len(s) : FrameOK(s[d])
    BY <2>5, <2>6 DEF CacheInv, StackOK
  <2>8. StackOK'
    BY <1>2, <2>1, <2>6, <2>7, AppendOK
  <2> QED BY <2>1, <2>8, ZoneUnchanged DEF CacheInv
<1> QED BY <1>3, <1>4

\* The loop of read().
LEMMA LoopInv ==
  ASSUME CacheInv, Hit \/ Miss \/ FetchTail \/ Finish
  PROVE  CacheInv'
<1> DEFINE f == Top
<1>1. /\ stack # <<>> /\ f.pc = "loop" /\ StackOK /\ KeysOK /\ CacheIntegrity
      /\ f \in Frame /\ FrameOK(f)
  BY TopFacts DEF CacheInv, Hit, Miss, FetchTail, Finish, At
<1>2. CASE Hit
  <2> DEFINE n   == ThisTime(f)
             hit == [i \in 0 .. n - 1 |-> cache[BlockKey(f)][BlockOffset(f) + i]]
             g   == [f EXCEPT
                       !.buf     = Write(f.buf, f.done, n, hit),
                       !.done    = f.done + n,
                       !.last    = f.done + n,
                       !.readPos = f.offset + f.last,
                       !.to      = f.offset + f.done,
                       !.pc      = IF f.done > f.last THEN "fetch" ELSE "loop"]
  <2>1. f.done < f.count /\ Zone!Get(BlockKey(f)) /\ SetTop(g)
    BY <1>2 DEF Hit
  <2>2. BlockKey(f) \in DOMAIN cache /\ KeysOK' /\ CacheIntegrity'
    <3> HIDE DEF f
    <3> QED BY <1>1, <2>1, GetKeeps
  <2>3. g \in Frame /\ FrameOK(g)
    <3> HIDE DEF f
    <3> QED BY <1>1, <2>1, <2>2, HitOK
  <2> HIDE DEF g
  <2> QED BY <1>1, <2>1, <2>2, <2>3, SetTopOK DEF CacheInv
<1>3. CASE Miss
  <2> DEFINE g == [f EXCEPT !.done = f.done + ThisTime(f)]
  <2>1. f.done < f.count /\ SetTop(g) /\ UNCHANGED zoneVars
    BY <1>3 DEF Miss
  <2>2. g \in Frame /\ FrameOK(g)
    <3> HIDE DEF f
    <3> QED BY <1>1, <2>1, MissOK
  <2> HIDE DEF g
  <2> QED BY <1>1, <2>1, <2>2, SetTopOK, ZoneUnchanged DEF CacheInv
<1>4. CASE FetchTail
  <2> DEFINE g == [f EXCEPT !.readPos = f.offset + f.last, !.to = f.offset + f.done,
                            !.last = f.done, !.pc = "fetch"]
  <2>1. f.done >= f.count /\ f.last < f.count /\ SetTop(g) /\ UNCHANGED zoneVars
    BY <1>4 DEF FetchTail
  <2>2. g \in Frame /\ FrameOK(g)
    <3> HIDE DEF f
    <3> QED BY <1>1, <2>1, FetchTailOK
  <2> HIDE DEF g
  <2> QED BY <1>1, <2>1, <2>2, SetTopOK, ZoneUnchanged DEF CacheInv
<1>5. CASE Finish
  <2> DEFINE g == [f EXCEPT !.pc = "returned"]
  <2>1. f.last >= f.count /\ SetTop(g) /\ UNCHANGED zoneVars
    BY <1>5 DEF Finish
  <2>2. g \in Frame /\ FrameOK(g)
    <3> HIDE DEF f
    <3> QED BY <1>1, <2>1, FinishOK
  <2> HIDE DEF g
  <2> QED BY <1>1, <2>1, <2>2, SetTopOK, ZoneUnchanged DEF CacheInv
<1> QED BY <1>2, <1>3, <1>4, <1>5

\* nonCachedRead().
LEMMA FetchInv ==
  ASSUME EndAligned, CacheInv, Fetch \/ BackingReturns \/ BackingFails \/ Store \/ Copy
  PROVE  CacheInv'
<1> DEFINE f == Top
<1>1. /\ stack # <<>> /\ f.pc \in {"fetch", "backing", "store"}
      /\ StackOK /\ KeysOK /\ CacheIntegrity
      /\ f \in Frame /\ FrameOK(f)
  BY TopFacts DEF CacheInv, Fetch, BackingReturns, BackingFails, Store, Copy, At
<1>2. ASSUME SetTop([f EXCEPT !.pc = "failed"]), UNCHANGED zoneVars
      PROVE  CacheInv'
  <2> DEFINE g == [f EXCEPT !.pc = "failed"]
  <2>1. g \in Frame /\ FrameOK(g)
    <3> HIDE DEF f
    <3> QED BY <1>1, FailOK
  <2>2. SetTop(g)
    BY <1>2
  <2> HIDE DEF g
  <2> QED BY <1>1, <1>2, <2>1, <2>2, SetTopOK, ZoneUnchanged DEF CacheInv
<1>3. CASE Fetch
  <2> DEFINE b == AdvisedBlock(f.tag, f.readPos)
             g == [f EXCEPT !.pc = "backing", !.start = b.start, !.end = b.end, !.nested = 0]
  <2>1. /\ f.pc = "fetch" /\ UNCHANGED zoneVars
        /\ IF \/ b.start > f.readPos \/ b.end <= f.readPos
              \/ b.end - b.start > HalfRange - 1
           THEN SetTop([f EXCEPT !.pc = "failed"]) ELSE SetTop(g)
    BY <1>3 DEF Fetch, At
  <2>2. CASE b.start > f.readPos \/ b.end <= f.readPos \/ b.end - b.start > HalfRange - 1
    BY <1>2, <2>1, <2>2
  <2>3. CASE ~ (b.start > f.readPos \/ b.end <= f.readPos \/ b.end - b.start > HalfRange - 1)
    <3>1. SetTop(g) /\ ~ (b.end <= f.readPos)
      BY <2>1, <2>3
    <3>2. b.end > f.readPos
      <4>1. f.readPos \in Nat /\ f.tag \in Tags
        BY <1>1 DEF Frame
      <4>2. b.end \in Nat
        <5>1. CASE f.readPos < Length[f.tag]
          BY <4>1, <5>1, AdviceAssumption, SizeAssumption DEF AdvisedBlock
        <5>2. CASE ~ (f.readPos < Length[f.tag])
          BY <4>1, <5>2, SizeAssumption DEF AdvisedBlock
        <5> QED BY <5>1, <5>2
      <4> QED BY <3>1, <4>1, <4>2
    <3>3. g \in Frame /\ FrameOK(g)
      <4> HIDE DEF f
      <4> QED BY <1>1, <2>1, <3>2, AdvisedOK
    <3> HIDE DEF g
    <3> QED BY <1>1, <2>1, <3>1, <3>3, SetTopOK, ZoneUnchanged DEF CacheInv
  <2> QED BY <2>2, <2>3
<1>4. CASE BackingReturns
  <2> DEFINE c == RoundUp(f.start)
             g == [f EXCEPT !.pc = "store", !.cachePos = c]
  <2>1. f.pc = "backing" /\ SetTop(g) /\ UNCHANGED zoneVars
    BY <1>4 DEF BackingReturns, At
  <2>2. c \in Nat /\ c % BlockSize = 0
    <3>1. f.start + (BlockSize - 1) \in Nat
      BY <1>1, SizeAssumption, SMTT(30) DEF Frame
    <3> QED BY <3>1, BlockFacts DEF RoundUp
  <2>3. g \in Frame /\ FrameOK(g)
    <3> HIDE DEF f, c
    <3> QED BY <1>1, <2>1, <2>2, CachePosOK
  <2> HIDE DEF g
  <2> QED BY <1>1, <2>1, <2>3, SetTopOK, ZoneUnchanged DEF CacheInv
<1>5. CASE BackingFails
  BY <1>2, <1>5 DEF BackingFails
<1>6. CASE Store
  <2> DEFINE c == f.cachePos + BlockSize
             g == [f EXCEPT !.pc = "store", !.cachePos = c]
  <2>1. /\ f.pc = "store" /\ f.cachePos < f.end /\ SetTop([f EXCEPT !.cachePos = c])
        /\ Zone!Store(<<f.cachePos, f.tag>>, BlockData(f.tag, f.cachePos, f.end))
    BY <1>6 DEF Store, At
  <2>2. c \in Nat /\ c % BlockSize = 0
    <3>1. f.cachePos \in Nat /\ f.cachePos \in Int /\ f.cachePos % BlockSize = 0
      BY <1>1, <2>1 DEF Frame, FrameOK, FetchOK
    <3>2. BlockSize \in Nat \ {0}
      BY SizeAssumption
    <3>3. (f.cachePos + BlockSize) % BlockSize = 0
      BY <3>1, <3>2, NextAligned
    <3> QED BY <3>1, <3>2, <3>3
  <2>3. g \in Frame /\ FrameOK(g)
    <3> HIDE DEF f, c
    <3> QED BY <1>1, <2>1, <2>2, CachePosOK
  <2>4. SetTop(g)
    <3>1. g = [f EXCEPT !.cachePos = c]
      <4> HIDE DEF f, c
      <4> QED BY <1>1, <2>1 DEF Frame
    <3> QED BY <2>1, <3>1
  <2>5. KeysOK' /\ CacheIntegrity'
    <3> HIDE DEF f
    <3> QED BY <1>1, <2>1, StoreKeeps
  <2> HIDE DEF g
  <2> QED BY <1>1, <2>3, <2>4, <2>5, SetTopOK DEF CacheInv
<1>7. CASE Copy
  <2> DEFINE toCopy == Smaller(f.to - f.readPos, f.end - f.readPos)
             got    == [i \in 0 .. toCopy - 1 |-> Byte(f.tag, f.readPos + i)]
             g      == [f EXCEPT
                          !.buf      = Write(f.buf, f.readPos - f.offset, toCopy, got),
                          !.readPos  = f.readPos + toCopy,
                          !.pc       = IF f.readPos + toCopy < f.to THEN "fetch" ELSE "loop",
                          !.start    = 0, !.end = 0, !.cachePos = 0]
  <2>1. f.pc = "store" /\ SetTop(g) /\ UNCHANGED zoneVars
    BY <1>7 DEF Copy, At
  <2>2. g \in Frame /\ FrameOK(g)
    <3> HIDE DEF f
    <3> QED BY <1>1, <2>1, CopyOK
  <2> HIDE DEF g
  <2> QED BY <1>1, <2>1, <2>2, SetTopOK, ZoneUnchanged DEF CacheInv
<1> QED BY <1>3, <1>4, <1>5, <1>6, <1>7

\* The end of a call.
LEMMA EndInv ==
  ASSUME CacheInv, Return \/ Raise
  PROVE  CacheInv'
<1> DEFINE left == Front(stack)
<1>1. stack # <<>> /\ StackOK /\ KeysOK /\ CacheIntegrity /\ UNCHANGED zoneVars
  BY DEF CacheInv, Return, Raise, At
<1>2. left \in Seq(Frame) /\ \A d \in 1 .. Len(left) : FrameOK(left[d])
  BY <1>1, FrontOK
<1>3. \/ stack' = left
      \/ left # <<>> /\ stack' = [left EXCEPT ![Len(left)] = [left[Len(left)] EXCEPT !.pc = "failed"]]
  BY DEF Return, Raise
<1> HIDE DEF left
<1>4. CASE stack' = left
  BY <1>1, <1>2, <1>4, ZoneUnchanged DEF CacheInv, StackOK
<1>5. CASE left # <<>> /\ stack' = [left EXCEPT ![Len(left)] = [left[Len(left)] EXCEPT !.pc = "failed"]]
  <2> DEFINE n == Len(left)
             f == left[n]
             g == [f EXCEPT !.pc = "failed"]
  <2>1. n \in Nat /\ n # 0
    BY <1>2, <1>5, EmptySeq, LenProperties
  <2>2. n \in 1 .. Len(left)
    BY <2>1
  <2>3. f \in Frame /\ FrameOK(f)
    BY <1>2, <2>2, ElementOfSeq
  <2>4. g \in Frame /\ FrameOK(g)
    <3> HIDE DEF f
    <3> QED BY <2>3, FailOK
  <2>5. stack' = [left EXCEPT ![n] = g]
    BY <1>5
  <2> HIDE DEF g, n
  <2>6. /\ stack' \in Seq(Frame) /\ Len(stack') = Len(left)
        /\ \A d \in 1 .. Len(left) : stack'[d] = IF d = n THEN g ELSE left[d]
    BY <1>2, <2>2, <2>4, <2>5, ExceptSeq
  <2>7. StackOK'
    BY <1>2, <2>4, <2>6 DEF StackOK
  <2> QED BY <1>1, <2>7, ZoneUnchanged DEF CacheInv
<1> QED BY <1>3, <1>4, <1>5

\* Every step of the readers and of the zone keeps the invariant.
LEMMA CacheInvNext ==
  ASSUME EndAligned, CacheInv, [Next]_vars
  PROVE  CacheInv'
<1>1. ASSUME NEW t \in Tags, NEW offset \in Offsets, NEW want \in Counts,
             Call(t, offset, want) \/ CallNested(t, offset, want)
      PROVE  CacheInv'
  BY <1>1, CallInv
<1>2. CASE Step
  BY <1>2, LoopInv, FetchInv, EndInv DEF Step
<1>3. ASSUME NEW limit \in Limits, SetMaxBlocks(limit)
      PROVE  CacheInv'
  <2>1. KeysOK' /\ CacheIntegrity' /\ stack' = stack
    BY <1>3, SetMaxBlocksKeeps DEF SetMaxBlocks, CacheInv
  <2> QED BY <2>1 DEF CacheInv, StackOK
<1>4. CASE UNCHANGED vars
  <2>1. UNCHANGED zoneVars /\ stack' = stack
    BY <1>4 DEF vars, zoneVars
  <2> QED BY <2>1, ZoneUnchanged DEF CacheInv, StackOK
<1> QED BY <1>1, <1>2, <1>3, <1>4 DEF Next

\* So it holds at every step of every history.
LEMMA CacheInvAlways ==
  ASSUME EndAligned PROVE Spec => []CacheInv
<1>1. CacheInv /\ [Next]_vars => CacheInv'
  BY CacheInvNext
<1> QED BY <1>1, CacheInvInit, PTL DEF Spec

----------------------------------------------------------------------------
(* The theorems.                                                           *)

\* If every advised block ends where a cache block or the reader ends, no
\* block in the zone is ever wrong or partly uninitialised, however calls
\* nest, fail and evict (CacheIntegrity).
THEOREM CacheAlwaysRight ==
  ASSUME EndAligned PROVE Spec => []CacheIntegrity
<1>1. CacheInv => CacheIntegrity
  BY DEF CacheInv
<1> QED BY <1>1, CacheInvAlways, PTL

\* A call of read() whose offset is not past the end, when it returns, has
\* filled the buffer with the reader's bytes; past the end it has written
\* nothing.  Both are ReturnsContents.
THEOREM AnswersAreRight ==
  ASSUME EndAligned PROVE Spec => []ReturnsContents
<1>1. CacheInv => ReturnsContents
  <2> SUFFICES ASSUME CacheInv, NEW d \in DOMAIN stack, stack[d].pc = "returned"
               PROVE  stack[d].buf = R!Slice(stack[d].tag, stack[d].offset, stack[d].want)
    BY DEF ReturnsContents
  <2>1. stack \in Seq(Frame) /\ d \in 1 .. Len(stack) /\ stack[d] \in Frame
    BY LenProperties, ElementOfSeq DEF CacheInv, StackOK
  <2>2. FrameOK(stack[d])
    BY <2>1 DEF CacheInv, StackOK
  <2> QED BY <2>1, <2>2, ReturnedRight
<1> QED BY <1>1, CacheInvAlways, PTL

\* At every step the buffer of a call holds right bytes only, and all of
\* those it has accounted for (FilledUpToLast).
THEOREM NothingLeftOut ==
  ASSUME EndAligned PROVE Spec => []FilledUpToLast
<1>1. CacheInv => FilledUpToLast
  <2> SUFFICES ASSUME CacheInv, NEW d \in DOMAIN stack, stack[d].pc # "failed"
               PROVE  /\ DOMAIN stack[d].buf = (0 .. stack[d].last - 1) \ Missing(stack[d])
                      /\ \A i \in DOMAIN stack[d].buf :
                           stack[d].buf[i] = Byte(stack[d].tag, stack[d].offset + i)
    BY DEF FilledUpToLast
  <2>1. stack \in Seq(Frame) /\ d \in 1 .. Len(stack)
    BY LenProperties DEF CacheInv, StackOK
  <2>2. BufferOK(stack[d])
    BY <2>1 DEF CacheInv, StackOK, FrameOK
  <2> QED BY <2>2 DEF BufferOK
<1> QED BY <1>1, CacheInvAlways, PTL

\* The locals of a call keep their types, the 32-bit ones their range, and
\* the caller's buffer is never written beyond its size (TypeOK).
THEOREM TypesKept ==
  ASSUME EndAligned PROVE Spec => []TypeOK
<1>1. ASSUME NEW f \in Frame, FrameOK(f)
      PROVE  /\ f.tag \in Tags /\ f.offset \in Nat /\ f.want \in 0 .. HalfRange - 1
             /\ {f.count, f.done, f.last} \subseteq -HalfRange .. HalfRange - 1
             /\ DOMAIN f.buf \subseteq 0 .. f.want - 1
             /\ \A i \in DOMAIN f.buf : f.buf[i] \in {Garbage} \cup (Tags \X Nat)
             /\ f.pc \in PCs
             /\ {f.readPos, f.to, f.start, f.end, f.cachePos, f.nested} \subseteq Nat
  <2>1. {f.count, f.done, f.last} \subseteq -HalfRange .. HalfRange - 1
    BY <1>1, SizeAssumption DEF Frame
  <2>2. {f.readPos, f.to, f.start, f.end, f.cachePos, f.nested} \subseteq Nat
    BY <1>1 DEF Frame
  <2>3. \A i \in DOMAIN f.buf : f.buf[i] \in {Garbage} \cup (Tags \X Nat)
    <3>1. f.buf \in Buffers
      BY <1>1 DEF Frame
    <3>2. PICK D \in SUBSET Nat : f.buf \in [D -> Bytes]
      BY <3>1 DEF Buffers
    <3> QED BY <3>2 DEF Bytes
  <2> QED BY <1>1, <2>1, <2>2, <2>3 DEF Frame, FrameOK, BufferOK
<1>2. CacheInv => TypeOK
  <2> SUFFICES ASSUME CacheInv PROVE TypeOK
    OBVIOUS
  <2>1. \A d \in DOMAIN stack : stack[d] \in Frame /\ FrameOK(stack[d])
    BY LenProperties, ElementOfSeq DEF CacheInv, StackOK
  <2> QED BY <1>1, <2>1 DEF TypeOK, CacheInv, KeysOK
<1> QED BY <1>2, CacheInvAlways, PTL

----------------------------------------------------------------------------
(* The contract of Reader: the stack, seen as the calls of the contract,   *)
(* makes no step that the contract does not allow.                         *)

CallRecords == {CallOf(f) : f \in Frame}

\* Every call but the innermost waits for its backing reader.
OuterWaits == \A d \in 1 .. Len(stack) - 1 : stack[d].pc = "backing"

\* The frames as calls, one for one.
LEMMA CallsFacts ==
  ASSUME StackOK
  PROVE  /\ Calls \in Seq(CallRecords) /\ Len(stack) \in Nat
         /\ Len(Calls) = Len(stack) /\ DOMAIN Calls = 1 .. Len(stack)
         /\ \A d \in 1 .. Len(stack) : Calls[d] = CallOf(stack[d])
<1>1. stack \in Seq(Frame) /\ Len(stack) \in Nat
  BY LenProperties DEF StackOK
<1>2. \A d \in 1 .. Len(stack) : stack[d] \in Frame
  BY <1>1, ElementOfSeq
<1>3. Calls \in [1 .. Len(stack) -> CallRecords]
  BY <1>2 DEF Calls, CallRecords
<1>4. Calls \in Seq(CallRecords)
  BY <1>1, <1>3, SeqDef
<1>5. Len(Calls) \in Nat /\ DOMAIN Calls = 1 .. Len(Calls)
  BY <1>4, LenProperties
<1>6. 1 .. Len(Calls) = 1 .. Len(stack)
  BY <1>3, <1>5
<1>7. Len(Calls) = Len(stack)
  BY <1>1, <1>5, <1>6
<1> QED BY <1>1, <1>4, <1>5, <1>6, <1>7 DEF Calls

\* The innermost call.
LEMMA InnermostFacts ==
  ASSUME StackOK, stack # <<>>
  PROVE  /\ Calls # <<>> /\ R!Innermost = CallOf(Top)
         /\ R!Running <=> Top.pc \notin {"returned", "failed"}
<1>1. Len(stack) \in Nat /\ Len(stack) \in 1 .. Len(stack)
  BY TopFacts
<1>2. Len(Calls) = Len(stack) /\ Calls[Len(Calls)] = CallOf(Top) /\ Calls \in Seq(CallRecords)
  BY <1>1, CallsFacts DEF Top
<1>3. Calls # <<>>
  <2>1. Len(<<>>) = 0
    BY EmptySeq
  <2> QED BY <1>1, <1>2, <2>1
<1>4. R!Innermost = CallOf(Top)
  BY <1>2 DEF R!Innermost
<1>5. CallOf(Top).status = CASE Top.pc = "returned" -> "answered"
                             [] Top.pc = "failed"   -> "failed"
                             [] OTHER               -> "running"
  BY DEF CallOf
<1> QED BY <1>3, <1>4, <1>5 DEF R!Running

\* Replacing the innermost frame replaces the innermost call.
LEMMA CallsSetTop ==
  ASSUME StackOK, stack # <<>>, NEW g \in Frame, SetTop(g)
  PROVE  Calls' = [Calls EXCEPT ![Len(Calls)] = CallOf(g)]
<1>1. /\ stack \in Seq(Frame) /\ Len(stack) \in Nat /\ Len(stack) \in 1 .. Len(stack)
  BY TopFacts DEF StackOK
<1>2. stack' = [stack EXCEPT ![Len(stack)] = g]
  BY DEF SetTop
<1>3. /\ stack' \in Seq(Frame) /\ Len(stack') = Len(stack)
      /\ \A d \in 1 .. Len(stack) : stack'[d] = IF d = Len(stack) THEN g ELSE stack[d]
  BY <1>1, <1>2, ExceptSeq
<1>4. Calls' = [d \in 1 .. Len(stack) |-> CallOf(stack'[d])]
  BY <1>3 DEF Calls
<1>5. /\ Len(Calls) = Len(stack) /\ DOMAIN Calls = 1 .. Len(stack)
      /\ Calls = [d \in 1 .. Len(stack) |-> CallOf(stack[d])]
  BY CallsFacts DEF Calls
<1>6. \A d \in 1 .. Len(stack) :
        CallOf(stack'[d]) = IF d = Len(stack) THEN CallOf(g) ELSE CallOf(stack[d])
  BY <1>3
<1> QED BY <1>4, <1>5, <1>6

\* A step inside a call shows nothing.
LEMMA InsideStep ==
  ASSUME StackOK, stack # <<>>, NEW g \in Frame, SetTop(g), CallOf(g) = CallOf(Top)
  PROVE  Calls' = Calls
<1>1. Calls' = [Calls EXCEPT ![Len(Calls)] = CallOf(Top)]
  BY CallsSetTop
<1>2. Calls[Len(Calls)] = CallOf(Top) /\ Len(Calls) \in DOMAIN Calls
  BY CallsFacts, TopFacts DEF Top
<1>3. Calls \in [DOMAIN Calls -> CallRecords]
  BY CallsFacts, LenProperties
<1> QED BY <1>1, <1>2, <1>3

\* A call that fails delivers nothing.
LEMMA FailStep ==
  ASSUME StackOK, stack # <<>>, Top.pc \notin {"returned", "failed"},
         SetTop([Top EXCEPT !.pc = "failed"])
  PROVE  R!Fail
<1> DEFINE f == Top
           g == [f EXCEPT !.pc = "failed"]
<1>1. f \in Frame /\ FrameOK(f)
  BY TopFacts
<1>2. g \in Frame
  <2> HIDE DEF f
  <2> QED BY <1>1, FailOK
<1>3. SetTop(g)
  OBVIOUS
<1>4. CallOf(g) = [CallOf(f) EXCEPT !.status = "failed"]
  <2> HIDE DEF f
  <2>1. /\ g.tag = f.tag /\ g.offset = f.offset /\ g.want = f.want /\ g.pc = "failed"
        /\ f.pc \notin {"returned", "failed"}
    BY <1>1 DEF Frame, f
  <2> HIDE DEF g
  <2> QED BY <2>1 DEF CallOf
<1> HIDE DEF g
<1>5. Calls' = [Calls EXCEPT ![Len(Calls)] = CallOf(g)]
  BY <1>2, <1>3, CallsSetTop
<1>6. R!Running /\ Calls[Len(Calls)] = CallOf(f)
  BY InnermostFacts DEF R!Innermost
<1>7. Calls' = [Calls EXCEPT ![Len(Calls)] = [CallOf(f) EXCEPT !.status = "failed"]]
  BY <1>4, <1>5
<1>8. Calls' = [Calls EXCEPT ![Len(Calls)].status = "failed"]
  BY <1>6, <1>7
<1> QED BY <1>6, <1>8 DEF R!Fail

\* A call from outside, or of a reader below, starts a call of the contract.
LEMMA RefCall ==
  ASSUME CacheInv, NEW t \in Tags, NEW offset \in Offsets, NEW want \in Counts,
         Call(t, offset, want) \/ CallNested(t, offset, want)
  PROVE  R!Next
<1> DEFINE g == NewFrame(t, offset, want)
           c == R!CallWith(t, offset, want, "running", R!Nothing)
<1>1. StackOK /\ g \in Frame
  <2>1. offset \in Nat /\ want \in 0 .. HalfRange - 1
    BY RequestAssumption
  <2> QED BY <2>1, NewFrameOK DEF CacheInv
<1>2. CallOf(g) = c
  <2>1. Nothing = R!Nothing
    BY DEF Nothing, R!Nothing
  <2> QED BY <2>1 DEF CallOf, NewFrame, R!CallWith
<1> HIDE DEF g, c
<1>3. Len(stack) \in Nat /\ Len(Calls) = Len(stack)
  BY <1>1, CallsFacts
<1>4. (Calls = <<>> \/ R!Running) /\ Calls' = Append(Calls, c)
  <2>1. CASE Call(t, offset, want)
    <3>1. stack = <<>> /\ stack' = <<g>>
      BY <2>1 DEF Call, g
    <3>2. Calls = <<>>
      BY <3>1 DEF Calls
    <3>3. Len(stack') = 1 /\ stack'[1] = g
      BY <3>1
    <3>4. Calls' = [d \in 1 .. 1 |-> c]
      BY <1>2, <3>3 DEF Calls
    <3>5. Append(Calls, c) = <<c>>
      BY <3>2
    <3> QED BY <3>2, <3>4, <3>5
  <2>2. CASE CallNested(t, offset, want)
    <3> DEFINE f == Top
               h == [f EXCEPT !.nested = f.nested + 1]
               s == [stack EXCEPT ![Len(stack)] = h]
    <3>1. stack # <<>> /\ f.pc = "backing" /\ stack' = Append(s, g)
      BY <2>2 DEF CallNested, At, Top, g
    <3>2. /\ stack \in Seq(Frame) /\ Len(stack) \in 1 .. Len(stack) /\ f \in Frame
      BY <1>1, <3>1, TopFacts DEF StackOK
    <3>3. h \in Frame /\ CallOf(h) = CallOf(f)
      <4> HIDE DEF f
      <4>0. f \in Frame
        BY <3>2
      <4>1. f.nested + 1 \in Nat
        BY <4>0 DEF Frame
      <4>2. h \in Frame
        BY <3>2, <4>1 DEF Frame
      <4>3. h.tag = f.tag /\ h.offset = f.offset /\ h.want = f.want /\ h.pc = f.pc /\ h.buf = f.buf
        BY <3>2 DEF Frame
      <4> HIDE DEF h
      <4> QED BY <4>2, <4>3 DEF CallOf
    <3> HIDE DEF h
    <3>4. /\ s \in Seq(Frame) /\ Len(s) = Len(stack)
          /\ \A d \in 1 .. Len(stack) : s[d] = IF d = Len(stack) THEN h ELSE stack[d]
      BY <3>2, <3>3, ExceptSeq
    <3> HIDE DEF s
    <3>5. \A d \in 1 .. Len(stack) : CallOf(s[d]) = CallOf(stack[d])
      BY <3>3, <3>4 DEF Top
    <3>6. /\ Len(stack') = Len(stack) + 1 /\ stack'[Len(stack) + 1] = g
          /\ \A d \in 1 .. Len(stack) : stack'[d] = s[d]
      BY <1>1, <3>1, <3>4, AppendProperties
    <3>7. Calls' = [d \in 1 .. Len(stack) + 1 |-> CallOf(stack'[d])]
      BY <3>6 DEF Calls
    <3>8. \A d \in 1 .. Len(stack) + 1 :
            CallOf(stack'[d]) = IF d = Len(stack) + 1 THEN c ELSE Calls[d]
      <4>1. \A d \in 1 .. Len(stack) : Calls[d] = CallOf(stack[d])
        BY <1>1, CallsFacts
      <4>2. \A d \in 1 .. Len(stack) + 1 : d \in 1 .. Len(stack) \/ d = Len(stack) + 1
        BY <1>3
      <4> QED BY <1>2, <1>3, <3>5, <3>6, <4>1, <4>2
    <3>9. /\ Append(Calls, c) \in Seq(CallRecords)
          /\ Len(Append(Calls, c)) = Len(stack) + 1
          /\ \A d \in 1 .. Len(stack) : Append(Calls, c)[d] = Calls[d]
          /\ Append(Calls, c)[Len(stack) + 1] = c
      <4>1. Calls \in Seq(CallRecords) /\ c \in CallRecords
        BY <1>1, <1>2, CallsFacts DEF CallRecords
      <4> QED BY <1>3, <4>1, AppendProperties
    <3>10. Calls' = Append(Calls, c)
      <4> DEFINE m == Len(stack) + 1
                 a == Append(Calls, c)
      <4>1. a \in [1 .. m -> CallRecords]
        BY <3>9, LenProperties
      <4>2. \A d \in 1 .. m : a[d] = CallOf(stack'[d])
        BY <1>3, <3>8, <3>9
      <4> HIDE DEF a, m
      <4>3. a = [d \in 1 .. m |-> CallOf(stack'[d])]
        BY <4>1, <4>2
      <4> QED BY <3>7, <4>3 DEF a, m
    <3>11. R!Running
      BY <1>1, <3>1, InnermostFacts
    <3> QED BY <3>10, <3>11
  <2> QED BY <2>1, <2>2
<1>5. R!Call(t, offset, want)
  BY <1>4 DEF R!Call, c
<1> QED BY <1>5 DEF R!Next

\* A call that reaches the end of what it was asked for has the answer of
\* the contract.
LEMMA RefFinish ==
  ASSUME CacheInv, Finish
  PROVE  R!Answer
<1> DEFINE f == Top
           g == [f EXCEPT !.pc = "returned"]
<1>1. StackOK /\ stack # <<>> /\ f.pc = "loop" /\ f.last >= f.count /\ SetTop(g)
  BY DEF CacheInv, Finish, At
<1>2. f \in Frame /\ FrameOK(f)
  BY <1>1, TopFacts
<1>3. g \in Frame /\ FrameOK(g)
  <2> HIDE DEF f
  <2> QED BY <1>1, <1>2, FinishOK
<1>4. g.tag = f.tag /\ g.offset = f.offset /\ g.want = f.want /\ g.pc = "returned"
  <2> HIDE DEF f
  <2> QED BY <1>2 DEF Frame
<1> HIDE DEF g
<1>5. g.buf = R!Slice(f.tag, f.offset, f.want)
  BY <1>3, <1>4, ReturnedRight
<1>6. CallOf(g) = R!CallWith(f.tag, f.offset, f.want, "answered",
                             R!Slice(f.tag, f.offset, f.want))
  <2> DEFINE slice == R!Slice(f.tag, f.offset, f.want)
  <2> HIDE DEF f, slice
  <2>1. CallOf(g) = R!CallWith(f.tag, f.offset, f.want, "answered", slice)
    BY <1>4, <1>5 DEF CallOf, R!CallWith, slice
  <2> QED BY <2>1 DEF slice
<1>7. Calls' = [Calls EXCEPT ![Len(Calls)] = CallOf(g)]
  BY <1>1, <1>3, CallsSetTop
<1>8. R!Running /\ R!Innermost = CallOf(f)
  <2>1. f.pc \notin {"returned", "failed"}
    BY <1>1
  <2> QED BY <1>1, <2>1, InnermostFacts
<1>9. CallOf(f).tag = f.tag /\ CallOf(f).offset = f.offset /\ CallOf(f).count = f.want
  BY DEF CallOf
<1> HIDE DEF f
<1> QED BY <1>6, <1>7, <1>8, <1>9 DEF R!Answer

\* The loop of read() and nonCachedRead(): a call goes on, answers or fails.
LEMMA RefLoop ==
  ASSUME CacheInv, Hit \/ Miss \/ FetchTail \/ Finish
  PROVE  R!Answer \/ Calls' = Calls
<1> DEFINE f == Top
<1>1. /\ stack # <<>> /\ f.pc = "loop" /\ StackOK /\ f \in Frame /\ FrameOK(f)
      /\ KeysOK /\ CacheIntegrity
  BY TopFacts DEF CacheInv, Hit, Miss, FetchTail, Finish, At
<1>2. ASSUME NEW g \in Frame, SetTop(g),
             g.tag = f.tag, g.offset = f.offset, g.want = f.want, g.pc \in {"loop", "fetch"}
      PROVE  Calls' = Calls
  <2>1. CallOf(g) = CallOf(f)
    <3> HIDE DEF f
    <3> QED BY <1>1, <1>2 DEF CallOf
  <2> QED BY <1>1, <1>2, <2>1, InsideStep
<1>3. CASE Hit
  <2> DEFINE n   == ThisTime(f)
             hit == [i \in 0 .. n - 1 |-> cache[BlockKey(f)][BlockOffset(f) + i]]
             g   == [f EXCEPT
                       !.buf     = Write(f.buf, f.done, n, hit),
                       !.done    = f.done + n,
                       !.last    = f.done + n,
                       !.readPos = f.offset + f.last,
                       !.to      = f.offset + f.done,
                       !.pc      = IF f.done > f.last THEN "fetch" ELSE "loop"]
  <2>1. f.done < f.count /\ Zone!Get(BlockKey(f)) /\ SetTop(g)
    BY <1>3 DEF Hit
  <2>2. BlockKey(f) \in DOMAIN cache
    BY <2>1 DEF Zone!Get, Zone!Cached
  <2>3. g \in Frame
    <3> HIDE DEF f
    <3> QED BY <1>1, <2>1, <2>2, HitOK
  <2>4. g.tag = f.tag /\ g.offset = f.offset /\ g.want = f.want /\ g.pc \in {"loop", "fetch"}
    <3> HIDE DEF f, n, hit
    <3> QED BY <1>1 DEF Frame
  <2> HIDE DEF g
  <2> QED BY <1>2, <2>1, <2>3, <2>4
<1>4. CASE Miss
  <2> DEFINE g == [f EXCEPT !.done = f.done + ThisTime(f)]
  <2>1. f.done < f.count /\ SetTop(g)
    BY <1>4 DEF Miss
  <2>2. g \in Frame
    <3> HIDE DEF f
    <3> QED BY <1>1, <2>1, MissOK
  <2>3. g.tag = f.tag /\ g.offset = f.offset /\ g.want = f.want /\ g.pc = "loop"
    <3> HIDE DEF f
    <3> QED BY <1>1 DEF Frame
  <2> HIDE DEF g
  <2> QED BY <1>2, <2>1, <2>2, <2>3
<1>5. CASE FetchTail
  <2> DEFINE g == [f EXCEPT !.readPos = f.offset + f.last, !.to = f.offset + f.done,
                            !.last = f.done, !.pc = "fetch"]
  <2>1. f.done >= f.count /\ f.last < f.count /\ SetTop(g)
    BY <1>5 DEF FetchTail
  <2>2. g \in Frame
    <3> HIDE DEF f
    <3> QED BY <1>1, <2>1, FetchTailOK
  <2>3. g.tag = f.tag /\ g.offset = f.offset /\ g.want = f.want /\ g.pc = "fetch"
    <3> HIDE DEF f
    <3> QED BY <1>1 DEF Frame
  <2> HIDE DEF g
  <2> QED BY <1>2, <2>1, <2>2, <2>3
<1>6. CASE Finish
  BY <1>6, RefFinish
<1> QED BY <1>3, <1>4, <1>5, <1>6

\* nonCachedRead(): it goes on, or fails.
LEMMA RefFetch ==
  ASSUME EndAligned, CacheInv, Fetch \/ BackingReturns \/ BackingFails \/ Store \/ Copy
  PROVE  R!Fail \/ Calls' = Calls
<1> DEFINE f == Top
<1>1. /\ stack # <<>> /\ f.pc \in {"fetch", "backing", "store"}
      /\ StackOK /\ f \in Frame /\ FrameOK(f)
  BY TopFacts DEF CacheInv, Fetch, BackingReturns, BackingFails, Store, Copy, At
<1>2. ASSUME SetTop([f EXCEPT !.pc = "failed"]) PROVE R!Fail
  <2>1. f.pc \notin {"returned", "failed"}
    BY <1>1
  <2> QED BY <1>1, <1>2, <2>1, FailStep
<1>3. ASSUME NEW g \in Frame, SetTop(g), g.tag = f.tag, g.offset = f.offset, g.want = f.want,
             g.pc \in {"loop", "fetch", "backing", "store"}
      PROVE  Calls' = Calls
  <2>1. CallOf(g) = CallOf(f)
    <3> HIDE DEF f
    <3> QED BY <1>1, <1>3 DEF CallOf
  <2> QED BY <1>1, <1>3, <2>1, InsideStep
<1>4. CASE Fetch
  <2> DEFINE b == AdvisedBlock(f.tag, f.readPos)
             g == [f EXCEPT !.pc = "backing", !.start = b.start, !.end = b.end, !.nested = 0]
  <2>1. \/ SetTop([f EXCEPT !.pc = "failed"])
        \/ b.end > f.readPos /\ f.pc = "fetch" /\ SetTop(g)
    <3>1. b.end \in Nat /\ f.readPos \in Nat
      <4>1. f.readPos \in Nat /\ f.tag \in Tags
        BY <1>1 DEF Frame
      <4>2. CASE f.readPos < Length[f.tag]
        BY <4>1, <4>2, AdviceAssumption, SizeAssumption DEF AdvisedBlock
      <4>3. CASE ~ (f.readPos < Length[f.tag])
        BY <4>1, <4>3, SizeAssumption DEF AdvisedBlock
      <4> QED BY <4>1, <4>2, <4>3
    <3>2. CASE b.start > f.readPos \/ b.end <= f.readPos \/ b.end - b.start > HalfRange - 1
      BY <1>4, <3>2 DEF Fetch
    <3>3. CASE ~ (b.start > f.readPos \/ b.end <= f.readPos \/ b.end - b.start > HalfRange - 1)
      <4>1. SetTop(g) /\ f.pc = "fetch"
        BY <1>4, <3>3 DEF Fetch, At
      <4> QED BY <3>1, <3>3, <4>1
    <3> QED BY <3>2, <3>3
  <2>2. ASSUME b.end > f.readPos, f.pc = "fetch", SetTop(g) PROVE Calls' = Calls
    <3>1. g \in Frame
      <4> HIDE DEF f
      <4> QED BY <1>1, <2>2, AdvisedOK
    <3>2. g.tag = f.tag /\ g.offset = f.offset /\ g.want = f.want /\ g.pc = "backing"
      <4> HIDE DEF f, b
      <4> QED BY <1>1 DEF Frame
    <3> HIDE DEF g
    <3> QED BY <1>3, <2>2, <3>1, <3>2
  <2> QED BY <1>2, <2>1, <2>2
<1>5. CASE BackingReturns
  <2> DEFINE c == RoundUp(f.start)
             g == [f EXCEPT !.pc = "store", !.cachePos = c]
  <2>1. SetTop(g)
    BY <1>5 DEF BackingReturns
  <2>2. c \in Nat
    <3>1. f.start + (BlockSize - 1) \in Nat
      BY <1>1, SizeAssumption, SMTT(30) DEF Frame
    <3> QED BY <3>1, BlockFacts DEF RoundUp
  <2>3. g \in Frame
    <3> HIDE DEF f, c
    <3> QED BY <1>1, <2>2 DEF Frame, PCs
  <2>4. g.tag = f.tag /\ g.offset = f.offset /\ g.want = f.want /\ g.pc = "store"
    <3> HIDE DEF f, c
    <3> QED BY <1>1 DEF Frame
  <2> HIDE DEF g
  <2> QED BY <1>3, <2>1, <2>3, <2>4
<1>6. CASE BackingFails
  BY <1>2, <1>6 DEF BackingFails
<1>7. CASE Store
  <2> DEFINE c == f.cachePos + BlockSize
             g == [f EXCEPT !.cachePos = c]
  <2>1. f.pc = "store" /\ SetTop(g)
    BY <1>7 DEF Store, At
  <2>2. c \in Nat
    BY <1>1, SizeAssumption, SMTT(30) DEF Frame
  <2>3. g \in Frame
    <3> HIDE DEF f, c
    <3> QED BY <1>1, <2>2 DEF Frame
  <2>4. g.tag = f.tag /\ g.offset = f.offset /\ g.want = f.want /\ g.pc = "store"
    <3> HIDE DEF f, c
    <3> QED BY <1>1, <2>1 DEF Frame
  <2> HIDE DEF g
  <2> QED BY <1>3, <2>1, <2>3, <2>4
<1>8. CASE Copy
  <2> DEFINE toCopy == Smaller(f.to - f.readPos, f.end - f.readPos)
             got    == [i \in 0 .. toCopy - 1 |-> Byte(f.tag, f.readPos + i)]
             g      == [f EXCEPT
                          !.buf      = Write(f.buf, f.readPos - f.offset, toCopy, got),
                          !.readPos  = f.readPos + toCopy,
                          !.pc       = IF f.readPos + toCopy < f.to THEN "fetch" ELSE "loop",
                          !.start    = 0, !.end = 0, !.cachePos = 0]
  <2>1. f.pc = "store" /\ SetTop(g)
    BY <1>8 DEF Copy, At
  <2>2. g \in Frame
    <3> HIDE DEF f
    <3> QED BY <1>1, <2>1, CopyOK
  <2>3. g.tag = f.tag /\ g.offset = f.offset /\ g.want = f.want /\ g.pc \in {"fetch", "loop"}
    <3> HIDE DEF f, toCopy, got
    <3> QED BY <1>1 DEF Frame
  <2> HIDE DEF g
  <2> QED BY <1>3, <2>1, <2>2, <2>3
<1> QED BY <1>4, <1>5, <1>6, <1>7, <1>8

\* The calls left when the innermost one is gone.
LEMMA CallsFront ==
  ASSUME StackOK, stack # <<>>
  PROVE  /\ R!Innermost = CallOf(Top) /\ Calls # <<>>
         /\ Len(Front(stack)) = Len(stack) - 1
         /\ SubSeq(Calls, 1, Len(Calls) - 1)
              = [d \in 1 .. Len(stack) - 1 |-> CallOf(Front(stack)[d])]
<1>1. /\ stack \in Seq(Frame) /\ Len(stack) \in Nat /\ Len(stack) \in 1 .. Len(stack)
      /\ Len(Calls) = Len(stack) /\ \A d \in 1 .. Len(stack) : Calls[d] = CallOf(stack[d])
  BY TopFacts, CallsFacts DEF StackOK
<1> DEFINE n == Len(stack) - 1
           F == Front(stack)
           C == SubSeq(Calls, 1, n)
<1>2. n \in Nat /\ \A i \in 1 .. n : i \in 1 .. Len(stack)
  BY <1>1
<1>3. \A i \in 1 .. n : stack[i] \in Frame /\ Calls[i] \in CallRecords
  <2>1. \A i \in 1 .. Len(stack) : stack[i] \in Frame
    BY <1>1, ElementOfSeq
  <2> QED BY <1>1, <1>2, <2>1 DEF CallRecords
<1>4. F = SubSeq(stack, 1, n)
  BY DEF Front
<1>5. /\ F \in Seq(Frame) /\ Len(F) = IF 1 <= n THEN n - 1 + 1 ELSE 0
      /\ \A i \in 1 .. n - 1 + 1 : F[i] = stack[1 + i - 1]
  <2> HIDE DEF n
  <2> QED BY <1>2, <1>3, <1>4, SubSeqProperties
<1>6. /\ C \in Seq(CallRecords) /\ Len(C) = IF 1 <= n THEN n - 1 + 1 ELSE 0
      /\ \A i \in 1 .. n - 1 + 1 : C[i] = Calls[1 + i - 1]
  <2> HIDE DEF n
  <2> QED BY <1>2, <1>3, SubSeqProperties
<1>7. Len(F) = n /\ Len(C) = n /\ \A i \in 1 .. n : F[i] = stack[i] /\ C[i] = Calls[i]
  <2> HIDE DEF n, F, C
  <2> QED BY <1>2, <1>5, <1>6
<1>8. C \in [1 .. n -> CallRecords]
  BY <1>6, <1>7, LenProperties
<1>9. C = [d \in 1 .. n |-> CallOf(F[d])]
  <2> HIDE DEF n, F, C
  <2> QED BY <1>1, <1>2, <1>7, <1>8
<1> QED BY <1>1, <1>7, <1>9, InnermostFacts

\* A call that ends returns its answer, or raises its error in the call that
\* waits for it.
LEMMA RefEnd ==
  ASSUME CacheInv, OuterWaits, Return \/ Raise
  PROVE  R!Return \/ R!Raise
<1> DEFINE left  == Front(stack)
           n     == Len(stack) - 1
           outer == SubSeq(Calls, 1, Len(Calls) - 1)
<1>1. StackOK /\ stack # <<>>
  BY DEF CacheInv, Return, Raise, At
<1>2. /\ R!Innermost = CallOf(Top) /\ Calls # <<>>
      /\ Len(left) = n /\ n \in Nat /\ Len(Calls) = Len(stack)
      /\ outer = [d \in 1 .. n |-> CallOf(left[d])]
  <2>1. Len(stack) \in Nat /\ n \in Nat /\ Len(Calls) = Len(stack)
    BY <1>1, CallsFacts, TopFacts
  <2>2. R!Innermost = CallOf(Top) /\ Calls # <<>> /\ Len(left) = n
    BY <1>1, CallsFront
  <2>3. outer = [d \in 1 .. n |-> CallOf(left[d])]
    BY <1>1, CallsFront
  <2> QED BY <2>1, <2>2, <2>3
<1>3. CASE Return
  <2>1. stack' = left /\ Top.pc = "returned"
    BY <1>3 DEF Return, At
  <2>2. Calls' = outer
    BY <1>2, <2>1 DEF Calls
  <2>3. R!Innermost.status = "answered"
    BY <1>2, <2>1 DEF CallOf
  <2> QED BY <1>2, <2>2, <2>3 DEF R!Return
<1>4. CASE Raise
  <2>1. /\ Top.pc = "failed"
        /\ stack' = IF left = <<>> THEN left
                    ELSE [left EXCEPT ![n] = [left[n] EXCEPT !.pc = "failed"]]
    BY <1>2, <1>4 DEF Raise, At
  <2>2. R!Innermost.status = "failed"
    BY <1>2, <2>1 DEF CallOf
  <2>3. left \in Seq(Frame)
    BY <1>1, FrontOK
  <2>4. CASE n = 0
    <3>1. left = <<>>
      BY <1>2, <2>3, <2>4, EmptySeq
    <3>2. Calls' = outer
      BY <1>2, <2>1, <3>1 DEF Calls
    <3>3. Len(Calls) - 1 = 0
      BY <1>2, <2>4
    <3> QED BY <1>2, <2>2, <3>2, <3>3 DEF R!Raise
  <2>5. CASE n # 0
    <3> DEFINE f == left[n]
               g == [f EXCEPT !.pc = "failed"]
    <3>1. left # <<>> /\ n \in 1 .. Len(left)
      BY <1>2, <2>5, EmptySeq
    <3>2. f \in Frame /\ f.pc = "backing"
      <4>1. left[n] = stack[n]
        <5>1. left = SubSeq(stack, 1, n)
          BY DEF Front
        <5>2. stack \in Seq(Frame) /\ Len(stack) \in Nat
          BY <1>1, TopFacts DEF StackOK
        <5>3. \A i \in 1 .. n : stack[i] \in Frame
          <6>1. \A i \in 1 .. n : i \in 1 .. Len(stack)
            BY <5>2
          <6> QED BY <5>2, <6>1, ElementOfSeq
        <5>4. \A i \in 1 .. n - 1 + 1 : left[i] = stack[1 + i - 1]
          <6> HIDE DEF n, left
          <6> QED BY <1>2, <5>1, <5>3, SubSeqProperties
        <5> HIDE DEF n, left
        <5> QED BY <1>2, <2>5, <5>4
      <4>2. n \in 1 .. Len(stack) - 1
        BY <1>2, <2>5
      <4>3. stack[n].pc = "backing"
        BY <4>2 DEF OuterWaits
      <4> QED BY <2>3, <3>1, <4>1, <4>3, ElementOfSeq
    <3>3. g \in Frame
      <4> HIDE DEF f
      <4> QED BY <3>2 DEF Frame, PCs
    <3>4. CallOf(g) = [CallOf(f) EXCEPT !.status = "failed"]
      <4> HIDE DEF f
      <4>1. g.tag = f.tag /\ g.offset = f.offset /\ g.want = f.want /\ g.pc = "failed"
        BY <3>2 DEF Frame
      <4> HIDE DEF g
      <4> QED BY <3>2, <4>1 DEF CallOf
    <3> HIDE DEF f, g
    <3>5. stack' = [left EXCEPT ![n] = g]
      BY <2>1, <3>1 DEF f, g
    <3>6. /\ Len(stack') = n
          /\ \A d \in 1 .. n : stack'[d] = IF d = n THEN g ELSE left[d]
      BY <1>2, <2>3, <3>1, <3>3, <3>5, ExceptSeq
    <3>7. Calls' = [d \in 1 .. n |-> CallOf(stack'[d])]
      BY <3>6 DEF Calls
    <3>8. Calls' = [d \in 1 .. n |-> IF d = n THEN CallOf(g) ELSE CallOf(left[d])]
      BY <3>6, <3>7
    <3>9. outer[n] = CallOf(f) /\ Len(Calls) - 1 = n
      BY <1>2, <3>1 DEF f
    <3>10. [outer EXCEPT ![n].status = "failed"] = [outer EXCEPT ![n] = CallOf(g)]
      BY <3>4, <3>9
    <3>11. [outer EXCEPT ![n] = CallOf(g)] = [d \in 1 .. n |-> IF d = n THEN CallOf(g) ELSE CallOf(left[d])]
      BY <1>2
    <3>12. Calls' = [outer EXCEPT ![n].status = "failed"]
      BY <3>8, <3>10, <3>11
    <3> QED BY <1>2, <2>2, <2>5, <3>9, <3>12 DEF R!Raise
  <2> QED BY <2>4, <2>5
<1> QED BY <1>3, <1>4

\* Every step keeps the outer calls waiting.
LEMMA OuterWaitsNext ==
  ASSUME CacheInv, OuterWaits, [Next]_vars
  PROVE  OuterWaits'
<1>1. stack \in Seq(Frame) /\ Len(stack) \in Nat
  BY LenProperties DEF CacheInv, StackOK
<1>2. ASSUME stack # <<>>, NEW g, SetTop(g) PROVE OuterWaits'
  <2>1. stack' = [stack EXCEPT ![Len(stack)] = g] /\ DOMAIN stack = 1 .. Len(stack)
    BY <1>1, <1>2, LenProperties DEF SetTop
  <2>2. Len(stack') = Len(stack) /\ \A d \in 1 .. Len(stack) - 1 : stack'[d] = stack[d]
    <3> DEFINE S == Frame \cup {g}
    <3>1. stack \in Seq(S) /\ g \in S /\ Len(stack) \in 1 .. Len(stack)
      <4>1. Frame \subseteq S /\ g \in S
        OBVIOUS
      <4>2. Len(stack) \in 1 .. Len(stack)
        BY <1>1, <1>2, EmptySeq
      <4> HIDE DEF S
      <4> QED BY <1>1, <4>1, <4>2, SeqMonotonic
    <3>2. /\ Len(stack') = Len(stack)
          /\ \A d \in 1 .. Len(stack) : stack'[d] = IF d = Len(stack) THEN g ELSE stack[d]
      <4> HIDE DEF S
      <4> QED BY <2>1, <3>1, ExceptSeq
    <3> QED BY <1>1, <3>2
  <2> QED BY <2>2 DEF OuterWaits
<1>3. ASSUME NEW t \in Tags, NEW offset \in Offsets, NEW want \in Counts, Call(t, offset, want)
      PROVE  OuterWaits'
  <2>1. Len(stack') = 1
    BY <1>3 DEF Call
  <2> QED BY <2>1 DEF OuterWaits
<1>4. ASSUME NEW t \in Tags, NEW offset \in Offsets, NEW want \in Counts, CallNested(t, offset, want)
      PROVE  OuterWaits'
  <2> DEFINE f == Top
             h == [f EXCEPT !.nested = f.nested + 1]
             s == [stack EXCEPT ![Len(stack)] = h]
             g == NewFrame(t, offset, want)
  <2>1. stack # <<>> /\ f.pc = "backing" /\ stack' = Append(s, g)
    BY <1>4 DEF CallNested, At, Top
  <2>2. Len(stack) \in 1 .. Len(stack) /\ f \in Frame
    BY <2>1, TopFacts DEF CacheInv
  <2>3. g \in Frame
    <3>1. offset \in Nat /\ want \in 0 .. HalfRange - 1
      BY <1>4, RequestAssumption
    <3> QED BY <3>1, NewFrameOK
  <2>4. h \in Frame /\ h.pc = "backing"
    <3> HIDE DEF f
    <3>1. f \in Frame
      BY <2>2
    <3>2. f.nested + 1 \in Nat
      BY <3>1 DEF Frame
    <3> QED BY <2>1, <3>1, <3>2 DEF Frame
  <2> HIDE DEF h, g
  <2>5. /\ s \in Seq(Frame) /\ Len(s) = Len(stack)
        /\ \A d \in 1 .. Len(stack) : s[d] = IF d = Len(stack) THEN h ELSE stack[d]
    BY <1>1, <2>2, <2>4, ExceptSeq
  <2> HIDE DEF s
  <2>6. Len(stack') = Len(stack) + 1 /\ \A d \in 1 .. Len(stack) : stack'[d] = s[d]
    BY <2>1, <2>3, <2>5, AppendProperties
  <2>7. \A d \in 1 .. Len(stack) : s[d].pc = "backing"
    <3>1. \A d \in 1 .. Len(stack) : d = Len(stack) \/ d \in 1 .. Len(stack) - 1
      BY <1>1
    <3> QED BY <2>4, <2>5, <3>1 DEF OuterWaits
  <2>8. \A d \in 1 .. Len(stack') - 1 : d \in 1 .. Len(stack)
    BY <1>1, <2>6
  <2> QED BY <2>6, <2>7, <2>8 DEF OuterWaits
<1>5. CASE Return \/ Raise
  <2> DEFINE left == Front(stack)
             n    == Len(stack) - 1
  <2>1. stack # <<>> /\ StackOK
    BY <1>5 DEF Return, Raise, At, CacheInv
  <2>2. n \in Nat /\ Len(left) = n
    <3>1. Len(stack) \in 1 .. Len(stack)
      BY <2>1, TopFacts
    <3> QED BY <1>1, <2>1, <3>1, CallsFront
  <2>3. \A d \in 1 .. n : left[d] = stack[d]
    <3>1. left = SubSeq(stack, 1, n)
      BY DEF Front
    <3>2. \A i \in 1 .. n : stack[i] \in Frame
      <4>1. \A i \in 1 .. n : i \in 1 .. Len(stack)
        BY <1>1
      <4> QED BY <1>1, <4>1, ElementOfSeq
    <3>3. \A i \in 1 .. n - 1 + 1 : left[i] = stack[1 + i - 1]
      <4> HIDE DEF n, left
      <4> QED BY <2>2, <3>1, <3>2, SubSeqProperties
    <3> HIDE DEF n, left
    <3> QED BY <2>2, <3>3
  <2>4. \A d \in 1 .. n : left[d].pc = "backing"
    BY <2>3 DEF OuterWaits
  <2>5. left \in Seq(Frame)
    BY <2>1, FrontOK
  <2>6. \/ stack' = left
        \/ n # 0 /\ stack' = [left EXCEPT ![n] = [left[n] EXCEPT !.pc = "failed"]]
    <3>1. left # <<>> => n # 0
      BY <2>2, <2>5, EmptySeq
    <3> QED BY <1>5, <2>2, <3>1 DEF Return, Raise
  <2>7. DOMAIN left = 1 .. n
    BY <2>2, <2>5, LenProperties
  <2> HIDE DEF left, n
  <2>8. CASE stack' = left
    BY <2>2, <2>4, <2>8 DEF OuterWaits
  <2>9. CASE n # 0 /\ stack' = [left EXCEPT ![n] = [left[n] EXCEPT !.pc = "failed"]]
    <3>1. n \in 1 .. Len(left)
      BY <2>2, <2>9
    <3>2. Len(stack') = n /\ \A d \in 1 .. n - 1 : stack'[d] = left[d]
      BY <2>2, <2>7, <2>9
    <3> QED BY <2>2, <2>4, <3>2 DEF OuterWaits
  <2> QED BY <2>6, <2>8, <2>9
<1>6. CASE Hit \/ Miss \/ FetchTail \/ Finish
  <2>1. stack # <<>> /\ \E g : SetTop(g)
    BY <1>6 DEF Hit, Miss, FetchTail, Finish, At
  <2> QED BY <1>2, <2>1
<1>7. CASE Fetch \/ BackingReturns \/ BackingFails \/ Store \/ Copy
  <2>1. stack # <<>>
    BY <1>7 DEF Fetch, BackingReturns, BackingFails, Store, Copy, At
  <2>2. CASE Fetch
    <3>1. \E g : SetTop(g)
      BY <2>2 DEF Fetch
    <3> QED BY <1>2, <2>1, <3>1
  <2>3. CASE BackingReturns \/ BackingFails \/ Store \/ Copy
    <3>1. \E g : SetTop(g)
      BY <2>3 DEF BackingReturns, BackingFails, Store, Copy
    <3> QED BY <1>2, <2>1, <3>1
  <2> QED BY <1>7, <2>2, <2>3
<1>8. ASSUME stack' = stack PROVE OuterWaits'
  BY <1>8 DEF OuterWaits
<1> QED BY <1>3, <1>4, <1>5, <1>6, <1>7, <1>8 DEF Next, Step, SetMaxBlocks, vars

\* A CachedReader implements the contract of Reader, but for its fairness:
\* if every advised block ends where a cache block or the reader ends, each
\* step of a call, of the calls nested in it and of the zone is one that the
\* contract allows, and an answer is the one that it prescribes.
THEOREM ImplementsReader ==
  ASSUME EndAligned PROVE Spec => R!SafeSpec
<1>1. Init => R!Init /\ OuterWaits
  <2> SUFFICES ASSUME Init PROVE R!Init /\ OuterWaits
    OBVIOUS
  <2>1. stack = <<>>
    BY DEF Init
  <2> QED BY <2>1 DEF R!Init, Calls, OuterWaits
<1>2. CacheInv /\ OuterWaits /\ [Next]_vars => OuterWaits'
  BY OuterWaitsNext
<1>3. ASSUME CacheInv, OuterWaits, [Next]_vars
      PROVE  [R!Next]_Calls
  <2>1. ASSUME stack' = stack PROVE Calls' = Calls
    BY <2>1 DEF Calls
  <2>2. CASE Step
    BY <1>3, <2>2, RefLoop, RefFetch, RefEnd DEF Step, R!Next, R!Progress
  <2>3. ASSUME NEW t \in Tags, NEW offset \in Offsets, NEW want \in Counts,
               Call(t, offset, want) \/ CallNested(t, offset, want)
        PROVE  R!Next
    BY <1>3, <2>3, RefCall
  <2> QED BY <1>3, <2>1, <2>2, <2>3 DEF Next, SetMaxBlocks, vars
<1> QED BY <1>1, <1>2, <1>3, CacheInvAlways, PTL DEF Spec, R!SafeSpec

----------------------------------------------------------------------------
(* What is in the zone is not read again.                                  *)

\* A piece that the zone has leaves only the pieces after it to be found.
LEMMA HitCached ==
  ASSUME CacheInv, Hit, RestCached(Top)
  PROVE  stack' # <<>> /\ RestCached(Top)'
<1> DEFINE f == Top
           n   == ThisTime(f)
           hit == [i \in 0 .. n - 1 |-> cache[BlockKey(f)][BlockOffset(f) + i]]
           g   == [f EXCEPT
                     !.buf     = Write(f.buf, f.done, n, hit),
                     !.done    = f.done + n,
                     !.last    = f.done + n,
                     !.readPos = f.offset + f.last,
                     !.to      = f.offset + f.done,
                     !.pc      = IF f.done > f.last THEN "fetch" ELSE "loop"]
<1>1. /\ stack # <<>> /\ f.pc = "loop" /\ f.done < f.count
      /\ Zone!Get(BlockKey(f)) /\ SetTop(g) /\ StackOK /\ KeysOK /\ CacheIntegrity
  BY DEF Hit, At, CacheInv
<1>2. f \in Frame /\ FrameOK(f)
  BY <1>1, TopFacts
<1>3. BlockKey(f) \in DOMAIN cache /\ cache' = cache
  BY <1>1 DEF Zone!Get, Zone!Cached
<1>4. g \in Frame
  <2> HIDE DEF f
  <2> QED BY <1>1, <1>2, <1>3, HitOK
<1>5. n \in Nat /\ f.last = f.done /\ f.offset \in Nat /\ f.done \in Nat /\ f.count \in Int
  <2>1. f.last = f.done
    BY DEF RestCached
  <2> HIDE DEF f
  <2> QED BY <1>1, <1>2, <2>1, PieceFacts DEF Frame
<1>6. /\ g.tag = f.tag /\ g.offset = f.offset /\ g.count = f.count
      /\ g.done = f.done + n /\ g.last = f.done + n /\ g.pc = "loop"
  <2> HIDE DEF f, n, hit
  <2> QED BY <1>2, <1>5 DEF Frame
<1> HIDE DEF g
<1>7. RestCached(g)
  <2>1. /\ f.count <= Length[f.tag] - f.offset
        /\ \A p \in f.offset + f.done .. f.offset + f.count - 1 :
             <<BlockStart(p), f.tag>> \in DOMAIN cache
    BY DEF RestCached
  <2> HIDE DEF f, n
  <2>2. \A p \in f.offset + (f.done + n) .. f.offset + f.count - 1 :
          p \in f.offset + f.done .. f.offset + f.count - 1
    BY <1>5
  <2> QED BY <1>6, <2>1, <2>2 DEF RestCached
<1>8. stack' # <<>> /\ Top' = g
  <2>1. stack \in Seq(Frame) /\ Len(stack) \in 1 .. Len(stack) /\ Len(stack) \in Nat
    BY <1>1, TopFacts DEF StackOK
  <2>2. stack' = [stack EXCEPT ![Len(stack)] = g]
    BY <1>1 DEF SetTop
  <2>3. stack' \in Seq(Frame) /\ Len(stack') = Len(stack) /\ stack'[Len(stack)] = g
    BY <1>4, <2>1, <2>2, ExceptSeq
  <2> QED BY <2>1, <2>3, EmptySeq DEF Top
<1> QED BY <1>3, <1>7, <1>8 DEF RestCached

\* A call whose remaining blocks are all in the zone takes them from there
\* and returns: it does not read its backing reader, and so does not fail
\* (NoFetchWhenCached).
THEOREM CachedIsNotRead ==
  ASSUME EndAligned PROVE Spec => NoFetchWhenCached
<1>1. ASSUME CacheInv, [Next]_vars, stack # <<>>, RestCached(Top)
      PROVE  stack' # <<>> /\ (RestCached(Top)' \/ Top'.pc = "returned" \/ UNCHANGED vars)
  <2> DEFINE f == Top
  <2>1. f.pc = "loop" /\ f.last = f.done
    BY <1>1 DEF RestCached
  <2>2. StackOK /\ f \in Frame /\ FrameOK(f)
    BY <1>1, TopFacts DEF CacheInv
  <2>3. f.count \in Int /\ f.done \in Nat /\ f.offset \in Nat
    <3> HIDE DEF f
    <3> QED BY <2>2 DEF Frame
  <2>4. CASE Hit
    BY <1>1, <2>4, HitCached
  <2>5. CASE Miss
    <3>1. BlockKey(f) \notin DOMAIN cache /\ f.done < f.count
      BY <2>5 DEF Miss
    <3>2. f.offset + f.done \in f.offset + f.done .. f.offset + f.count - 1
      <4> HIDE DEF f
      <4> QED BY <2>3, <3>1
    <3> QED BY <1>1, <3>1, <3>2 DEF RestCached, BlockKey
  <2>6. CASE FetchTail
    <3>1. f.done >= f.count /\ f.last < f.count
      BY <2>6 DEF FetchTail
    <3> HIDE DEF f
    <3> QED BY <2>1, <2>3, <3>1
  <2>7. CASE Finish
    <3> DEFINE g == [f EXCEPT !.pc = "returned"]
    <3>1. SetTop(g)
      BY <2>7 DEF Finish
    <3>2. g \in Frame /\ g.pc = "returned"
      <4> HIDE DEF f
      <4> QED BY <2>2 DEF Frame, PCs
    <3> HIDE DEF g
    <3>3. stack \in Seq(Frame) /\ Len(stack) \in 1 .. Len(stack) /\ Len(stack) \in Nat
      BY <1>1, <2>2, TopFacts DEF StackOK
    <3>4. stack' = [stack EXCEPT ![Len(stack)] = g]
      BY <3>1 DEF SetTop
    <3>5. stack' \in Seq(Frame) /\ Len(stack') = Len(stack) /\ stack'[Len(stack)] = g
      BY <3>2, <3>3, <3>4, ExceptSeq
    <3> QED BY <3>2, <3>3, <3>5, EmptySeq DEF Top
  <2>8. CASE UNCHANGED vars
    BY <1>1, <2>8 DEF vars
  <2>9. ~ (Fetch \/ BackingReturns \/ BackingFails \/ Store \/ Copy \/ Return \/ Raise)
    BY <2>1 DEF Fetch, BackingReturns, BackingFails, Store, Copy, Return, Raise, At
  <2>10. \A t \in Tags, offset \in Offsets, want \in Counts :
           ~ (Call(t, offset, want) \/ CallNested(t, offset, want))
    BY <1>1, <2>1 DEF Call, CallNested, At
  <2>11. \A limit \in Limits : ~ SetMaxBlocks(limit)
    BY <1>1 DEF SetMaxBlocks
  <2> QED BY <1>1, <2>4, <2>5, <2>6, <2>7, <2>8, <2>9, <2>10, <2>11 DEF Next, Step
<1>2. CacheInv /\ [Next]_vars =>
        [stack # <<>> /\ RestCached(Top)
          => stack' # <<>> /\ (RestCached(Top)' \/ Top'.pc = "returned")]_vars
  BY <1>1
<1> QED BY <1>2, CacheInvAlways, PTL DEF Spec, NoFetchWhenCached
=============================================================================
