-------------------------- MODULE DMGDecompressor --------------------------
(***************************************************************************)
(* DMGDecompressor (src/DMGDecompressor.h, src/DMGDecompressor.cpp) for    *)
(* runs compressed with zlib, bzip2 or LZFSE: decompress(output, count,    *)
(* offset) skips offset bytes of the run, in pieces of a waste buffer, and *)
(* decompresses count bytes.  A decompressor serves one such call.         *)
(*                                                                         *)
(* The codec is a library.  A stream of InLen compressed bytes yields its  *)
(* len bytes evenly: after k bytes of input, Yield(k) bytes can be         *)
(* delivered.  The codec stops when it runs out of input or of room, and   *)
(* keeps the input it has not used in m_buf.  The byte p of the            *)
(* decompressed run is the number p.                                       *)
(***************************************************************************)
EXTENDS Integers, FiniteSetsExt

CONSTANTS
  InLen,      \* the length of the compressed run
  ChunkSize,  \* the size of m_buf
  WasteSize,  \* the size of the buffer for skipped bytes
  Garbage     \* what the codec makes of input that is out of order

VARIABLES
  stream, request,   \* the run and the call
  pc,                \* "idle", "outer", "inner", "returned", "failed"
  skip,              \* the bytes still to be skipped (offset)
  goal, left,        \* what the inner decompress() is asked for and lacks
  m_pos,             \* compressed bytes read so far
  next, avail,       \* next_in, as a position in the run, and avail_in
  fed, produced,     \* compressed bytes the codec has used, bytes delivered
  out, result        \* the caller's buffer, and what it is told

vars == <<stream, request, pc, skip, goal, left, m_pos, next, avail, fed, produced, out, result>>

call  == <<stream, request>>
input == <<m_pos, next, avail>>
codec == <<fed, produced>>
inner == <<goal, left>>

Nothing == [i \in {} |-> Garbage]
Smaller(a, b) == IF a <= b THEN a ELSE b

\* The bytes a stream can deliver after k bytes of input, and the input it
\* needs to deliver n.
Yield(k) == (k * stream.len) \div InLen
Needed(n) == Min({k \in 0 .. InLen : Yield(k) >= n})

----------------------------------------------------------------------------
\* No decompressor is there.
NoCall == [stream |-> [kind |-> "none", len |-> 0], request |-> [offset |-> 0, count |-> 0]]

Init ==
  /\ stream = NoCall.stream /\ request = NoCall.request
  /\ pc = "idle" /\ skip = 0 /\ goal = 0 /\ left = 0
  /\ m_pos = 0 /\ next = 0 /\ avail = 0 /\ fed = 0 /\ produced = 0
  /\ out = Nothing /\ result = 0

\* DMGPartition::readRun() creates a decompressor for the run s and calls it.
Decompress(s, offset, count) ==
  /\ pc = "idle"
  /\ stream' = s /\ request' = [offset |-> offset, count |-> count]
  /\ pc' = "outer" /\ skip' = offset
  /\ UNCHANGED <<inner, input, codec, out, result>>

\* readRun() has the result, and the decompressor is gone.
Leave ==
  /\ pc \in {"returned", "failed"}
  /\ stream' = NoCall.stream /\ request' = NoCall.request
  /\ pc' = "idle" /\ skip' = 0 /\ goal' = 0 /\ left' = 0
  /\ m_pos' = 0 /\ next' = 0 /\ avail' = 0 /\ fed' = 0 /\ produced' = 0
  /\ out' = Nothing /\ result' = 0

\* Lines 156-160 and 165: the next piece to skip, or else the bytes asked for.
Begin ==
  /\ pc = "outer"
  /\ goal' = IF skip > 0 THEN Smaller(WasteSize, skip) ELSE request.count
  /\ left' = goal'
  /\ pc' = "inner"
  /\ UNCHANGED <<call, skip, input, codec, out, result>>

\* The inner decompress() returns n.
InnerReturns(n) ==
  IF skip > 0 /\ n > 0
  THEN pc' = "outer" /\ skip' = skip - n /\ UNCHANGED result
  ELSE pc' = "returned" /\ result' = n /\ UNCHANGED skip

Fail == pc' = "failed" /\ UNCHANGED <<call, skip, inner, input, codec, out, result>>

\* Bug: every inner call starts with a read.
WantsInput_EveryCall ==
  IF stream.kind = "LZFSE" THEN m_pos < InLen \/ produced > 0 ELSE avail = 0 \/ left = goal

\* LZFSE wants the whole run in memory, and starts over in every inner call;
\* the others want more when they have used all.
WantsInput ==
  IF stream.kind = "LZFSE" THEN m_pos < InLen \/ produced > 0 ELSE avail = 0

\* readSome() and processed() of n bytes.
TakeIn(n) ==
  /\ m_pos' = m_pos + n
  /\ next'  = IF stream.kind = "LZFSE" THEN next ELSE m_pos
  /\ avail' = avail + n
  /\ UNCHANGED <<call, pc, skip, inner, codec, out, result>>

\* Bug: a read of no bytes at the end of the run is not an error.
ReadSome_IgnoresEnd ==
  /\ pc = "inner" /\ WantsInput
  /\ \/ \E n \in 1 .. Smaller(ChunkSize, InLen - m_pos) : TakeIn(n)
     \/ m_pos = InLen /\ UNCHANGED vars

\* Lines 79-88: up to a chunk from m_pos; the end of the run and an error
\* are exceptions.
ReadSome ==
  /\ pc = "inner" /\ WantsInput
  /\ (\E n \in 1 .. Smaller(ChunkSize, InLen - m_pos) : TakeIn(n)) \/ Fail

\* The codec puts n more bytes where the inner call has room for them.
Deliver(n) ==
  out' = IF skip > 0 THEN out
         ELSE [i \in 0 .. goal - left + n - 1 |->
                 IF i < goal - left THEN out[i]
                 ELSE IF next = fed THEN produced + (i - (goal - left)) ELSE Garbage]

\* Lines 138-139 and 208-209: what the inner call returns when the stream
\* ends and leaves room in the buffer.
StreamEnd(room) == IF stream.kind = "Zlib" THEN goal - room ELSE goal

\* What a call of inflate() or BZ2_bzDecompress() delivers, and uses.
Delivers == Smaller(left, Yield(m_pos) - produced)
Uses     == IF Yield(m_pos) - produced > left
            THEN Max({fed, Needed(produced + left)}) - fed ELSE avail

RunCodec ==
  /\ pc = "inner" /\ stream.kind # "LZFSE" /\ avail > 0
  /\ Deliver(Delivers)
  /\ produced' = produced + Delivers /\ left' = left - Delivers
  /\ fed' = fed + Uses /\ next' = next + Uses /\ avail' = avail - Uses
  /\ UNCHANGED <<call, goal, m_pos>>

\* Bug: the inner call returns what it has when the input runs out.
Inflate_NoLoop ==
  /\ RunCodec
  /\ IF produced' = stream.len /\ fed' = InLen THEN InnerReturns(StreamEnd(left'))
     ELSE IF left' = 0 \/ avail' = 0 THEN InnerReturns(goal - left')
     ELSE UNCHANGED <<pc, skip, result>>

\* Lines 136-143 and 206-213: the inner call goes on until the stream ends
\* or its buffer is full.
Inflate ==
  /\ RunCodec
  /\ IF produced' = stream.len /\ fed' = InLen THEN InnerReturns(StreamEnd(left'))
     ELSE IF left' = 0 THEN InnerReturns(goal)
     ELSE UNCHANGED <<pc, skip, result>>

\* Lines 140-141: the codec finds the input corrupt.
Corrupt ==
  /\ pc = "inner" /\ stream.kind # "LZFSE" /\ avail > 0
  /\ pc' = "returned" /\ result' = -1
  /\ UNCHANGED <<call, skip, inner, input, codec, out>>

\* Lines 323-333: LZFSE decodes from the start of the run, as far as there
\* is room.
Decode ==
  /\ pc = "inner" /\ stream.kind = "LZFSE" /\ ~ WantsInput
  /\ LET n == Smaller(goal, stream.len)
     IN  IF n = 0 THEN Fail
         ELSE /\ Deliver(n) /\ produced' = n
              /\ InnerReturns(n)
              /\ UNCHANGED <<call, inner, input, fed>>

\* A step of the code.
Step == Begin \/ ReadSome \/ Inflate \/ Corrupt \/ Decode

----------------------------------------------------------------------------
(* Properties.                                                             *)

\* The codec sees every byte of the run once and in order, however the reads
\* cut it up and however many inner calls it takes: what it has not used is
\* still in m_buf when it is called again, and m_pos is where m_buf ends.
InputInOrder == stream.kind # "LZFSE" /\ avail > 0 => next = fed /\ next + avail = m_pos

\* When the stream holds what is asked for and nothing is corrupt, a call
\* that returns has delivered all of it: readRun() takes less for an error.
NeverShort ==
  pc = "returned" /\ result >= 0 /\ request.offset + request.count <= stream.len
    => result = request.count
=============================================================================
