-------------------------- MODULE ADCDecompressor --------------------------
(***************************************************************************)
(* DMGDecompressor_ADC (src/DMGDecompressor.cpp) and adc_decompress()      *)
(* (src/adc.cpp).  A run is a sequence of phrases; a phrase takes in bytes *)
(* of input and gives out bytes of output, either its own or those that    *)
(* start back + 1 bytes before it.  The output goes through a window,      *)
(* decrompressBuffer, of which the older half is dropped when both halves  *)
(* are full.                                                               *)
(*                                                                         *)
(* The byte p of the decompressed run is the number p, so a copy is right  *)
(* if the byte p comes from the byte p - back - 1.                         *)
(***************************************************************************)
EXTENDS Integers, Sequences

CONSTANTS
  Streams,    \* the runs: sequences of records [in, out, back]
  Requests,   \* the calls: records [offset, count]
  W,          \* the largest distance of a copy, 0x10000
  MaxChunk,   \* the largest output of a phrase, 0x80
  ReadSize,   \* the size of m_buf
  Own,        \* the back of a phrase that has its bytes with it
  Garbage     \* a byte that was copied from the wrong place

BufferSize == 2 * W + MaxChunk

ASSUME WindowAssumption ==
  /\ W \in Nat \ {0} /\ MaxChunk \in 1 .. W /\ ReadSize \in Nat \ {0}
  /\ \A r \in Requests : r.offset \in Nat /\ r.count \in Nat \ {0}
  /\ \A s \in Streams : Len(s) \in Nat /\ DOMAIN s = 1 .. Len(s)
  /\ \A s \in Streams : \A i \in DOMAIN s :
       s[i].in \in Nat \ {0} /\ s[i].out \in 1 .. MaxChunk /\ s[i].back \in 0 .. W - 1 \cup {Own}

VARIABLES
  stream, request,  \* the run and the call
  pc,               \* "idle", "read", "phrases", "drain", "returned", "failed"
  offset, left,     \* offset and countLeft
  m_pos,            \* input processed
  avail, inp,       \* what the last read gave, and how far adc_decompress() is
  phrase,           \* the phrase at inp
  window,           \* decrompressBuffer up to outp
  out               \* what the caller got

adcVars == <<stream, request, pc, offset, left, m_pos, avail, inp, phrase, window, out>>

call == <<stream, request>>

Smaller(a, b) == IF a <= b THEN a ELSE b

\* The input of a run, and the output of its first n phrases.
InputLength(s) ==
  LET sum[k \in 0 .. Len(s)] == IF k = 0 THEN 0 ELSE sum[k - 1] + s[k].in
  IN  sum[Len(s)]

OutputUpTo(s, n) ==
  LET sum[k \in 0 .. Len(s)] == IF k = 0 THEN 0 ELSE sum[k - 1] + s[k].out
  IN  sum[n]

----------------------------------------------------------------------------
ADCInit ==
  /\ stream \in Streams /\ request \in Requests
  /\ pc = "idle" /\ offset = request.offset /\ left = request.count
  /\ m_pos = 0 /\ avail = 0 /\ inp = 0 /\ phrase = 1 /\ window = <<>> /\ out = <<>>

Decompress ==
  /\ pc = "idle" /\ pc' = "read"
  /\ UNCHANGED <<call, offset, left, m_pos, avail, inp, phrase, window, out>>

\* The decompressor is gone; the next call is for any run.
Leave ==
  /\ pc \in {"returned", "failed"}
  /\ stream' \in Streams /\ request' \in Requests
  /\ pc' = "idle" /\ offset' = request'.offset /\ left' = request'.count
  /\ m_pos' = 0 /\ avail' = 0 /\ inp' = 0 /\ phrase' = 1 /\ window' = <<>> /\ out' = <<>>

Fail == pc' = "failed" /\ UNCHANGED <<call, offset, left, m_pos, avail, inp, phrase, window, out>>

\* readSome(): a part of what is left of the run; none is an exception.
ReadSome ==
  /\ pc = "read"
  /\ \/ /\ avail' \in 1 .. Smaller(ReadSize, InputLength(stream) - m_pos)
        /\ inp' = 0 /\ pc' = "phrases"
        /\ UNCHANGED <<call, offset, left, m_pos, phrase, window, out>>
     \/ Fail

\* The whole phrase is in the buffer for the input.
InputThere == phrase <= Len(stream) /\ inp + stream[phrase].in <= avail

\* There is room for the output of the phrase.
Fits == Len(window) + stream[phrase].out <= BufferSize

\* The byte i of the output of a phrase comes from back + 1 bytes before it.
Unpacked(i) ==
  LET p  == OutputUpTo(stream, phrase - 1) + i
      at == Len(window) + i - stream[phrase].back - 1
  IN  IF stream[phrase].back = Own THEN p
      ELSE IF at >= Len(window) THEN p
      ELSE IF at >= 0 /\ window[at + 1] = p - stream[phrase].back - 1 THEN p
      ELSE Garbage

\* One phrase of adc_decompress().
Unpack ==
  /\ pc = "phrases" /\ InputThere /\ Fits
  /\ window' = window \o [i \in 1 .. stream[phrase].out |-> Unpacked(i - 1)]
  /\ inp' = inp + stream[phrase].in /\ phrase' = phrase + 1
  /\ UNCHANGED <<call, pc, offset, left, m_pos, avail, out>>

\* adc_decompress() returns: input_short, output_full, or all input used.
Stop ==
  /\ pc = "phrases" /\ ~ (InputThere /\ Fits)
  /\ pc' = "drain"
  /\ UNCHANGED <<call, offset, left, m_pos, avail, inp, phrase, window, out>>

\* Bug: a read that does not hold a phrase is tried again.
NoProgress_Retried == FALSE

NoProgress == inp = 0

\* Bug: the window moves on only when there is no room left in it.
Slides_WhenFull == Len(window) >= BufferSize

Slides == Len(window) >= 2 * W

\* Bug: the bytes in both halves are dropped.
Kept_Overhang == SubSeq(window, 2 * W + 1, Len(window))

Kept == SubSeq(window, W + 1, Len(window))

\* Bug: the window moves on without the offset into it.
OffsetLeft_Kept == IF offset < W THEN 0 ELSE offset

\* The offset into the window once its older half is gone.
OffsetLeft == IF offset < W THEN 0 ELSE offset - W

\* Lines 262-265: all that is asked for is there.
Deliver ==
  /\ pc = "drain" /\ ~ NoProgress /\ Len(window) >= offset + left
  /\ out' = out \o SubSeq(window, offset + 1, offset + left)
  /\ left' = 0 /\ pc' = "returned"
  /\ m_pos' = m_pos + inp
  /\ UNCHANGED <<call, offset, avail, inp, phrase, window>>

\* Lines 266-277.  The offset is cleared before it is used to lower countLeft.
Slide ==
  /\ pc = "drain" /\ ~ NoProgress /\ Len(window) < offset + left /\ Slides
  /\ out' = IF offset < W THEN out \o SubSeq(window, offset + 1, W) ELSE out
  /\ left' = IF offset < W THEN left - W ELSE left
  /\ offset' = OffsetLeft
  /\ window' = Kept
  /\ m_pos' = m_pos + inp /\ pc' = "read"
  /\ UNCHANGED <<call, avail, inp, phrase>>

\* Lines 278-280: more is needed, and there is room for it.
GoOn ==
  /\ pc = "drain" /\ ~ NoProgress /\ Len(window) < offset + left /\ ~ Slides
  /\ m_pos' = m_pos + inp /\ pc' = "read"
  /\ UNCHANGED <<call, offset, left, avail, inp, phrase, window, out>>

\* Lines 259-260.
Stuck == pc = "drain" /\ NoProgress /\ Fail

Step == ReadSome \/ Unpack \/ Stop \/ Deliver \/ Slide \/ GoOn \/ Stuck \/ Leave

ADCNext == Decompress \/ Step

ADCSpec == ADCInit /\ [][ADCNext]_adcVars /\ WF_adcVars(Step)

----------------------------------------------------------------------------
(* Properties.                                                             *)

\* Whenever a phrase is unpacked, the window ends with the last W bytes of
\* the output, or with all of them: no copy reaches before its start,
\* however often it has moved on.
WindowHoldsLookback ==
  LET produced == OutputUpTo(stream, phrase - 1) IN
  pc \in {"read", "phrases", "drain"} =>
    /\ Len(window) >= Smaller(W, produced)
    /\ window = [i \in 1 .. Len(window) |-> produced - Len(window) + i - 1]

\* No phrase is unpacked beyond the end of the buffer, and yet the first of a
\* read always finds room, whatever its size: output that is full is never
\* the reason why a call makes no progress.
RoomForPhrase ==
  /\ Len(window) <= BufferSize
  /\ pc = "phrases" /\ inp = 0 => Len(window) + MaxChunk <= BufferSize

\* decompress() claims to have delivered all, and these are the bytes at the
\* offset it was given.
DeliversClaimed == pc = "returned" => out = [i \in 1 .. request.count |-> request.offset + i - 1]

\* Every call ends, also over input that is cut short.
CallsEnd == pc = "read" ~> pc \in {"returned", "failed"}
=============================================================================
