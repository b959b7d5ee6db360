-------------------------- MODULE DMGPartitionRuns --------------------------
(***************************************************************************)
(* A DMGPartition and the DMGDecompressors it creates: DMGPartition takes  *)
(* the decompression of a run as one step that delivers or fails; here     *)
(* readRun() creates a decompressor, which runs to its end over its own    *)
(* variables, and looks at what it returned.                               *)
(***************************************************************************)
EXTENDS DMGPartition

CONSTANTS
  StreamsOf(_),  \* the compressed runs there may be for a run of the table
  InLen, ChunkSize, WasteSize   \* as in DMGDecompressor

ASSUME SizesAssumption == {InLen, ChunkSize, WasteSize} \subseteq Nat \ {0}

ASSUME StreamsAssumption ==
  \A t \in Tables : \A i \in DOMAIN t : \A s \in StreamsOf(t[i]) :
    s.kind = t[i].type /\ s.kind \in {"Zlib", "Bzip2", "LZFSE"} /\ s.len \in Nat

VARIABLES
  stream, request, dpc, skip, goal, left, m_pos, next, avail, fed, produced, out, result

decompressor ==
  <<stream, request, dpc, skip, goal, left, m_pos, next, avail, fed, produced, out, result>>

allVars == <<vars, decompressor>>

D == INSTANCE DMGDecompressor WITH pc <- dpc

----------------------------------------------------------------------------
AllInit == Init /\ D!Init

\* The kinds of runs that have a decompressor here; ADC has its own module.
Codecs == {"Zlib", "Bzip2", "LZFSE"}

\* Lines 129-139: a decompressor is created and called, unless the offset is
\* beyond the end of the run.
Create ==
  /\ InA(Codecs) /\ InRun <= RunOf(Position).count * SectorSize
  /\ \E s \in StreamsOf(RunOf(Position)) : D!Decompress(s, InRun, ThisTime)
  /\ UNCHANGED vars

\* Lines 135-136.
BeyondRun ==
  /\ InA(Codecs) /\ InRun > RunOf(Position).count * SectorSize
  /\ Advance(0)
  /\ UNCHANGED decompressor

\* Bug: only an error of the decompressor is looked at, not what is missing.
Enough_NotNegative == result >= 0

\* Line 140.
Enough == result >= ThisTime

\* Lines 139-142: the bytes the decompressor has put into the buffer are the
\* next piece.
TakeResult ==
  /\ dpc = "returned" /\ Enough /\ ThisTime > 0
  /\ done' = done + ThisTime
  /\ buf' = [i \in DOMAIN buf \cup done .. done + ThisTime - 1 |->
               IF i \notin done .. done + ThisTime - 1 THEN buf[i]
               ELSE IF i - done \in DOMAIN out
               THEN Byte(RunStart(Position) * SectorSize + out[i - done]) ELSE Garbage]
  /\ D!Leave
  /\ UNCHANGED <<runs, pc, offset, count>>

\* Lines 140-141, an exception of the decompressor, or (line 87, in read()) a
\* piece of no bytes: the call has failed.
NoResult ==
  /\ dpc = "failed" \/ (dpc = "returned" /\ (~ Enough \/ ThisTime <= 0))
  /\ pc' = "failed"
  /\ D!Leave
  /\ UNCHANGED <<runs, offset, count, done, buf>>

\* What DMGPartition does without a decompressor of this module.
Elsewhere ==
  /\ Finish \/ NoRun \/ FillZeroes \/ ReadRaw \/ NoSuchType \/ Leave \/ (InA({"ADC"}) /\ Decompress)
  /\ UNCHANGED decompressor

AllStep ==
  \/ Elsewhere \/ Create \/ BeyondRun \/ TakeResult \/ NoResult
  \/ D!Step /\ UNCHANGED vars

AllNext ==
  \/ AllStep
  \/ \E o \in Offsets, n \in Counts : Read(o, n) /\ UNCHANGED decompressor

AllSpec == AllInit /\ [][AllNext]_allVars /\ WF_allVars(AllStep)

----------------------------------------------------------------------------
(* Properties.                                                             *)

\* A decompressor sees the bytes of its run once and in order, whatever the
\* offset it is called with makes it skip (DMGDecompressor.cpp:124).
InputInOrder == D!InputInOrder

\* A stream that holds what readRun() asks for and is not corrupt gives all
\* of it: no part of a good run is taken for an error.
NeverShort == D!NeverShort

\* The partition with its decompressors does what DMGPartition does in one
\* step: it takes bytes of the run at hand, those at the offset it wanted, or
\* fails; and every decompressor ends.
ImplementsPartition == Spec
=============================================================================
