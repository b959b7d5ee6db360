--------------------------- MODULE HFSZlibReader ---------------------------
(***************************************************************************)
(* HFSZlibReader (src/HFSZlibReader.h, src/HFSZlibReader.cpp): a file that *)
(* is stored as runs of RunLength bytes, each compressed with zlib or, if  *)
(* that gains nothing, stored as it is after a byte that marks it.  The    *)
(* reader keeps one z_stream and goes on with it when the next read starts *)
(* where the last one ended.  A read that starts further on decompresses   *)
(* what is between, by calls of readRun() from readRun().                  *)
(*                                                                         *)
(* A file is a record [runs, size] and a run a record [kind, comp, len]:   *)
(* its bytes as stored and as read.  The byte p of the file is the number  *)
(* p.  The codec yields its bytes evenly, as in DMGDecompressor.           *)
(***************************************************************************)
EXTENDS Integers, SequencesExt

CONSTANTS
  Files,        \* the files
  Requests(_),  \* the calls of read() for a file: records [offset, count]
  RunLength,    \* RUN_LENGTH
  WasteSize,    \* the size of the buffer for skipped bytes
  InputSize,    \* the size of inputBuffer
  Faulty,       \* the files whose compressed data may be unreadable
  Garbage       \* what the codec makes of input that does not go on with its stream

ASSUME ZlibAssumption ==
  /\ RunLength \in Nat \ {0} /\ WasteSize \in Nat \ {0} /\ InputSize \in Nat \ {0}
  /\ Faulty \subseteq Files
  /\ \A f \in Files :
       /\ \A r \in Requests(f) : r.offset \in Nat /\ r.count \in Nat
       /\ \A i \in DOMAIN f.runs : f.runs[i].len \in 0 .. RunLength

VARIABLES
  file,                   \* m_offsets and m_uncompressedSize
  pc,                     \* read(): "idle", "read", "run", "returned", "failed"
  offset, count, done,    \* its parameters and locals
  frames,                 \* the calls of readRun(), [offset, count, done, soFar]
  m_lastRun, m_lastEnd, m_inputPos, m_lastUncompressed,
  m_strm,                 \* the z_stream: whose input it has, how much, its output
  buf,                    \* the caller's buffer
  faulted                 \* a read of the compressed data has failed

vars == <<file, pc, offset, count, done, frames, m_lastRun, m_lastEnd, m_inputPos,
          m_lastUncompressed, m_strm, buf, faulted>>

call == <<file, offset, count>>

Nothing == [i \in {} |-> Garbage]
NewStream == [run |-> 0, fed |-> 0, out |-> 0]
Broken    == [run |-> 0, fed |-> -1, out |-> 0]
Smaller(a, b) == IF a <= b THEN a ELSE b
Larger(a, b)  == IF a >= b THEN a ELSE b

RunIndex == (offset + done) \div RunLength + 1
Run      == file.runs[RunIndex]
Top      == Last(frames)

Yield(k)  == (k * Run.len) \div Run.comp
Needed(n) == CHOOSE k \in 0 .. Run.comp : Yield(k) >= n /\ \A j \in 0 .. k - 1 : Yield(j) < n

----------------------------------------------------------------------------
Init ==
  /\ file \in Files
  /\ pc = "idle" /\ offset = 0 /\ count = 0 /\ done = 0 /\ frames = <<>>
  /\ m_lastRun = -1 /\ m_lastEnd = 0 /\ m_inputPos = 0 /\ m_lastUncompressed = FALSE
  /\ m_strm = NewStream /\ buf = Nothing /\ faulted = FALSE

\* Lines 158-159: count is cut to the size of the file.
Read(r) ==
  /\ pc = "idle"
  /\ pc' = "read" /\ offset' = r.offset /\ done' = 0
  /\ count' = IF r.offset + r.count > file.size THEN file.size - r.offset ELSE r.count
  /\ UNCHANGED <<file, frames, m_lastRun, m_lastEnd, m_inputPos, m_lastUncompressed, m_strm,
                 buf, faulted>>

Finish ==
  /\ pc = "read" /\ done >= count
  /\ pc' = "returned"
  /\ UNCHANGED <<call, done, frames, m_lastRun, m_lastEnd, m_inputPos, m_lastUncompressed,
                 m_strm, buf, faulted>>

\* Bug: only another run makes the stream start again.
Resets_OtherRun(at) == RunIndex # m_lastRun

\* Line 76: a stream is gone on with only in its own run, and forwards.
Resets(at) == RunIndex # m_lastRun \/ at < m_lastEnd

\* Bug: a new stream begins where the input of the old one ended.
InputStart_Kept(at) == m_inputPos

\* The input starts again with the stream.
InputStart(at) == IF Resets(at) THEN 0 ELSE m_inputPos

\* readRun() is called: the stream is kept or starts again.
Enter(at, n) ==
  /\ frames' = Append(frames, [offset |-> at, count |-> n, done |-> 0, soFar |-> 0])
  /\ m_inputPos' = InputStart(at)
  /\ m_lastEnd'  = IF Resets(at) THEN 0 ELSE m_lastEnd
  /\ m_strm'     = IF Resets(at) THEN NewStream ELSE m_strm
  /\ m_lastUncompressed' = (m_lastUncompressed /\ ~ Resets(at))
  /\ UNCHANGED m_lastRun

ThisTime == Smaller(RunLength, count - done)

\* Lines 161-172; only the first run is read from an offset.
ReadRun ==
  /\ pc = "read" /\ done < count
  /\ pc' = "run"
  /\ Enter(IF done = 0 THEN offset % RunLength ELSE 0, ThisTime)
  /\ UNCHANGED <<call, done, buf, faulted>>

\* Lines 86-95: what lies before the offset is decompressed and wasted.
Skip ==
  /\ pc = "run" /\ m_lastEnd < Top.offset
  /\ Enter(m_lastEnd, Smaller(WasteSize, Top.offset - m_lastEnd))
  /\ UNCHANGED <<call, pc, done, buf, faulted>>

\* The bytes that readRun() puts at its place in the buffer of its caller.
Put(bytes) ==
  buf' = IF Len(frames) > 1 THEN buf
         ELSE [i \in DOMAIN buf \cup done + Top.done .. done + Top.done + Len(bytes) - 1 |->
                 IF i < done + Top.done THEN buf[i] ELSE bytes[i - done - Top.done + 1]]

\* readRun() returns n, to itself or to read(); less than read() asked for is
\* an exception there.
Return(n) ==
  /\ frames' = Front(frames)
  /\ IF Len(frames) > 1 THEN UNCHANGED <<pc, done>>
     ELSE /\ pc' = IF n = ThisTime THEN "read" ELSE "failed"
          /\ done' = IF n = ThisTime THEN done + n ELSE done

\* An exception leaves readRun() and all its callers; the members stay.
Throw ==
  /\ pc' = "failed" /\ frames' = <<>>
  /\ UNCHANGED <<call, done, m_lastRun, m_lastEnd, buf>>

\* The input that one pass of the loop asks for, and the run's part of it.
Chunk    == Smaller(Run.comp - Top.soFar, InputSize)
InputEnd == Larger(m_inputPos, Smaller(m_inputPos + Chunk, Run.comp))

\* Line 116: the stored run was found out before, or now by its first byte.
Stored ==
  \/ m_lastUncompressed
  \/ Top.done = 0 /\ Chunk > 0 /\ m_inputPos = 0 /\ Run.kind = "stored"

InLoop == pc = "run" /\ Top.offset <= m_lastEnd /\ Top.done < Top.count

\* Bug: the byte that marks a stored run is taken for its first.
StoredAt_Mark == m_inputPos

\* Lines 118-119: the byte that marks a stored run is passed over once.
StoredAt == IF m_lastUncompressed THEN m_inputPos ELSE m_inputPos + 1

\* Lines 116-128.  m_lastRun stays what it was.
CopyStored ==
  /\ InLoop /\ Stored
  /\ LET n == Larger(0, Smaller(Top.count, Run.comp - Top.offset - 1))
         first == (RunIndex - 1) * RunLength + StoredAt - 1
     IN  /\ Put([i \in 1 .. n |-> IF Run.kind = "stored" THEN first + i - 1 ELSE Garbage])
         /\ m_inputPos' = StoredAt + n /\ m_lastEnd' = m_lastEnd + n
         /\ m_lastUncompressed' = TRUE
         /\ Return(n)
  /\ UNCHANGED <<call, m_lastRun, m_strm, faulted>>

\* A read of the compressed data fails, or inflate() finds it corrupt and
\* gives only errors from then on.
ReadFails ==
  /\ InLoop /\ file \in Faulty
  /\ faulted' = TRUE /\ Throw
  /\ m_strm' \in {m_strm, Broken}
  /\ m_inputPos' \in {m_inputPos, IF Stored THEN StoredAt ELSE m_inputPos}
  /\ UNCHANGED m_lastUncompressed

\* The input goes on where the stream is.
Continues ==
  /\ Run.kind = "zlib" /\ m_strm.fed = m_inputPos
  /\ m_strm.fed = 0 \/ m_strm.run = RunIndex

\* What inflate() delivers, and how far in the run it uses the input.
Delivers == Smaller(Top.count - Top.done, Yield(InputEnd) - m_strm.out)
UsesUpTo == IF Yield(InputEnd) - m_strm.out > Delivers
            THEN Larger(m_inputPos, Needed(m_strm.out + Delivers)) ELSE InputEnd

\* Bug: the end of the stream is not looked at.
Ended_Never == FALSE

\* Line 143: inflate() has reached the end of the stream.
Ended == m_strm.out + Delivers = Run.len /\ UsesUpTo = Run.comp

\* Line 148.
LastRun == RunIndex

\* Lines 130-150: one pass of the loop, and the return after the last.
Inflate ==
  /\ InLoop /\ ~ Stored /\ Continues
  /\ m_inputPos' = UsesUpTo
  /\ m_strm' = [run |-> RunIndex, fed |-> UsesUpTo, out |-> m_strm.out + Delivers]
  /\ Put([i \in 1 .. Delivers |-> (RunIndex - 1) * RunLength + m_strm.out + i - 1])
  /\ IF Ended \/ Top.done + Delivers = Top.count
     THEN /\ m_lastEnd' = m_lastEnd + Top.done + Delivers /\ m_lastRun' = LastRun
          /\ Return(Top.done + Delivers)
     ELSE /\ frames' = Front(frames) \o
                <<[Top EXCEPT !.done = Top.done + Delivers, !.soFar = Top.soFar + Chunk]>>
          /\ UNCHANGED <<pc, done, m_lastRun, m_lastEnd>>
  /\ UNCHANGED <<call, m_lastUncompressed, faulted>>

\* The stream is fed something else: an error, if it is noticed.
InflateGarbage ==
  /\ InLoop /\ ~ Stored /\ ~ Continues
  /\ \/ /\ Throw /\ m_strm' = Broken
        /\ UNCHANGED <<m_inputPos, m_lastUncompressed, faulted>>
     \/ /\ m_strm # Broken
        /\ m_inputPos' = InputEnd
        /\ m_strm' = [run |-> 0, fed |-> InputEnd, out |-> m_strm.out]
        /\ Put([i \in 1 .. Top.count - Top.done |-> Garbage])
        /\ m_lastEnd' = m_lastEnd + Top.count /\ m_lastRun' = LastRun
        /\ Return(Top.count)
        /\ UNCHANGED <<call, m_lastUncompressed, faulted>>

\* The caller has the answer or the exception.
Leave ==
  /\ pc \in {"returned", "failed"}
  /\ pc' = "idle" /\ offset' = 0 /\ count' = 0 /\ done' = 0 /\ buf' = Nothing
  /\ UNCHANGED <<file, frames, m_lastRun, m_lastEnd, m_inputPos, m_lastUncompressed, m_strm,
                 faulted>>

Step == Finish \/ ReadRun \/ Skip \/ CopyStored \/ Inflate \/ InflateGarbage \/ ReadFails \/ Leave

Next == Step \/ \E r \in Requests(file) : Read(r)

Spec == Init /\ [][Next]_vars /\ WF_vars(Step)

----------------------------------------------------------------------------
(* Properties.                                                             *)

\* Whenever the codec is called, its stream is that of the run that is read,
\* its next input is what the run goes on with, and its next output is the
\* byte that is wanted, whatever was read before: the comment at line 75,
\* "We're in a different run or we're skipping back in the run, so we can't
\* resume anything".
ResumesInPlace ==
  InLoop /\ ~ Stored =>
    /\ Continues
    /\ m_strm.out = Top.offset + Top.done

\* The same, as long as no read of the compressed data has failed.
ResumesUndisturbed == ~ faulted => ResumesInPlace

\* The answer is complete and right, whichever runs it spans and whatever was
\* read, skipped or stored before, as long as no read has failed.
ReturnsContents ==
  pc = "returned" /\ ~ faulted => buf = [i \in 0 .. count - 1 |-> offset + i]

\* Unless a read has failed, a call that starts where a run does, or ends in
\* the run it starts in, succeeds.
Succeeds ==
  pc = "failed" /\ ~ faulted =>
    offset % RunLength # 0 /\ (offset % RunLength) + count > RunLength

\* Every call ends.
CallsEnd == pc = "read" ~> pc \in {"returned", "failed"}
=============================================================================
