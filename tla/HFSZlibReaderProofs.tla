------------------------ MODULE HFSZlibReaderProofs ------------------------
(***************************************************************************)
(* Proofs about HFSZlibReader, for every length of a run, every size of    *)
(* the buffers, every file and every sequence of calls.                    *)
(*                                                                         *)
(* The argument: while readRun() runs, m_strm has given out the first      *)
(* m_lastEnd bytes of the run and those of the call at hand, and its input *)
(* is at m_inputPos (RunInv); the call stands at its offset when the loop  *)
(* is entered, because what lies before was skipped by a call that ends at *)
(* it at most (FramesInv).  Between two calls the stream is still that of  *)
(* m_lastRun, or the next call is sure to start it again (BetweenInv):     *)
(* CopyStored leaves m_lastRun, but also an m_lastEnd after the start of   *)
(* the run, where the next call starts.                                    *)
(*                                                                         *)
(* What the files must be: SoundFiles, every byte of the file is in its    *)
(* run, and a file with stored runs is only read from the start of a run,  *)
(* as CachedReader does.                                                   *)
(***************************************************************************)
EXTENDS HFSZlibReader, SequenceTheorems, ProofLemmas

----------------------------------------------------------------------------
(* What the files and the calls must be.                                   *)

\* The calls for a file all start where a run does, or all its runs are
\* compressed.
Whole(f)      == \A r \in Requests(f) : r.offset % RunLength = 0
Compressed(f) == \A i \in DOMAIN f.runs : f.runs[i].kind = "zlib"

\* Every byte of a file is in its run, and a stored run has one byte more
\* than it is read as.
SoundFiles ==
  \A f \in Files :
    /\ f.size \in Nat
    /\ \A i \in DOMAIN f.runs :
         /\ f.runs[i].comp \in Nat \ {0} /\ f.runs[i].kind \in {"zlib", "stored"}
         /\ f.runs[i].kind = "stored" => f.runs[i].comp = f.runs[i].len + 1
    /\ \A p \in 0 .. f.size - 1 :
         /\ (p \div RunLength) + 1 \in DOMAIN f.runs
         /\ p % RunLength < f.runs[(p \div RunLength) + 1].len
    /\ Compressed(f) \/ Whole(f)

----------------------------------------------------------------------------
(* The codec.                                                              *)

\* What k bytes of the input of a run yield.
YieldOf(run, k) == (k * run.len) \div run.comp

\* A run as stored and as read.
RunTyped(run) == run.comp \in Nat \ {0} /\ run.len \in Nat

\* More input yields more, none nothing, and all of it the run.
LEMMA Yields ==
  ASSUME NEW run, RunTyped(run)
  PROVE  /\ \A k \in Nat : YieldOf(run, k) \in Nat
         /\ YieldOf(run, 0) = 0 /\ YieldOf(run, run.comp) = run.len
         /\ \A j, k \in Nat : j <= k => YieldOf(run, j) <= YieldOf(run, k)
<1> DEFINE c == run.comp
           l == run.len
<1>1. c \in Nat \ {0} /\ l \in Nat
  BY DEF RunTyped
<1>2. \A k : YieldOf(run, k) = (k * l) \div c
  BY DEF YieldOf
<1> HIDE DEF c, l
<1>3. ASSUME NEW k \in Nat PROVE (k * l) \div c \in Nat
  <2>1. k * l \in Nat
    BY <1>1
  <2> DEFINE x == k * l
  <2> HIDE DEF x
  <2>2. x \div c \in Nat
    BY <1>1, <2>1, Within DEF x
  <2> QED BY <2>2 DEF x
<1>4. (0 * l) \div c = 0
  BY <1>1
<1>5. (c * l) \div c = l
  <2>1. c * l = l * c
    BY <1>1
  <2>2. (l * c) \div c = l
    BY <1>1, Quotient
  <2> QED BY <2>1, <2>2
<1>6. ASSUME NEW j \in Nat, NEW k \in Nat, j <= k PROVE (j * l) \div c <= (k * l) \div c
  <2> DEFINE x == j * l
             y == k * l
             q == x \div c
             r == y \div c
  <2>1. x \in Nat /\ y \in Nat
    BY <1>1
  <2>2. x <= y
    <3>1. CASE l = 0
      BY <3>1
    <3>2. CASE l # 0
      BY <1>1, <1>6, <3>2, Scaled
    <3> QED BY <3>1, <3>2
  <2> HIDE DEF x, y
  <2>3. q \in Nat /\ q * c <= x /\ r \in Nat /\ y < (r + 1) * c
    BY <1>1, <2>1, Within
  <2> HIDE DEF q, r
  <2>4. q * c < (r + 1) * c
    <3>1. q * c \in Int /\ (r + 1) * c \in Int
      BY <1>1, <2>3
    <3> QED BY <2>1, <2>2, <2>3, <3>1
  <2>5. q < r + 1
    BY <1>1, <2>3, <2>4, Scaled
  <2>6. q <= r
    BY <2>3, <2>5
  <2> QED BY <2>6 DEF q, r, x, y
<1> QED BY <1>2, <1>3, <1>4, <1>5, <1>6 DEF c, l

\* What Needed returns does yield n bytes.
LEMMA NeededYields ==
  ASSUME RunTyped(Run), NEW n \in Nat, n <= Run.len
  PROVE  Needed(n) \in 0 .. Run.comp /\ YieldOf(Run, Needed(n)) >= n
<1> DEFINE enough == {k \in 0 .. Run.comp : Yield(k) >= n}
<1>1. \A k : Yield(k) = YieldOf(Run, k)
  BY DEF Yield, YieldOf
<1>2. Run.comp \in 0 .. Run.comp /\ Yield(Run.comp) = Run.len
  BY <1>1, Yields DEF RunTyped
<1>3. enough \in SUBSET Nat /\ enough # {}
  BY <1>2 DEF RunTyped
<1>4. Min(enough) \in enough /\ \A m \in enough : Min(enough) <= m
  BY <1>3, MinNat
<1> DEFINE least == Min(enough)
<1>5. /\ least \in 0 .. Run.comp /\ Yield(least) >= n
      /\ \A j \in 0 .. least - 1 : Yield(j) < n
  <2>1. least \in 0 .. Run.comp /\ Yield(least) >= n
    BY <1>4
  <2>2. ASSUME NEW j \in 0 .. least - 1 PROVE Yield(j) < n
    <3>1. j \in 0 .. Run.comp /\ ~ (least <= j)
      BY <2>1 DEF RunTyped
    <3>2. ~ (Yield(j) >= n)
      BY <1>4, <3>1
    <3>3. Yield(j) \in Nat
      BY <1>1, <3>1, Yields DEF RunTyped
    <3> QED BY <3>2, <3>3
  <2> QED BY <2>1, <2>2
<1> HIDE DEF least
<1>6. \E k \in 0 .. Run.comp : Yield(k) >= n /\ \A j \in 0 .. k - 1 : Yield(j) < n
  BY <1>5
<1>7. Needed(n) \in 0 .. Run.comp /\ Yield(Needed(n)) >= n
  <2> HIDE DEF enough
  <2> QED BY <1>6 DEF Needed
<1> QED BY <1>1, <1>7

----------------------------------------------------------------------------
(* The calls of readRun().                                                 *)

\* A call on top of others.
LEMMA Pushed ==
  ASSUME NEW S, NEW s \in Seq(S), NEW e \in S
  PROVE  /\ Append(s, e) \in Seq(S) /\ Len(Append(s, e)) = Len(s) + 1
         /\ Last(Append(s, e)) = e
         /\ Len(s) > 0 => Append(s, e)[1] = s[1]
BY DEF Last

\* The calls without the last.
LEMMA Popped ==
  ASSUME NEW S, NEW s \in Seq(S), Len(s) > 0
  PROVE  /\ Front(s) \in Seq(S) /\ Len(Front(s)) = Len(s) - 1
         /\ Len(s) > 1 => Front(s)[1] = s[1]
         /\ Len(s) = 2 => Last(Front(s)) = s[1]
         /\ Len(s) = 1 => Front(s) = <<>>
<1> DEFINE n == Len(s) - 1
<1>1. n \in Nat /\ n <= Len(s) /\ \A i \in 1 .. n : s[i] \in S
  OBVIOUS
<1>2. /\ SubSeq(s, 1, n) \in Seq(S)
      /\ Len(SubSeq(s, 1, n)) = (IF 1 <= n THEN n - 1 + 1 ELSE 0)
      /\ \A i \in 1 .. n - 1 + 1 : SubSeq(s, 1, n)[i] = s[1 + i - 1]
  BY <1>1, SubSeqProperties
<1>3. Front(s) = SubSeq(s, 1, n)
  BY DEF Front
<1>4. /\ Front(s) \in Seq(S) /\ Len(Front(s)) = n
      /\ n > 0 => Front(s)[1] = s[1]
  <2> HIDE DEF n
  <2>1. n - 1 + 1 = n /\ (1 <= n \/ n = 0)
    BY <1>1
  <2>2. Front(s) \in Seq(S) /\ Len(Front(s)) = n
    BY <1>2, <1>3, <2>1
  <2>3. n > 0 => 1 \in 1 .. n - 1 + 1 /\ 1 + 1 - 1 = 1
    BY <1>1, <2>1
  <2>4. n > 0 => Front(s)[1] = s[1]
    BY <1>2, <1>3, <2>3
  <2> QED BY <2>2, <2>4
<1> HIDE DEF n
<1>5. Len(s) - 1 = n
  BY DEF n
<1>6. Len(s) > 1 => Front(s)[1] = s[1]
  BY <1>4, <1>5
<1>7. Len(s) = 2 => Last(Front(s)) = s[1]
  <2>1. Len(s) = 2 => Len(Front(s)) = 1
    BY <1>4, <1>5
  <2>2. Len(s) = 2 => Front(s)[1] = s[1]
    BY <1>6
  <2>3. Last(Front(s)) = Front(s)[Len(Front(s))]
    BY DEF Last
  <2> QED BY <2>1, <2>2, <2>3, Zenon
<1>8. Len(s) = 1 => Front(s) = <<>>
  <2>1. Len(s) = 1 => Len(Front(s)) = 0
    BY <1>4, <1>5
  <2> QED BY <1>4, <2>1
<1> QED BY <1>4, <1>5, <1>6, <1>7, <1>8

\* The calls with another last one.
LEMMA Replaced ==
  ASSUME NEW S, NEW s \in Seq(S), Len(s) > 0, NEW e \in S
  PROVE  LET t == Front(s) \o <<e>> IN
         /\ t \in Seq(S) /\ Len(t) = Len(s) /\ Last(t) = e
         /\ Len(s) > 1 => t[1] = s[1]
<1>1. /\ Front(s) \in Seq(S) /\ Len(Front(s)) = Len(s) - 1
      /\ Len(s) > 1 => Front(s)[1] = s[1]
  BY Popped
<1>2. Front(s) \o <<e>> = Append(Front(s), e)
  BY <1>1
<1>3. Len(s) - 1 + 1 = Len(s) /\ (Len(s) > 1 => Len(s) - 1 > 0)
  OBVIOUS
<1>4. LET t == Append(Front(s), e) IN
      /\ t \in Seq(S) /\ Len(t) = Len(Front(s)) + 1 /\ Last(t) = e
      /\ Len(Front(s)) > 0 => t[1] = Front(s)[1]
  BY <1>1, Pushed
<1> QED BY <1>1, <1>2, <1>3, <1>4

----------------------------------------------------------------------------
(* The inductive invariant.                                                *)

Frame  == [offset : Nat, count : Nat, done : Nat, soFar : Int]
Bottom == frames[1]

\* The stream goes on with the run of this number after out bytes of it,
\* with the input at pos.
StreamOf(run, number, out, pos, strm) ==
  /\ run.kind = "zlib" /\ pos \in 0 .. run.comp
  /\ strm.fed = pos /\ (strm.fed = 0 \/ strm.run = number)
  /\ strm.out = out /\ out <= YieldOf(run, pos)

\* The n bytes of the file from at on.
Bytes(at, n) == [i \in 0 .. n - 1 |-> at + i]

\* The call of read(): within the file, once cut to its size.
CallInv ==
  /\ file \in Files /\ (Whole(file) => offset % RunLength = 0)
  /\ offset \in Nat /\ count \in Int /\ done \in Nat /\ m_lastEnd \in Nat
  /\ done < count => offset + count <= file.size
  /\ done = 0 \/ done <= count

\* Between two calls of readRun() by read(): the stream is that of the last
\* run, or the next call starts it again.
BetweenInv ==
  /\ frames = <<>>
  /\ \/ m_lastRun = -1
     \/ m_lastEnd > 0 /\ Whole(file)
     \/ /\ m_lastRun \in DOMAIN file.runs /\ m_lastUncompressed = FALSE
        /\ StreamOf(file.runs[m_lastRun], m_lastRun, m_lastEnd, m_inputPos, m_strm)

\* What has been read is right, and the next run is read from its start.
ReadInv ==
  /\ done = 0 \/ done = count \/ (offset + done) % RunLength = 0
  /\ buf = Bytes(offset, done)

\* readRun() is called by read(), or by such a call that has yet to come to
\* its offset.
FramesInv ==
  /\ frames \in Seq(Frame) /\ Len(frames) \in {1, 2}
  /\ Bottom.offset = (offset + done) % RunLength /\ Bottom.count = ThisTime
  /\ Top.done <= Top.count
  /\ m_lastEnd <= Bottom.offset
  /\ Top.done > 0 => m_lastEnd = Top.offset
  /\ Len(frames) = 2 => /\ Bottom.done = 0 /\ Top.offset = m_lastEnd
                        /\ m_lastEnd + Top.count <= Bottom.offset

\* The run is stored and not yet copied.
StoredInv ==
  /\ Run.kind = "stored" /\ Whole(file) /\ m_inputPos = 0
  /\ Len(frames) = 1 /\ Top.offset = 0 /\ Top.done = 0 /\ Top.soFar = 0

\* While readRun() runs, the stream is where m_lastEnd and the call at hand
\* say, and starts again if it is not that of the last run.
RunInv ==
  /\ FramesInv
  /\ done < count
  /\ done = 0 \/ (offset + done) % RunLength = 0
  /\ buf = Bytes(offset, done + Bottom.done)
  /\ RunIndex # m_lastRun => m_lastEnd = 0
  /\ m_lastUncompressed = FALSE
  /\ \/ StreamOf(Run, RunIndex, m_lastEnd + Top.done, m_inputPos, m_strm)
     \/ StoredInv

Good ==
  /\ CallInv
  /\ pc # "run" => BetweenInv
  /\ pc = "idle" => buf = Nothing
  /\ pc = "read" => ReadInv
  /\ pc = "run" => RunInv
  /\ ReturnsContents /\ Succeeds

\* Once a read of the compressed data has failed, nothing is promised.
ZlibInv == faulted \/ Good

----------------------------------------------------------------------------
(* The run at hand.                                                        *)

\* The bytes that are wanted are in the run, as far as they are within
\* RunLength of its start.
LEMMA RunBytes ==
  ASSUME SoundFiles, CallInv, done < count
  PROVE  /\ RunIndex \in DOMAIN file.runs /\ RunIndex \in Nat \ {0} /\ RunTyped(Run)
         /\ Run.len <= RunLength /\ Run.kind \in {"zlib", "stored"}
         /\ Run.kind = "stored" => Run.comp = Run.len + 1
         /\ Compressed(file) => Run.kind = "zlib"
         /\ Compressed(file) \/ Whole(file)
         /\ (offset + done) % RunLength \in 0 .. RunLength - 1
         /\ offset + done = (RunIndex - 1) * RunLength + ((offset + done) % RunLength)
         /\ ThisTime \in 1 .. RunLength /\ ThisTime <= count - done
         /\ \A n \in 1 .. ThisTime : ((offset + done) % RunLength) + n <= RunLength =>
              ((offset + done) % RunLength) + n <= Run.len
<1> DEFINE x == offset + done
           q == x \div RunLength
           r == x % RunLength
<1>1. /\ RunLength \in Nat \ {0} /\ file \in Files /\ offset \in Nat /\ done \in Nat /\ count \in Int
      /\ offset + count <= file.size /\ file.size \in Nat
  BY ZlibAssumption DEF CallInv, SoundFiles
<1>2. x \in 0 .. file.size - 1
  BY <1>1
<1>3. q + 1 \in DOMAIN file.runs
  BY <1>1, <1>2 DEF SoundFiles
<1>4. RunIndex = q + 1 /\ Run = file.runs[q + 1]
  BY DEF RunIndex, Run
<1>5. q \in Nat /\ x = RunLength * q + r /\ r \in 0 .. RunLength - 1
  <2>1. q \in Nat
    <3>1. x \in Nat
      BY <1>1
    <3> HIDE DEF x
    <3> QED BY <1>1, <3>1, Within
  <2> QED BY <1>1, <1>2, <2>1
<1> HIDE DEF q, r
<1>6. /\ RunTyped(Run) /\ Run.len <= RunLength /\ Run.kind \in {"zlib", "stored"}
      /\ Run.kind = "stored" => Run.comp = Run.len + 1
      /\ Compressed(file) => Run.kind = "zlib"
      /\ Compressed(file) \/ Whole(file)
  <2>1. Run.len \in 0 .. RunLength
    BY <1>1, <1>3, <1>4, ZlibAssumption
  <2>2. /\ Run.comp \in Nat \ {0} /\ Run.kind \in {"zlib", "stored"}
        /\ Run.kind = "stored" => Run.comp = Run.len + 1
    BY <1>1, <1>3, <1>4 DEF SoundFiles
  <2>3. Compressed(file) => Run.kind = "zlib"
    BY <1>3, <1>4 DEF Compressed
  <2>4. Compressed(file) \/ Whole(file)
    BY <1>1 DEF SoundFiles
  <2> QED BY <1>1, <2>1, <2>2, <2>3, <2>4 DEF RunTyped
<1>7. ThisTime \in 1 .. RunLength /\ ThisTime <= count - done
  BY <1>1 DEF ThisTime, Smaller
<1>8. ASSUME NEW n \in 1 .. ThisTime, r + n <= RunLength PROVE r + n <= Run.len
  <2> DEFINE p == x + (n - 1)
             d == p \div RunLength
  <2>1. p \in 0 .. file.size - 1
    <3>1. n \in Nat /\ n >= 1 /\ n <= count - done
      BY <1>1, <1>7
    <3> QED BY <1>1, <3>1
  <2>2. d + 1 \in DOMAIN file.runs /\ p % RunLength < file.runs[d + 1].len
    BY <1>1, <2>1 DEF SoundFiles
  <2>3. p = RunLength * q + (r + (n - 1)) /\ r + (n - 1) \in 0 .. RunLength - 1
    <3>1. n \in Nat /\ n >= 1
      BY <1>7
    <3>2. RunLength * q \in Int
      BY <1>1, <1>5
    <3> HIDE DEF x
    <3> QED BY <1>1, <1>5, <1>8, <3>1, <3>2
  <2>4. p % RunLength = r + (n - 1)
    <3> DEFINE k == r + (n - 1)
    <3>1. k \in 0 .. RunLength - 1 /\ p = RunLength * q + k
      BY <2>3
    <3> HIDE DEF k, p
    <3>2. (RunLength * q + k) % RunLength = k
      <4>1. RunLength \in Nat \ {0} /\ q \in Int
        BY <1>1, <1>5
      <4> QED BY <3>1, <4>1, Remainder
    <3> QED BY <3>1, <3>2 DEF k
  <2>5. d \in Nat /\ p = RunLength * d + (p % RunLength)
    <3>1. d \in Nat
      BY <1>1, <2>1, Within
    <3> QED BY <1>1, <2>1, <3>1
  <2> HIDE DEF d, p, x
  <2>6. RunLength * q = RunLength * d
    <3>1. RunLength * q \in Int /\ RunLength * d \in Int /\ n \in Int
      BY <1>1, <1>5, <2>5
    <3> QED BY <1>5, <2>3, <2>4, <2>5, <3>1
  <2>7. q = d
    <3>1. (q * RunLength) \div RunLength = q /\ (d * RunLength) \div RunLength = d
      BY <1>1, <1>5, <2>5, Quotient
    <3>2. q * RunLength = RunLength * q /\ d * RunLength = RunLength * d
      BY <1>1, <1>5, <2>5
    <3> QED BY <2>6, <3>1, <3>2
  <2>8. r + (n - 1) < Run.len
    BY <1>4, <2>2, <2>4, <2>7
  <2>9. r \in Int /\ n \in Int /\ Run.len \in Int
    BY <1>1, <1>5, <1>6 DEF RunTyped
  <2> QED BY <2>8, <2>9
<1>9. x = (RunIndex - 1) * RunLength + r /\ RunIndex \in Nat \ {0}
  <2>1. (q + 1) - 1 = q /\ q * RunLength = RunLength * q
    BY <1>1, <1>5
  <2> QED BY <1>4, <1>5, <2>1
<1> QED BY <1>3, <1>4, <1>5, <1>6, <1>7, <1>8, <1>9 DEF r

----------------------------------------------------------------------------
(* Calls of readRun().                                                     *)

\* A new stream is at the start of any run.
LEMMA NewStreamStarts ==
  ASSUME NEW run, RunTyped(run), run.kind = "zlib", NEW r
  PROVE  StreamOf(run, r, 0, 0, NewStream)
BY Yields DEF StreamOf, NewStream, RunTyped

\* readRun() is called with a stream to start again, or with that of the run:
\* it is at its place, and not after the offset.
LEMMA EnterStream ==
  ASSUME NEW at \in Nat, NEW n, Enter(at, n), m_lastEnd \in Nat, RunTyped(Run),
         \/ Resets(at)
         \/ /\ StreamOf(Run, RunIndex, m_lastEnd, m_inputPos, m_strm)
            /\ m_lastUncompressed = FALSE
  PROVE  /\ m_lastEnd' \in Nat /\ m_lastEnd' <= at /\ m_lastUncompressed' = FALSE
         /\ m_lastRun' = m_lastRun
         /\ RunIndex # m_lastRun => m_lastEnd' = 0
         /\ m_lastEnd' = m_lastEnd \/ m_lastEnd' = 0
         /\ Run.kind = "zlib" => StreamOf(Run, RunIndex, m_lastEnd', m_inputPos', m_strm')
         /\ Run.kind # "zlib" => m_inputPos' = 0 /\ m_lastEnd' = 0
<1>1. CASE Resets(at)
  <2>1. /\ m_lastEnd' = 0 /\ m_inputPos' = 0 /\ m_strm' = NewStream
        /\ m_lastUncompressed' = FALSE /\ m_lastRun' = m_lastRun
    BY <1>1 DEF Enter, InputStart
  <2>2. Run.kind = "zlib" => StreamOf(Run, RunIndex, 0, 0, NewStream)
    BY NewStreamStarts
  <2> QED BY <2>1, <2>2
<1>2. CASE ~ Resets(at)
  <2>1. /\ m_lastEnd' = m_lastEnd /\ m_inputPos' = m_inputPos /\ m_strm' = m_strm
        /\ m_lastUncompressed' = FALSE /\ m_lastRun' = m_lastRun
    BY <1>2 DEF Enter, InputStart
  <2>2. RunIndex = m_lastRun /\ m_lastEnd <= at
    BY <1>2 DEF Resets
  <2>3. StreamOf(Run, RunIndex, m_lastEnd, m_inputPos, m_strm) /\ Run.kind = "zlib"
    BY <1>2 DEF StreamOf
  <2> QED BY <2>1, <2>2, <2>3
<1> QED BY <1>1, <1>2

\* read() calls readRun() for the next run.
LEMMA ReadRunGood ==
  ASSUME SoundFiles, CallInv, BetweenInv, ReadInv, ReadRun
  PROVE  CallInv' /\ RunInv'
<1> DEFINE at == (offset + done) % RunLength
           e  == [offset |-> at, count |-> ThisTime, done |-> 0, soFar |-> 0]
<1>1. done < count /\ pc' = "run" /\ UNCHANGED <<file, offset, count, done, buf>>
  BY DEF ReadRun, call
<1>2. /\ offset \in Nat /\ count \in Int /\ done \in Nat /\ m_lastEnd \in Nat /\ file \in Files
      /\ (Whole(file) => offset % RunLength = 0)
  BY DEF CallInv
<1>3. /\ RunIndex \in DOMAIN file.runs /\ RunIndex \in Nat \ {0} /\ RunTyped(Run)
      /\ Run.kind \in {"zlib", "stored"} /\ (Compressed(file) => Run.kind = "zlib")
      /\ Compressed(file) \/ Whole(file)
      /\ at \in 0 .. RunLength - 1 /\ ThisTime \in 1 .. RunLength
  BY <1>1, RunBytes
<1>4. RunLength \in Nat \ {0}
  BY ZlibAssumption
<1>5. done = 0 \/ at = 0
  BY <1>1, <1>2 DEF ReadInv
<1>6. at = IF done = 0 THEN offset % RunLength ELSE 0
  BY <1>2, <1>5
<1>7. Enter(at, ThisTime)
  BY <1>6, Zenon DEF ReadRun
<1>8. Whole(file) => at = 0
  BY <1>2, <1>6
<1>9. \/ Resets(at)
      \/ /\ StreamOf(Run, RunIndex, m_lastEnd, m_inputPos, m_strm)
         /\ m_lastUncompressed = FALSE
  <2> SUFFICES ASSUME ~ Resets(at)
               PROVE  /\ StreamOf(Run, RunIndex, m_lastEnd, m_inputPos, m_strm)
                      /\ m_lastUncompressed = FALSE
    OBVIOUS
  <2>1. RunIndex = m_lastRun /\ m_lastEnd <= at
    BY <1>2, <1>3 DEF Resets
  <2>2. m_lastRun # -1
    BY <1>3, <2>1
  <2>3. ~ (m_lastEnd > 0 /\ Whole(file))
    BY <1>2, <1>3, <1>8, <2>1
  <2>4. Run = file.runs[m_lastRun]
    BY <2>1 DEF Run
  <2> QED BY <2>1, <2>2, <2>3, <2>4 DEF BetweenInv
<1>10. /\ m_lastEnd' \in Nat /\ m_lastEnd' <= at /\ m_lastUncompressed' = FALSE
       /\ m_lastRun' = m_lastRun /\ (RunIndex # m_lastRun => m_lastEnd' = 0)
       /\ Run.kind = "zlib" => StreamOf(Run, RunIndex, m_lastEnd', m_inputPos', m_strm')
       /\ Run.kind # "zlib" => m_inputPos' = 0 /\ m_lastEnd' = 0
  <2>1. at \in Nat
    BY <1>3, <1>4
  <2> HIDE DEF at
  <2> QED BY <1>2, <1>3, <1>7, <1>9, <2>1, EnterStream
<1>11. frames' = <<e>>
  <2>1. frames = <<>>
    BY DEF BetweenInv
  <2>2. frames' = Append(frames, e)
    BY <1>7 DEF Enter
  <2> QED BY <2>1, <2>2
<1>12. /\ frames' \in Seq(Frame) /\ Len(frames') = 1 /\ frames'[1] = e /\ Top' = e
  <2>1. e \in Frame
    BY <1>3, <1>4 DEF Frame
  <2> HIDE DEF e
  <2> QED BY <1>11, <2>1 DEF Top, Last
<1>13. Bottom' = e /\ e.offset = at /\ e.count = ThisTime /\ e.done = 0 /\ e.soFar = 0
  BY <1>12 DEF Bottom
<1>14. RunIndex' = RunIndex /\ Run' = Run /\ ThisTime' = ThisTime
  BY <1>1 DEF RunIndex, Run, ThisTime, Smaller
<1>15. CallInv'
  BY <1>1, <1>2, <1>10 DEF CallInv
<1>16. FramesInv'
  <2>1. 0 <= ThisTime
    BY <1>3, <1>4
  <2> HIDE DEF e
  <2> QED BY <1>1, <1>10, <1>12, <1>13, <1>14, <2>1 DEF FramesInv
<1>17. buf' = Bytes(offset', done' + Bottom'.done)
  <2>1. done + 0 = done /\ buf = Bytes(offset, done)
    BY <1>2 DEF ReadInv
  <2> HIDE DEF e
  <2> QED BY <1>1, <1>13, <2>1
<1>18. \/ StreamOf(Run', RunIndex', m_lastEnd' + Top'.done, m_inputPos', m_strm')
       \/ StoredInv'
  <2> HIDE DEF e
  <2>1. CASE Run.kind = "zlib"
    <3>1. m_lastEnd' + 0 = m_lastEnd'
      <4>1. \A i \in Nat : i + 0 = i
        OBVIOUS
      <4> QED BY <1>10, <4>1, Zenon
    <3>2. m_lastEnd' + Top'.done = m_lastEnd'
      BY <1>12, <1>13, <3>1
    <3> QED BY <1>10, <1>14, <2>1, <3>2
  <2>2. CASE Run.kind = "stored"
    <3>1. Whole(file)
      BY <1>3, <2>2
    <3>2. m_inputPos' = 0 /\ at = 0
      BY <1>8, <1>10, <2>2, <3>1
    <3> QED BY <1>1, <1>12, <1>13, <1>14, <2>2, <3>1, <3>2 DEF StoredInv, Whole
  <2> QED BY <1>3, <2>1, <2>2
<1>19. done' = 0 \/ (offset' + done') % RunLength = 0
  BY <1>1, <1>5
<1> QED BY <1>1, <1>10, <1>14, <1>15, <1>16, <1>17, <1>18, <1>19 DEF RunInv

\* What lies before the offset is decompressed by a call of its own.
LEMMA SkipGood ==
  ASSUME SoundFiles, CallInv, RunInv, Skip
  PROVE  CallInv' /\ RunInv'
<1> DEFINE n == Smaller(WasteSize, Top.offset - m_lastEnd)
           e == [offset |-> m_lastEnd, count |-> n, done |-> 0, soFar |-> 0]
<1>1. m_lastEnd < Top.offset /\ UNCHANGED <<file, offset, count, done, buf>> /\ Enter(m_lastEnd, n)
  BY DEF Skip, call
<1>2. /\ offset \in Nat /\ count \in Int /\ done \in Nat /\ m_lastEnd \in Nat /\ done < count
  BY DEF CallInv, RunInv
<1>3. /\ frames \in Seq(Frame) /\ Len(frames) \in {1, 2} /\ frames[1] \in Frame /\ Top \in Frame
      /\ Bottom = frames[1] /\ (Len(frames) = 1 => Top = Bottom)
  <2>1. frames \in Seq(Frame) /\ Len(frames) \in {1, 2}
    BY DEF RunInv, FramesInv
  <2>2. Top = frames[Len(frames)]
    BY DEF Top, Last
  <2> QED BY <2>1, <2>2 DEF Bottom
<1>4. Len(frames) = 1 /\ Top.done = 0
  <2>1. m_lastEnd # Top.offset
    BY <1>1, <1>2
  <2>2. Len(frames) # 2 /\ ~ (Top.done > 0)
    BY <2>1 DEF RunInv, FramesInv
  <2>3. Top.done \in Nat
    BY <1>3 DEF Frame
  <2> QED BY <1>3, <2>2, <2>3
<1>5. ~ StoredInv
  BY <1>1, <1>2 DEF StoredInv
<1>6. /\ StreamOf(Run, RunIndex, m_lastEnd, m_inputPos, m_strm) /\ Run.kind = "zlib"
      /\ m_lastUncompressed = FALSE
  <2>1. m_lastEnd + 0 = m_lastEnd
    BY <1>2
  <2> QED BY <1>4, <1>5, <2>1 DEF RunInv, StreamOf
<1>7. RunTyped(Run)
  BY <1>2, RunBytes
<1>8. /\ m_lastEnd' \in Nat /\ m_lastUncompressed' = FALSE
      /\ m_lastRun' = m_lastRun /\ m_lastEnd' = m_lastEnd
      /\ StreamOf(Run, RunIndex, m_lastEnd', m_inputPos', m_strm')
  <2>1. /\ m_lastEnd' \in Nat /\ m_lastUncompressed' = FALSE
        /\ m_lastRun' = m_lastRun /\ (m_lastEnd' = m_lastEnd \/ m_lastEnd' = 0)
        /\ (RunIndex # m_lastRun => m_lastEnd' = 0)
        /\ StreamOf(Run, RunIndex, m_lastEnd', m_inputPos', m_strm')
    <3> HIDE DEF n
    <3> QED BY <1>1, <1>2, <1>6, <1>7, EnterStream
  <2>2. RunIndex # m_lastRun => m_lastEnd = 0
    BY DEF RunInv
  <2>3. m_lastEnd' = m_lastEnd
    <3>1. CASE RunIndex # m_lastRun
      BY <2>1, <2>2, <3>1
    <3>2. CASE RunIndex = m_lastRun
      <4>1. ~ Resets(m_lastEnd)
        BY <1>2, <3>2 DEF Resets
      <4> QED BY <1>1, <4>1 DEF Enter
    <3> QED BY <3>1, <3>2
  <2> QED BY <2>1, <2>3
<1>9. n \in Nat /\ m_lastEnd + n <= Top.offset
  <2>1. WasteSize \in Nat /\ Top.offset \in Nat
    BY <1>3, ZlibAssumption DEF Frame
  <2> QED BY <1>1, <1>2, <2>1 DEF Smaller
<1>10. frames' = Append(frames, e)
  BY <1>1 DEF Enter
<1>11. /\ frames' \in Seq(Frame) /\ Len(frames') = 2 /\ Last(frames') = e /\ frames'[1] = frames[1]
  <2>1. e \in Frame
    BY <1>2, <1>9 DEF Frame
  <2> HIDE DEF e
  <2>2. Append(frames, e) \in Seq(Frame) /\ Len(Append(frames, e)) = 2
        /\ Last(Append(frames, e)) = e /\ Append(frames, e)[1] = frames[1]
    <3>1. Append(frames, e) \in Seq(Frame) /\ Len(Append(frames, e)) = Len(frames) + 1
          /\ Last(Append(frames, e)) = e /\ (Len(frames) > 0 => Append(frames, e)[1] = frames[1])
      BY <1>3, <2>1, Pushed
    <3> QED BY <1>4, <3>1
  <2> QED BY <1>10, <2>2
<1>12. /\ Top' = e /\ Bottom' = Bottom /\ Bottom = Top
       /\ e.offset = m_lastEnd /\ e.count = n /\ e.done = 0 /\ e.soFar = 0
  BY <1>3, <1>4, <1>11 DEF Bottom, Top
<1>13. RunIndex' = RunIndex /\ Run' = Run /\ ThisTime' = ThisTime
  BY <1>1 DEF RunIndex, Run, ThisTime, Smaller
<1>14. CallInv'
  BY <1>1, <1>8 DEF CallInv
<1> HIDE DEF e
<1>15. FramesInv'
  <2>1. 0 <= n /\ m_lastEnd <= Bottom.offset
    BY <1>9 DEF RunInv, FramesInv
  <2>2. Bottom.offset = (offset + done) % RunLength /\ Bottom.count = ThisTime
    BY DEF RunInv, FramesInv
  <2> HIDE DEF n
  <2> QED BY <1>1, <1>4, <1>8, <1>9, <1>11, <1>12, <1>13, <2>1, <2>2 DEF FramesInv
<1>16. buf' = Bytes(offset', done' + Bottom'.done)
  BY <1>1, <1>12 DEF RunInv
<1>17. StreamOf(Run', RunIndex', m_lastEnd' + Top'.done, m_inputPos', m_strm')
  <2>1. m_lastEnd' + 0 = m_lastEnd'
    <3>1. \A i \in Nat : i + 0 = i
      OBVIOUS
    <3> QED BY <1>8, <3>1, Zenon
  <2>2. m_lastEnd' + Top'.done = m_lastEnd'
    BY <1>12, <2>1
  <2> QED BY <1>8, <1>13, <2>2
<1>18. /\ done' < count' /\ (done' = 0 \/ (offset' + done') % RunLength = 0)
       /\ (RunIndex' # m_lastRun' => m_lastEnd' = 0)
  BY <1>1, <1>8, <1>13 DEF RunInv
<1> QED BY <1>8, <1>14, <1>15, <1>16, <1>17, <1>18 DEF RunInv

----------------------------------------------------------------------------
(* The loop of readRun().                                                  *)

\* The call at hand, and the one that read() made.
LEMMA FramesTyped ==
  ASSUME FramesInv
  PROVE  /\ frames \in Seq(Frame) /\ Len(frames) \in {1, 2}
         /\ Top \in Frame /\ Bottom \in Frame /\ Bottom = frames[1]
         /\ Len(frames) = 1 => Top = Bottom
<1>1. frames \in Seq(Frame) /\ Len(frames) \in {1, 2}
  BY DEF FramesInv
<1>2. Top = frames[Len(frames)]
  BY DEF Top, Last
<1> QED BY <1>1, <1>2 DEF Bottom

\* In the loop the call is at its offset; what it returns is within what
\* read() asked for.
LEMMA LoopTyped ==
  ASSUME SoundFiles, CallInv, RunInv, InLoop
  PROVE  /\ m_lastEnd = Top.offset /\ Top.done < Top.count
         /\ Top.offset \in Nat /\ Top.done \in Nat /\ Top.count \in Nat /\ Top.soFar \in Int
         /\ RunTyped(Run) /\ done < count
         /\ offset \in Nat /\ done \in Nat /\ count \in Int
<1>1. /\ Top \in Frame /\ Bottom \in Frame /\ (Len(frames) = 1 => Top = Bottom)
      /\ Len(frames) \in {1, 2}
  BY FramesTyped DEF RunInv
<1>2. /\ Top.offset \in Nat /\ Top.done \in Nat /\ Top.count \in Nat /\ Top.soFar \in Int
  BY <1>1 DEF Frame
<1>3. Top.offset <= m_lastEnd /\ Top.done < Top.count
  BY DEF InLoop
<1>4. m_lastEnd \in Nat /\ offset \in Nat /\ done \in Nat /\ count \in Int
  BY DEF CallInv
<1>5. m_lastEnd = Top.offset
  <2>1. CASE Len(frames) = 1
    <3>1. m_lastEnd <= Top.offset
      BY <1>1, <2>1 DEF RunInv, FramesInv
    <3> QED BY <1>2, <1>3, <1>4, <3>1
  <2>2. CASE Len(frames) = 2
    BY <2>2 DEF RunInv, FramesInv
  <2> QED BY <1>1, <2>1, <2>2
<1>6. done < count
  BY DEF RunInv
<1>7. RunTyped(Run)
  BY <1>6, RunBytes
<1> QED BY <1>2, <1>3, <1>4, <1>5, <1>6, <1>7

\* A run that is stored is copied, and only such a run is.
LEMMA StoredKnown ==
  ASSUME SoundFiles, CallInv, RunInv, InLoop
  PROVE  /\ StoredInv => Stored
         /\ Stored => StoredInv
         /\ ~ Stored => StreamOf(Run, RunIndex, m_lastEnd + Top.done, m_inputPos, m_strm)
<1>1. m_lastUncompressed = FALSE
  BY DEF RunInv
<1>2. ASSUME StoredInv PROVE Stored
  <2>1. /\ Run.comp \in Nat \ {0} /\ InputSize \in Nat \ {0} /\ Top.soFar = 0
    BY <1>2, LoopTyped, ZlibAssumption DEF RunTyped, StoredInv
  <2>2. Chunk > 0
    BY <2>1 DEF Chunk, Smaller
  <2> QED BY <1>2, <2>2 DEF StoredInv, Stored
<1>3. ASSUME Stored PROVE StoredInv
  <2>1. Run.kind = "stored"
    BY <1>1, <1>3 DEF Stored
  <2> QED BY <2>1 DEF RunInv, StreamOf
<1> QED BY <1>2, <1>3 DEF RunInv

\* One pass of the loop: what inflate() delivers is what is wanted at most,
\* and what its input can yield; the input goes on from there.
LEMMA InflateNumbers ==
  ASSUME SoundFiles, CallInv, RunInv, InLoop, ~ Stored
  PROVE  /\ Delivers \in Nat /\ Top.done + Delivers <= Top.count
         /\ UsesUpTo \in 0 .. Run.comp
         /\ m_strm.out = Top.offset + Top.done
         /\ m_strm.out + Delivers <= YieldOf(Run, UsesUpTo)
         /\ m_strm.out + Delivers <= Run.len
<1> DEFINE out  == m_strm.out
           end  == InputEnd
           most == YieldOf(Run, InputEnd)
           rest == Top.count - Top.done
           d    == Delivers
<1>1. /\ m_lastEnd = Top.offset /\ Top.done < Top.count
      /\ Top.offset \in Nat /\ Top.done \in Nat /\ Top.count \in Nat /\ Top.soFar \in Int
      /\ RunTyped(Run)
  BY LoopTyped
<1>2. /\ m_inputPos \in 0 .. Run.comp /\ out = Top.offset + Top.done
      /\ Top.offset + Top.done <= YieldOf(Run, m_inputPos)
  BY <1>1, StoredKnown DEF StreamOf
<1>3. Run.comp \in Nat /\ Run.len \in Nat /\ InputSize \in Nat
  BY <1>1, ZlibAssumption DEF RunTyped
<1>4. end \in 0 .. Run.comp /\ m_inputPos <= end
  <2> DEFINE k == Chunk
  <2>1. k \in Int
    BY <1>1, <1>3 DEF Chunk, Smaller
  <2> HIDE DEF k
  <2>2. end = Larger(m_inputPos, Smaller(m_inputPos + k, Run.comp))
    BY DEF InputEnd, k
  <2> HIDE DEF end
  <2> QED BY <1>2, <1>3, <2>1, <2>2 DEF Larger, Smaller
<1>5. most \in Nat /\ out <= most /\ most <= Run.len /\ out \in Nat
  <2>1. YieldOf(Run, m_inputPos) <= most /\ most \in Nat /\ YieldOf(Run, m_inputPos) \in Nat
    BY <1>1, <1>2, <1>3, <1>4, Yields
  <2>2. most <= Run.len
    <3>1. most <= YieldOf(Run, Run.comp) /\ YieldOf(Run, Run.comp) = Run.len
      BY <1>1, <1>3, <1>4, Yields
    <3> QED BY <3>1
  <2> HIDE DEF most
  <2> QED BY <1>1, <1>2, <1>3, <2>1, <2>2
<1>6. rest \in Nat
  BY <1>1
<1>7. d = Smaller(rest, most - out)
  BY DEF Delivers, Yield, YieldOf
<1> HIDE DEF out, most, rest, d, end
<1>8. d \in Nat /\ d <= rest /\ out + d <= most /\ (most - out <= d => out + d = most)
  BY <1>5, <1>6, <1>7 DEF Smaller
<1>9. UsesUpTo \in 0 .. Run.comp /\ out + d <= YieldOf(Run, UsesUpTo)
  <2> DEFINE n == Needed(out + d)
  <2>1. UsesUpTo = IF most - out > d THEN Larger(m_inputPos, n) ELSE end
    BY DEF UsesUpTo, Yield, YieldOf, most, out, d, end
  <2>2. CASE most - out > d
    <3>1. out + d \in Nat /\ out + d <= Run.len
      BY <1>3, <1>5, <1>8
    <3>2. n \in 0 .. Run.comp /\ YieldOf(Run, n) >= out + d
      BY <1>1, <3>1, NeededYields
    <3> HIDE DEF n
    <3> DEFINE u == Larger(m_inputPos, n)
    <3>3. u \in 0 .. Run.comp /\ n <= u
      BY <1>2, <1>3, <3>2 DEF Larger
    <3> HIDE DEF u
    <3>4. YieldOf(Run, n) <= YieldOf(Run, u) /\ YieldOf(Run, n) \in Nat /\ YieldOf(Run, u) \in Nat
      BY <1>1, <1>3, <3>2, <3>3, Yields
    <3>5. out + d <= YieldOf(Run, u)
      BY <3>1, <3>2, <3>4
    <3>6. UsesUpTo = u
      BY <2>1, <2>2 DEF u
    <3> QED BY <3>3, <3>5, <3>6
  <2>3. CASE ~ (most - out > d)
    <3>1. out + d = most
      BY <1>5, <1>8, <2>3
    <3>2. UsesUpTo = end
      BY <2>1, <2>3
    <3>3. out + d <= YieldOf(Run, end)
      BY <1>5, <3>1 DEF most, end
    <3> QED BY <1>4, <3>2, <3>3
  <2> QED BY <2>2, <2>3
<1>10. Top.done + d <= Top.count
  BY <1>1, <1>8 DEF rest
<1>11. out + d <= Run.len
  BY <1>3, <1>5, <1>8
<1> QED BY <1>2, <1>8, <1>9, <1>10, <1>11 DEF out, d

\* The bytes that are put go on where what has been read ends.
LEMMA PutBytes ==
  ASSUME NEW start \in Nat, NEW d \in Nat, NEW l \in Nat, Len(frames) = 1,
         done + Top.done = d, done \in Nat, Top.done \in Nat,
         buf = Bytes(start, d), Put([i \in 1 .. l |-> (start + d) + i - 1])
  PROVE  buf' = Bytes(start, d + l)
<1> DEFINE bytes == [i \in 1 .. l |-> (start + d) + i - 1]
<1>1. Len(bytes) = l /\ \A i \in 1 .. l : bytes[i] = (start + d) + i - 1
  OBVIOUS
<1>2. buf' = [i \in DOMAIN buf \cup done + Top.done .. done + Top.done + Len(bytes) - 1 |->
                IF i < done + Top.done THEN buf[i] ELSE bytes[i - done - Top.done + 1]]
  BY DEF Put
<1> HIDE DEF bytes
<1>3. DOMAIN buf = 0 .. d - 1 /\ \A i \in 0 .. d - 1 : buf[i] = start + i
  BY DEF Bytes
<1>4. DOMAIN buf \cup done + Top.done .. done + Top.done + Len(bytes) - 1 = 0 .. (d + l) - 1
  <2>1. done + Top.done + Len(bytes) - 1 = (d + l) - 1
    BY <1>1, SMTT(30)
  <2>2. (0 .. d - 1) \cup (d .. (d + l) - 1) = 0 .. (d + l) - 1
    OBVIOUS
  <2> QED BY <1>3, <2>1, <2>2, Zenon
<1>5. \A i \in 0 .. (d + l) - 1 :
        (IF i < done + Top.done THEN buf[i] ELSE bytes[i - done - Top.done + 1]) = start + i
  <2> SUFFICES ASSUME NEW i \in 0 .. (d + l) - 1
               PROVE  (IF i < d THEN buf[i] ELSE bytes[i - done - Top.done + 1]) = start + i
    BY Zenon
  <2>1. CASE i < d
    BY <1>3, <2>1
  <2>2. CASE ~ (i < d)
    <3>1. (i - d) + 1 \in 1 .. l /\ (start + d) + ((i - d) + 1) - 1 = start + i
      BY <2>2
    <3>2. i - done - Top.done + 1 = (i - d) + 1
      OBVIOUS
    <3> QED BY <1>1, <2>2, <3>1, <3>2
  <2> QED BY <2>1, <2>2
<1> QED BY <1>2, <1>4, <1>5, Zenon DEF Bytes

\* The place of what readRun() puts in the buffer of read() is that of the
\* bytes in the file.
LEMMA RightBytes ==
  ASSUME SoundFiles, CallInv, RunInv, Len(frames) = 1, NEW l \in Nat,
         NEW o \in Nat, o = Top.offset + Top.done,
         Put([i \in 1 .. l |-> (RunIndex - 1) * RunLength + o + i - 1])
  PROVE  buf' = Bytes(offset, done + (Top.done + l))
<1> DEFINE d     == done + Top.done
           place == (RunIndex - 1) * RunLength
<1>1. Top \in Frame /\ Bottom \in Frame /\ Top = Bottom
  BY FramesTyped DEF RunInv
<1>2. Top.offset \in Nat /\ Top.done \in Nat
  BY <1>1 DEF Frame
<1>3. done < count /\ offset \in Nat /\ done \in Nat /\ buf = Bytes(offset, d)
  BY <1>1 DEF RunInv, CallInv
<1>4. offset + done = place + Top.offset
  <2>1. Top.offset = (offset + done) % RunLength
    BY <1>1 DEF RunInv, FramesInv
  <2> QED BY <1>3, <2>1, RunBytes
<1>5. place \in Int
  BY <1>3, RunBytes, ZlibAssumption
<1> HIDE DEF place
<1>6. place + o = offset + d
  <2> DEFINE p == Top.offset
             q == Top.done
  <2>1. p \in Nat /\ q \in Nat /\ o = p + q /\ offset + done = place + p /\ d = done + q
    BY <1>2, <1>4
  <2> HIDE DEF p, q, d
  <2> QED BY <1>3, <1>5, <2>1, SMTT(30)
<1>7. [i \in 1 .. l |-> place + o + i - 1] = [i \in 1 .. l |-> (offset + d) + i - 1]
  <2> SUFFICES ASSUME NEW i \in 1 .. l PROVE place + o + i - 1 = (offset + d) + i - 1
    OBVIOUS
  <2> QED BY <1>2, <1>3, <1>5, <1>6
<1>8. Put([i \in 1 .. l |-> (offset + d) + i - 1])
  <2>1. Put([i \in 1 .. l |-> place + o + i - 1])
    BY DEF place
  <2> QED BY <1>7, <2>1, Zenon
<1>9. d \in Nat /\ done + Top.done = d
  BY <1>2, <1>3
<1>10. d + l = done + (Top.done + l)
  BY <1>2, <1>3
<1> HIDE DEF d
<1>11. buf' = Bytes(offset, d + l)
  BY <1>2, <1>3, <1>8, <1>9, PutBytes
<1> QED BY <1>10, <1>11, Zenon

\* readRun() returns to read() all it asked for, or it is at the end of its
\* run before what a call across runs asked for.
LEMMA BackInRead ==
  ASSUME SoundFiles, CallInv, RunInv, Len(frames) = 1,
         NEW n \in Nat, Return(n), Top.offset + n <= Run.len, n <= Top.count,
         n < Top.count => Top.offset + n >= Run.len,
         UNCHANGED <<file, offset, count>>, m_lastEnd' \in Nat,
         buf' = Bytes(offset, done + n)
  PROVE  /\ frames' = <<>> /\ CallInv' /\ pc' \in {"read", "failed"}
         /\ pc' = "read" => ReadInv' 
         /\ Succeeds'
<1> DEFINE at == (offset + done) % RunLength
<1>1. /\ frames \in Seq(Frame) /\ Top \in Frame /\ Top = Bottom
  BY FramesTyped DEF RunInv
<1>2. /\ Top.offset = at /\ Top.count = ThisTime /\ done < count
      /\ done = 0 \/ at = 0
  BY <1>1 DEF RunInv, FramesInv
<1>3. /\ offset \in Nat /\ done \in Nat /\ count \in Int /\ RunLength \in Nat \ {0}
  BY ZlibAssumption DEF CallInv
<1>4. /\ at \in 0 .. RunLength - 1 /\ ThisTime \in 1 .. RunLength /\ ThisTime <= count - done
      /\ RunTyped(Run) /\ Run.len <= RunLength
      /\ at + ThisTime <= RunLength => at + ThisTime <= Run.len
  BY <1>2, RunBytes
<1>5. /\ frames' = <<>>
      /\ pc' = (IF n = ThisTime THEN "read" ELSE "failed")
      /\ done' = (IF n = ThisTime THEN done + n ELSE done)
  <2>1. frames' = Front(frames) /\ Front(frames) = <<>>
    <3>1. Len(frames) > 0
      OBVIOUS
    <3>2. Front(frames) = <<>>
      BY <1>1, <3>1, Popped
    <3> QED BY <3>2 DEF Return
  <2>2. ~ (Len(frames) > 1)
    BY <1>1
  <2> QED BY <2>1, <2>2 DEF Return
<1>6. ThisTime = RunLength \/ ThisTime = count - done
  BY <1>3 DEF ThisTime, Smaller
<1>7. CallInv'
  <2>1. done' \in Nat /\ done' <= count /\ (done' < count => done < count)
    BY <1>2, <1>3, <1>4, <1>5
  <2>2. count' = count /\ offset' = offset /\ file' = file
    OBVIOUS
  <2> QED BY <2>1, <2>2 DEF CallInv, Whole
<1>8. CASE n = ThisTime
  <2>1. pc' = "read" /\ done' = done + ThisTime /\ buf' = Bytes(offset, done + ThisTime)
    BY <1>5, <1>8
  <2>2. buf' = Bytes(offset', done')
    BY <2>1
  <2>3. done + ThisTime = count \/ (offset + (done + ThisTime)) % RunLength = 0
    <3>1. CASE ThisTime = count - done
      BY <1>3, <3>1
    <3>2. CASE ThisTime = RunLength
      <4>1. Top.offset + RunLength <= RunLength
        <5>1. Top.offset + RunLength <= Run.len
          BY <1>8, <3>2
        <5>2. Top.offset \in Nat
          BY <1>1 DEF Frame
        <5>3. Run.len \in Nat /\ Run.len <= RunLength
          BY <1>4 DEF RunTyped
        <5> QED BY <1>3, <5>1, <5>2, <5>3
      <4>2. at = 0
        <5> HIDE DEF at
        <5> QED BY <1>2, <1>3, <1>4, <4>1
      <4>3. offset + done \in Int /\ offset + (done + RunLength) = (offset + done) + RunLength
        BY <1>3
      <4>4. ((offset + done) + RunLength) % RunLength = 0
        BY <1>3, <4>2, <4>3, NextAligned
      <4> QED BY <3>2, <4>3, <4>4, Zenon
    <3> QED BY <1>6, <3>1, <3>2
  <2>4. done' = count' \/ (offset' + done') % RunLength = 0
    BY <2>1, <2>3
  <2> QED BY <1>5, <1>7, <2>1, <2>2, <2>4 DEF ReadInv, Succeeds
<1>9. CASE n # ThisTime
  <2>1. pc' = "failed"
    BY <1>5, <1>9
  <2> DEFINE len == Run.len
             t   == ThisTime
  <2>2. n < t /\ len \in Nat /\ at + n >= len /\ at \in Nat /\ t \in Nat
    BY <1>2, <1>3, <1>4, <1>9 DEF RunTyped
  <2>3. ~ (at + t <= RunLength)
    <3>1. at + t <= RunLength => at + t <= len
      BY <1>4
    <3> HIDE DEF at, len, t
    <3> QED BY <1>3, <2>2, <3>1
  <2>4. done = 0
    <3>1. at # 0
      <4> HIDE DEF at
      <4> QED BY <1>3, <1>4, <2>2, <2>3
    <3> QED BY <1>2, <3>1
  <2>5. offset % RunLength = at /\ t <= count
    BY <1>3, <1>4, <2>4
  <2>6. (offset % RunLength) # 0 /\ (offset % RunLength) + count > RunLength
    <3> HIDE DEF at, t
    <3>1. at # 0 /\ at + count > RunLength
      <4>1. t <= RunLength
        BY <1>4 DEF t
      <4> QED BY <1>3, <2>2, <2>3, <2>5, <4>1
    <3> QED BY <2>5, <3>1
  <2>7. Succeeds'
    BY <2>6 DEF Succeeds
  <2> QED BY <1>5, <1>7, <2>1, <2>7
<1> QED BY <1>8, <1>9

\* A stored run is copied: all that is wanted of it is there.
LEMMA CopyStoredGood ==
  ASSUME SoundFiles, Good, CopyStored
  PROVE  Good'
<1> DEFINE n     == Larger(0, Smaller(Top.count, Run.comp - Top.offset - 1))
           first == (RunIndex - 1) * RunLength + StoredAt - 1
<1>1. CallInv /\ RunInv /\ InLoop /\ pc = "run" /\ Stored
  BY DEF Good, CopyStored, InLoop
<1>2. /\ StoredInv /\ Top.done < Top.count /\ Top.count \in Nat /\ done < count
      /\ RunTyped(Run) /\ m_lastEnd = Top.offset
  BY <1>1, StoredKnown, LoopTyped
<1>3. /\ Run.kind = "stored" /\ Whole(file) /\ m_inputPos = 0 /\ m_lastEnd = 0
      /\ Len(frames) = 1 /\ Top.offset = 0 /\ Top.done = 0
      /\ StoredAt = 1
  BY <1>1, <1>2 DEF StoredInv, StoredAt, RunInv
<1>4. Top \in Frame /\ Top = Bottom
  BY <1>1, <1>3, FramesTyped DEF RunInv
<1>5. Top.count <= Run.len /\ Run.comp = Run.len + 1 /\ Top.count > 0
  <2>1. 0 = (offset + done) % RunLength /\ Top.count = ThisTime
    BY <1>1, <1>3, <1>4 DEF RunInv, FramesInv
  <2> DEFINE t == ThisTime
  <2>2. /\ t \in 1 .. RunLength /\ (0 + t <= RunLength => 0 + t <= Run.len)
        /\ Run.comp = Run.len + 1
    BY <1>1, <1>2, <1>3, <2>1, RunBytes
  <2>3. Run.len \in Nat /\ RunLength \in Nat
    BY <1>2, ZlibAssumption DEF RunTyped
  <2> HIDE DEF t
  <2>4. t <= Run.len /\ t > 0
    BY <2>2, <2>3
  <2> QED BY <2>1, <2>2, <2>4 DEF t
<1>6. n = Top.count
  <2>1. Run.comp - Top.offset - 1 = Run.len /\ Run.len \in Nat
    BY <1>2, <1>3, <1>5 DEF RunTyped
  <2> QED BY <1>2, <1>5, <2>1 DEF Larger, Smaller
<1>7. /\ Put([i \in 1 .. n |-> IF Run.kind = "stored" THEN first + i - 1 ELSE Garbage])
      /\ m_inputPos' = StoredAt + n /\ m_lastEnd' = m_lastEnd + n
      /\ m_lastUncompressed' = TRUE /\ Return(n)
      /\ UNCHANGED <<call, m_lastRun, m_strm, faulted>>
  BY DEF CopyStored
<1> HIDE DEF n
<1>8. buf' = Bytes(offset, done + n)
  <2>1. (RunIndex - 1) * RunLength \in Int /\ n \in Nat
    BY <1>1, <1>2, <1>6, RunBytes, ZlibAssumption
  <2> DEFINE place == (RunIndex - 1) * RunLength
  <2>2. first = place + 0
    <3>1. first = place + 1 - 1
      BY <1>3
    <3> HIDE DEF place, first
    <3> QED BY <2>1, <3>1 DEF place
  <2> HIDE DEF first
  <2>3. [i \in 1 .. n |-> IF Run.kind = "stored" THEN first + i - 1 ELSE Garbage]
          = [i \in 1 .. n |-> place + 0 + i - 1]
    <3> HIDE DEF place
    <3>1. \A i \in 1 .. n : first + i - 1 = place + 0 + i - 1
      BY <2>1, <2>2 DEF place
    <3> QED BY <1>3, <3>1
  <2>4. Put([i \in 1 .. n |-> (RunIndex - 1) * RunLength + 0 + i - 1])
    BY <1>7, <2>3, Zenon
  <2>5. buf' = Bytes(offset, done + (Top.done + n))
    BY <1>1, <1>3, <2>1, <2>4, RightBytes
  <2>6. Top.done + n = n
    BY <1>3, <2>1
  <2> QED BY <2>5, <2>6, Zenon
<1>9. n \in Nat /\ n > 0 /\ Top.offset + n <= Run.len /\ n <= Top.count /\ m_lastEnd' = n
  <2>1. n \in Nat /\ n > 0 /\ n <= Top.count /\ Run.len \in Nat
    BY <1>2, <1>5, <1>6 DEF RunTyped
  <2>2. Top.offset + n <= Run.len
    BY <1>3, <1>5, <1>6, <2>1
  <2>3. m_lastEnd' = n
    BY <1>3, <1>7, <2>1
  <2> QED BY <2>1, <2>2, <2>3
<1>10. /\ frames' = <<>> /\ CallInv' /\ pc' \in {"read", "failed"}
       /\ pc' = "read" => ReadInv'
       /\ Succeeds'
  <2>1. UNCHANGED <<file, offset, count>> /\ m_lastEnd' \in Nat
    BY <1>7, <1>9 DEF call
  <2>2. ~ (n < Top.count)
    BY <1>2, <1>6
  <2> QED BY <1>1, <1>3, <1>7, <1>8, <1>9, <2>1, <2>2, BackInRead
<1>11. BetweenInv'
  <2>1. m_lastEnd' > 0 /\ file' = file
    BY <1>7, <1>9 DEF call
  <2> QED BY <1>3, <1>10, <2>1 DEF BetweenInv, Whole
<1> QED BY <1>10, <1>11 DEF Good, ReturnsContents

\* inflate() delivers the next bytes of the run, and the stream is after them.
LEMMA InflateGood ==
  ASSUME SoundFiles, Good, Inflate
  PROVE  Good'
<1> DEFINE d == Delivers
           n == Top.done + Delivers
           e == [Top EXCEPT !.done = n, !.soFar = Top.soFar + Chunk]
<1>1. CallInv /\ RunInv /\ InLoop /\ pc = "run" /\ ~ Stored
  BY DEF Good, Inflate, InLoop
<1>2. /\ Delivers \in Nat /\ Top.done + Delivers <= Top.count
      /\ UsesUpTo \in 0 .. Run.comp
      /\ m_strm.out = Top.offset + Top.done
      /\ m_strm.out + Delivers <= YieldOf(Run, UsesUpTo)
      /\ m_strm.out + Delivers <= Run.len
  BY <1>1, InflateNumbers
<1>3. /\ m_lastEnd = Top.offset /\ Top.done < Top.count
      /\ Top.offset \in Nat /\ Top.done \in Nat /\ Top.count \in Nat /\ Top.soFar \in Int
      /\ RunTyped(Run) /\ done < count /\ offset \in Nat /\ done \in Nat /\ count \in Int
  BY <1>1, LoopTyped
<1>4. /\ frames \in Seq(Frame) /\ Len(frames) \in {1, 2}
      /\ Top \in Frame /\ Bottom \in Frame /\ Bottom = frames[1]
      /\ Len(frames) = 1 => Top = Bottom
  BY <1>1, FramesTyped DEF RunInv
<1>5. /\ m_inputPos' = UsesUpTo
      /\ m_strm' = [run |-> RunIndex, fed |-> UsesUpTo, out |-> m_strm.out + Delivers]
      /\ Put([i \in 1 .. Delivers |-> (RunIndex - 1) * RunLength + m_strm.out + i - 1])
      /\ UNCHANGED <<file, offset, count, m_lastUncompressed, faulted>>
  BY DEF Inflate, call
<1>6. n \in Nat /\ n <= Top.count /\ Top.offset + n = m_strm.out + Delivers /\ m_lastEnd + n \in Nat
      /\ Top.offset + n <= Run.len
  BY <1>2, <1>3
<1>7. Run.kind = "zlib" /\ m_lastUncompressed' = FALSE
  BY <1>1, <1>5, StoredKnown DEF StreamOf, RunInv
<1>8. StreamOf(Run, RunIndex, Top.offset + n, m_inputPos', m_strm')
  <2>1. /\ m_strm'.fed = UsesUpTo /\ m_strm'.run = RunIndex
        /\ m_strm'.out = m_strm.out + Delivers
    BY <1>5
  <2>2. Top.offset + n <= YieldOf(Run, UsesUpTo) /\ m_strm'.out = Top.offset + n
    BY <1>2, <1>6, <2>1
  <2> HIDE DEF n
  <2> QED BY <1>2, <1>5, <1>7, <2>1, <2>2 DEF StreamOf
<1>9. Len(frames) = 1 => buf' = Bytes(offset, done + n)
  <2>1. m_strm.out \in Nat
    BY <1>2, <1>3
  <2> QED BY <1>1, <1>2, <1>5, <2>1, RightBytes
<1>10. Len(frames) = 2 => buf' = buf
  BY <1>5 DEF Put
<1>11. RunIndex \in DOMAIN file.runs /\ Run = file.runs[RunIndex]
  BY <1>1, <1>3, RunBytes DEF Run
<1>12. CASE (Ended \/ n = Top.count) /\ Len(frames) = 1
  <2>1. m_lastEnd' = m_lastEnd + Top.done + Delivers /\ m_lastRun' = RunIndex /\ Return(n)
    BY <1>12 DEF Inflate, LastRun
  <2>2. m_lastEnd' = Top.offset + n /\ m_lastEnd' \in Nat
    <3>1. m_lastEnd + Top.done + Delivers = Top.offset + n
      BY <1>2, <1>3
    <3> QED BY <1>3, <1>6, <2>1, <3>1
  <2>3. n < Top.count => Top.offset + n >= Run.len
    <3>1. n < Top.count => m_strm.out + Delivers = Run.len
      BY <1>3, <1>6, <1>12 DEF Ended
    <3>2. Run.len \in Nat
      BY <1>3 DEF RunTyped
    <3> QED BY <1>6, <3>1, <3>2
  <2> HIDE DEF n
  <2>4. /\ frames' = <<>> /\ CallInv' /\ pc' \in {"read", "failed"}
        /\ pc' = "read" => ReadInv'
        /\ Succeeds'
    BY <1>1, <1>5, <1>6, <1>9, <1>12, <2>1, <2>2, <2>3, BackInRead
  <2>5. BetweenInv'
    <3>1. file'.runs[m_lastRun'] = Run /\ m_lastRun' \in DOMAIN file'.runs
      BY <1>5, <1>11, <2>1
    <3>2. StreamOf(Run, m_lastRun', m_lastEnd', m_inputPos', m_strm')
      BY <1>8, <2>1, <2>2
    <3> QED BY <1>7, <2>4, <3>1, <3>2 DEF BetweenInv
  <2> QED BY <2>4, <2>5 DEF Good, ReturnsContents
<1>13. \/ RunIndex' = RunIndex /\ Run' = Run /\ ThisTime' = ThisTime
       \/ done' # done
  BY <1>5 DEF RunIndex, Run, ThisTime, Smaller
<1>14. CASE (Ended \/ n = Top.count) /\ Len(frames) = 2
  <2>1. m_lastEnd' = m_lastEnd + Top.done + Delivers /\ m_lastRun' = RunIndex /\ Return(n)
    BY <1>14 DEF Inflate, LastRun
  <2>2. m_lastEnd' = Top.offset + n /\ m_lastEnd' \in Nat
    <3>1. m_lastEnd + Top.done + Delivers = Top.offset + n
      BY <1>2, <1>3
    <3> QED BY <1>3, <1>6, <2>1, <3>1
  <2>3. pc' = pc /\ done' = done /\ frames' = Front(frames)
    BY <1>14, <2>1 DEF Return
  <2>4. /\ frames' \in Seq(Frame) /\ Len(frames') = 1 /\ Top' = Bottom /\ Bottom' = Bottom
    <3>1. /\ Front(frames) \in Seq(Frame) /\ Len(Front(frames)) = Len(frames) - 1
          /\ (Len(frames) > 1 => Front(frames)[1] = frames[1])
          /\ (Len(frames) = 2 => Last(Front(frames)) = frames[1])
      BY <1>4, Popped
    <3> QED BY <1>4, <1>14, <2>3, <3>1 DEF Top, Bottom
  <2>5. /\ Bottom.done = 0 /\ Top.offset + Top.count <= Bottom.offset
        /\ Bottom.offset = (offset + done) % RunLength /\ Bottom.count = ThisTime
    BY <1>1, <1>3, <1>14 DEF RunInv, FramesInv
  <2>6. m_lastEnd' <= Bottom.offset /\ Bottom.offset \in Nat /\ Bottom.count \in Nat
    <3>1. Bottom.offset \in Nat /\ Bottom.count \in Nat
      BY <1>4 DEF Frame
    <3> HIDE DEF n
    <3> QED BY <1>3, <1>6, <2>2, <2>5, <3>1
  <2>7. CallInv'
    BY <1>1, <1>5, <2>2, <2>3 DEF CallInv, Whole
  <2>8. RunIndex' = RunIndex /\ Run' = Run /\ ThisTime' = ThisTime
    BY <1>13, <2>3
  <2>9. FramesInv'
    <3>1. ~ (Bottom.done > 0) /\ Bottom.done <= Bottom.count
      BY <2>5, <2>6
    <3> QED BY <1>5, <2>3, <2>4, <2>5, <2>6, <2>8, <3>1 DEF FramesInv
  <2>10. buf' = Bytes(offset', done' + Bottom'.done)
    BY <1>1, <1>5, <1>10, <1>14, <2>3, <2>4 DEF RunInv
  <2>11. StreamOf(Run', RunIndex', m_lastEnd' + Top'.done, m_inputPos', m_strm')
    <3> DEFINE k == Top.offset + n
    <3>1. k + 0 = k
      BY <1>3, <1>6
    <3>2. m_lastEnd' + Top'.done = k + 0
      BY <2>2, <2>4, <2>5, Zenon
    <3> HIDE DEF n, k
    <3> QED BY <1>8, <2>8, <3>1, <3>2, Zenon DEF k
  <2>12. /\ done' < count' /\ (done' = 0 \/ (offset' + done') % RunLength = 0)
         /\ RunIndex' = m_lastRun'
    BY <1>1, <1>5, <2>1, <2>3, <2>8 DEF RunInv
  <2>13. RunInv'
    BY <1>7, <2>9, <2>10, <2>11, <2>12 DEF RunInv
  <2> QED BY <1>1, <2>3, <2>7, <2>13 DEF Good, ReturnsContents, Succeeds
<1>15. CASE ~ (Ended \/ n = Top.count)
  <2>1. /\ frames' = Front(frames) \o <<e>>
        /\ UNCHANGED <<pc, done, m_lastRun, m_lastEnd>>
    BY <1>15 DEF Inflate
  <2>2. /\ e \in Frame /\ e.offset = Top.offset /\ e.count = Top.count /\ e.done = n
    <3> DEFINE c == Top.soFar + Chunk
    <3>1. c \in Int
      <4>1. Run.comp \in Nat /\ InputSize \in Nat
        BY <1>3, ZlibAssumption DEF RunTyped
      <4>2. Chunk \in Int
        BY <1>3, <4>1 DEF Chunk, Smaller
      <4> QED BY <1>3, <4>2
    <3>2. e = [Top EXCEPT !.done = n, !.soFar = c]
      OBVIOUS
    <3> HIDE DEF n, c, e
    <3>3. Top = [offset |-> Top.offset, count |-> Top.count, done |-> Top.done, soFar |-> Top.soFar]
      BY <1>4 DEF Frame
    <3>4. e = [offset |-> Top.offset, count |-> Top.count, done |-> n, soFar |-> c]
      BY <3>2, <3>3
    <3> QED BY <1>3, <1>6, <3>1, <3>4 DEF Frame
  <2> HIDE DEF e
  <2>3. /\ frames' \in Seq(Frame) /\ Len(frames') = Len(frames) /\ Top' = e
        /\ Len(frames) > 1 => Bottom' = Bottom
        /\ Len(frames) = 1 => Bottom' = e
    <3>1. LET t == Front(frames) \o <<e>> IN
          /\ t \in Seq(Frame) /\ Len(t) = Len(frames) /\ Last(t) = e
          /\ Len(frames) > 1 => t[1] = frames[1]
      BY <1>4, <2>2, Replaced
    <3>2. /\ frames' \in Seq(Frame) /\ Len(frames') = Len(frames) /\ Last(frames') = e
          /\ Len(frames) > 1 => frames'[1] = frames[1]
      BY <2>1, <3>1
    <3>3. Len(frames) = 1 => frames'[1] = e
      BY <3>2 DEF Last
    <3> QED BY <3>2, <3>3 DEF Top, Bottom
  <2>4. RunIndex' = RunIndex /\ Run' = Run /\ ThisTime' = ThisTime
    BY <1>13, <2>1
  <2>5. CallInv'
    BY <1>1, <1>5, <2>1 DEF CallInv, Whole
  <2>6. FramesInv'
    <3>1. /\ Bottom.offset = (offset + done) % RunLength /\ Bottom.count = ThisTime
          /\ m_lastEnd <= Bottom.offset
          /\ Len(frames) = 2 => /\ Bottom.done = 0 /\ Top.offset = m_lastEnd
                                /\ m_lastEnd + Top.count <= Bottom.offset
      BY <1>1 DEF RunInv, FramesInv
    <3>2. Bottom'.offset = Bottom.offset /\ Bottom'.count = Bottom.count
      BY <1>4, <2>2, <2>3
    <3> HIDE DEF n
    <3>3. Top'.done <= Top'.count /\ (Top'.done > 0 => m_lastEnd' = Top'.offset)
      BY <1>3, <1>6, <2>1, <2>2, <2>3
    <3>4. Len(frames') = 2 => /\ Bottom'.done = 0 /\ Top'.offset = m_lastEnd'
                              /\ m_lastEnd' + Top'.count <= Bottom'.offset
      BY <2>1, <2>2, <2>3, <3>1
    <3> QED BY <1>4, <1>5, <2>1, <2>3, <2>4, <3>1, <3>2, <3>3, <3>4 DEF FramesInv
  <2>7. buf' = Bytes(offset', done' + Bottom'.done)
    <3> HIDE DEF n
    <3>1. CASE Len(frames) = 1
      BY <1>5, <1>9, <2>1, <2>2, <2>3, <3>1
    <3>2. CASE Len(frames) = 2
      BY <1>1, <1>5, <1>10, <2>1, <2>3, <3>2 DEF RunInv
    <3> QED BY <1>4, <3>1, <3>2
  <2>8. StreamOf(Run', RunIndex', m_lastEnd' + Top'.done, m_inputPos', m_strm')
    <3> HIDE DEF n
    <3>1. m_lastEnd' + Top'.done = Top.offset + n
      BY <1>3, <2>1, <2>2, <2>3, Zenon
    <3> QED BY <1>8, <2>4, <3>1, Zenon
  <2>9. /\ done' < count' /\ (done' = 0 \/ (offset' + done') % RunLength = 0)
        /\ RunIndex' # m_lastRun' => m_lastEnd' = 0
    BY <1>1, <1>5, <2>1, <2>4 DEF RunInv
  <2>10. RunInv'
    BY <1>7, <2>6, <2>7, <2>8, <2>9 DEF RunInv
  <2> QED BY <1>1, <2>1, <2>5, <2>10 DEF Good, ReturnsContents, Succeeds
<1> QED BY <1>4, <1>12, <1>14, <1>15

----------------------------------------------------------------------------
(* Every step.                                                             *)

\* No bytes of the file.
LEMMA NoBytes == \A at, n \in Int : n <= 0 => Bytes(at, n) = Nothing
BY DEF Bytes, Nothing

\* The codec is called with what its stream goes on with.
LEMMA GoodResumes ==
  ASSUME SoundFiles, Good
  PROVE  ResumesInPlace
<1> SUFFICES ASSUME InLoop, ~ Stored
             PROVE  Continues /\ m_strm.out = Top.offset + Top.done
  BY DEF ResumesInPlace
<1>1. CallInv /\ RunInv
  BY DEF Good, InLoop
<1>2. StreamOf(Run, RunIndex, m_lastEnd + Top.done, m_inputPos, m_strm)
  BY <1>1, StoredKnown
<1>3. m_strm.out = Top.offset + Top.done
  BY <1>1, InflateNumbers
<1> QED BY <1>2, <1>3 DEF Continues, StreamOf

\* The first state is good.
LEMMA ZlibInvInit == Init => ZlibInv
<1> SUFFICES ASSUME Init PROVE Good
  BY DEF ZlibInv
<1>1. 0 % RunLength = 0
  <2>1. RunLength \in Nat \ {0} /\ 0 \in 0 .. RunLength - 1
    BY ZlibAssumption
  <2> QED BY <2>1, ModSmall
<1>2. CallInv
  BY <1>1 DEF Init, CallInv
<1>3. BetweenInv /\ pc = "idle"
  BY DEF Init, BetweenInv
<1>4. buf = Nothing
  BY DEF Init
<1> QED BY <1>2, <1>3, <1>4 DEF Good, ReturnsContents, Succeeds

\* read() is called; its count is cut to the size of the file.
LEMMA ReadGood ==
  ASSUME SoundFiles, Good, NEW r \in Requests(file), Read(r)
  PROVE  Good'
<1>1. /\ pc = "idle" /\ pc' = "read" /\ offset' = r.offset /\ done' = 0 /\ file' = file
      /\ count' = (IF r.offset + r.count > file.size THEN file.size - r.offset ELSE r.count)
      /\ UNCHANGED <<frames, m_lastRun, m_lastEnd, m_inputPos, m_lastUncompressed, m_strm, buf>>
  BY DEF Read
<1>2. CallInv /\ BetweenInv
  BY <1>1 DEF Good
<1>3. file \in Files /\ m_lastEnd \in Nat /\ file.size \in Nat
  BY <1>2 DEF CallInv, SoundFiles
<1>4. r.offset \in Nat /\ r.count \in Nat
  BY <1>3, ZlibAssumption
<1>5. count' \in Int /\ (0 < count' => r.offset + count' <= file.size)
  BY <1>1, <1>3, <1>4
<1>6. Whole(file) => r.offset % RunLength = 0
  BY DEF Whole
<1>7. CallInv'
  BY <1>1, <1>3, <1>4, <1>5, <1>6 DEF CallInv, Whole
<1>8. BetweenInv'
  BY <1>1, <1>2 DEF BetweenInv, Whole
<1>9. ReadInv'
  <2>1. buf = Nothing /\ Bytes(r.offset, 0) = Nothing
    BY <1>1, <1>4, NoBytes DEF Good
  <2>2. buf' = Bytes(offset', done')
    BY <1>1, <2>1
  <2> QED BY <1>1, <2>2 DEF ReadInv
<1> QED BY <1>1, <1>7, <1>8, <1>9 DEF Good, ReturnsContents, Succeeds

\* read() returns: all that was wanted is there.
LEMMA FinishGood ==
  ASSUME SoundFiles, Good, Finish
  PROVE  Good'
<1>1. /\ pc = "read" /\ pc' = "returned" /\ done >= count
      /\ UNCHANGED <<file, offset, count, done, frames, m_lastRun, m_lastEnd, m_inputPos,
                     m_lastUncompressed, m_strm, buf>>
  BY DEF Finish, call
<1>2. CallInv /\ BetweenInv /\ ReadInv
  BY <1>1 DEF Good
<1>3. CallInv' /\ BetweenInv'
  BY <1>1, <1>2 DEF CallInv, BetweenInv, Whole
<1>4. buf = Bytes(offset, count)
  <2>1. offset \in Int /\ count \in Int /\ done \in Nat /\ (done = 0 \/ done <= count)
    BY <1>2 DEF CallInv
  <2>2. CASE done = 0
    <3>1. Bytes(offset, 0) = Nothing /\ Bytes(offset, count) = Nothing
      BY <1>1, <2>1, <2>2, NoBytes
    <3> QED BY <1>2, <2>2, <3>1 DEF ReadInv
  <2>3. CASE done # 0
    <3>1. done = count
      BY <1>1, <2>1, <2>3
    <3> QED BY <1>2, <3>1 DEF ReadInv
  <2> QED BY <2>2, <2>3
<1>5. ReturnsContents'
  BY <1>1, <1>4 DEF ReturnsContents, Bytes
<1> QED BY <1>1, <1>3, <1>5 DEF Good, Succeeds

\* The caller has the answer or the exception; the reader waits.
LEMMA LeaveGood ==
  ASSUME SoundFiles, Good, Leave
  PROVE  Good'
<1>1. /\ pc \in {"returned", "failed"}
      /\ pc' = "idle" /\ offset' = 0 /\ count' = 0 /\ done' = 0 /\ buf' = Nothing
      /\ UNCHANGED <<file, frames, m_lastRun, m_lastEnd, m_inputPos, m_lastUncompressed, m_strm>>
  BY DEF Leave
<1>2. CallInv /\ BetweenInv
  BY <1>1 DEF Good
<1>3. 0 % RunLength = 0
  <2>1. RunLength \in Nat \ {0} /\ 0 \in 0 .. RunLength - 1
    BY ZlibAssumption
  <2> QED BY <2>1, ModSmall
<1>4. CallInv' /\ BetweenInv'
  BY <1>1, <1>2, <1>3 DEF CallInv, BetweenInv, Whole
<1> QED BY <1>1, <1>4 DEF Good, ReturnsContents, Succeeds

\* Every step but a failed read of the compressed data keeps the state good.
LEMMA ZlibInvNext ==
  ASSUME SoundFiles, ZlibInv, [Next]_vars
  PROVE  ZlibInv'
<1>1. CASE faulted
  <2>1. faulted'
    BY <1>1 DEF Next, Step, Read, Finish, ReadRun, Skip, CopyStored, Inflate, InflateGarbage,
                ReadFails, Leave, vars
  <2> QED BY <2>1 DEF ZlibInv
<1>2. CASE Good
  <2>1. ASSUME NEW r \in Requests(file), Read(r) PROVE Good'
    BY <1>2, <2>1, ReadGood
  <2>2. CASE ReadRun
    <3>1. CallInv /\ BetweenInv /\ ReadInv /\ pc' = "run"
      BY <1>2, <2>2 DEF Good, ReadRun
    <3>2. CallInv' /\ RunInv'
      BY <2>2, <3>1, ReadRunGood
    <3>3. ReturnsContents' /\ Succeeds'
      BY <3>1 DEF ReturnsContents, Succeeds
    <3>4. pc' # "idle" /\ pc' # "read"
      BY <3>1
    <3>5. Good'
      BY <3>1, <3>2, <3>3, <3>4, Zenon DEF Good
    <3> QED BY <3>5 DEF ZlibInv
  <2>3. CASE Skip
    <3>1. CallInv /\ RunInv /\ pc' = "run"
      BY <1>2, <2>3 DEF Good, Skip
    <3>2. CallInv' /\ RunInv'
      BY <2>3, <3>1, SkipGood
    <3>3. ReturnsContents' /\ Succeeds'
      BY <3>1 DEF ReturnsContents, Succeeds
    <3>4. pc' # "idle" /\ pc' # "read"
      BY <3>1
    <3>5. Good'
      BY <3>1, <3>2, <3>3, <3>4, Zenon DEF Good
    <3> QED BY <3>5 DEF ZlibInv
  <2>4. CASE InflateGarbage
    <3>1. InLoop /\ ~ Stored /\ ~ Continues
      BY <2>4 DEF InflateGarbage
    <3>2. ResumesInPlace
      BY <1>2, GoodResumes
    <3> QED BY <3>1, <3>2 DEF ResumesInPlace
  <2>5. CASE ReadFails
    BY <2>5 DEF ReadFails, ZlibInv
  <2>6. CASE UNCHANGED vars
    <3>1. UNCHANGED <<file, pc, offset, count, done, frames, m_lastRun, m_lastEnd, m_inputPos,
                      m_lastUncompressed, m_strm, buf, faulted>>
      BY <2>6 DEF vars
    <3>2. CallInv' = CallInv /\ BetweenInv' = BetweenInv /\ ReadInv' = ReadInv
      BY <3>1 DEF CallInv, BetweenInv, ReadInv, Whole
    <3>3. /\ Run' = Run /\ RunIndex' = RunIndex /\ Top' = Top /\ Bottom' = Bottom
          /\ ThisTime' = ThisTime
      BY <3>1 DEF Run, RunIndex, Top, Bottom, ThisTime, Smaller
    <3>4. FramesInv' = FramesInv /\ StoredInv' = StoredInv
      BY <3>1, <3>3 DEF FramesInv, StoredInv, Whole
    <3>5. RunInv' = RunInv
      BY <3>1, <3>3, <3>4 DEF RunInv
    <3>6. ReturnsContents' = ReturnsContents /\ Succeeds' = Succeeds
      BY <3>1 DEF ReturnsContents, Succeeds
    <3> QED BY <1>2, <3>1, <3>2, <3>5, <3>6 DEF Good, ZlibInv
  <2> QED BY <1>2, <2>1, <2>2, <2>3, <2>4, <2>5, <2>6, FinishGood, LeaveGood, CopyStoredGood,
             InflateGood DEF Next, Step, ZlibInv
<1> QED BY <1>1, <1>2 DEF ZlibInv

----------------------------------------------------------------------------
(* The theorems.                                                           *)

\* Whatever was read before, in whatever order: when the codec is called, its
\* stream is that of the run, its input goes on where it stopped and the byte
\* it gives next is the one that is wanted, as long as no read of the
\* compressed data has failed.
THEOREM ZlibResumes == ASSUME SoundFiles PROVE Spec => []ResumesUndisturbed
<1>1. ZlibInv /\ [Next]_vars => ZlibInv'
  BY ZlibInvNext
<1>2. ZlibInv => ResumesUndisturbed
  BY GoodResumes DEF ZlibInv, ResumesUndisturbed
<1> QED BY <1>1, <1>2, ZlibInvInit, PTL DEF Spec

\* What read() returns is complete, and the bytes of the file at the offset it
\* was given, as long as no read of the compressed data has failed.
THEOREM ZlibReturnsContents == ASSUME SoundFiles PROVE Spec => []ReturnsContents
<1>1. ZlibInv /\ [Next]_vars => ZlibInv'
  BY ZlibInvNext
<1>2. ZlibInv => ReturnsContents
  BY DEF ZlibInv, Good, ReturnsContents
<1> QED BY <1>1, <1>2, ZlibInvInit, PTL DEF Spec

\* A call that starts where a run does, or ends in the run it starts in, is
\* refused only if a read of the compressed data has failed.
THEOREM ZlibSucceeds == ASSUME SoundFiles PROVE Spec => []Succeeds
<1>1. ZlibInv /\ [Next]_vars => ZlibInv'
  BY ZlibInvNext
<1>2. ZlibInv => Succeeds
  BY DEF ZlibInv, Good, Succeeds
<1> QED BY <1>1, <1>2, ZlibInvInit, PTL DEF Spec
=============================================================================
