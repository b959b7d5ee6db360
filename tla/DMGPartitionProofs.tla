------------------------- MODULE DMGPartitionProofs -------------------------
(***************************************************************************)
(* Proofs about DMGPartition and DMGPartitionRuns, for every run table,    *)
(* every geometry, every call of read(), every stream and every size of    *)
(* the buffers.                                                            *)
(*                                                                         *)
(* The partition: in a sound table the run upper_bound() finds for a       *)
(* position is the one that holds it (FoundRunHolds), and the sector after *)
(* a run is the first of another or the end of the partition (RunAfter);   *)
(* so a piece that does not end the call ends where a run starts.  Then    *)
(* what is in the buffer follows the offset without a gap (FillInv), and   *)
(* what read() returns is the slice that was asked for (ReturnsSlice).     *)
(*                                                                         *)
(* The decompressors see their input in order and deliver what they claim, *)
(* so each step of the partition with its decompressors is a step of       *)
(* DMGPartition or none at all: a decompressor is only there while read()  *)
(* is in a compressed run (CallInv); the input the codec has not used is   *)
(* what is left in m_buf (InputInv); and what it has delivered is what has *)
(* been skipped and what is in the buffer (SkipInv).                       *)
(***************************************************************************)
EXTENDS DMGPartitionRuns, ProofLemmas

----------------------------------------------------------------------------
(* The partition.                                                          *)

\* Every run that is not skipped starts within the partition or at its end.
StartsWithin ==
  \A table \in Tables : \A i \in DOMAIN table :
    table[i].type \notin Skipped => table[i].start \in 0 .. SectorCount

\* A sound table has no run that starts elsewhere.
LEMMA SoundStartsWithin == TablesSound => StartsWithin
<1> SUFFICES ASSUME TablesSound, NEW table \in Tables, NEW i \in DOMAIN table,
                    table[i].type \notin Skipped
             PROVE  table[i].start \in 0 .. SectorCount
  BY DEF StartsWithin
<1>1. /\ table[i].start \in Nat /\ table[i].count \in Nat \ {0}
      /\ table[i].start + table[i].count <= SectorCount
  BY DEF TablesSound, Sound
<1> QED BY <1>1, GeometryAssumption

\* The first sectors of the runs are sectors of the partition, or its end.
LEMMA RunStartsBounded ==
  ASSUME StartsWithin, runs \in Tables
  PROVE  RunStarts \subseteq 0 .. SectorCount
BY DEF StartsWithin, RunStarts, Mapped

\* upper_bound() and the step back from it find the last run that starts at
\* or before a position.
LEMMA RunStartFound ==
  ASSUME StartsWithin, runs \in Tables, NEW p \in Nat, AtOrBefore(p) # {}
  PROVE  /\ RunStart(p) \in RunStarts /\ RunStart(p) \in 0 .. SectorCount
         /\ RunStart(p) <= p \div SectorSize
         /\ \A s \in RunStarts : s <= p \div SectorSize => s <= RunStart(p)
<1>1. AtOrBefore(p) \in SUBSET Nat /\ SectorCount \in Nat
      /\ \A s \in AtOrBefore(p) : s <= SectorCount
  BY RunStartsBounded, GeometryAssumption DEF AtOrBefore
<1>2. /\ Max(AtOrBefore(p)) \in AtOrBefore(p)
      /\ \A s \in AtOrBefore(p) : s <= Max(AtOrBefore(p))
  <2> HIDE DEF AtOrBefore
  <2> QED BY <1>1, MaxNat
<1> QED BY <1>2, RunStartsBounded DEF AtOrBefore, RunStart

\* The block Reader advises contains the position and ends with the
\* partition at the latest.
LEMMA DefaultBlockUsable ==
  ASSUME NEW p \in 0 .. PartitionLength - 1
  PROVE  LET b == DefaultBlock(p)
         IN  0 <= b.start /\ b.start <= p /\ p < b.end /\ b.end <= PartitionLength
<1>1. SectorCount \in Nat /\ SectorSize \in Nat /\ BlockSize \in Nat \ {0}
  BY GeometryAssumption
<1>2. PartitionLength \in Nat
  BY <1>1 DEF PartitionLength
<1>3. p \in Nat /\ p < PartitionLength
  BY <1>2
<1>4. p % BlockSize \in 0 .. BlockSize - 1
  BY <1>1, <1>3, ModRange
<1>5. p % BlockSize <= p
  <2>1. /\ p \div BlockSize \in Nat
        /\ p = BlockSize * (p \div BlockSize) + (p % BlockSize)
    BY <1>1, <1>3, Within
  <2>2. BlockSize * (p \div BlockSize) \in Nat
    BY <1>1, <2>1
  <2> QED BY <1>3, <1>4, <2>1, <2>2
<1> QED BY <1>1, <1>2, <1>3, <1>4, <1>5 DEF DefaultBlock

\* The block of a compressed run contains the position, although the run
\* may be shorter than the way to the next.
LEMMA RunBlockUsable ==
  ASSUME StartsWithin, runs \in Tables,
         NEW p \in 0 .. PartitionLength - 1, AtOrBefore(p) # {}
  PROVE  LET start == RunStart(p) * SectorSize
             end   == IF After(p) = {} THEN PartitionLength ELSE Min(After(p)) * SectorSize
         IN  0 <= start /\ start <= p /\ p < end /\ end <= PartitionLength
<1> DEFINE q == p \div SectorSize
<1>1. SectorCount \in Nat /\ SectorSize \in Nat \ {0}
  BY GeometryAssumption
<1>2. PartitionLength \in Nat /\ PartitionLength = SectorCount * SectorSize
  BY <1>1 DEF PartitionLength
<1>3. p \in Nat /\ p < PartitionLength
  BY <1>2
<1>4. q \in Nat /\ q * SectorSize <= p /\ p < (q + 1) * SectorSize
  BY <1>1, <1>3, Within
<1>5. RunStart(p) \in Nat /\ RunStart(p) <= q
  BY <1>1, <1>3, RunStartFound
<1> HIDE DEF q
<1>6. /\ RunStart(p) * SectorSize \in Nat /\ q * SectorSize \in Nat
      /\ RunStart(p) * SectorSize <= q * SectorSize
  BY <1>1, <1>4, <1>5, Scaled
<1>7. ASSUME After(p) # {}
      PROVE  p < Min(After(p)) * SectorSize /\ Min(After(p)) * SectorSize <= PartitionLength
  <2>1. After(p) \in SUBSET Nat /\ \A s \in After(p) : s <= SectorCount /\ s > q
    BY <1>1, RunStartsBounded DEF After, q
  <2>2. Min(After(p)) \in After(p)
    BY <1>7, <2>1, MinNat
  <2> DEFINE m == Min(After(p))
  <2>3. m \in Nat /\ q + 1 <= m /\ m <= SectorCount
    BY <1>4, <2>1, <2>2
  <2> HIDE DEF m
  <2>4. (q + 1) * SectorSize <= m * SectorSize /\ m * SectorSize <= SectorCount * SectorSize
    BY <1>1, <1>4, <2>3, Scaled
  <2>5. (q + 1) * SectorSize \in Nat /\ m * SectorSize \in Nat
    BY <1>1, <1>4, <2>3
  <2> QED BY <1>2, <1>3, <1>4, <2>4, <2>5 DEF m
<1> QED BY <1>2, <1>3, <1>4, <1>6, <1>7

\* A position that is in none of the runs before the first is advised a
\* block that contains it and lies within the partition.
LEMMA AdviceCorrect == StartsWithin /\ runs \in Tables => AdviceUsable
<1> SUFFICES ASSUME StartsWithin, runs \in Tables,
                    NEW p \in 0 .. PartitionLength - 1, AtOrBefore(p) # {}
             PROVE  LET b == AdvisedBlock(p)
                    IN  0 <= b.start /\ b.start <= p /\ p < b.end /\ b.end <= PartitionLength
  BY DEF AdviceUsable
<1>1. CASE RunOf(p).type \in Filled \cup {"Raw"}
  BY <1>1, DefaultBlockUsable DEF AdvisedBlock
<1>2. CASE RunOf(p).type \notin Filled \cup {"Raw"}
  BY <1>2, RunBlockUsable DEF AdvisedBlock
<1> QED BY <1>1, <1>2

----------------------------------------------------------------------------
(* Sound tables.                                                           *)

\* The sector after a run: past its end.
End(i) == runs[i].start + runs[i].count

\* What soundness says of the runs of the partition.
LEMMA SoundRuns ==
  ASSUME TablesSound, runs \in Tables
  PROVE  /\ \A i \in Mapped : /\ i \in Nat
                              /\ runs[i].start \in Nat /\ runs[i].count \in Nat \ {0}
                              /\ End(i) \in Nat /\ runs[i].start < End(i)
                              /\ End(i) <= SectorCount
         /\ \A s \in Nat : s < SectorCount =>
              \E i \in Mapped : runs[i].start <= s /\ s < End(i)
         /\ \A i, j \in Mapped :
              i # j => End(i) <= runs[j].start \/ End(j) <= runs[i].start
<1>1. Sound(runs)
  BY DEF TablesSound
<1>2. \A i \in Mapped : i \in Nat
  BY TablesAssumption DEF Mapped
<1>3. \A i \in Mapped : /\ runs[i].start \in Nat /\ runs[i].count \in Nat \ {0}
                        /\ End(i) <= SectorCount
  BY <1>1 DEF Sound, Mapped, End
<1>4. \A i \in Mapped : End(i) \in Nat /\ runs[i].start < End(i)
  BY <1>3 DEF End
<1>5. \A s \in Nat : s < SectorCount =>
        \E i \in Mapped : runs[i].start <= s /\ s < End(i)
  BY <1>1, GeometryAssumption DEF Sound, Mapped, End
<1>6. \A i, j \in Mapped :
        i # j => End(i) <= runs[j].start \/ End(j) <= runs[i].start
  BY <1>1 DEF Sound, Mapped, End
<1> QED BY <1>2, <1>3, <1>4, <1>5, <1>6

\* No other run starts where a run starts: m_sectors has the run itself.
LEMMA SectorsOfRun ==
  ASSUME TablesSound, runs \in Tables, NEW i \in Mapped
  PROVE  Sectors[runs[i].start] = i
<1>1. \A j \in Mapped : runs[j].start = runs[i].start => j = i
  <2> SUFFICES ASSUME NEW j \in Mapped, runs[j].start = runs[i].start, j # i
               PROVE  FALSE
    OBVIOUS
  <2> QED BY SoundRuns
<1>2. {j \in Mapped : runs[j].start = runs[i].start} = {i}
  BY <1>1
<1>3. i \in Nat
  BY SoundRuns
<1>4. Max({i}) = i
  BY <1>3 DEF Max
<1>5. runs[i].start \in RunStarts
  BY DEF RunStarts
<1> QED BY <1>2, <1>4, <1>5 DEF Sectors

\* The run that is found for a position is the one that holds its sector.
LEMMA FoundRunHolds ==
  ASSUME TablesSound, runs \in Tables, NEW p \in 0 .. PartitionLength - 1
  PROVE  \E i \in Mapped :
           /\ RunOf(p) = runs[i] /\ RunStart(p) = runs[i].start
           /\ runs[i].start <= p \div SectorSize /\ p \div SectorSize < End(i)
<1> DEFINE q == p \div SectorSize
<1>1. SectorCount \in Nat /\ SectorSize \in Nat \ {0}
  BY GeometryAssumption
<1>2. PartitionLength \in Nat /\ PartitionLength = SectorCount * SectorSize
  BY <1>1 DEF PartitionLength
<1>3. p \in Nat /\ p < PartitionLength
  BY <1>2
<1>4. q \in Nat /\ q * SectorSize <= p
  BY <1>1, <1>3, Within
<1> HIDE DEF q
<1>5. q < SectorCount
  <2>1. q * SectorSize \in Nat
    BY <1>1, <1>4
  <2>2. q * SectorSize < SectorCount * SectorSize
    BY <1>2, <1>3, <1>4, <2>1
  <2> QED BY <1>1, <1>4, <2>2, Scaled
<1>6. PICK j \in Mapped : runs[j].start <= q /\ q < End(j)
  BY <1>4, <1>5, SoundRuns
<1>7. runs[j].start \in AtOrBefore(p)
  BY <1>6 DEF AtOrBefore, RunStarts, q
<1>8. /\ RunStart(p) \in RunStarts /\ RunStart(p) <= q
      /\ runs[j].start <= RunStart(p)
  BY <1>3, <1>6, <1>7, RunStartFound, SoundStartsWithin DEF q, AtOrBefore
<1>9. PICK i \in Mapped : RunStart(p) = runs[i].start
  BY <1>8 DEF RunStarts
<1>10. i = j
  <2> SUFFICES ASSUME i # j PROVE FALSE
    OBVIOUS
  <2> QED BY <1>4, <1>6, <1>8, <1>9, SoundRuns
<1>11. RunOf(p) = runs[i]
  BY <1>9, SectorsOfRun DEF RunOf
<1> QED BY <1>6, <1>9, <1>10, <1>11 DEF q

\* The sector after a run is the first of another, if there is one.
LEMMA RunAfter ==
  ASSUME TablesSound, runs \in Tables, NEW i \in Mapped, End(i) < SectorCount
  PROVE  End(i) \in RunStarts
<1>1. PICK j \in Mapped : runs[j].start <= End(i) /\ End(i) < End(j)
  BY SoundRuns
<1>2. End(i) <= runs[j].start \/ End(j) <= runs[i].start
  BY <1>1, SoundRuns
<1>3. runs[j].start = End(i)
  BY <1>1, <1>2, SoundRuns
<1> QED BY <1>3 DEF RunStarts

\* At the first position of a run, that run is found.
LEMMA RunStartAt ==
  ASSUME TablesSound, runs \in Tables, NEW s \in RunStarts
  PROVE  AtOrBefore(s * SectorSize) # {} /\ RunStart(s * SectorSize) = s
<1> DEFINE p == s * SectorSize
<1>1. s \in Nat /\ SectorSize \in Nat \ {0}
  BY SoundRuns, GeometryAssumption DEF RunStarts
<1>2. p \in Nat /\ p \div SectorSize = s
  BY <1>1, Quotient
<1> HIDE DEF p
<1>3. s \in AtOrBefore(p)
  BY <1>1, <1>2 DEF AtOrBefore
<1>4. RunStart(p) \in 0 .. SectorCount /\ RunStart(p) <= s /\ s <= RunStart(p)
  BY <1>1, <1>2, <1>3, RunStartFound, SoundStartsWithin
<1>5. RunStart(p) = s
  BY <1>1, <1>4, GeometryAssumption
<1> QED BY <1>3, <1>5 DEF p

----------------------------------------------------------------------------
(* The inductive invariant: after its first piece, read() is where a run   *)
(* starts.                                                                 *)

PartitionInv ==
  /\ runs \in Tables
  /\ offset \in Nat /\ count \in Nat /\ done \in Nat
  /\ pc = "loop" /\ done > 0 /\ done < count /\ ~ PastEnd =>
       \E s \in RunStarts : Position = s * SectorSize

\* The state before the first call.
LEMMA PartitionInvInit == Init => PartitionInv
BY DEF Init, PartitionInv

\* A piece starts at the position that is due and ends within the run that
\* is found for it: at its end, unless less is asked for.
LEMMA PieceOfRun ==
  ASSUME PartitionInv, TablesSound, InLoop
  PROVE  \E i \in Mapped :
           /\ RunStart(Position) * SectorSize + InRun = Position
           /\ ThisTime \in Nat /\ ThisTime > 0 /\ ThisTime <= count - done
           /\ End(i) \in Nat /\ End(i) <= SectorCount /\ End(i) * SectorSize \in Nat
           /\ Position + ThisTime <= End(i) * SectorSize
           /\ ThisTime = count - done \/ Position + ThisTime = End(i) * SectorSize
<1>1. /\ runs \in Tables /\ offset \in Nat /\ count \in Nat /\ done \in Nat
      /\ pc = "loop" /\ done < count /\ ~ PastEnd
      /\ SectorCount \in Nat /\ SectorSize \in Nat \ {0}
  BY GeometryAssumption DEF PartitionInv, InLoop
<1> DEFINE p == Position
<1>2. PartitionLength \in Nat /\ PartitionLength = SectorCount * SectorSize
  BY <1>1 DEF PartitionLength
<1>3. p \in 0 .. PartitionLength - 1 /\ p = offset + done
  BY <1>1, <1>2 DEF PastEnd, Position
<1>4. PICK i \in Mapped :
        /\ RunOf(p) = runs[i] /\ RunStart(p) = runs[i].start
        /\ runs[i].start <= p \div SectorSize /\ p \div SectorSize < End(i)
  BY <1>1, <1>3, FoundRunHolds
<1>5. /\ runs[i].start \in Nat /\ runs[i].count \in Nat /\ End(i) \in Nat
      /\ End(i) <= SectorCount
  BY <1>1, SoundRuns
<1>6. p \in Nat /\ p < End(i) * SectorSize
  <2>1. p \in Nat
    BY <1>2, <1>3
  <2>2. /\ p \div SectorSize \in Nat
        /\ p < ((p \div SectorSize) + 1) * SectorSize
    BY <1>1, <2>1, Within
  <2>3. (p \div SectorSize) + 1 <= End(i)
    BY <1>4, <1>5, <2>2
  <2>4. ((p \div SectorSize) + 1) * SectorSize <= End(i) * SectorSize
    BY <1>1, <1>5, <2>2, <2>3, Scaled
  <2>5. ((p \div SectorSize) + 1) * SectorSize \in Nat /\ End(i) * SectorSize \in Nat
    BY <1>1, <1>5, <2>2
  <2> QED BY <2>1, <2>2, <2>4, <2>5
<1>7. InRun = p - runs[i].start * SectorSize
  <2>1. CASE done = 0
    BY <1>1, <1>3, <1>4, <2>1 DEF InRun
  <2>2. CASE done # 0
    <3>1. PICK s \in RunStarts : p = s * SectorSize
      BY <1>1, <2>2 DEF PartitionInv
    <3>2. RunStart(p) = s
      BY <1>1, <3>1, RunStartAt
    <3>3. s \in Nat
      BY <1>4, <1>5, <3>2
    <3>4. s * SectorSize \in Int
      BY <1>1, <3>3
    <3> QED BY <1>1, <1>4, <2>2, <3>1, <3>2, <3>4 DEF InRun
  <2> QED BY <2>1, <2>2
<1>8. runs[i].count * SectorSize - InRun = End(i) * SectorSize - p
  <2>1. End(i) * SectorSize = runs[i].start * SectorSize + runs[i].count * SectorSize
    BY <1>1, <1>5 DEF End
  <2>2. /\ runs[i].start * SectorSize \in Int /\ runs[i].count * SectorSize \in Int
        /\ End(i) * SectorSize \in Int
    BY <1>1, <1>5
  <2> QED BY <1>6, <1>7, <2>1, <2>2
<1> DEFINE rest == End(i) * SectorSize - p
<1>9. End(i) * SectorSize \in Nat /\ rest \in Nat /\ rest > 0
  <2>1. End(i) * SectorSize \in Nat
    BY <1>1, <1>5
  <2> QED BY <1>6, <2>1
<1>10. ThisTime = IF rest > count - done THEN count - done ELSE rest
  BY <1>1, <1>4, <1>8, <1>9 DEF ThisTime
<1>11. runs[i].start * SectorSize \in Int
  BY <1>1, <1>5
<1>12. /\ RunStart(p) * SectorSize + InRun = p
       /\ ThisTime \in Nat /\ ThisTime > 0 /\ ThisTime <= count - done
       /\ p + ThisTime <= End(i) * SectorSize
       /\ ThisTime = count - done \/ p + ThisTime = End(i) * SectorSize
  <2> HIDE DEF p
  <2>1. InRun = p - runs[i].start * SectorSize /\ RunStart(p) = runs[i].start
    BY <1>4, <1>7
  <2>2. RunStart(p) * SectorSize + InRun = p
    BY <1>6, <1>11, <2>1
  <2> QED BY <1>1, <1>6, <1>9, <1>10, <2>2
<1> QED BY <1>5, <1>9, <1>12

\* A piece that is not the last goes up to the end of its run.
LEMMA AdvanceInv ==
  ASSUME PartitionInv, TablesSound, InLoop, Advance(ThisTime)
  PROVE  PartitionInv'
<1>1. /\ runs \in Tables /\ offset \in Nat /\ count \in Nat /\ done \in Nat /\ pc = "loop"
      /\ Position = offset + done
      /\ SectorCount \in Nat /\ SectorSize \in Nat /\ PartitionLength = SectorCount * SectorSize
  BY GeometryAssumption DEF PartitionInv, InLoop, Position, PartitionLength
<1>2. PICK i \in Mapped :
        /\ ThisTime \in Nat /\ ThisTime > 0 /\ ThisTime <= count - done
        /\ End(i) \in Nat /\ End(i) <= SectorCount /\ End(i) * SectorSize \in Nat
        /\ ThisTime = count - done \/ Position + ThisTime = End(i) * SectorSize
  BY PieceOfRun
<1> DEFINE made == done + ThisTime
<1>3. /\ done' = made /\ pc' = pc /\ runs' = runs /\ offset' = offset /\ count' = count
  BY <1>2 DEF Advance
<1>4. made \in Nat /\ (ThisTime = count - done => made = count)
  BY <1>1, <1>2
<1> HIDE DEF made
<1>5. ASSUME done' < count', ~ PastEnd'
      PROVE  \E s \in RunStarts' : Position' = s * SectorSize
  <2>1. made # count
    BY <1>1, <1>3, <1>4, <1>5
  <2>2. Position' = offset + made
    BY <1>3 DEF Position
  <2>3. offset + made = End(i) * SectorSize
    BY <1>1, <1>2, <1>4, <2>1 DEF made
  <2>4. End(i) * SectorSize < SectorCount * SectorSize
    <3>1. PartitionLength' = PartitionLength
      BY DEF PartitionLength
    <3>2. ~ (End(i) * SectorSize >= PartitionLength)
      BY <1>5, <2>2, <2>3, <3>1 DEF PastEnd
    <3>3. SectorCount * SectorSize \in Nat
      BY <1>1
    <3> QED BY <1>1, <1>2, <3>2, <3>3
  <2>5. End(i) < SectorCount
    BY <1>1, <1>2, <2>4, GeometryAssumption, Scaled
  <2>6. End(i) \in RunStarts
    BY <1>1, <2>5, RunAfter
  <2>7. RunStarts' = RunStarts
    BY <1>3 DEF RunStarts, Mapped
  <2> QED BY <2>2, <2>3, <2>6, <2>7
<1> QED BY <1>1, <1>3, <1>4, <1>5 DEF PartitionInv

\* A piece that delivers nothing ends the call.
LEMMA FailInv ==
  ASSUME PartitionInv, Advance(0)
  PROVE  PartitionInv'
BY DEF PartitionInv, Advance

\* Every step keeps the invariant, if the disk delivers what it is asked for
\* or nothing.
LEMMA PartitionInvNext ==
  ASSUME TablesSound, DiskFaults = {}, PartitionInv, [Next]_vars
  PROVE  PartitionInv'
<1>1. ASSUME NEW o \in Offsets, NEW n \in Counts, Read(o, n) PROVE PartitionInv'
  BY <1>1, GeometryAssumption DEF Read, PartitionInv
<1>2. ASSUME Finish \/ NoRun \/ Leave PROVE PartitionInv'
  BY <1>2 DEF Finish, NoRun, Leave, PartitionInv
<1>3. ASSUME FillZeroes PROVE PartitionInv'
  BY <1>3, AdvanceInv DEF FillZeroes, InA
<1>4. ASSUME ReadRaw PROVE PartitionInv'
  BY <1>4, AdvanceInv, FailInv DEF ReadRaw, InA
<1>5. ASSUME Decompress PROVE PartitionInv'
  BY <1>5, AdvanceInv, FailInv DEF Decompress, InA
<1>6. ASSUME NoSuchType PROVE PartitionInv'
  BY <1>6, FailInv DEF NoSuchType
<1>7. CASE UNCHANGED vars
  BY <1>7 DEF vars, PartitionInv, PastEnd, Position, RunStarts, Mapped
<1> QED BY <1>1, <1>2, <1>3, <1>4, <1>5, <1>6, <1>7 DEF Next, Step

\* What the invariant says of the run that is found.
LEMMA PartitionInvAtRunStart ==
  ASSUME TablesSound, PartitionInv
  PROVE  AtRunStart
<1> SUFFICES ASSUME pc = "loop", done > 0, done < count, ~ PastEnd
             PROVE  /\ AtOrBefore(Position) # {}
                    /\ Position = RunStart(Position) * SectorSize
  BY DEF AtRunStart
<1>1. PICK s \in RunStarts : Position = s * SectorSize
  BY DEF PartitionInv
<1> QED BY <1>1, RunStartAt DEF PartitionInv

----------------------------------------------------------------------------
(* The theorems.                                                           *)

\* Whatever the run a position is in, adviseOptimalBlock() advises a block
\* that contains the position and lies within the partition, if no run
\* starts past the end: the table need not be sound otherwise.
THEOREM PartitionAdviceUsable ==
  ASSUME StartsWithin
  PROVE  Spec => []AdviceUsable
<1>1. Init => runs \in Tables
  BY DEF Init
<1>2. runs \in Tables /\ [Next]_vars => (runs \in Tables)'
  BY DEF Next, Step, Read, Finish, NoRun, FillZeroes, ReadRaw, Decompress,
         NoSuchType, Leave, Advance, vars
<1>3. runs \in Tables => AdviceUsable
  BY AdviceCorrect
<1> QED BY <1>1, <1>2, <1>3, PTL DEF Spec

\* Every run that is not skipped starts where a block of the cache starts.
StartsAligned ==
  \A table \in Tables : \A i \in DOMAIN table :
    table[i].type \notin Skipped => (table[i].start * SectorSize) % BlockSize = 0

\* What CachedReader assumes of the reader it caches: the block advised for
\* a position contains it and lies within the reader (AdviceAssumption), and
\* it ends where a block of the cache ends, or the reader (EndAligned).
SuitsCache ==
  \A p \in 0 .. PartitionLength - 1 :
    LET b == AdvisedBlock(p) IN
    /\ b.start \in Nat /\ b.end \in Nat
    /\ b.start <= p /\ p < b.end /\ b.end <= PartitionLength
    /\ b.end % BlockSize = 0 \/ b.end = PartitionLength

\* The ends of the block that Reader advises are positions, and the second
\* is that of a block of the cache or of the partition.
LEMMA DefaultBlockAligned ==
  ASSUME NEW p \in 0 .. PartitionLength - 1
  PROVE  LET b == DefaultBlock(p)
         IN  /\ b.start \in Int /\ b.end \in Int
             /\ b.end % BlockSize = 0 \/ b.end = PartitionLength
<1>1. BlockSize \in Nat \ {0} /\ PartitionLength \in Nat /\ p \in Int
  BY GeometryAssumption DEF PartitionLength
<1> DEFINE start == p - (p % BlockSize)
<1>2. start \in Int
  BY <1>1, ModRange
<1>3. start % BlockSize = 0
  BY <1>1, StartAligned
<1> HIDE DEF start
<1>4. (start + BlockSize) % BlockSize = 0
  BY <1>1, <1>2, <1>3, NextAligned
<1>5. DefaultBlock(p) =
        [start |-> start,
         end   |-> IF start + BlockSize > PartitionLength THEN PartitionLength
                   ELSE start + BlockSize]
  BY DEF DefaultBlock, start
<1> QED BY <1>1, <1>2, <1>4, <1>5

\* So are those of a compressed run, if the runs start where blocks start.
LEMMA RunBlockAligned ==
  ASSUME TablesSound, StartsAligned, runs \in Tables,
         NEW p \in 0 .. PartitionLength - 1
  PROVE  /\ RunStart(p) * SectorSize \in Int
         /\ After(p) # {} => /\ Min(After(p)) * SectorSize \in Int
                             /\ (Min(After(p)) * SectorSize) % BlockSize = 0
<1>1. SectorSize \in Nat /\ RunStarts \in SUBSET Nat
  BY RunStartsBounded, SoundStartsWithin, GeometryAssumption
<1>2. RunStart(p) \in Nat
  BY FoundRunHolds, SoundRuns
<1>3. ASSUME After(p) # {} PROVE Min(After(p)) \in RunStarts
  <2>1. After(p) \in SUBSET Nat
    BY <1>1 DEF After
  <2>2. Min(After(p)) \in After(p)
    BY <1>3, <2>1, MinNat
  <2> QED BY <2>2 DEF After
<1>4. \A s \in RunStarts : s * SectorSize \in Int /\ (s * SectorSize) % BlockSize = 0
  <2> TAKE s \in RunStarts
  <2>1. PICK i \in Mapped : runs[i].start = s
    BY DEF RunStarts
  <2>2. (runs[i].start * SectorSize) % BlockSize = 0
    BY <2>1 DEF StartsAligned, Mapped
  <2> QED BY <1>1, <2>1, <2>2
<1>5. RunStart(p) * SectorSize \in Int
  BY <1>1, <1>2
<1>6. ASSUME After(p) # {}
      PROVE  /\ Min(After(p)) * SectorSize \in Int
             /\ (Min(After(p)) * SectorSize) % BlockSize = 0
  BY <1>3, <1>4, <1>6
<1> QED BY <1>5, <1>6

\* In a sound table there is a run for every position, so there is a block
\* for each, and it suits the cache.
LEMMA AdviceSuits ==
  TablesSound /\ StartsAligned /\ runs \in Tables => SuitsCache
<1> SUFFICES ASSUME TablesSound, StartsAligned, runs \in Tables,
                    NEW p \in 0 .. PartitionLength - 1
             PROVE  LET b == AdvisedBlock(p) IN
                    /\ b.start \in Nat /\ b.end \in Nat
                    /\ b.start <= p /\ p < b.end /\ b.end <= PartitionLength
                    /\ b.end % BlockSize = 0 \/ b.end = PartitionLength
  BY DEF SuitsCache
<1>1. PartitionLength \in Nat
  BY GeometryAssumption DEF PartitionLength
<1>2. PICK i \in Mapped : runs[i].start <= p \div SectorSize
  BY FoundRunHolds
<1>3. AtOrBefore(p) # {}
  BY <1>2 DEF AtOrBefore, RunStarts
<1> DEFINE b == AdvisedBlock(p)
<1>4. 0 <= b.start /\ b.start <= p /\ p < b.end /\ b.end <= PartitionLength
  BY <1>3, AdviceCorrect, SoundStartsWithin DEF AdviceUsable
<1>5. /\ b.start \in Int /\ b.end \in Int
      /\ b.end % BlockSize = 0 \/ b.end = PartitionLength
  <2>1. CASE RunOf(p).type \in Filled \cup {"Raw"}
    BY <2>1, DefaultBlockAligned DEF AdvisedBlock
  <2>2. CASE RunOf(p).type \notin Filled \cup {"Raw"}
    BY <1>1, <2>2, RunBlockAligned DEF AdvisedBlock
  <2> QED BY <2>1, <2>2
<1> HIDE DEF b
<1>6. b.start \in Nat /\ b.end \in Nat
  BY <1>4, <1>5
<1> QED BY <1>4, <1>5, <1>6 DEF b

\* A partition whose run table is sound, and whose runs start where blocks of
\* the cache start, advises for every position what CachedReader assumes of
\* the reader below it and what its theorems have as a hypothesis.
THEOREM PartitionSuitsCache ==
  ASSUME TablesSound, StartsAligned
  PROVE  Spec => []SuitsCache
<1>1. Init => runs \in Tables
  BY DEF Init
<1>2. runs \in Tables /\ [Next]_vars => (runs \in Tables)'
  BY DEF Next, Step, Read, Finish, NoRun, FillZeroes, ReadRaw, Decompress,
         NoSuchType, Leave, Advance, vars
<1>3. runs \in Tables => SuitsCache
  BY AdviceSuits
<1> QED BY <1>1, <1>2, <1>3, PTL DEF Spec

\* When read() goes on after a piece, it is at the first byte of a run: the
\* offset into the run may be forgotten, if the table is sound and the disk
\* gives all or nothing.
THEOREM PartitionAtRunStart ==
  ASSUME TablesSound, DiskFaults = {}
  PROVE  Spec => []AtRunStart
<1>1. PartitionInv /\ [Next]_vars => PartitionInv'
  BY PartitionInvNext
<1>2. PartitionInv => AtRunStart
  BY PartitionInvAtRunStart
<1> QED BY <1>1, <1>2, PartitionInvInit, PTL DEF Spec

----------------------------------------------------------------------------
(* The contract of Reader.                                                 *)

\* What read() has put into the buffer: the bytes asked for, from the first
\* on, and all of them when it returns.
FillInv ==
  pc \in {"loop", "returned"} =>
    /\ done <= count
    /\ done = 0 \/ offset + done <= PartitionLength
    /\ buf = [i \in 0 .. done - 1 |-> Byte(offset + i)]
    /\ pc = "returned" => done >= count \/ PastEnd

\* A piece follows what is in the buffer.
LEMMA AdvanceFills ==
  ASSUME PartitionInv, FillInv, TablesSound, InLoop, Advance(ThisTime)
  PROVE  FillInv' /\ pc' = "loop" /\ offset' = offset /\ count' = count
<1>1. /\ offset \in Nat /\ count \in Nat /\ done \in Nat /\ pc = "loop"
      /\ done <= count /\ buf = [i \in 0 .. done - 1 |-> Byte(offset + i)]
      /\ Position = offset + done
      /\ SectorCount \in Nat /\ SectorSize \in Nat /\ PartitionLength = SectorCount * SectorSize
  BY GeometryAssumption DEF PartitionInv, FillInv, InLoop, Position, PartitionLength
<1> DEFINE n    == ThisTime
           made == done + n
           at   == RunStart(Position) * SectorSize + InRun
<1>2. PICK i \in Mapped :
        /\ at = Position
        /\ n \in Nat /\ n > 0 /\ n <= count - done
        /\ End(i) \in Nat /\ End(i) <= SectorCount /\ End(i) * SectorSize \in Nat
        /\ Position + n <= End(i) * SectorSize
  BY PieceOfRun
<1>3. /\ done' = done + n /\ pc' = "loop" /\ offset' = offset /\ count' = count
      /\ buf' = [j \in DOMAIN buf \cup done .. done + n - 1 |->
                   IF j \in done .. done + n - 1 THEN Byte(at + (j - done)) ELSE buf[j]]
  <2>1. n # 0 /\ pc = "loop"
    BY <1>1, <1>2
  <2> QED BY <2>1, Zenon DEF Advance
<1> HIDE DEF n, at
<1>4. made \in Nat /\ made <= count
  BY <1>1, <1>2
<1>5. offset + made <= PartitionLength
  <2>1. End(i) * SectorSize <= SectorCount * SectorSize
    BY <1>1, <1>2, GeometryAssumption, Scaled
  <2>2. SectorCount * SectorSize \in Nat
    BY <1>1
  <2> QED BY <1>1, <1>2, <2>1, <2>2
<1>6. buf' = [j \in 0 .. made - 1 |-> Byte(offset + j)]
  <2>1. DOMAIN buf = 0 .. done - 1
    BY <1>1
  <2>2. (DOMAIN buf \cup done .. made - 1) = 0 .. made - 1
    BY <1>1, <1>2, <2>1
  <2>3. ASSUME NEW j \in 0 .. made - 1
        PROVE  (IF j \in done .. made - 1 THEN Byte(at + (j - done)) ELSE buf[j]) = Byte(offset + j)
    <3>1. CASE j \in done .. made - 1
      <4>1. at + (j - done) = offset + j
        BY <1>1, <1>2, <2>3
      <4> QED BY <3>1, <4>1
    <3>2. CASE j \notin done .. made - 1
      <4>1. j \in 0 .. done - 1
        BY <1>1, <1>4, <2>3, <3>2
      <4> QED BY <1>1, <3>2, <4>1
    <3> QED BY <3>1, <3>2
  <2>4. (done .. made - 1) = (done .. done + n - 1)
    BY <1>1, <1>2 DEF made
  <2>5. buf' = [j \in DOMAIN buf \cup done .. made - 1 |->
                 IF j \in done .. made - 1 THEN Byte(at + (j - done)) ELSE buf[j]]
    BY <1>3, <2>4, Zenon
  <2> HIDE DEF made
  <2> QED BY <2>2, <2>3, <2>5
<1>7. PartitionLength' = PartitionLength
  BY DEF PartitionLength
<1>8. done' = made
  BY <1>3
<1> HIDE DEF made
<1>9. FillInv'
  BY <1>3, <1>4, <1>5, <1>6, <1>7, <1>8 DEF FillInv
<1> QED BY <1>3, <1>9

\* Every step keeps the buffer right.
LEMMA FillInvNext ==
  ASSUME TablesSound, DiskFaults = {}, PartitionInv, FillInv, [Next]_vars
  PROVE  FillInv'
<1>1. ASSUME NEW o \in Offsets, NEW n \in Counts, Read(o, n) PROVE FillInv'
  <2>1. n \in Nat /\ pc' = "loop" /\ count' = n /\ done' = 0 /\ buf' = Nothing
    BY <1>1, GeometryAssumption DEF Read
  <2>2. Nothing = [i \in 0 .. 0 - 1 |-> Byte(offset' + i)]
    BY DEF Nothing
  <2> QED BY <2>1, <2>2 DEF FillInv
<1>2. ASSUME Finish PROVE FillInv'
  BY <1>2 DEF Finish, FillInv, PastEnd, Position, PartitionLength
<1>3. ASSUME pc' \notin {"loop", "returned"} PROVE FillInv'
  BY <1>3 DEF FillInv
<1>4. ASSUME InLoop, Advance(0) PROVE FillInv'
  BY <1>4 DEF Advance, FillInv
<1>5. CASE Step
  BY <1>2, <1>3, <1>4, <1>5, AdvanceFills
  DEF Step, NoRun, Leave, FillZeroes, ReadRaw, Decompress, NoSuchType, InA
<1>6. CASE UNCHANGED vars
  BY <1>6 DEF vars, FillInv, PastEnd, Position, PartitionLength
<1> QED BY <1>1, <1>5, <1>6 DEF Next

\* When read() returns, it has delivered what the contract prescribes.
LEMMA ReturnsSlice ==
  ASSUME PartitionInv, FillInv, pc = "loop", done >= count \/ PastEnd
  PROVE  buf = R!Slice(Partition, offset, count)
<1> DEFINE c == R!Clamped(Partition, offset, count)
<1>1. /\ offset \in Nat /\ count \in Nat /\ done \in Nat /\ PartitionLength \in Nat
      /\ done <= count /\ (done = 0 \/ offset + done <= PartitionLength)
      /\ buf = [i \in 0 .. done - 1 |-> Byte(offset + i)]
      /\ done >= count \/ offset + done >= PartitionLength
  BY GeometryAssumption DEF PartitionInv, FillInv, PastEnd, Position, PartitionLength
<1>2. c = IF offset >= PartitionLength THEN 0
          ELSE IF offset + count > PartitionLength THEN PartitionLength - offset ELSE count
  BY DEF R!Clamped
<1> HIDE DEF c
<1>3. c = done
  BY <1>1, <1>2
<1> QED BY <1>1, <1>3 DEF R!Slice, R!Byte, Byte, c

\* The call as the contract sees it while it runs, and when it has ended.
LEMMA CallsWhile ==
  /\ pc = "idle" => Calls = <<>>
  /\ pc # "idle" => Calls # <<>> /\ Len(Calls) = 1 /\ R!Innermost = Calls[1]
  /\ pc = "loop" => R!Running
       /\ Calls = <<R!CallWith(Partition, offset, count, "running", Nothing)>>
  /\ pc = "failed" => Calls = <<R!CallWith(Partition, offset, count, "failed", Nothing)>>
  /\ pc = "returned" => Calls = <<R!CallWith(Partition, offset, count, "answered", buf)>>
BY DEF Calls, R!Innermost, R!Running, R!CallWith

\* A piece, or its failure.
LEMMA RefPiece ==
  ASSUME pc = "loop", offset' = offset, count' = count, pc' \in {"loop", "failed"}
  PROVE  R!Fail \/ Calls' = Calls
<1> DEFINE c == R!CallWith(Partition, offset, count, "running", Nothing)
           d == R!CallWith(Partition, offset, count, "failed", Nothing)
<1>1. Calls = <<c>> /\ R!Running /\ Len(Calls) = 1
  BY CallsWhile
<1>2. CASE pc' = "loop"
  <2>1. Calls' = <<c>>
    BY <1>2 DEF Calls, R!CallWith
  <2> QED BY <1>1, <2>1
<1>3. CASE pc' = "failed"
  <2>1. Calls' = <<d>>
    BY <1>3 DEF Calls, R!CallWith
  <2>2. d = [c EXCEPT !.status = "failed"]
    BY DEF R!CallWith
  <2> HIDE DEF c, d
  <2>3. Calls' = [Calls EXCEPT ![1].status = "failed"]
    BY <1>1, <2>1, <2>2
  <2> QED BY <1>1, <2>3 DEF R!Fail
<1> QED BY <1>2, <1>3

\* The last piece has been read.
LEMMA RefAnswer ==
  ASSUME PartitionInv, FillInv, Finish
  PROVE  R!Answer
<1> DEFINE c     == R!CallWith(Partition, offset, count, "running", Nothing)
           slice == R!Slice(Partition, offset, count)
<1>1. pc = "loop" /\ done \in Nat /\ pc' = "returned" /\ UNCHANGED <<offset, count, buf>>
  BY DEF Finish, PartitionInv
<1>2. buf = slice
  BY <1>1, ReturnsSlice DEF Finish
<1>3. Calls = <<c>> /\ R!Running /\ Len(Calls) = 1 /\ R!Innermost = c
  BY <1>1, CallsWhile
<1>4. c.tag = Partition /\ c.offset = offset /\ c.count = count
  BY DEF R!CallWith
<1> HIDE DEF c, slice
<1>5. Calls' = <<R!CallWith(Partition, offset, count, "answered", slice)>>
  BY <1>1, <1>2 DEF Calls, R!CallWith
<1>6. Calls' = [Calls EXCEPT ![1] = R!CallWith(Partition, offset, count, "answered", slice)]
  BY <1>3, <1>5
<1> QED BY <1>3, <1>4, <1>6 DEF R!Answer, slice

\* The caller leaves with what it got.
LEMMA RefLeave ==
  ASSUME Leave
  PROVE  R!Return \/ R!Raise
<1>1. pc \in {"returned", "failed"} /\ pc' = "idle"
  BY DEF Leave
<1>2. Calls' = <<>> /\ Calls # <<>> /\ Len(Calls) = 1 /\ R!Innermost = Calls[1]
  <2>1. Calls' = <<>>
    BY <1>1 DEF Calls
  <2> QED BY <1>1, <2>1, CallsWhile
<1>3. SubSeq(Calls, 1, 0) = <<>>
  BY <1>2
<1>4. CASE pc = "returned"
  <2>1. R!Innermost.status = "answered"
    BY <1>2, <1>4, CallsWhile DEF R!CallWith
  <2> QED BY <1>2, <1>3, <2>1 DEF R!Return
<1>5. CASE pc = "failed"
  <2>1. R!Innermost.status = "failed"
    BY <1>2, <1>5, CallsWhile DEF R!CallWith
  <2> QED BY <1>2, <1>3, <2>1 DEF R!Raise
<1> QED BY <1>1, <1>4, <1>5

\* A partition takes the steps of the contract.
LEMMA PartitionIsReader ==
  ASSUME TablesSound, DiskFaults = {}
  PROVE  Init /\ [][Next]_vars => R!SafeSpec
<1>1. Init => R!Init /\ FillInv
  BY DEF Init, R!Init, Calls, FillInv
<1>2. PartitionInv /\ [Next]_vars => PartitionInv'
  BY PartitionInvNext
<1>3. PartitionInv /\ FillInv /\ [Next]_vars => FillInv'
  BY FillInvNext
<1>4. ASSUME PartitionInv, FillInv, [Next]_vars PROVE [R!Next]_Calls
  <2>1. ASSUME NEW o \in Offsets, NEW n \in Counts, Read(o, n) PROVE R!Next
    <3>1. Calls = <<>>
      BY <2>1 DEF Read, Calls
    <3>2. Calls' = <<R!CallWith(Partition, o, n, "running", Nothing)>>
      BY <2>1 DEF Read, Calls, R!CallWith
    <3>3. Nothing = R!Nothing
      BY DEF Nothing, R!Nothing
    <3>4. R!Call(Partition, o, n)
      BY <3>1, <3>2, <3>3 DEF R!Call
    <3> QED BY <3>4 DEF R!Next
  <2>2. ASSUME Finish PROVE R!Next
    BY <1>4, <2>2, RefAnswer DEF R!Next, R!Progress
  <2>3. ASSUME Leave PROVE R!Next
    BY <2>3, RefLeave DEF R!Next, R!Progress
  <2>4. ASSUME NoRun \/ (InLoop /\ Advance(0)) PROVE [R!Next]_Calls
    <3>1. pc = "loop" /\ offset' = offset /\ count' = count /\ pc' = "failed"
      BY <2>4 DEF NoRun, InLoop, Advance
    <3> QED BY <3>1, RefPiece DEF R!Next, R!Progress
  <2>5. ASSUME InLoop, Advance(ThisTime) PROVE [R!Next]_Calls
    <3>1. pc = "loop" /\ offset' = offset /\ count' = count /\ pc' = "loop"
      BY <1>4, <2>5, AdvanceFills DEF InLoop
    <3> QED BY <3>1, RefPiece DEF R!Next, R!Progress
  <2>6. CASE Step
    BY <2>2, <2>3, <2>4, <2>5, <2>6
    DEF Step, FillZeroes, ReadRaw, Decompress, NoSuchType, InA
  <2>7. CASE UNCHANGED vars
    BY <2>7 DEF vars, Calls
  <2> QED BY <1>4, <2>1, <2>6, <2>7 DEF Next
<1> QED BY <1>1, <1>2, <1>3, <1>4, PartitionInvInit, PTL DEF R!SafeSpec

\* A DMGPartition implements the contract of Reader, but for its fairness: if
\* the table is sound and the disk gives all or nothing, an answer is the
\* slice of the partition that was asked for, whichever runs it spans.
THEOREM PartitionImplementsReader ==
  ASSUME TablesSound, DiskFaults = {}
  PROVE  Spec => R!SafeSpec
BY PartitionIsReader, PTL DEF Spec

----------------------------------------------------------------------------
(* The partition with its decompressors.                                   *)


\* The runs that are not skipped have a start within the partition and a
\* length; they may overlap, leave holes, or go past the end.
RunsMeasured ==
  /\ StartsWithin
  /\ \A table \in Tables : \A i \in DOMAIN table :
       table[i].type \notin Skipped => table[i].count \in Nat

\* The runs of a sound table are measured.
LEMMA SoundMeasured == TablesSound => RunsMeasured
<1> SUFFICES ASSUME TablesSound,
                    NEW table \in Tables, NEW i \in DOMAIN table, table[i].type \notin Skipped
             PROVE  table[i].count \in Nat
  BY SoundStartsWithin DEF RunsMeasured
<1> QED BY DEF TablesSound, Sound

\* The run of a position is one of the table.
LEMMA RunFound ==
  ASSUME StartsWithin, runs \in Tables, NEW p \in Nat, AtOrBefore(p) # {}
  PROVE  \E i \in Mapped : RunOf(p) = runs[i]
<1> DEFINE s    == RunStart(p)
           same == {i \in Mapped : runs[i].start = s}
<1>1. s \in RunStarts
  BY RunStartFound
<1>2. same \in SUBSET Nat /\ \A i \in same : i <= Len(runs)
  BY TablesAssumption DEF Mapped
<1>3. same # {}
  BY <1>1 DEF RunStarts
<1>4. Len(runs) \in Nat
  BY TablesAssumption
<1>5. Max(same) \in same
  <2> HIDE DEF same
  <2> QED BY <1>2, <1>3, <1>4, MaxNat
<1>6. RunOf(p) = runs[Max(same)]
  BY <1>1 DEF RunOf, Sectors
<1> QED BY <1>5, <1>6

Size == RunOf(Position).count * SectorSize

\* read() goes on from a position of the partition, with bytes to go.
ReadInv ==
  /\ runs \in Tables /\ offset \in Nat /\ count \in Nat /\ done \in Int

\* What readRun() computes for the run it is in.
LEMMA RunMeasured ==
  ASSUME RunsMeasured, ReadInv, NEW types, InA(types)
  PROVE  /\ InRun \in Nat /\ Size \in Nat /\ RunStart(Position) * SectorSize \in Nat
         /\ ThisTime \in Nat
         /\ InRun <= Size => InRun + ThisTime <= Size
<1>1. /\ runs \in Tables /\ offset \in Nat /\ count \in Nat /\ done \in Int
      /\ SectorCount \in Nat /\ SectorSize \in Nat \ {0}
  BY GeometryAssumption DEF ReadInv
<1>2. done < count /\ Position \in Nat /\ Position = offset + done /\ AtOrBefore(Position) # {}
  <2>1. PartitionLength \in Nat
    BY <1>1 DEF PartitionLength
  <2> QED BY <1>1, <2>1 DEF InA, InLoop, PastEnd, Position
<1> DEFINE p == Position
           s == RunStart(p)
<1>3. s \in RunStarts /\ s \in Nat /\ s <= p \div SectorSize
  BY <1>1, <1>2, RunStartFound DEF RunsMeasured
<1>4. s * SectorSize \in Nat /\ s * SectorSize <= p
  <2>1. p \div SectorSize \in Nat /\ (p \div SectorSize) * SectorSize <= p
    BY <1>1, <1>2, Within
  <2> HIDE DEF s, p
  <2>2. s * SectorSize <= (p \div SectorSize) * SectorSize
    BY <1>1, <1>3, <2>1, Scaled
  <2>3. s * SectorSize \in Nat /\ (p \div SectorSize) * SectorSize \in Nat
    BY <1>1, <1>3, <2>1
  <2> QED BY <1>2, <2>1, <2>2, <2>3 DEF p
<1>5. RunOf(p).count \in Nat
  <2>1. PICK i \in Mapped : RunOf(p) = runs[i]
    BY <1>1, <1>2, RunFound DEF RunsMeasured
  <2> QED BY <1>1, <2>1 DEF RunsMeasured, Mapped
<1>6. InRun \in Nat
  BY <1>1, <1>2, <1>4 DEF InRun
<1>7. Size \in Nat
  BY <1>1, <1>5 DEF Size
<1>8. ThisTime = IF Size - InRun < 0 \/ Size - InRun > count - done
                 THEN count - done ELSE Size - InRun
  BY DEF ThisTime, Size
<1>9. count - done \in Nat
  BY <1>1, <1>2
<1> QED BY <1>4, <1>6, <1>7, <1>8, <1>9

----------------------------------------------------------------------------
(* The invariants.                                                         *)

\* A decompressor works on a stream of the run read() is in, for the bytes
\* read() wants of it.
CallInv ==
  /\ dpc \in {"idle", "outer", "inner", "returned", "failed"}
  /\ dpc # "idle" =>
       /\ InA(Codecs) /\ InRun <= Size
       /\ stream \in StreamsOf(RunOf(Position))
       /\ request = [offset |-> InRun, count |-> ThisTime]

\* What has been read of the run is what the codec has used and what is left
\* in m_buf, where next_in points to it.
InputInv ==
  /\ m_pos \in Nat /\ m_pos <= InLen /\ fed \in Nat /\ next \in Nat /\ avail \in Nat
  /\ fed + avail = m_pos
  /\ avail > 0 => next = fed
  /\ stream.kind = "LZFSE" => fed = 0 /\ next = 0
  /\ dpc = "idle" => m_pos = 0 /\ fed = 0 /\ next = 0 /\ avail = 0
  /\ produced \in Int /\ goal \in Int /\ left \in Int /\ skip \in Int
  /\ dpc = "returned" => result \in Int

\* The stream holds all that is asked for.
Whole == request.offset + request.count <= stream.len

\* A call of inflate() or of BZ2_bzDecompress() that ends the stream is told
\* apart from one that fills the buffer: bzip2 claims a full buffer.
Steady == stream.kind = "Zlib" \/ (stream.kind = "Bzip2" /\ Whole)

\* The bytes at the offset that was asked for, n of them.
Delivered(n) == out = [i \in 0 .. n - 1 |-> request.offset + i]

\* What the codec has delivered is what has been skipped so far, and then
\* what is in the caller's buffer; LZFSE delivers once.
SkipInv ==
  /\ dpc = "idle" => produced = 0 /\ out = Nothing
  /\ stream.kind = "LZFSE" => produced \in Nat
  /\ dpc = "outer" /\ Steady =>
       skip \in Nat /\ produced + skip = request.offset /\ out = Nothing
  /\ dpc = "inner" /\ Steady =>
       /\ skip \in Nat /\ left \in Nat
       /\ produced + skip = request.offset + (goal - left)
       /\ skip > 0 => goal \in 1 .. skip /\ out = Nothing
       /\ skip = 0 => goal = request.count /\ Delivered(goal - left)
  /\ dpc = "outer" /\ stream.kind = "LZFSE" /\ produced = 0 =>
       skip = request.offset /\ out = Nothing
  /\ dpc = "inner" /\ stream.kind = "LZFSE" /\ produced = 0 =>
       /\ skip = request.offset /\ out = Nothing /\ left = goal
       /\ skip > 0 => goal \in 1 .. skip
       /\ skip = 0 => goal = request.count
  /\ dpc = "returned" /\ result >= 0 /\ (Steady \/ stream.kind = "LZFSE") =>
       /\ result \in Nat
       /\ \A i \in 0 .. result - 1 : i \in DOMAIN out /\ out[i] = request.offset + i
       /\ Whole => result = request.count

RunsInv == ReadInv /\ CallInv /\ InputInv /\ SkipInv

\* The stream and the call of a decompressor.
Typed ==
  /\ stream.len \in Nat /\ stream.kind \in {"Zlib", "Bzip2", "LZFSE"}
  /\ request.offset \in Nat /\ request.count \in Nat

\* The call a decompressor works on has these types.
LEMMA CallTyped ==
  ASSUME RunsMeasured, ReadInv, CallInv, dpc # "idle"
  PROVE  Typed
<1>1. InA(Codecs) /\ request = [offset |-> InRun, count |-> ThisTime]
      /\ stream \in StreamsOf(RunOf(Position))
  BY DEF CallInv
<1>2. InRun \in Nat /\ ThisTime \in Nat
  BY <1>1, RunMeasured
<1>3. runs \in Tables /\ Position \in Nat /\ AtOrBefore(Position) # {}
  <2>1. PartitionLength \in Nat
    BY GeometryAssumption DEF PartitionLength
  <2> QED BY <1>1, <2>1 DEF InA, InLoop, PastEnd, Position, ReadInv
<1>4. PICK i \in Mapped : RunOf(Position) = runs[i]
  BY <1>3, RunFound DEF RunsMeasured
<1>5. stream.kind \in {"Zlib", "Bzip2", "LZFSE"} /\ stream.len \in Nat
  BY <1>1, <1>3, <1>4, StreamsAssumption DEF Mapped
<1> QED BY <1>1, <1>2, <1>5 DEF Typed

\* Before the first call there is no decompressor.
LEMMA RunsInvInit == AllInit => RunsInv
<1> SUFFICES ASSUME AllInit PROVE RunsInv
  OBVIOUS
<1>1. ReadInv
  BY DEF AllInit, Init, ReadInv
<1>2. CallInv
  BY DEF AllInit, D!Init, CallInv
<1>3. InputInv /\ SkipInv
  BY SizesAssumption DEF AllInit, D!Init, D!NoCall, D!Nothing, Nothing, InputInv, SkipInv
<1> QED BY <1>1, <1>2, <1>3 DEF RunsInv

----------------------------------------------------------------------------
(* The steps of a decompressor.                                            *)

\* What readRun() computes does not change while it waits.
LEMMA SameRun ==
  ASSUME UNCHANGED vars
  PROVE  /\ InA(Codecs)' = InA(Codecs) /\ InRun' = InRun /\ Size' = Size
         /\ RunOf(Position)' = RunOf(Position) /\ ThisTime' = ThisTime
         /\ ReadInv' = ReadInv
BY DEF vars, InA, InLoop, PastEnd, PartitionLength, Position, AtOrBefore, RunStarts, Mapped,
       RunOf, RunStart, Sectors, InRun, Size, ThisTime, ReadInv

\* readRun() goes on waiting for the decompressor.
LEMMA WaitInv ==
  ASSUME ReadInv, CallInv, dpc # "idle", UNCHANGED vars, UNCHANGED <<stream, request>>,
         dpc' \in {"outer", "inner", "returned", "failed"}
  PROVE  ReadInv' /\ CallInv'
BY SameRun DEF CallInv

\* What a codec can deliver is a number of bytes.
LEMMA YieldNat ==
  ASSUME Typed, NEW k \in Nat
  PROVE  D!Yield(k) \in Nat
<1>1. k * stream.len \in Nat /\ InLen \in Nat \ {0}
  BY SizesAssumption DEF Typed
<1> QED BY <1>1, Within DEF D!Yield

\* A call of the codec uses some of the input, and delivers no more than
\* there is room for.
LEMMA CodecUses ==
  ASSUME Typed, InputInv
  PROVE  /\ D!Uses \in Nat /\ D!Uses <= avail
         /\ D!Delivers \in Int /\ D!Delivers <= left
<1>1. InLen \in Nat /\ D!Yield(m_pos) \in Nat
  BY SizesAssumption, YieldNat DEF InputInv
<1>2. D!Delivers \in Int /\ D!Delivers <= left
  BY <1>1 DEF D!Delivers, D!Smaller, InputInv
<1>3. ASSUME D!Yield(m_pos) - produced > left
      PROVE  /\ Max({fed, D!Needed(produced + left)}) \in Nat
             /\ fed <= Max({fed, D!Needed(produced + left)})
             /\ Max({fed, D!Needed(produced + left)}) <= m_pos
  <2> DEFINE enough == {k \in 0 .. InLen : D!Yield(k) >= produced + left}
             need   == D!Needed(produced + left)
  <2>1. enough \in SUBSET Nat /\ m_pos \in enough
    BY <1>1, <1>3 DEF InputInv
  <2>2. need \in Nat /\ need <= m_pos
    <3> HIDE DEF enough
    <3>1. Min(enough) \in enough /\ Min(enough) <= m_pos
      BY <2>1, MinNat
    <3>2. need = Min(enough)
      BY DEF D!Needed, D!Min, Min, enough
    <3> HIDE DEF need
    <3> QED BY <2>1, <3>1, <3>2
  <2> HIDE DEF enough, need
  <2>3. /\ {fed, need} \in SUBSET Nat /\ {fed, need} # {} /\ m_pos \in Nat
        /\ \A x \in {fed, need} : x <= m_pos
    BY <2>2 DEF InputInv
  <2>4. Max({fed, need}) \in {fed, need} /\ \A x \in {fed, need} : x <= Max({fed, need})
    BY <2>3, MaxNat
  <2>5. fed <= Max({fed, need})
    BY <2>4
  <2> QED BY <2>3, <2>4, <2>5 DEF need
<1>4. D!Uses = IF D!Yield(m_pos) - produced > left
                THEN Max({fed, D!Needed(produced + left)}) - fed ELSE avail
  BY DEF D!Uses, D!Max, Max
<1>5. D!Uses \in Nat /\ D!Uses <= avail
  BY <1>3, <1>4 DEF InputInv
<1> QED BY <1>2, <1>5

\* What every step of a decompressor does.
Worked ==
  /\ UNCHANGED <<stream, request>> /\ dpc' \in {"outer", "inner", "returned", "failed"}
  /\ InputInv' /\ SkipInv'

\* The next piece to skip is chosen, or what was asked for.
LEMMA BeginInv == ASSUME Typed, InputInv, SkipInv, D!Begin PROVE Worked
<1>1. /\ stream' = stream /\ request' = request /\ skip' = skip /\ out' = out
      /\ m_pos' = m_pos /\ next' = next /\ avail' = avail
      /\ fed' = fed /\ produced' = produced
      /\ dpc = "outer" /\ dpc' = "inner" /\ left' = goal'
      /\ goal' = IF skip > 0 THEN (IF WasteSize <= skip THEN WasteSize ELSE skip)
                 ELSE request.count
  BY DEF D!Begin, D!call, D!input, D!codec, D!Smaller
<1>2. skip \in Int /\ WasteSize \in Nat \ {0} /\ request.count \in Nat
  BY SizesAssumption DEF InputInv, Typed
<1>3. goal' \in Int /\ (skip > 0 => goal' \in 1 .. skip) /\ (skip = 0 => goal' = request.count)
  BY <1>1, <1>2
<1>4. InputInv'
  BY <1>1, <1>3 DEF InputInv
<1>5. Steady' = Steady
  BY <1>1 DEF Steady, Whole
<1>6. goal' - left' = 0 /\ (skip = 0 => left' \in Nat) /\ (skip > 0 => left' \in Nat)
  BY <1>1, <1>2, <1>3
<1>7. ASSUME Steady
      PROVE  /\ skip \in Nat /\ left' \in Nat
             /\ produced + skip = request.offset + (goal' - left')
             /\ out = Nothing /\ (out = Nothing => Delivered(0))
  <2>1. skip \in Nat /\ produced + skip = request.offset /\ out = Nothing
    BY <1>1, <1>7 DEF SkipInv
  <2>2. out = Nothing => Delivered(0)
    BY DEF Delivered, Nothing
  <2>3. skip = 0 \/ skip > 0
    BY <2>1
  <2> QED BY <1>6, <2>1, <2>2, <2>3 DEF Typed
<1>8. Delivered(goal - left)' <=> out = [j \in 0 .. (goal' - left') - 1 |-> request.offset + j]
  BY <1>1 DEF Delivered
<1>9. skip = 0 /\ Steady => Delivered(goal - left)'
  BY <1>6, <1>7, <1>8 DEF Delivered
<1>10. SkipInv'
  BY <1>1, <1>3, <1>5, <1>7, <1>9 DEF SkipInv
<1> QED BY <1>1, <1>4, <1>10 DEF Worked

\* More input is put behind what the codec has used, or the read fails.
LEMMA ReadSomeInv == ASSUME Typed, InputInv, SkipInv, D!ReadSome PROVE Worked
<1>1. CASE D!Fail
  <2>1. /\ stream' = stream /\ request' = request /\ dpc' = "failed"
        /\ skip' = skip /\ goal' = goal /\ left' = left
        /\ m_pos' = m_pos /\ next' = next /\ avail' = avail
        /\ fed' = fed /\ produced' = produced
    BY <1>1 DEF D!Fail, D!call, D!inner, D!input, D!codec
  <2>2. InputInv' /\ SkipInv'
    BY <2>1 DEF InputInv, SkipInv
  <2> QED BY <2>1, <2>2 DEF Worked
<1>2. ASSUME NEW n \in 1 .. D!Smaller(ChunkSize, InLen - m_pos), D!TakeIn(n)
      PROVE  Worked
  <2>1. /\ stream' = stream /\ request' = request /\ dpc' = dpc
        /\ skip' = skip /\ goal' = goal /\ left' = left
        /\ fed' = fed /\ produced' = produced /\ out' = out /\ result' = result
        /\ m_pos' = m_pos + n /\ avail' = avail + n
        /\ next' = IF stream.kind = "LZFSE" THEN next ELSE m_pos
    BY <1>2 DEF D!TakeIn, D!call, D!inner, D!codec
  <2>2. n \in Nat /\ n >= 1 /\ m_pos + n <= InLen
    BY SizesAssumption DEF D!Smaller, InputInv
  <2>3. dpc = "inner" /\ (stream.kind # "LZFSE" => avail = 0)
    BY DEF D!ReadSome, D!WantsInput
  <2>4. InputInv'
    BY <2>1, <2>2, <2>3 DEF InputInv
  <2>5. SkipInv'
    BY <2>1, <2>3 DEF SkipInv, Steady, Whole, Delivered
  <2> QED BY <2>1, <2>3, <2>4, <2>5 DEF Worked
<1> QED BY <1>1, <1>2 DEF D!ReadSome

\* The codec reports an error.
LEMMA CorruptInv == ASSUME Typed, InputInv, SkipInv, D!Corrupt PROVE Worked
<1>1. /\ stream' = stream /\ request' = request /\ dpc' = "returned" /\ result' = -1
      /\ skip' = skip /\ goal' = goal /\ left' = left
      /\ m_pos' = m_pos /\ next' = next /\ avail' = avail
      /\ fed' = fed /\ produced' = produced
  BY DEF D!Corrupt, D!call, D!inner, D!input, D!codec
<1>2. InputInv' /\ SkipInv'
  BY <1>1 DEF InputInv, SkipInv
<1> QED BY <1>1, <1>2 DEF Worked

\* What an inner call returns follows from what it has delivered.
LEMMA InflateInv == ASSUME Typed, InputInv, SkipInv, D!Inflate PROVE Worked
<1> DEFINE d    == D!Delivers
           u    == D!Uses
           room == left - d
           made == produced + d
           AtEnd == made = stream.len /\ fed' = InLen
           Ends == AtEnd \/ room = 0
           n    == IF AtEnd THEN D!StreamEnd(room) ELSE goal
<1>1. /\ d \in Int /\ d <= left /\ u \in Nat /\ u <= avail
      /\ produced \in Int /\ goal \in Int /\ left \in Int /\ skip \in Int
      /\ request.offset \in Nat /\ request.count \in Nat /\ stream.len \in Nat
  BY CodecUses DEF InputInv, Typed
<1>2. /\ stream' = stream /\ request' = request /\ goal' = goal /\ m_pos' = m_pos
      /\ dpc = "inner" /\ avail > 0 /\ stream.kind \in {"Zlib", "Bzip2"}
      /\ produced' = made /\ left' = room
      /\ fed' = fed + u /\ next' = next + u /\ avail' = avail - u
  BY DEF D!Inflate, D!RunCodec, D!call, Typed
<1>3. out' = IF skip > 0 THEN out
             ELSE [i \in 0 .. goal - left + d - 1 |->
                     IF i < goal - left THEN out[i]
                     ELSE IF next = fed THEN produced + (i - (goal - left)) ELSE Garbage]
  BY DEF D!Inflate, D!RunCodec, D!Deliver
<1>4. IF Ends
      THEN IF skip > 0 /\ n > 0
           THEN dpc' = "outer" /\ skip' = skip - n
           ELSE dpc' = "returned" /\ result' = n /\ skip' = skip
      ELSE dpc' = "inner" /\ skip' = skip
  BY <1>2 DEF D!Inflate, D!InnerReturns
<1>5. n = IF AtEnd /\ stream.kind = "Zlib" THEN goal - room ELSE goal
  BY DEF D!StreamEnd
<1>6. /\ room \in Nat /\ made \in Int /\ n \in Int
      /\ goal - left + d = goal - room
      /\ Ends => AtEnd \/ room = 0
      /\ AtEnd => made = stream.len
  BY <1>1, <1>5
<1>7. InputInv'
  <2>1. skip' \in Int
    BY <1>1, <1>4, <1>6
  <2> QED BY <1>1, <1>2, <1>4, <1>6, <2>1 DEF InputInv
<1>8. Steady' = Steady /\ Whole' = Whole
  BY <1>2 DEF Steady, Whole
<1>9. ASSUME Steady
       PROVE  /\ skip \in Nat /\ made + skip = request.offset + (goal - room)
              /\ skip > 0 => goal \in 1 .. skip /\ out' = Nothing
              /\ skip = 0 => goal = request.count
                             /\ out' = [i \in 0 .. (goal - room) - 1 |-> request.offset + i]
  <2>1. /\ skip \in Nat /\ produced + skip = request.offset + (goal - left)
        /\ skip > 0 => goal \in 1 .. skip /\ out = Nothing
        /\ skip = 0 => goal = request.count /\ Delivered(goal - left)
    BY <1>2, <1>9 DEF SkipInv
  <2>2. made + skip = request.offset + (goal - room)
    BY <1>1, <2>1
  <2>3. ASSUME skip = 0
        PROVE  out' = [i \in 0 .. (goal - room) - 1 |-> request.offset + i]
    <3>1. next = fed
      BY <1>2 DEF InputInv
    <3> DEFINE given(i) == IF i < goal - left THEN out[i] ELSE produced + (i - (goal - left))
    <3>2. \A i \in 0 .. (goal - room) - 1 : given(i) = request.offset + i
      <4> SUFFICES ASSUME NEW i \in 0 .. (goal - room) - 1
                   PROVE  given(i) = request.offset + i
        OBVIOUS
      <4>1. i \in Nat
        BY <1>1, <1>6
      <4>2. CASE i < goal - left
        <5>1. i \in 0 .. (goal - left) - 1
          BY <1>1, <4>1, <4>2
        <5> QED BY <2>1, <2>3, <4>2, <5>1 DEF Delivered
      <4>3. CASE ~ (i < goal - left)
        BY <1>1, <2>1, <2>3, <4>1, <4>3
      <4> QED BY <4>2, <4>3
    <3>3. out' = [i \in 0 .. goal - left + d - 1 |-> given(i)]
      <4>1. ~ (skip > 0)
        BY <2>3
      <4> QED BY <1>3, <3>1, <4>1, Zenon
    <3>4. out' = [i \in 0 .. (goal - room) - 1 |-> given(i)]
      <4>1. 0 .. goal - left + d - 1 = 0 .. (goal - room) - 1
        <5>1. goal - left + d - 1 = (goal - room) - 1
          BY <1>1
        <5> HIDE DEF room
        <5> QED BY <5>1, Zenon
      <4> HIDE DEF room, given
      <4> QED BY <3>3, <4>1
    <3> HIDE DEF given
    <3> QED BY <3>2, <3>4
  <2> QED BY <1>3, <2>1, <2>2, <2>3
<1> HIDE DEF d, u, room, made, AtEnd, Ends, n
<1>10. ASSUME Steady, Ends PROVE n = goal - room
  <2>1. CASE AtEnd /\ stream.kind = "Bzip2"
    <3>1. request.offset + request.count <= made
      BY <1>6, <1>10, <2>1 DEF Steady, Whole
    <3>2. room = 0
      <4>1. CASE skip = 0
        BY <1>1, <1>6, <1>9, <1>10, <3>1, <4>1
      <4>2. CASE skip > 0
        BY <1>1, <1>6, <1>9, <1>10, <3>1, <4>2
      <4> QED BY <1>9, <1>10, <4>1, <4>2
    <3> QED BY <1>1, <1>5, <2>1, <3>2
  <2>2. CASE ~ (AtEnd /\ stream.kind = "Bzip2")
    BY <1>1, <1>2, <1>5, <1>6, <1>10, <2>2
  <2> QED BY <2>1, <2>2
<1>11. ASSUME Steady, Ends, skip > 0, n > 0
       PROVE  skip - n \in Nat /\ made + (skip - n) = request.offset /\ out' = Nothing
  <2>1. n = goal - room
    BY <1>10, <1>11
  <2>2. /\ skip \in Nat /\ goal \in Nat /\ goal <= skip /\ out' = Nothing
        /\ made + skip = request.offset + (goal - room)
    BY <1>9, <1>11
  <2> QED BY <1>1, <1>6, <2>1, <2>2
<1>12. ASSUME Steady, Ends, ~ (skip > 0 /\ n > 0), n >= 0
       PROVE  /\ n \in Nat
              /\ \A i \in 0 .. n - 1 : i \in DOMAIN out' /\ out'[i] = request.offset + i
              /\ Whole => n = request.count
  <2>1. n = goal - room /\ n \in Nat
    BY <1>6, <1>10, <1>12
  <2>2. CASE skip > 0
    <3>1. n = 0 /\ room > 0
      BY <1>1, <1>6, <1>9, <1>12, <2>1, <2>2
    <3>2. made = stream.len /\ made + skip = request.offset
      BY <1>1, <1>6, <1>9, <1>12, <2>1, <3>1
    <3>3. ~ Whole
      BY <1>1, <2>2, <3>2 DEF Whole
    <3> QED BY <2>1, <3>1, <3>3
  <2>3. CASE skip = 0
    <3>1. goal = request.count /\ out' = [i \in 0 .. n - 1 |-> request.offset + i]
      BY <1>9, <1>12, <2>1, <2>3
    <3>2. ASSUME Whole PROVE n = request.count
      <4>1. CASE room = 0
        BY <1>1, <2>1, <3>1, <4>1
      <4>2. CASE made = stream.len
        <5>1. request.offset + request.count <= made
          BY <3>2, <4>2 DEF Whole
        <5>2. made + skip = request.offset + (goal - room)
          BY <1>9, <1>12
        <5>3. goal = request.count
          BY <3>1
        <5>4. made = request.offset + (goal - room)
          BY <1>6, <2>3, <5>2
        <5>5. room \in Nat /\ request.offset \in Nat /\ request.count \in Nat
          BY <1>1, <1>6
        <5>6. room = 0
          BY <5>1, <5>3, <5>4, <5>5
        <5> QED BY <1>1, <2>1, <3>1, <5>6
      <4> QED BY <1>6, <1>12, <4>1, <4>2
    <3> QED BY <2>1, <3>1, <3>2
  <2> QED BY <1>9, <1>12, <2>2, <2>3
<1>13. SkipInv'
  <2>1. CASE ~ Ends
    <3>1. dpc' = "inner" /\ skip' = skip
      BY <1>4, <2>1
    <3>2. (Delivered(goal - left))' <=> out' = [i \in 0 .. (goal - room) - 1 |-> request.offset + i]
      BY <1>2 DEF Delivered
    <3> QED BY <1>2, <1>6, <1>8, <1>9, <3>1, <3>2 DEF SkipInv
  <2>2. CASE Ends /\ skip > 0 /\ n > 0
    BY <1>2, <1>4, <1>8, <1>11, <2>2 DEF SkipInv
  <2>3. CASE Ends /\ ~ (skip > 0 /\ n > 0)
    <3>1. dpc' = "returned" /\ result' = n
      BY <1>4, <2>3
    <3> QED BY <1>2, <1>8, <1>12, <2>3, <3>1 DEF SkipInv
  <2> QED BY <2>1, <2>2, <2>3
<1> QED BY <1>2, <1>4, <1>7, <1>13 DEF Worked

\* LZFSE delivers what there is room for, from the start of the run: what is
\* not at the start is skipped, and then the input is gone.
LEMMA DecodeInv == ASSUME Typed, InputInv, SkipInv, D!Decode PROVE Worked
<1> DEFINE n == D!Smaller(goal, stream.len)
<1>1. /\ dpc = "inner" /\ stream.kind = "LZFSE" /\ produced = 0
  BY DEF D!Decode, D!WantsInput, SkipInv
<1>2. /\ skip = request.offset /\ out = Nothing /\ left = goal
      /\ skip > 0 => goal \in 1 .. skip
      /\ skip = 0 => goal = request.count
      /\ skip \in Nat /\ goal \in Nat
  BY <1>1 DEF SkipInv, Typed
<1>3. n \in Nat /\ n <= goal /\ n <= stream.len /\ (n = goal \/ n = stream.len)
  BY <1>2 DEF Typed, D!Smaller
<1> HIDE DEF n
<1>4. CASE n = 0
  <2>1. /\ stream' = stream /\ request' = request /\ dpc' = "failed"
        /\ skip' = skip /\ goal' = goal /\ left' = left
        /\ m_pos' = m_pos /\ next' = next /\ avail' = avail
        /\ fed' = fed /\ produced' = produced
    BY <1>4 DEF D!Decode, D!Fail, D!call, D!inner, D!input, D!codec, n
  <2>2. InputInv' /\ SkipInv'
    BY <2>1 DEF InputInv, SkipInv
  <2> QED BY <2>1, <2>2 DEF Worked
<1>5. CASE n # 0
  <2>1. /\ stream' = stream /\ request' = request
        /\ goal' = goal /\ left' = left
        /\ m_pos' = m_pos /\ next' = next /\ avail' = avail
        /\ fed' = fed /\ produced' = n
        /\ IF skip > 0 /\ n > 0
           THEN dpc' = "outer" /\ skip' = skip - n
           ELSE dpc' = "returned" /\ result' = n /\ skip' = skip
    BY <1>5 DEF D!Decode, D!InnerReturns, D!call, D!inner, D!input, n
  <2>2. out' = IF skip > 0 THEN out
               ELSE [i \in 0 .. goal - left + n - 1 |->
                       IF i < goal - left THEN out[i]
                       ELSE IF next = fed THEN produced + (i - (goal - left)) ELSE Garbage]
    BY <1>5 DEF D!Decode, D!Deliver, n
  <2>3. InputInv'
    BY <1>2, <1>3, <2>1 DEF InputInv
  <2>4. Steady' = Steady /\ Whole' = Whole
    BY <2>1 DEF Steady, Whole
  <2>5. CASE skip > 0
    <3>1. dpc' = "outer"
      BY <1>3, <1>5, <2>1, <2>5
    <3> QED BY <1>1, <1>3, <1>5, <2>1, <2>3, <3>1 DEF SkipInv, Steady, Worked
  <2>6. CASE skip = 0
    <3>1. dpc' = "returned" /\ result' = n
      BY <2>1, <2>6
    <3>2. next = fed
      BY <1>1 DEF InputInv
    <3>3. \A i \in 0 .. n - 1 : i \in DOMAIN out' /\ out'[i] = request.offset + i
      <4>1. goal - left = 0 /\ goal - left + n = n /\ request.offset = 0
        BY <1>2, <1>3, <2>6
      <4>2. out' = [i \in 0 .. n - 1 |->
                      IF i < 0 THEN out[i] ELSE produced + (i - 0)]
        BY <1>2, <1>3, <2>2, <2>6, <3>2, <4>1
      <4> QED BY <1>1, <1>3, <4>1, <4>2
    <3>4. Whole => n = request.count
      BY <1>2, <1>3, <2>6 DEF Whole, Typed
    <3> QED BY <1>1, <1>3, <2>1, <2>3, <2>4, <3>1, <3>3, <3>4 DEF SkipInv, Worked
  <2> QED BY <1>2, <2>5, <2>6
<1> QED BY <1>4, <1>5

----------------------------------------------------------------------------
(* The steps of the partition.                                             *)

\* Every step of a decompressor keeps the invariant.
LEMMA DecompressorStepInv ==
  ASSUME RunsMeasured, RunsInv, D!Step, UNCHANGED vars
  PROVE  RunsInv'
<1>1. dpc # "idle"
  BY DEF D!Step, D!Begin, D!ReadSome, D!Inflate, D!RunCodec, D!Corrupt, D!Decode
<1>2. Typed
  BY <1>1, CallTyped DEF RunsInv
<1>3. Worked
  BY <1>2, BeginInv, ReadSomeInv, InflateInv, CorruptInv, DecodeInv DEF D!Step, RunsInv
<1>4. ReadInv' /\ CallInv'
  BY <1>1, <1>3, WaitInv DEF RunsInv, Worked
<1> QED BY <1>3, <1>4 DEF RunsInv, Worked

\* A decompressor starts with the call it is created for.
LEMMA CreateInv == ASSUME RunsMeasured, RunsInv, Create PROVE RunsInv'
<1>1. PICK s \in StreamsOf(RunOf(Position)) : D!Decompress(s, InRun, ThisTime)
  BY DEF Create
<1>2. InA(Codecs) /\ InRun <= Size /\ UNCHANGED vars /\ dpc = "idle"
  BY <1>1 DEF Create, Size, D!Decompress
<1>3. /\ stream' = s /\ request' = [offset |-> InRun, count |-> ThisTime]
      /\ dpc' = "outer" /\ skip' = InRun /\ goal' = goal /\ left' = left
      /\ m_pos' = m_pos /\ next' = next /\ avail' = avail
      /\ fed' = fed /\ produced' = produced /\ out' = out
  BY <1>1 DEF D!Decompress, D!inner, D!input, D!codec
<1>4. InRun \in Nat
  BY <1>2, RunMeasured DEF RunsInv
<1>5. ReadInv' /\ CallInv'
  BY <1>2, <1>3, SameRun DEF RunsInv, CallInv
<1>6. InputInv' /\ SkipInv'
  BY <1>2, <1>3, <1>4 DEF RunsInv, InputInv, SkipInv
<1> QED BY <1>5, <1>6 DEF RunsInv

\* When a decompressor is gone, it is as if there had been none.
LEMMA GoneInv ==
  ASSUME RunsInv, D!Leave, ReadInv'
  PROVE  RunsInv'
<1>1. CallInv'
  BY DEF D!Leave, CallInv
<1>2. InputInv' /\ SkipInv'
  BY SizesAssumption DEF D!Leave, D!NoCall, D!Nothing, Nothing, InputInv, SkipInv
<1> QED BY <1>1, <1>2 DEF RunsInv

\* Without a decompressor there is nothing to keep but read()'s own part.
LEMMA NoDecompressorInv ==
  ASSUME RunsInv, dpc = "idle", UNCHANGED decompressor, ReadInv'
  PROVE  RunsInv'
<1>1. CallInv'
  BY DEF decompressor, CallInv
<1>2. InputInv' /\ SkipInv'
  BY DEF RunsInv, decompressor, InputInv, SkipInv, Steady, Whole, Delivered
<1> QED BY <1>1, <1>2 DEF RunsInv

\* read() goes on with a number of bytes more, or with -1.
LEMMA AdvanceReadInv ==
  ASSUME ReadInv, NEW n \in Int, Advance(n)
  PROVE  ReadInv'
BY DEF ReadInv, Advance

\* A run without a decompressor is read while there is none.
LEMMA ElsewhereInv == ASSUME RunsMeasured, RunsInv, Elsewhere PROVE RunsInv'
<1>1. dpc = "idle"
  <2> SUFFICES ASSUME dpc # "idle" PROVE FALSE
    OBVIOUS
  <2>1. InA(Codecs)
    BY DEF RunsInv, CallInv
  <2>2. /\ pc = "loop" /\ ~ (done >= count) /\ ~ PastEnd /\ AtOrBefore(Position) # {}
        /\ RunOf(Position).type \in Codecs
    <3>1. done \in Int /\ count \in Int
      BY DEF RunsInv, ReadInv
    <3> QED BY <2>1, <3>1 DEF InA, InLoop
  <2>3. ~ Finish /\ ~ NoRun /\ ~ Leave
    BY <2>2 DEF Finish, NoRun, Leave
  <2>4. ~ FillZeroes /\ ~ ReadRaw /\ ~ NoSuchType /\ ~ InA({"ADC"})
    BY <2>2 DEF FillZeroes, ReadRaw, NoSuchType, InA, Codecs, Filled, Compressed
  <2> QED BY <2>3, <2>4 DEF Elsewhere
<1>2. ReadInv /\ UNCHANGED decompressor
  BY DEF RunsInv, Elsewhere
<1>3. ASSUME Finish \/ NoRun \/ Leave PROVE ReadInv'
  BY <1>2, <1>3 DEF Finish, NoRun, Leave, ReadInv
<1>4. ASSUME NEW types, InA(types) PROVE ThisTime \in Int
  BY <1>2, <1>4, RunMeasured
<1>5. ASSUME FillZeroes \/ ReadRaw \/ NoSuchType \/ (InA({"ADC"}) /\ Decompress)
      PROVE  ReadInv'
  <2>1. ASSUME FillZeroes PROVE ReadInv'
    BY <1>2, <1>4, <2>1, AdvanceReadInv DEF FillZeroes
  <2>2. ASSUME ReadRaw PROVE ReadInv'
    <3>1. \E n \in Int : Advance(n)
      BY <1>4, <2>2 DEF ReadRaw
    <3> QED BY <1>2, <3>1, AdvanceReadInv
  <2>3. ASSUME NoSuchType PROVE ReadInv'
    BY <1>2, <2>3, AdvanceReadInv DEF NoSuchType
  <2>4. ASSUME Decompress PROVE ReadInv'
    BY <1>2, <1>4, <2>4, AdvanceReadInv DEF Decompress
  <2> QED BY <1>5, <2>1, <2>2, <2>3, <2>4
<1>6. ReadInv'
  BY <1>3, <1>5 DEF Elsewhere
<1> QED BY <1>1, <1>2, <1>6, NoDecompressorInv

\* Every step keeps the invariant.
LEMMA RunsInvNext == ASSUME RunsMeasured, RunsInv, [AllNext]_allVars PROVE RunsInv'
<1>1. ASSUME BeyondRun PROVE RunsInv'
  <2>1. dpc = "idle"
    <3> SUFFICES ASSUME dpc # "idle" PROVE FALSE
      OBVIOUS
    <3>1. InA(Codecs) /\ InRun <= Size
      BY DEF RunsInv, CallInv
    <3>2. InRun > Size
      BY <1>1 DEF BeyondRun, Size
    <3>3. InRun \in Nat /\ Size \in Nat
      BY <3>1, RunMeasured DEF RunsInv
    <3> QED BY <3>1, <3>2, <3>3
  <2>2. ReadInv'
    BY <1>1, AdvanceReadInv DEF BeyondRun, RunsInv
  <2> QED BY <1>1, <2>1, <2>2, NoDecompressorInv DEF BeyondRun
<1>2. ASSUME TakeResult PROVE RunsInv'
  <2>1. InA(Codecs)
    BY <1>2 DEF TakeResult, RunsInv, CallInv
  <2>2. ThisTime \in Int
    BY <2>1, RunMeasured DEF RunsInv
  <2>3. ReadInv'
    BY <1>2, <2>2 DEF TakeResult, RunsInv, ReadInv
  <2> QED BY <1>2, <2>3, GoneInv DEF TakeResult
<1>3. ASSUME NoResult PROVE RunsInv'
  <2>1. ReadInv'
    BY <1>3 DEF NoResult, RunsInv, ReadInv
  <2> QED BY <1>3, <2>1, GoneInv DEF NoResult
<1>4. ASSUME NEW o \in Offsets, NEW n \in Counts, Read(o, n), UNCHANGED decompressor
      PROVE  RunsInv'
  <2>1. dpc = "idle"
    BY <1>4 DEF Read, RunsInv, CallInv, InA, InLoop
  <2>2. ReadInv'
    BY <1>4, GeometryAssumption DEF Read, RunsInv, ReadInv
  <2> QED BY <1>4, <2>1, <2>2, NoDecompressorInv
<1>5. CASE UNCHANGED allVars
  <2>1. UNCHANGED vars /\ UNCHANGED decompressor
    BY <1>5 DEF allVars
  <2>2. ReadInv' /\ CallInv'
    BY <2>1, SameRun DEF RunsInv, CallInv, decompressor
  <2>3. InputInv' /\ SkipInv'
    BY <2>1 DEF RunsInv, decompressor, InputInv, SkipInv, Steady, Whole, Delivered
  <2> QED BY <2>2, <2>3 DEF RunsInv
<1> QED BY <1>1, <1>2, <1>3, <1>4, <1>5, CreateInv, ElsewhereInv, DecompressorStepInv
        DEF AllNext, AllStep

----------------------------------------------------------------------------
(* What DMGPartition is shown.                                             *)

\* A bzip2 run holds all the bytes its sectors have room for.
Bzip2Whole ==
  \A table \in Tables : \A i \in DOMAIN table : \A s \in StreamsOf(table[i]) :
    s.kind = "Bzip2" => table[i].count * SectorSize <= s.len

\* The result readRun() accepts is in the buffer.
LEMMA ResultThere ==
  ASSUME RunsMeasured, Bzip2Whole, RunsInv, dpc = "returned", Enough, ThisTime > 0
  PROVE  \A i \in 0 .. ThisTime - 1 : i \in DOMAIN out /\ out[i] = InRun + i
<1>1. /\ InA(Codecs) /\ InRun <= Size /\ stream \in StreamsOf(RunOf(Position))
      /\ request = [offset |-> InRun, count |-> ThisTime]
  BY DEF RunsInv, CallInv
<1>2. /\ InRun \in Nat /\ ThisTime \in Nat /\ Size \in Nat /\ InRun + ThisTime <= Size
  BY <1>1, RunMeasured DEF RunsInv
<1>3. Typed
  BY CallTyped DEF RunsInv
<1>4. runs \in Tables /\ Position \in Nat /\ AtOrBefore(Position) # {}
  <2>1. PartitionLength \in Nat
    BY GeometryAssumption DEF PartitionLength
  <2> QED BY <1>1, <2>1 DEF InA, InLoop, PastEnd, Position, RunsInv, ReadInv
<1>5. PICK i \in Mapped : RunOf(Position) = runs[i]
  BY <1>4, RunFound DEF RunsMeasured
<1>6. stream.kind = "Bzip2" => Whole
  <2> SUFFICES ASSUME stream.kind = "Bzip2" PROVE Whole
    OBVIOUS
  <2>1. Size <= stream.len
    BY <1>1, <1>4, <1>5 DEF Bzip2Whole, Size, Mapped
  <2> QED BY <1>1, <1>2, <1>3, <2>1 DEF Whole, Typed
<1>7. Steady \/ stream.kind = "LZFSE"
  BY <1>3, <1>6 DEF Steady, Typed
<1>8. result >= ThisTime
  BY DEF Enough
<1>9. result \in Int
  BY DEF RunsInv, InputInv
<1> QED BY <1>1, <1>2, <1>7, <1>8, <1>9 DEF RunsInv, SkipInv

\* Taking the result of a decompressor is taking bytes of the run.
LEMMA TakeResultDecompresses ==
  ASSUME RunsMeasured, Bzip2Whole, RunsInv, TakeResult
  PROVE  Decompress
<1>1. /\ dpc = "returned" /\ Enough /\ ThisTime > 0
      /\ done' = done + ThisTime
      /\ buf' = [i \in DOMAIN buf \cup done .. done + ThisTime - 1 |->
                   IF i \notin done .. done + ThisTime - 1 THEN buf[i]
                   ELSE IF i - done \in DOMAIN out
                   THEN Byte(RunStart(Position) * SectorSize + out[i - done]) ELSE Garbage]
      /\ UNCHANGED <<runs, pc, offset, count>>
  BY DEF TakeResult
<1>2. InA(Codecs) /\ InRun <= Size
  BY <1>1 DEF RunsInv, CallInv
<1>3. /\ InRun \in Nat /\ ThisTime \in Nat /\ RunStart(Position) * SectorSize \in Nat
      /\ done \in Int
  BY <1>2, RunMeasured DEF RunsInv, ReadInv
<1> DEFINE at   == RunStart(Position) * SectorSize
           this == ThisTime
           from == InRun
           piece == done .. done + this - 1
<1>4. \A i \in piece : i - done \in DOMAIN out /\ at + out[i - done] = at + from + (i - done)
  <2> SUFFICES ASSUME NEW i \in piece
               PROVE  i - done \in DOMAIN out /\ at + out[i - done] = at + from + (i - done)
    OBVIOUS
  <2>1. i - done \in 0 .. ThisTime - 1
    BY <1>3
  <2>2. i - done \in DOMAIN out /\ out[i - done] = from + (i - done)
    BY <1>1, <2>1, ResultThere
  <2> HIDE DEF at, from
  <2>3. at \in Nat /\ from \in Nat /\ i - done \in Int
    BY <1>3, <2>1 DEF at, from
  <2> QED BY <2>2, <2>3
<1>5. buf' = [i \in DOMAIN buf \cup piece |->
                IF i \in piece THEN Byte(at + from + (i - done)) ELSE buf[i]]
  <2> HIDE DEF at, from
  <2>1. buf' = [i \in DOMAIN buf \cup piece |->
                  IF i \notin piece THEN buf[i]
                  ELSE IF i - done \in DOMAIN out THEN Byte(at + out[i - done]) ELSE Garbage]
    BY <1>1 DEF at
  <2> HIDE DEF piece
  <2> QED BY <1>4, <2>1
<1>6. Advance(ThisTime)
  BY <1>1, <1>5 DEF Advance
<1>7. InA(Compressed)
  BY <1>2 DEF InA, Codecs, Compressed
<1> QED BY <1>2, <1>6, <1>7 DEF Decompress, Size

\* A step of the partition with its decompressors is one of DMGPartition, or
\* changes nothing DMGPartition has.
LEMMA RunsRefines ==
  ASSUME RunsMeasured, Bzip2Whole, RunsInv, [AllNext]_allVars
  PROVE  [Next]_vars
<1>1. ASSUME Elsewhere PROVE Next
  BY <1>1 DEF Elsewhere, Next, Step
<1>2. ASSUME Create \/ (D!Step /\ UNCHANGED vars) PROVE UNCHANGED vars
  BY <1>2 DEF Create
<1>3. ASSUME BeyondRun PROVE Next
  <2>1. InA(Compressed) /\ Advance(0)
    BY <1>3 DEF BeyondRun, InA, Codecs, Compressed
  <2> QED BY <2>1 DEF Decompress, Next, Step
<1>4. ASSUME TakeResult PROVE Next
  BY <1>4, TakeResultDecompresses DEF Next, Step
<1>5. ASSUME NoResult PROVE Next
  <2>1. InA(Codecs)
    BY <1>5 DEF NoResult, RunsInv, CallInv
  <2>2. InA(Compressed)
    BY <2>1 DEF InA, Codecs, Compressed
  <2>3. Advance(0)
    BY <1>5 DEF NoResult, Advance
  <2> QED BY <2>2, <2>3 DEF Decompress, Next, Step
<1>6. ASSUME NEW o \in Offsets, NEW n \in Counts, Read(o, n) PROVE Next
  BY <1>6 DEF Next
<1>7. CASE UNCHANGED allVars
  BY <1>7 DEF allVars
<1> QED BY <1>1, <1>2, <1>3, <1>4, <1>5, <1>6, <1>7 DEF AllNext, AllStep

----------------------------------------------------------------------------
(* The theorems.                                                           *)

\* A codec is given every byte of its run once and in order, whatever the
\* offset that is skipped and however the reads cut the run.
THEOREM RunsInputInOrder ==
  ASSUME RunsMeasured
  PROVE  AllSpec => []InputInOrder
<1>1. RunsInv /\ [AllNext]_allVars => RunsInv'
  BY RunsInvNext
<1>2. RunsInv => InputInOrder
  BY DEF RunsInv, InputInv, InputInOrder, D!InputInOrder
<1> QED BY <1>1, <1>2, RunsInvInit, PTL DEF AllSpec

\* A stream that holds what is asked for, and is not found corrupt, delivers
\* all of it: readRun() takes no good run for a broken one.
THEOREM RunsNeverShort ==
  ASSUME RunsMeasured
  PROVE  AllSpec => []NeverShort
<1>1. RunsInv /\ [AllNext]_allVars => RunsInv'
  BY RunsInvNext
<1>2. RunsInv => NeverShort
  <2> SUFFICES ASSUME RunsInv, dpc = "returned", result >= 0, Whole
               PROVE  result = request.count
    BY DEF NeverShort, D!NeverShort, Whole
  <2>1. Typed
    BY CallTyped DEF RunsInv
  <2>2. Steady \/ stream.kind = "LZFSE"
    BY <2>1 DEF Steady, Typed
  <2> QED BY <2>2 DEF RunsInv, SkipInv
<1> QED BY <1>1, <1>2, RunsInvInit, PTL DEF AllSpec

\* The partition with its decompressors takes the steps of DMGPartition: what
\* it puts into the caller's buffer are the bytes of the run that was found,
\* if bzip2 runs are whole.
THEOREM RunsImplementPartition ==
  ASSUME RunsMeasured, Bzip2Whole
  PROVE  AllSpec => Init /\ [][Next]_vars
<1>1. RunsInv /\ [AllNext]_allVars => RunsInv'
  BY RunsInvNext
<1>2. RunsInv /\ [AllNext]_allVars => [Next]_vars
  BY RunsRefines
<1>3. AllInit => Init
  BY DEF AllInit
<1> QED BY <1>1, <1>2, <1>3, RunsInvInit, PTL DEF AllSpec

\* The partition with its decompressors implements the contract of Reader, but
\* for its fairness: across any number of calls, and with one decompressor kept
\* from call to call, an answer is the slice that was asked for.
THEOREM RunsImplementReader ==
  ASSUME TablesSound, Bzip2Whole, DiskFaults = {}
  PROVE  AllSpec => R!SafeSpec
<1>1. RunsMeasured
  BY SoundMeasured
<1>2. AllSpec => Init /\ [][Next]_vars
  BY <1>1, RunsImplementPartition
<1> QED BY <1>2, PartitionIsReader
=============================================================================
