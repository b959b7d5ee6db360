---------------------------- MODULE DMGPartition ----------------------------
(***************************************************************************)
(* DMGPartition (src/DMGPartition.h, src/DMGPartition.cpp): a partition of *)
(* a disk image, cut into runs of sectors that are stored raw, compressed  *)
(* or not at all.  read() walks the runs; adviseOptimalBlock() tells the   *)
(* cache which bytes are worth reading together.                           *)
(*                                                                         *)
(* A run is a record [type, start, count], start and count in sectors.     *)
(* Its bytes are named by the position they have in the partition, as in   *)
(* Reader: the byte o of a run is that of position start * SectorSize + o. *)
(* Where a run is stored (compOffset, compLength, dataStart) and how it is *)
(* decompressed is below this module: the disk and the decompressor        *)
(* deliver the bytes they are asked for, fewer, none, or an error.         *)
(***************************************************************************)
EXTENDS Integers, SequencesExt, FiniteSetsExt

CONSTANTS
  Partition,    \* the partition, as a tag of Reader
  Tables,       \* the run tables it may have
  SectorCount,  \* BLKXTable::sectorCount
  SectorSize,   \* SECTOR_SIZE
  BlockSize,    \* CacheZone::BLOCK_SIZE
  DiskFaults,   \* how a read of the disk may go wrong: "short", "error"
  Garbage,      \* a byte that belongs to no position
  Offsets,      \* the offsets and
  Counts        \* the counts read() is called with

ASSUME GeometryAssumption ==
  /\ SectorCount \in Nat /\ SectorSize \in Nat \ {0} /\ BlockSize \in Nat \ {0}
  /\ Offsets \subseteq Nat /\ Counts \subseteq Nat

ASSUME TablesAssumption ==
  \A table \in Tables : Len(table) \in Nat /\ DOMAIN table = 1 .. Len(table)

ASSUME FaultsAssumption == DiskFaults \subseteq {"short", "error"}

VARIABLES
  runs,    \* m_table->runs; m_sectors is computed from it once
  pc,      \* where read() is: "idle", "loop", "returned", "failed"
  offset, count, done, buf   \* its parameters and locals

vars == <<runs, pc, offset, count, done, buf>>

----------------------------------------------------------------------------
(* The run table.                                                          *)

Skipped    == {"Comment", "Terminator"}
Filled     == {"ZeroFill", "Unknown"}
Compressed == {"ADC", "Zlib", "Bzip2", "LZFSE"}

\* The constructor: m_sectors maps the first sector of a run to its index,
\* the last run of those with the same first sector winning.
Mapped     == {i \in DOMAIN runs : runs[i].type \notin Skipped}
RunStarts  == {runs[i].start : i \in Mapped}
Sectors    == [s \in RunStarts |-> Max({i \in Mapped : runs[i].start = s})]

\* Bug: the block of a position ends at the first run that starts at or
\* after its sector.
After_Inclusive(p) == {s \in RunStarts : s >= p \div SectorSize}

\* The entries before and after upper_bound() of a position.
AtOrBefore(p) == {s \in RunStarts : s <= p \div SectorSize}
After(p)      == {s \in RunStarts : s > p \div SectorSize}
RunStart(p)   == Max(AtOrBefore(p))
RunOf(p)      == runs[Sectors[RunStart(p)]]

PartitionLength == SectorCount * SectorSize

\* Reader::adviseOptimalBlock
DefaultBlock(p) ==
  LET start == p - (p % BlockSize)
      end   == start + BlockSize
  IN  [start |-> start, end |-> IF end > PartitionLength THEN PartitionLength ELSE end]

\* adviseOptimalBlock: a compressed run is read as a whole.
AdvisedBlock(p) ==
  IF RunOf(p).type \in Filled \cup {"Raw"} THEN DefaultBlock(p)
  ELSE [start |-> RunStart(p) * SectorSize,
        end   |-> IF After(p) = {} THEN PartitionLength ELSE Min(After(p)) * SectorSize]

----------------------------------------------------------------------------
(* read()                                                                  *)

Byte(p) == <<Partition, p>>

Nothing == [i \in {} |-> Garbage]

\* The position of the next byte; before the partition it is a huge uint64_t.
Position  == offset + done
PastEnd   == Position < 0 \/ Position >= PartitionLength

\* Bug: the offset into the run is also used for the runs that follow.
InRun_EveryRun == (offset - RunStart(Position) * SectorSize)

\* Lines 69, 83-84: where in its run the next piece starts.
InRun == IF done = 0 THEN offset - RunStart(Position) * SectorSize ELSE 0

\* Line 101: the rest of the run, or all that is asked for if the offset is
\* beyond its end and the unsigned difference wraps around.
ThisTime ==
  LET size == RunOf(Position).count * SectorSize
      rest == size - InRun
  IN  IF rest < 0 \/ rest > count - done THEN count - done ELSE rest

\* readRun() has put n bytes of the run into the buffer, or returned 0 or -1.
Advance(n) ==
  /\ IF n = 0
     THEN pc' = "failed" /\ UNCHANGED <<done, buf>>
     ELSE /\ done' = done + n
          /\ buf'  = [i \in DOMAIN buf \cup done .. done + n - 1 |->
                        IF i \in done .. done + n - 1
                        THEN Byte(RunStart(Position) * SectorSize + InRun + (i - done))
                        ELSE buf[i]]
          /\ UNCHANGED pc
  /\ UNCHANGED <<runs, offset, count>>

Init ==
  /\ runs \in Tables
  /\ pc = "idle" /\ offset = 0 /\ count = 0 /\ done = 0 /\ buf = Nothing

Read(o, n) ==
  /\ pc = "idle"
  /\ pc' = "loop" /\ offset' = o /\ count' = n /\ done' = 0 /\ buf' = Nothing
  /\ UNCHANGED runs

\* Lines 66, 72-73 and 93: all is done, or the end of the partition reached.
\* A negative result tells the caller of an error.
Finish ==
  /\ pc = "loop" /\ (done >= count \/ PastEnd)
  /\ pc' = IF done < 0 THEN "failed" ELSE "returned"
  /\ UNCHANGED <<runs, offset, count, done, buf>>

\* There is a piece to be read, in the run found for it.
InLoop == pc = "loop" /\ done < count /\ ~ PastEnd
InA(types) == InLoop /\ AtOrBefore(Position) # {} /\ RunOf(Position).type \in types

\* Lines 75-76: no run starts before the position.
NoRun ==
  /\ InLoop /\ AtOrBefore(Position) = {}
  /\ pc' = "failed"
  /\ UNCHANGED <<runs, offset, count, done, buf>>

FillZeroes == InA(Filled) /\ Advance(ThisTime)

\* Bug: an empty read of the disk ends the call like the end of the partition.
ReadRaw_EmptyIsEnd ==
  /\ InA({"Raw"})
  /\ \/ Advance(ThisTime)
     \/ pc' = "returned" /\ UNCHANGED <<runs, offset, count, done, buf>>

\* Bug: a raw run is read through a buffer of one sector.
ReadRaw_SectorBuffer ==
  /\ InA({"Raw"})
  /\ \/ Advance(IF ThisTime > SectorSize THEN SectorSize ELSE ThisTime)
     \/ Advance(0)

\* A raw run is read from the disk; the end of the image gives 0 bytes.
ReadRaw ==
  /\ InA({"Raw"})
  /\ \/ Advance(ThisTime)
     \/ Advance(0)
     \/ "short" \in DiskFaults /\ \E n \in 1 .. ThisTime - 1 : Advance(n)
     \/ "error" \in DiskFaults /\ Advance(-1)

\* A compressed run is decompressed from its start; the decompressor throws,
\* or delivers too little, which is an error, or delivers all.
Decompress ==
  /\ InA(Compressed)
  /\ \/ InRun <= RunOf(Position).count * SectorSize /\ Advance(ThisTime)
     \/ Advance(0)

\* Line 145: a run of any other type delivers nothing.
NoSuchType ==
  /\ InLoop /\ AtOrBefore(Position) # {}
  /\ RunOf(Position).type \notin Filled \cup Compressed \cup {"Raw"}
  /\ Advance(0)

\* The caller has the answer or the exception.
Leave ==
  /\ pc \in {"returned", "failed"}
  /\ pc' = "idle" /\ offset' = 0 /\ count' = 0 /\ done' = 0 /\ buf' = Nothing
  /\ UNCHANGED runs

Step == Finish \/ NoRun \/ FillZeroes \/ ReadRaw \/ Decompress \/ NoSuchType \/ Leave

Next == Step \/ \E o \in Offsets, n \in Counts : Read(o, n)

Spec == Init /\ [][Next]_vars /\ WF_vars(Step)

----------------------------------------------------------------------------
(* Properties.                                                             *)

\* A run table is sound if every sector of the partition is in exactly one
\* of the runs that are not skipped, and none of those is empty or goes past
\* the end.  The tables of real images are; the code does not check it.
Sound(table) ==
  LET data == {i \in DOMAIN table : table[i].type \notin Skipped} IN
  /\ \A i \in data : /\ table[i].start \in Nat /\ table[i].count \in Nat \ {0}
                     /\ table[i].start + table[i].count <= SectorCount
  /\ \A s \in 0 .. SectorCount - 1 :
       \E i \in data : table[i].start <= s /\ s < table[i].start + table[i].count
  /\ \A i, j \in data :
       i # j => \/ table[i].start + table[i].count <= table[j].start
                \/ table[j].start + table[j].count <= table[i].start

TablesSound == \A table \in Tables : Sound(table)

\* The call of read(), if there is one, as the contract in Reader sees it.
Calls ==
  IF pc = "idle" THEN <<>>
  ELSE <<[tag |-> Partition, offset |-> offset, count |-> count,
          status |-> CASE pc = "returned" -> "answered"
                       [] pc = "failed"   -> "failed"
                       [] OTHER           -> "running",
          bytes |-> IF pc = "returned" THEN buf ELSE Nothing]>>

R == INSTANCE Reader WITH
       Tags <- {Partition}, Length <- [t \in {Partition} |-> PartitionLength], calls <- Calls

\* After its first piece, read() is at the first byte of a run whenever there
\* is more to read: only therefore may line 83 forget the offset into it.
AtRunStart ==
  pc = "loop" /\ done > 0 /\ done < count /\ ~ PastEnd =>
    /\ AtOrBefore(Position) # {}
    /\ Position = RunStart(Position) * SectorSize

\* What the cache relies on: an advised block contains the position it was
\* asked for and lies within the partition, whichever run that is in.
AdviceUsable ==
  \A p \in 0 .. PartitionLength - 1 :
    AtOrBefore(p) # {} =>
      LET b == AdvisedBlock(p)
      IN  0 <= b.start /\ b.start <= p /\ p < b.end /\ b.end <= PartitionLength

\* A partition implements the contract of Reader, and every call ends.
ReaderContract == R!Spec
=============================================================================
