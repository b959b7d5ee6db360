--------------------------- MODULE PartitionedDisk ---------------------------
(***************************************************************************)
(* The state and the formats that AppleDisk, GPTDisk, DMGDisk and openDisk *)
(* share (src/PartitionedDisk.h, apm.h, gpt.h, dmg.h, SubReader.cpp).      *)
(*                                                                         *)
(* An image is a file that holds a medium as it is ("raw") or cut into     *)
(* compressed tables ("dmg").  A medium is counted in sectors of 512       *)
(* bytes.  It has a partition map (scheme "Apple", whose entries lie       *)
(* spacing sectors apart, or "GPT"), or is one volume; volumes have their  *)
(* header at their sector 2.  An image is a record of                      *)
(*   form, scheme, length        as above, length in sectors               *)
(*   spacing, declared           of an Apple map; declared is sbBlkSize    *)
(*   entries                     the map's entries [type, start, count],   *)
(*                               in units of spacing                       *)
(*   volumes                     sector of a volume header -> the header   *)
(*   blkx, dataFork              of a DMG: the elements of its XML list,   *)
(*                               records [id, name, first, count, inLZFSE] *)
(*                               with the sectors of a BLKXTable and those *)
(*                               of them that are behind the first of an   *)
(*                               LZFSE run, and where the data fork starts *)
(* The entries of a GPT are records [type, first, last], type a GUID.      *)
(*                                                                         *)
(* A reader is a window on the medium: its sector s is sector first + s    *)
(* of the medium, if s is before size and that before limit.  A read that  *)
(* starts at one of the sectors opaque of the medium throws.               *)
(***************************************************************************)
EXTENDS Integers, SequencesExt, FiniteSetsExt

CONSTANTS
  Images,     \* the files that may be opened
  MapSlots,   \* how many entries of an Apple map are tried, 63
  GPTSectors, \* how many sectors the entries of a GPT take, 32
  Wrap,       \* 2^32 bytes, in sectors
  MaxFaults   \* how many reads of the file may fail

ASSUME SizesAssumption ==
  MapSlots \in Nat /\ GPTSectors \in Nat /\ Wrap \in Nat \ {0} /\ MaxFaults \in Nat

ASSUME ImagesAssumption ==
  \A im \in Images :
    /\ im.form \in {"raw", "dmg"} /\ im.scheme \in {"Apple", "GPT", "none"}
    /\ im.length \in Nat /\ im.spacing \in Nat \ {0} /\ im.declared \in Nat /\ im.dataFork \in Nat
    /\ IsFiniteSet(DOMAIN im.entries)
    /\ \A p \in DOMAIN im.entries :
         /\ p \in Nat \ {0}
         /\ im.scheme = "Apple" =>
              im.entries[p].start \in Nat /\ im.entries[p].count \in Nat
         /\ im.scheme = "GPT" =>
              im.entries[p].first \in Nat /\ im.entries[p].last \in Nat
    /\ \A s \in DOMAIN im.volumes :
         /\ s \in Nat
         /\ im.volumes[s].signature = "HFS" /\ im.volumes[s].drEmbedSigWord # "none" =>
              /\ im.volumes[s].drAlBlkSiz \in Nat /\ im.volumes[s].drAlBlSt \in Nat
              /\ im.volumes[s].startBlock \in Nat /\ im.volumes[s].blockCount \in Nat
    /\ im.blkx \in Seq(Range(im.blkx))
    /\ \A b \in Range(im.blkx) :
         b.id \in Int /\ b.first \in Nat /\ b.count \in Nat /\ b.inLZFSE \subseteq 1 .. b.count - 1

VARIABLES
  image,          \* the file
  pc,             \* where openDisk() is
  faults,         \* what was being read when a read of the file failed
  m_partitions,   \* the disk's list of partitions [type, offset, size]
  m_reader,       \* the reader of block 0, of a partition or of the volume
  mapReader,      \* readerPM or partitionTable, or NoReader
  local           \* the locals of the loop that runs

diskVars == <<image, pc, faults, m_partitions, m_reader, mapReader, local>>

\* A partition's type is text cut into pieces where parseNameAndType looks.
Text(s) == <<s>>

PlusSignatures == {"HFS+", "HFSX"}   \* HFSP_SIGNATURE, HFSX_SIGNATURE

----------------------------------------------------------------------------
(* Readers.                                                                *)

Nowhere == -1
NoReader == [first |-> Nowhere, size |-> 0, limit |-> 0, opaque |-> {}]
Blind    == [first |-> 0, size |-> 0, limit |-> 0, opaque |-> {}]

Smaller(a, b) == IF a <= b THEN a ELSE b

\* FileReader: the file as it is; of a DMG no sector of the medium is there.
FileReader ==
  IF image.form = "dmg" THEN Blind
  ELSE [first |-> 0, size |-> image.length, limit |-> image.length, opaque |-> {}]

\* SubReader: a part of another reader, by an offset and a size; what the
\* other one lacks is missing.
SubReader(r, offset, size) ==
  [first |-> r.first + offset, size |-> size, limit |-> Smaller(r.limit, r.first + r.size),
   opaque |-> r.opaque]

\* DMGPartition: the sectors of a table.  To skip to an offset in a run the
\* LZFSE decompressor decodes its start; the next time there is no input left,
\* and readSome() throws.
DMGPartition(table) ==
  [first |-> table.first, size |-> table.count, limit |-> table.first + table.count,
   opaque |-> {table.first + s : s \in table.inLZFSE}]

\* CachedReader, which reads compressed runs of a DMGPartition from their start.
CachedReader(partition) == [partition EXCEPT !.opaque = {}]

\* The sector of the medium that read() finds at the sector s of a reader;
\* Nowhere if the read comes short.
Sees(r, s) == IF s < r.size /\ r.first + s < r.limit THEN r.first + s ELSE Nowhere

----------------------------------------------------------------------------
(* What is at a sector of the medium.                                      *)

NoEntry == [type |-> Text("no signature"), start |-> 0, count |-> 0]

\* A DPME with its signature, or something else.
DPME(s) ==
  IF image.scheme = "Apple" /\ s % image.spacing = 0
     /\ s \div image.spacing \in DOMAIN image.entries
  THEN image.entries[s \div image.spacing] ELSE NoEntry

\* The volume header, or the master directory block, in a sector.
NoHeader == [signature |-> "none"]
Header(s) == IF s \in DOMAIN image.volumes THEN image.volumes[s] ELSE NoHeader

\* AppleDisk::isAppleDisk and GPTDisk::isGPTDisk of a reader, when the read
\* does not fail.
IsAppleDisk(r) == Sees(r, 0) = 0 /\ image.scheme = "Apple"
IsGPTDisk(r)   == Sees(r, 0) = 0 /\ image.scheme = "GPT"

----------------------------------------------------------------------------
\* A read of the file fails while f is read.  Readers of a DMG throw, as the
\* decompressors do (what DMGPartition makes of a raw run that cannot be read
\* is in DMGPartition); the file's own reader returns -1.
Faulty(f) == Cardinality(faults) < MaxFaults /\ faults' = faults \cup {f}
Throws(r) == image.form = "dmg"

GoTo(there) == pc' = there /\ UNCHANGED <<image, m_partitions, m_reader, mapReader, local>>
Fail   == GoTo("failed")     \* an exception that openDisk() does not catch
Listed == GoTo("listed")
=============================================================================
