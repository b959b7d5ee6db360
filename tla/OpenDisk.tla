------------------------------ MODULE OpenDisk ------------------------------
(***************************************************************************)
(* openDisk() (src/main-fuse.cpp): finds out what a file is, lists its     *)
(* partitions and opens the first one that is an HFS+ volume.  Composes    *)
(* AppleDisk, GPTDisk, DMGDisk and HFSVolume.                              *)
(***************************************************************************)
EXTENDS DMGDisk, HFSVolume

HFSTypes == {Text("Apple_HFS"), Text("Apple_HFSX")}

DiskInit ==
  /\ image \in Images
  /\ pc = "detect"
  /\ faults = {}
  /\ m_partitions = <<>>
  /\ m_reader = NoReader /\ mapReader = NoReader
  /\ local = [i |-> 0]

\* The tests of lines 101-110 in their order; one whose read fails is false,
\* and no file meets two of them.
Kinds == <<"dmg", "gpt", "apple", "hfs">>

Is(kind) ==
  CASE kind = "dmg"   -> image.form = "dmg"
    [] kind = "gpt"   -> IsGPTDisk(FileReader)
    [] kind = "apple" -> IsAppleDisk(FileReader)
    [] kind = "hfs"   -> IsHFSPlus(FileReader)

FirstPc == [dmg |-> "koly", gpt |-> "gpt", apple |-> "block0", hfs |-> "header"]

Detect ==
  LET kind == SelectInSeq(Kinds, Is)
  IN  /\ pc = "detect"
      /\ \/ /\ kind # 0
            /\ pc' = FirstPc[Kinds[kind]] /\ m_reader' = FileReader
            /\ UNCHANGED <<image, faults, m_partitions, mapReader, local>>
         \/ kind = 0 /\ Fail /\ UNCHANGED faults
         \/ kind # 0 /\ Faulty("detect") /\ Fail

\* Bug: the loop goes on behind the first suitable partition.
Suitable_Last == SelectLastInSeq(m_partitions, LAMBDA p : p.type \in HFSTypes)

\* Lines 116-127.
Suitable == SelectInSeq(m_partitions, LAMBDA p : p.type \in HFSTypes)

\* Bug: the search for the table leaves out the ID -1.
FirstID_Zero == 0

\* DMGDisk.cpp:228: the first ID that DMGDisk::readerForPartition() tries.
FirstID == -1

\* Lines 116-133.  A DMG searches the partition's table, the other disks make
\* a SubReader (AppleDisk and GPTDisk::readerForPartition).
Choose ==
  /\ pc = "listed"
  /\ \/ Suitable = 0 /\ Fail
     \/ /\ Suitable # 0 /\ image.form = "dmg"
        /\ pc' = "search" /\ local' = [i |-> FirstID, index |-> Suitable]
        /\ UNCHANGED <<image, m_partitions, m_reader, mapReader>>
     \/ /\ Suitable # 0 /\ image.form = "raw"
        /\ pc' = "header"
        /\ m_reader' = SubReader(FileReader, m_partitions[Suitable].offset,
                                             m_partitions[Suitable].size)
        /\ UNCHANGED <<image, m_partitions, mapReader, local>>
  /\ UNCHANGED faults

DiskNext == Detect \/ AppleStep \/ LoadPartitions \/ DMGStep \/ Choose \/ VolumeStep

\* openDisk() is called by main() and runs by itself.
DiskSpec == DiskInit /\ [][DiskNext]_diskVars /\ WF_diskVars(DiskNext)

----------------------------------------------------------------------------
(* What the medium holds, by the formats alone.                            *)

Part(type, offset, size) == [type |-> type, offset |-> offset, size |-> size]

EntryPart(e) ==
  IF image.scheme = "Apple"
  THEN Part(e.type, e.start * image.spacing, e.count * image.spacing)
  ELSE Part(Text(IF e.type = GUID_HFSPLUS THEN "Apple_HFS" ELSE "other"),
            e.first, (e.last + 1) - e.first)

\* The partitions, by their places in the map, or the volume.
Places == IF image.scheme = "none" THEN {1} ELSE DOMAIN image.entries
MediumPart(p) ==
  IF image.scheme = "none" THEN Part(Text("Apple_HFS"), 0, image.length)
  ELSE EntryPart(image.entries[p])

\* The first of them that is an HFS+ volume.
HFSPlaces == {p \in Places : MediumPart(p).type \in HFSTypes}
FirstPart == MediumPart(Min(HFSPlaces))

\* The types are told apart only as far as it matters to openDisk().
Alike(p, q) ==
  (p.type \in HFSTypes <=> q.type \in HFSTypes) /\ p.offset = q.offset /\ p.size = q.size

\* A list has the partitions of the medium in the order of their places, all
\* of them or those before one.  What is at 0 is no partition.
InOrder(list, all) ==
  LET there == {p \in Places : MediumPart(p).offset # 0}
  IN  \E place \in [{i \in DOMAIN list : list[i].offset # 0} -> there] :
        /\ \A i \in DOMAIN place : Alike(list[i], MediumPart(place[i]))
        /\ \A i, j \in DOMAIN place : i < j => place[i] < place[j]
        /\ \A p \in there :
             \/ \E i \in DOMAIN place : place[i] = p
             \/ ~ all /\ \A i \in DOMAIN place : place[i] < p

\* A part of the medium that is in the file, or in a table of a DMG.
Inside(offset, size) ==
  image.form = "raw" => offset + size <= image.length

\* The partition map can be read: its blocks are as far apart as block 0
\* says, or it says nothing, and the entries follow each other.  In a DMG
\* there are the tables of block 0 (ID -1) and of the map.
BlockZeroReadable == image.dataFork = 0 /\ TableOf(-1).first = 0 /\ TableOf(-1).count >= 1

AppleReadable ==
  LET places == DOMAIN image.entries
  IN  /\ image.declared \in {0, image.spacing}
      /\ image.declared = 0 => \A p \in places : p > 1 => p - 1 \in places
      /\ places \subseteq 1 .. MapSlots /\ image.spacing < MapSlots
      /\ image.form = "raw" => 1 \in places
      /\ \A p \in places : Inside(0, image.spacing * (1 + p))
      /\ image.form = "dmg" =>
           /\ BlockZeroReadable /\ TableOf(0).first = image.spacing
           /\ \A p \in places : image.spacing * p <= TableOf(0).count
           /\ image.declared = 0 /\ image.spacing > 1 => 2 \in places

GPTReadable ==
  /\ DOMAIN image.entries \subseteq 1 .. 4 * GPTSectors /\ Inside(0, 2 + GPTSectors)
  /\ image.form = "dmg" =>
       BlockZeroReadable /\ TableOf(1).first = 2 /\ TableOf(1).count >= GPTSectors

MapReadable ==
  \/ image.scheme = "Apple" /\ AppleReadable
  \/ image.scheme = "GPT" /\ GPTReadable

\* The names of a DMG's elements tell their types, and their IDs their places.
NamesReadable ==
  LET Named(i) == ParseNameAndType(Elements[i].name)
      HFSNamed == {i \in 1 .. Len(Elements) : Named(i).type \in HFSTypes}
      first    == Elements[Min(HFSNamed)]
  IN  /\ \A i \in 1 .. Len(Elements) : Named(i).ok /\ TableOf(i - 1) = Elements[i]
      /\ HFSNamed # {} /\ first.first = FirstPart.offset /\ first.count = FirstPart.size

\* The first name tells no type, so that the map is read.
MapIsRead == Elements # <<>> /\ ~ ParseNameAndType(Elements[1].name).ok

\* The HFS+ volume in it: the partition, or what its HFS wrapper embeds.
VolumeHere ==
  LET part  == FirstPart
      block == Header(part.offset + 2)
  IN  IF block.signature = "HFS" /\ block.drEmbedSigWord \in PlusSignatures
      THEN Part(part.type, part.offset + block.drAlBlSt + block.drAlBlkSiz * block.startBlock,
                block.drAlBlkSiz * block.blockCount)
      ELSE part

\* Everything openDisk() needs is there.
Good ==
  /\ HFSPlaces # {}
  /\ Header(VolumeHere.offset + 2).signature \in PlusSignatures
  /\ VolumeHere.size >= 3
  /\ VolumeHere = FirstPart \/ VolumeHere.offset + VolumeHere.size < FirstPart.offset + Wrap
  /\ VolumeHere.offset + VolumeHere.size <= FirstPart.offset + FirstPart.size
  /\ Inside(FirstPart.offset, FirstPart.size)
  /\ \/ image.form = "raw" /\ (image.scheme = "none" \/ MapReadable)
     \/ image.form = "dmg" /\ (NamesReadable \/ (MapIsRead /\ MapReadable))
  /\ image.form = "dmg" =>
       /\ \A b, c \in Range(image.blkx) : b.first = c.first => b = c
       /\ \E b \in Range(image.blkx) : b.first = FirstPart.offset /\ b.count = FirstPart.size

\* If the entries of an Apple map in a DMG must be read, LZFSE runs of its
\* table have one sector each: they are read where they are, one by one.
EntriesDecodable ==
  image.form = "dmg" /\ image.scheme = "Apple" /\ MapIsRead => TableOf(0).inLZFSE = {}

----------------------------------------------------------------------------
(* Properties.                                                             *)

\* The list that AppleDisk and GPTDisk make has the partitions of the map,
\* all of them and in its order, wherever the map is read from and whatever
\* its block size; it ends before an entry whose read failed, and one that
\* cannot be decoded does not end it.  (The results of the reads that guess
\* the block size are not looked at.)
ListingIsMap ==
  /\ pc \in {"map", "listed", "search", "header", "mounted"}
  /\ image.scheme # "none" /\ MapReadable /\ "guess" \notin faults
  /\ image.form = "dmg" => mapReader # NoReader
  => InOrder(m_partitions, pc # "map" /\ faults = {})

\* What is mounted is the first HFS+ volume of the medium, from its first
\* sector to its last, whichever way through the formats led to it.  (After a
\* failed read while the block size is guessed the offsets may be wrong.)
MountsFirst ==
  pc = "mounted" /\ Good /\ "guess" \notin faults =>
    /\ m_reader.first = VolumeHere.offset /\ m_reader.size = VolumeHere.size
    /\ m_reader.limit >= m_reader.first + m_reader.size

\* A file in which everything is there is mounted, unless a read of it fails:
\* no format is misunderstood, and the search for the table of the partition
\* comes to its end.
GoodIsMounted == Good /\ EntriesDecodable ~> pc = "mounted" \/ faults # {}

\* The table that DMGDisk::readerForPartition() searches for: one that has an
\* ID, from -1 on, and the first sector of the partition.
SearchedTables ==
  {b \in Range(image.blkx) :
     b.id >= -1 /\ b = TableOf(b.id) /\ b.first = m_partitions[local.index].offset}

\* Whatever is in the file and whichever read fails, openDisk() ends: only
\* the search for a table that is not there goes on for ever.
OpenEnds ==
  <>(pc \in {"mounted", "failed", "crashed"} \/ (pc = "search" /\ SearchedTables = {}))
=============================================================================
