----------------------------- MODULE AppleDisk -----------------------------
(***************************************************************************)
(* AppleDisk (src/AppleDisk.cpp): load() reads block 0 from m_reader and   *)
(* the entries of the partition map from mapReader, the table of the map   *)
(* in a DMG, or, if there is none, from m_reader too, behind block 0.      *)
(* When block 0 tells no block size, it is guessed from the distance of    *)
(* the entries.                                                            *)
(***************************************************************************)
EXTENDS PartitionedDisk

\* An entry has its signature.
ASSUME EntriesAssumption ==
  \A im \in Images : im.scheme = "Apple" =>
    \A p \in DOMAIN im.entries : im.entries[p].type # Text("no signature")

\* local: blockSize in sectors; the entry i; the last one with a signature;
\* dpme, which keeps what was in it when a read does not fill it.
Start(blockSize) == [blockSize |-> blockSize, i |-> 0, lastOK |-> -1, dpme |-> NoEntry]

\* Lines 24-34: sbBlkSize, or 512 to guess with.  The signature has been
\* found by isAppleDisk() before.
ReadBlock0 ==
  /\ pc = "block0"
  /\ \/ /\ pc' = IF image.declared = 0 THEN "guess" ELSE "map"
        /\ local' = Start(IF image.declared = 0 THEN 1 ELSE image.declared)
        /\ UNCHANGED <<image, faults, m_partitions, m_reader, mapReader>>
     \/ Faulty("block0") /\ Fail

\* Bug: block 0 is taken for the first block of the map's own table as well.
EntryOffset_NoTable == (local.i + 1) * local.blockSize

\* Lines 41-44 and 73-76: the map's own table starts with its first entry.
EntryOffset == (IF mapReader = NoReader THEN local.i + 1 ELSE local.i) * local.blockSize

EntryReader == IF mapReader = NoReader THEN m_reader ELSE mapReader

\* The entry that is read, and whether it is there.
There     == Sees(EntryReader, EntryOffset) # Nowhere
EntryRead == DPME(Sees(EntryReader, EntryOffset))

\* It is inside a run that cannot be read from there: there is no
\* CachedReader over the table of the map.
Opaque == Sees(EntryReader, EntryOffset) \in EntryReader.opaque

\* Bug: an entry that follows its predecessor after a gap is not noticed.
AfterGap_Never(i) == FALSE

\* Line 54.
AfterGap(i) == local.lastOK # i - 1

\* Lines 51-59, with the entry that is in dpme.
Guess(dpme) ==
  /\ IF dpme = NoEntry
     THEN local' = [local EXCEPT !.dpme = dpme, !.i = @ + 1] /\ UNCHANGED pc
     ELSE IF AfterGap(local.i)
     THEN local' = Start(local.blockSize * (local.i - local.lastOK)) /\ pc' = "map"
     ELSE local' = [local EXCEPT !.dpme = dpme, !.i = @ + 1, !.lastOK = local.i] /\ UNCHANGED pc
  /\ UNCHANGED <<image, m_partitions, m_reader, mapReader>>

\* Lines 36-60.  Whether the read gave an entry is not looked at.
GuessBlockSize ==
  /\ pc = "guess" /\ local.i < MapSlots
  /\ \/ ~ Opaque /\ Guess(IF There THEN EntryRead ELSE local.dpme) /\ UNCHANGED faults
     \/ Opaque /\ Fail /\ UNCHANGED faults
     \/ Faulty("guess") /\ IF Throws(EntryReader) THEN Fail ELSE Guess(local.dpme)

\* No gap was found: the entries are 512 bytes apart.
GuessEnds ==
  /\ pc = "guess" /\ local.i = MapSlots
  /\ pc' = "map" /\ local' = Start(local.blockSize)
  /\ UNCHANGED <<image, faults, m_partitions, m_reader, mapReader>>

PartitionOf(dpme) == [type   |-> dpme.type,
                      offset |-> dpme.start * local.blockSize,
                      size   |-> dpme.count * local.blockSize]

\* Bug: a block without the signature ends the list.
List_StopsAtNone(dpme) ==
  /\ IF dpme = NoEntry THEN pc' = "listed" /\ UNCHANGED <<m_partitions, local>>
     ELSE /\ m_partitions' = Append(m_partitions, PartitionOf(dpme))
          /\ local' = [local EXCEPT !.i = @ + 1] /\ UNCHANGED pc
  /\ UNCHANGED <<image, faults, m_reader, mapReader>>

\* Lines 89-104.
List(dpme) ==
  /\ m_partitions' = IF dpme = NoEntry THEN m_partitions
                     ELSE Append(m_partitions, PartitionOf(dpme))
  /\ local' = [local EXCEPT !.i = @ + 1]
  /\ UNCHANGED <<image, pc, faults, m_reader, mapReader>>

\* Bug: an entry that cannot be decoded ends the list.
LoadEntry_OpaqueIsEnd ==
  /\ pc = "map" /\ local.i < MapSlots
  /\ \/ There /\ ~ Opaque /\ List(EntryRead)
     \/ (~ There \/ Opaque) /\ Listed /\ UNCHANGED faults
     \/ Faulty("map") /\ IF Throws(EntryReader) THEN Fail ELSE Listed

\* Lines 67-105: the list ends where there is no entry to be read.
LoadEntry ==
  /\ pc = "map" /\ local.i < MapSlots
  /\ \/ There /\ ~ Opaque /\ List(EntryRead)
     \/ ~ There /\ Listed /\ UNCHANGED faults
     \/ Opaque /\ Fail /\ UNCHANGED faults
     \/ Faulty("map") /\ IF Throws(EntryReader) THEN Fail ELSE Listed

LoadEnds == pc = "map" /\ local.i = MapSlots /\ Listed /\ UNCHANGED faults

AppleStep == ReadBlock0 \/ GuessBlockSize \/ GuessEnds \/ LoadEntry \/ LoadEnds
=============================================================================
