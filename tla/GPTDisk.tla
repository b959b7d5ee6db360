------------------------------ MODULE GPTDisk ------------------------------
(***************************************************************************)
(* GPTDisk (src/GPTDisk.cpp): the whole array of entries is read at once,  *)
(* from the table of the array in a DMG or from sector 2 of the disk.      *)
(* The type of an entry is a GUID: its text, its text without zeros before *)
(* the third group, and that group, data3.                                 *)
(***************************************************************************)
EXTENDS PartitionedDisk

GUID_EMPTY   == [text |-> "00000000-0000-0000-0000-000000000000",
                 bare |-> "00000000-0000-0-0000-000000000000", data3 |-> 0]
GUID_HFSPLUS == [text |-> "48465300-0000-11AA-AA11-00306543ECAC",
                 bare |-> "48465300-0000-11AA-AA11-00306543ECAC", data3 |-> 4522]

\* No other type has the text of the HFS+ one, none the name of a partition type.
ASSUME GUIDsAssumption ==
  \A im \in Images : im.scheme = "GPT" =>
    \A p \in DOMAIN im.entries :
      LET guid == im.entries[p].type
      IN  /\ guid.data3 \in Nat
          /\ guid.text = GUID_HFSPLUS.text => guid = GUID_HFSPLUS
          /\ guid.data3 < 4096 => guid.bare # GUID_HFSPLUS.text
          /\ \A name \in {guid.text, guid.bare} : name \notin {"Apple_HFS", "Apple_HFSX"}

\* Line 47: std::setw() holds for the next output only, which is data2.
MakeGUID(guid) == IF guid.data3 < 4096 THEN guid.bare ELSE guid.text

\* The entries behind those of the image are empty.
Slot(i) ==
  IF i \in DOMAIN image.entries THEN image.entries[i]
  ELSE [type |-> GUID_EMPTY, first |-> 0, last |-> 0]

TypeName(guid) ==
  CASE guid = GUID_EMPTY.text   -> Text("Apple_Free")
    [] guid = GUID_HFSPLUS.text -> Text("Apple_HFS")
    [] OTHER                    -> Text(guid)

PartitionIn(e) == [type   |-> TypeName(MakeGUID(e.type)),
                   offset |-> e.first,
                   size   |-> (e.last - e.first) + 1]

ArrayReader == IF mapReader = NoReader THEN m_reader ELSE mapReader
ArrayOffset == IF mapReader = NoReader THEN 2 ELSE 0

\* Lines 73 and 75: rd, the whole entries read, four to a sector.
EntriesRead ==
  4 * Cardinality({s \in 0 .. GPTSectors - 1 : Sees(ArrayReader, ArrayOffset + s) # Nowhere})

\* Without a table in a DMG there is no reader at all; if read() fails, rd is
\* -1, which line 75 makes a huge number, and the loop leaves part[].
LoadPartitions ==
  /\ pc = "gpt"
  /\ \/ /\ ArrayReader # NoReader
        /\ m_partitions' = [i \in 1 .. EntriesRead |-> PartitionIn(Slot(i))]
        /\ pc' = "listed"
        /\ UNCHANGED <<image, faults, m_reader, mapReader, local>>
     \/ ArrayReader = NoReader /\ GoTo("crashed") /\ UNCHANGED faults
     \/ /\ ArrayReader # NoReader /\ Faulty("gpt")
        /\ IF Throws(ArrayReader) THEN Fail ELSE GoTo("crashed")
=============================================================================
