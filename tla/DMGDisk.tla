------------------------------ MODULE DMGDisk ------------------------------
(***************************************************************************)
(* DMGDisk (src/DMGDisk.cpp): the partitions of a DMG are the elements of  *)
(* a list in its XML data.  Their types are taken from their names; if the *)
(* first name has no type, the partition map inside the image is read      *)
(* instead.  The table of a partition is then found by its first sector.   *)
(* The bytes of a table are DMGPartition's and DMGDecompressor's.          *)
(***************************************************************************)
EXTENDS AppleDisk, GPTDisk

NoTable == [id |-> 0, name |-> <<>>, first |-> Nowhere, count |-> 0, inLZFSE |-> {}]

\* loadBLKXTableForPartition: the first element with the ID.
TableOf(id) ==
  LET place == SelectInSeq(image.blkx, LAMBDA b : b.id = id)
  IN  IF place = 0 THEN NoTable ELSE image.blkx[place]

\* readerForKolyBlock: unlike readerForPartition it puts no CachedReader over
\* the table, and does not add the start of the data fork, so that other bytes
\* than the table's are read if that is not 0.
KolyReader(id) ==
  CASE TableOf(id) = NoTable -> NoReader
    [] TableOf(id) # NoTable /\ image.dataFork = 0 -> DMGPartition(TableOf(id))
    [] OTHER -> Blind

\* Names are sequences of pieces of text in which "(", ":" and " " are
\* pieces of their own.  The type is what is between the first parenthesis
\* and the colon behind it, without one space at the end.
ParseNameAndType(name) ==
  LET paren == SelectInSeq(name, LAMBDA t : t = "(")
      colon == SelectInSubSeq(name, paren + 1, Len(name), LAMBDA t : t = ":")
      type  == SubSeq(name, paren + 1, colon - 1)
  IN  IF paren = 0 \/ colon = 0 THEN [ok |-> FALSE, type |-> <<>>]
      ELSE [ok |-> TRUE, type |-> IF type # <<>> /\ Last(type) = " " THEN Front(type) ELSE type]

----------------------------------------------------------------------------
\* The elements that the XPath expression of line 70 selects, in their order.
Selected == {i \in DOMAIN image.blkx : image.blkx[i].id >= 0}
Elements ==
  [n \in 1 .. Cardinality(Selected) |->
     image.blkx[CHOOSE i \in Selected : Cardinality({j \in Selected : j <= i}) = n]]

\* Lines 17-34 and 58-76.  If the XML data cannot be read there is neither an
\* element nor a table.  If no element is selected the list is complete, or
\* there is no node set, and line 73 goes on to line 80.
LoadKoly ==
  /\ pc = "koly"
  /\ \/ /\ Elements # <<>>
        /\ pc' = "elements" /\ local' = [i |-> 0]
        /\ UNCHANGED <<image, faults, m_partitions, m_reader, mapReader>>
     \/ /\ Elements = <<>> /\ UNCHANGED faults
        /\ \/ Listed
           \/ GoTo("fallback")
     \/ Faulty("koly") /\ Fail
     \/ Faulty("xml") /\ Listed

\* part is not initialized: without a table it keeps what the partitions
\* before it left there, or other bytes, for which 0 stands.
Undefined == {[offset |-> 0, size |-> 0]} \cup
             {[offset |-> p.offset, size |-> p.size] : p \in ToSet(m_partitions)}

\* Bug: the first element is taken for the one with the ID -1.
TableAt_FromMinus1(i) ==
  IF TableOf(i - 1) = NoTable THEN Undefined
  ELSE {[offset |-> TableOf(i - 1).first, size |-> TableOf(i - 1).count]}

\* Line 131: not the element's own table, but the one with the ID i.
TableAt(i) ==
  IF TableOf(i) = NoTable THEN Undefined
  ELSE {[offset |-> TableOf(i).first, size |-> TableOf(i).count]}

\* Lines 112-145.
LoadElement ==
  /\ pc = "elements" /\ local.i < Len(Elements)
  /\ LET parsed == ParseNameAndType(Elements[local.i + 1].name)
     IN  IF ~ parsed.ok /\ m_partitions = <<>> THEN GoTo("fallback")
         ELSE /\ \E part \in TableAt(local.i) :
                   m_partitions' = Append(m_partitions, [type   |-> parsed.type,
                                                         offset |-> part.offset,
                                                         size   |-> part.size])
              /\ local' = [local EXCEPT !.i = @ + 1]
              /\ UNCHANGED <<image, pc, m_reader, mapReader>>
  /\ UNCHANGED faults

LoadElementsEnds ==
  pc = "elements" /\ local.i = Len(Elements) /\ Listed /\ UNCHANGED faults

\* Lines 80-105.
Fallback ==
  LET rm1 == KolyReader(-1)
      With(there, reader, map) ==
        /\ pc' = there /\ m_reader' = reader /\ mapReader' = map
        /\ UNCHANGED <<image, faults, m_partitions, local>>
  IN  /\ pc = "fallback"
      /\ \/ rm1 = NoReader /\ Listed /\ UNCHANGED faults
         \/ rm1 # NoReader /\ IsAppleDisk(rm1) /\ With("block0", rm1, KolyReader(0))
         \/ rm1 # NoReader /\ IsGPTDisk(rm1) /\ With("gpt", NoReader, KolyReader(1))
         \/ /\ rm1 # NoReader /\ ~ IsAppleDisk(rm1) /\ ~ IsGPTDisk(rm1)
            /\ Fail /\ UNCHANGED faults
         \/ rm1 # NoReader /\ Faulty("block0") /\ Fail

----------------------------------------------------------------------------
LastID == Max({b.id : b \in ToSet(image.blkx)} \cup {-1})

\* readerForPartition(), with index counted from 1.  There is no end: behind
\* the last ID only the counter changes.
Search ==
  /\ pc = "search" /\ local.i <= LastID
  /\ LET table == TableOf(local.i)
     IN  IF table # NoTable /\ table.first = m_partitions[local.index].offset
         THEN pc' = "header" /\ m_reader' = CachedReader(DMGPartition(table)) /\ UNCHANGED local
         ELSE local' = [local EXCEPT !.i = @ + 1] /\ UNCHANGED <<pc, m_reader>>
  /\ UNCHANGED <<image, faults, m_partitions, mapReader>>

DMGStep == LoadKoly \/ LoadElement \/ LoadElementsEnds \/ Fallback \/ Search
=============================================================================
