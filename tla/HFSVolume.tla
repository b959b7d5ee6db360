----------------------------- MODULE HFSVolume -----------------------------
(***************************************************************************)
(* The opening of an HFSVolume (src/HFSVolume.cpp) on m_reader: the header *)
(* is that of an HFS+ or HFSX volume, or the master directory block of an  *)
(* HFS volume in which one is embedded.  The trees that it opens are       *)
(* modelled in HFSBTree and HFSFork.                                       *)
(***************************************************************************)
EXTENDS PartitionedDisk

\* Bug: the blocks of the wrapper are counted from its beginning.
EmbeddedOffset_NoStart(block) == (block.drAlBlkSiz * block.startBlock) % Wrap

\* Lines 54-55: the products have 32 bits, drAlBlkSiz is counted in sectors.
EmbeddedOffset(block) == (block.drAlBlkSiz * block.startBlock + block.drAlBlSt) % Wrap
EmbeddedLength(block) == (block.drAlBlkSiz * block.blockCount) % Wrap

\* Lines 17-27 and 46-62.
ReadHeader ==
  LET header == Header(Sees(m_reader, 2))
  IN  /\ pc = "header"
      /\ \/ /\ header.signature \in PlusSignatures
            /\ GoTo("mounted") /\ UNCHANGED faults
         \/ /\ header.signature = "HFS" /\ header.drEmbedSigWord \in PlusSignatures
            /\ pc' = "embedded"
            /\ m_reader' = SubReader(m_reader, EmbeddedOffset(header), EmbeddedLength(header))
            /\ UNCHANGED <<image, faults, m_partitions, mapReader, local>>
         \/ /\ header.signature \notin PlusSignatures
            /\ header.signature = "HFS" => header.drEmbedSigWord \notin PlusSignatures
            /\ Fail /\ UNCHANGED faults
         \/ Faulty("header") /\ Fail

\* Lines 64 and 26-27.  Whether the header was read is not looked at; if it
\* was not, the master directory block is still there.
ReadEmbedded ==
  /\ pc = "embedded"
  /\ \/ /\ Header(Sees(m_reader, 2)).signature \in PlusSignatures
        /\ GoTo("mounted") /\ UNCHANGED faults
     \/ /\ Header(Sees(m_reader, 2)).signature \notin PlusSignatures
        /\ Fail /\ UNCHANGED faults
     \/ Faulty("header") /\ Fail

\* isHFSPlus().
IsHFSPlus(r) ==
  LET header == Header(Sees(r, 2))
  IN  \/ header.signature \in PlusSignatures
      \/ header.signature = "HFS" /\ header.drEmbedSigWord \in PlusSignatures

VolumeStep == ReadHeader \/ ReadEmbedded
=============================================================================
