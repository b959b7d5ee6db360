---------------------------- MODULE VolumeProofs ----------------------------
(***************************************************************************)
(* Proofs about a volume: that openDisk() lists the partitions of a disk   *)
(* as its map says and mounts the first HFS+ volume (OpenDisk, the first   *)
(* part), and that the callbacks then serve its file system                *)
(* (HFSHighLevelVolume, the second part).                                  *)
(*                                                                         *)
(* Opening.  The list of partitions is made one entry at a time, so it is  *)
(* that of the map only as far as the loop has come; and where the entries *)
(* are depends on the block size, which an earlier loop may have guessed.  *)
(* DiskInv says what each loop knows when it stops: GuessInv that the      *)
(* first gap between two entries it can still meet is the block size,      *)
(* ListedUpTo(n) that the list has the entries up to n in their order,     *)
(* NamedUpTo(n) the same of the elements of a DMG.  From either the first  *)
(* suitable one is the first HFS+ volume of the medium, and ChosenInv      *)
(* follows it to the reader that is mounted.                               *)
(*                                                                         *)
(* Serving.  The walk along a path keeps in "last" what the file system    *)
(* itself would name by the part of the path behind it; VolumeInv says so  *)
(* at every stage of every callback, and that the reader of a handle is as *)
(* long as the file that was opened.  Every callback then answers what     *)
(* FileSystem allows.                                                      *)
(***************************************************************************)
EXTENDS OpenDisk, HFSHighLevelVolume, ProofLemmas, FiniteSetTheorems, SequenceTheorems

----------------------------------------------------------------------------
(* The inductive invariant of the opening.                                 *)

\* The list has exactly the entries of an Apple map at the places up to n.
ListedUpTo(n) ==
  LET places == {p \in DOMAIN image.entries : p <= n}
  IN  \E place \in [1 .. Len(m_partitions) -> places] :
        /\ \A k \in 1 .. Len(m_partitions) : m_partitions[k] = EntryPart(image.entries[place[k]])
        /\ \A k, l \in 1 .. Len(m_partitions) : k < l => place[k] < place[l]
        /\ \A p \in places : \E k \in 1 .. Len(m_partitions) : place[k] = p

\* The whole array of a GPT.
ListedArray == m_partitions = [i \in 1 .. 4 * GPTSectors |-> PartitionIn(Slot(i))]

\* The first n elements of a DMG, by their names.
NamedUpTo(n) ==
  /\ Len(m_partitions) = n
  /\ \A k \in 1 .. n :
       m_partitions[k] = Part(ParseNameAndType(Elements[k].name).type,
                              Elements[k].first, Elements[k].count)

\* The partitions are known, and what has been chosen from them.
Chosen == {"search", "header", "embedded", "mounted"}

\* Which way led to the state.
RouteInv ==
  /\ image \in Images
  /\ m_partitions \in Seq(Range(m_partitions))
  /\ pc \in {"detect", "koly", "elements", "fallback"} => mapReader = NoReader
  /\ pc \in {"detect", "koly", "fallback", "block0", "guess", "gpt"} => m_partitions = <<>>
  /\ pc \in {"block0", "guess", "map"} => image.scheme = "Apple"
  /\ pc = "gpt" => image.scheme = "GPT"
  /\ image.form = "raw" =>
       /\ mapReader = NoReader /\ pc \notin {"koly", "elements", "fallback", "search"}
       /\ pc \in {"block0", "guess", "map", "gpt", "listed"} =>
            m_reader = FileReader /\ image.scheme # "none"
  /\ image.form = "dmg" =>
       /\ pc \in {"block0", "guess", "map"} => mapReader = KolyReader(0)
       /\ pc = "gpt" => mapReader = KolyReader(1)

ScanLocals == {"blockSize", "i", "lastOK", "dpme"}

\* The distance of the entries is not known yet.  If it is 1, each one that
\* was read followed the one before, or there are no more.  If it is not, the
\* first gap is that before the first entry or, in the table of the map,
\* which begins with it, before the second.
GuessInv ==
  /\ DOMAIN local = ScanLocals /\ local.blockSize = 1 /\ local.i \in 0 .. MapSlots
  /\ image.declared = 0
  /\ image.spacing = 1 =>
       \/ local.lastOK = local.i - 1
       \/ local.dpme = NoEntry /\ \A p \in DOMAIN image.entries : p <= local.i
  /\ image.spacing > 1 /\ image.form = "raw" =>
       local.lastOK = -1 /\ local.i < image.spacing
  /\ image.spacing > 1 /\ image.form = "dmg" =>
       \/ local.lastOK = -1 /\ local.i = 0
       \/ local.lastOK = 0 /\ local.i \in 1 .. image.spacing

MapInv ==
  /\ DOMAIN local = ScanLocals /\ local.blockSize = image.spacing /\ local.i \in 0 .. MapSlots
  /\ ListedUpTo(local.i)

\* What the list is once it is made.
MapListed ==
  /\ image.scheme = "Apple" =>
       \E n \in 0 .. MapSlots : ListedUpTo(n) /\ (faults = {} => DOMAIN image.entries \subseteq 0 .. n)
  /\ image.scheme = "GPT" => ListedArray

ListInv ==
  MapReadable /\ "guess" \notin faults =>
    /\ pc = "guess" => GuessInv
    /\ pc = "map" => MapInv
    /\ pc \in {"listed"} \cup Chosen /\ image.scheme # "none"
       /\ (image.form = "dmg" => mapReader # NoReader) => MapListed

NamesInv ==
  /\ image.form = "dmg" /\ NamesReadable =>
       /\ pc \notin {"fallback", "block0", "guess", "map", "gpt"}
       /\ pc = "elements" => DOMAIN local = {"i"} /\ local.i \in 0 .. Len(Elements) /\ NamedUpTo(local.i)
       /\ pc \in {"listed"} \cup Chosen => m_partitions = <<>> \/ NamedUpTo(Len(Elements))
  /\ image.form = "dmg" /\ MapIsRead /\ MapReadable =>
       /\ pc = "elements" => local.i = 0 /\ m_partitions = <<>>
       /\ pc \in {"listed"} \cup Chosen => m_partitions = <<>> \/ mapReader # NoReader

\* A reader of exactly a part of the medium, all of which it can read.
Shows(reader, part) ==
  /\ reader.first = part.offset /\ reader.size = part.size
  /\ reader.limit \in Int /\ part.offset + part.size <= reader.limit

ChosenInv ==
  Good /\ "guess" \notin faults =>
    /\ pc = "search" => m_partitions[local.index].offset = FirstPart.offset
    /\ pc = "header" => Shows(m_reader, FirstPart)
    /\ pc \in {"embedded", "mounted"} => Shows(m_reader, VolumeHere)

DiskInv == RouteInv /\ ListInv /\ NamesInv /\ ChosenInv

----------------------------------------------------------------------------
(* Sequences, tables and places.                                           *)

\* A list to which an element is appended.
LEMMA Appended ==
  ASSUME NEW s, s \in Seq(Range(s)), NEW e
  PROVE  /\ Append(s, e) \in Seq(Range(Append(s, e)))
         /\ Append(s, e) # <<>>
         /\ Len(s) \in Nat /\ Len(Append(s, e)) = Len(s) + 1
         /\ \A k \in 1 .. Len(s) : Append(s, e)[k] = s[k]
         /\ Append(s, e)[Len(s) + 1] = e
<1> DEFINE S == Range(s) \cup {e}
           t == Append(s, e)
<1>1. s \in Seq(S) /\ e \in S
  BY SeqMonotonic
<1> HIDE DEF S
<1>2. /\ t \in Seq(S) /\ t # <<>> /\ Len(t) = Len(s) + 1
      /\ \A k \in 1 .. Len(s) : t[k] = s[k]
      /\ t[Len(s) + 1] = e
  BY <1>1, AppendProperties
<1>3. Len(s) \in Nat
  BY <1>1, LenProperties
<1> HIDE DEF t
<1>4. t \in [1 .. Len(t) -> S] /\ Len(t) \in Nat /\ DOMAIN t = 1 .. Len(t)
  BY <1>2, LenProperties
<1>5. t \in [1 .. Len(t) -> Range(t)]
  BY <1>4 DEF Range
<1>6. t \in Seq(Range(t))
  BY <1>4, <1>5, IsASeq
<1> QED BY <1>2, <1>3, <1>6 DEF t

\* The empty list.
LEMMA NoList ==
  /\ <<>> \in Seq(Range(<<>>)) /\ Len(<<>>) = 0 /\ 1 .. Len(<<>>) = {}
OBVIOUS

\* An image is what the assumptions say.
LEMMA ImageTyped ==
  ASSUME image \in Images
  PROVE  /\ image.form \in {"raw", "dmg"} /\ image.scheme \in {"Apple", "GPT", "none"}
         /\ image.length \in Nat /\ image.spacing \in Nat \ {0} /\ image.declared \in Nat
         /\ IsFiniteSet(DOMAIN image.entries)
         /\ \A p \in DOMAIN image.entries :
              /\ p \in Nat \ {0}
              /\ image.scheme = "Apple" =>
                   /\ image.entries[p].start \in Nat /\ image.entries[p].count \in Nat
                   /\ image.entries[p] # NoEntry
              /\ image.scheme = "GPT" =>
                   image.entries[p].first \in Nat /\ image.entries[p].last \in Nat
         /\ image.blkx \in Seq(Range(image.blkx))
         /\ \A b \in Range(image.blkx) : b.id \in Int /\ b.first \in Nat /\ b.count \in Nat
<1>1. ASSUME NEW p \in DOMAIN image.entries, image.scheme = "Apple"
      PROVE  image.entries[p] # NoEntry
  <2>1. image.entries[p].type # Text("no signature")
    BY <1>1, EntriesAssumption
  <2>2. NoEntry.type = Text("no signature")
    BY DEF NoEntry
  <2> QED BY <2>1, <2>2
<1> QED BY <1>1, ImagesAssumption

\* The table with an ID is one of the DMG's.
LEMMA TableFound ==
  ASSUME image \in Images, NEW id
  PROVE  TableOf(id) = NoTable \/ TableOf(id) \in Range(image.blkx)
<1> DEFINE I == {i \in 1 .. Len(image.blkx) : image.blkx[i].id = id}
<1>1. image.blkx \in Seq(Range(image.blkx))
  BY ImageTyped
<1>2. Len(image.blkx) \in Nat /\ DOMAIN image.blkx = 1 .. Len(image.blkx)
  BY <1>1, LenProperties
<1>3. CASE I = {}
  BY <1>3 DEF TableOf, SelectInSeq
<1>4. CASE I # {}
  <2>1. I \in SUBSET Nat
    BY <1>2
  <2>2. Min(I) \in I
    BY <1>4, <2>1, MinNat
  <2>3. TableOf(id) = image.blkx[Min(I)]
    BY <1>4, <2>2, <1>2 DEF TableOf, SelectInSeq
  <2> QED BY <1>2, <2>2, <2>3 DEF Range
<1> QED BY <1>3, <1>4

\* The elements of a DMG are counted by a natural number.
LEMMA ElementsCounted ==
  ASSUME image \in Images
  PROVE  Len(Elements) \in Nat
<1>1. image.blkx \in Seq(Range(image.blkx))
  BY ImageTyped
<1>2. IsFiniteSet(DOMAIN image.blkx)
  BY <1>1, LenProperties, FS_Interval
<1>3. IsFiniteSet(Selected)
  BY <1>2, FS_Subset DEF Selected
<1> DEFINE n == Cardinality(Selected)
<1>4. n \in Nat
  BY <1>3, FS_CardinalityType
<1>5. Elements \in [1 .. n -> Range(Elements)]
  BY DEF Elements, Range
<1> HIDE DEF n
<1>6. Elements \in Seq(Range(Elements))
  BY <1>4, <1>5, IsASeq
<1> QED BY <1>6, LenProperties

\* Of the partitions with an HFS+ volume there is a first one.
LEMMA FirstPlace ==
  ASSUME image \in Images, HFSPlaces # {}
  PROVE  /\ Min(HFSPlaces) \in HFSPlaces /\ Min(HFSPlaces) \in Places
         /\ \A p \in HFSPlaces : p \in Nat /\ Min(HFSPlaces) <= p
<1>1. Places \subseteq Nat
  BY ImageTyped DEF Places
<1>2. HFSPlaces \in SUBSET Nat /\ HFSPlaces \subseteq Places
  BY <1>1 DEF HFSPlaces
<1> QED BY <1>2, MinNat

\* The entries of an Apple map are at the multiples of its spacing.
LEMMA EntryAt ==
  ASSUME image \in Images, image.scheme = "Apple", NEW q \in Nat
  PROVE  /\ q \in DOMAIN image.entries =>
              DPME(q * image.spacing) = image.entries[q] /\ DPME(q * image.spacing) # NoEntry
         /\ q \notin DOMAIN image.entries => DPME(q * image.spacing) = NoEntry
<1> DEFINE B == image.spacing
<1>1. B \in Nat \ {0}
  BY ImageTyped
<1>2. (q * B) \div B = q
  BY <1>1, Quotient
<1>3. (q * B) % B = 0
  <2>1. (B * q + 0) % B = 0
    BY <1>1, Remainder
  <2>2. B * q + 0 = q * B
    BY <1>1
  <2> QED BY <2>1, <2>2
<1>4. \A p \in DOMAIN image.entries : image.entries[p] # NoEntry
  BY ImageTyped
<1> QED BY <1>2, <1>3, <1>4 DEF DPME

\* There is nothing between them.
LEMMA NoEntryAt ==
  ASSUME image \in Images, image.scheme = "Apple", NEW q \in Nat, NEW r \in 1 .. image.spacing - 1
  PROVE  DPME(image.spacing * q + r) = NoEntry
<1> DEFINE B == image.spacing
<1>1. B \in Nat \ {0}
  BY ImageTyped
<1>2. (B * q + r) % B = r
  BY <1>1, Remainder
<1> QED BY <1>2 DEF DPME

\* What is said of the image and its tables depends on the image only.
LEMMA TablesKept ==
  ASSUME image' = image
  PROVE  /\ \A id : TableOf(id)' = TableOf(id)
         /\ \A id : KolyReader(id)' = KolyReader(id)
         /\ Elements' = Elements
         /\ FileReader' = FileReader
         /\ \A i : Slot(i)' = Slot(i)
<1>1. ASSUME NEW id PROVE TableOf(id)' = TableOf(id)
  BY Zenon DEF TableOf, SelectInSeq
<1>2. ASSUME NEW id PROVE KolyReader(id)' = KolyReader(id)
  BY <1>1 DEF KolyReader
<1>3. Selected' = Selected
  BY DEF Selected
<1>4. Elements' = Elements
  BY <1>3 DEF Elements
<1>5. FileReader' = FileReader /\ \A i : Slot(i)' = Slot(i)
  BY DEF FileReader, Slot
<1> QED BY <1>1, <1>2, <1>4, <1>5

\* What is said of the partitions depends on the image only.
LEMMA PartsKept ==
  ASSUME image' = image
  PROVE  /\ Places' = Places
         /\ \A e : EntryPart(e)' = EntryPart(e)
         /\ \A p : MediumPart(p)' = MediumPart(p)
         /\ HFSPlaces' = HFSPlaces /\ FirstPart' = FirstPart /\ VolumeHere' = VolumeHere
<1>1. Places' = Places
  BY DEF Places
<1>2. ASSUME NEW e PROVE EntryPart(e)' = EntryPart(e)
  BY DEF EntryPart
<1>3. ASSUME NEW p PROVE MediumPart(p)' = MediumPart(p)
  BY <1>2 DEF MediumPart
<1>4. HFSPlaces' = HFSPlaces
  BY <1>1, <1>3 DEF HFSPlaces
<1>5. FirstPart' = FirstPart
  BY <1>3, <1>4 DEF FirstPart
<1>6. VolumeHere' = VolumeHere
  BY <1>5 DEF VolumeHere, Header
<1> QED BY <1>1, <1>2, <1>3, <1>4, <1>5, <1>6

\* So does what can be read of it.
LEMMA ImageKept ==
  ASSUME image' = image
  PROVE  /\ MapReadable' = MapReadable /\ NamesReadable' = NamesReadable
         /\ MapIsRead' = MapIsRead /\ Good' = Good
<1>1. Elements' = Elements /\ \A id : TableOf(id)' = TableOf(id)
  BY TablesKept
<1>2. FirstPart' = FirstPart /\ HFSPlaces' = HFSPlaces /\ VolumeHere' = VolumeHere
  BY PartsKept
<1>3. BlockZeroReadable' = BlockZeroReadable
  BY <1>1 DEF BlockZeroReadable
<1>4. ASSUME NEW o, NEW s PROVE Inside(o, s)' = Inside(o, s)
  BY DEF Inside
<1>5. AppleReadable' = AppleReadable
  BY <1>1, <1>3, <1>4 DEF AppleReadable
<1>6. GPTReadable' = GPTReadable
  BY <1>1, <1>3, <1>4 DEF GPTReadable
<1>7. MapReadable' = MapReadable
  BY <1>5, <1>6 DEF MapReadable
<1>8. NamesReadable' = NamesReadable
  BY <1>1, <1>2, Zenon DEF NamesReadable
<1>9. MapIsRead' = MapIsRead
  BY <1>1 DEF MapIsRead
<1>10. Good' = Good
  BY <1>2, <1>4, <1>7, <1>8, <1>9, Zenon DEF Good, Header
<1> QED BY <1>7, <1>8, <1>9, <1>10

----------------------------------------------------------------------------
(* The reading of an Apple map.                                            *)

\* What a read of a map that can be read finds, in the file or in the table.
LEMMA MapReads ==
  ASSUME RouteInv, pc \in {"guess", "map"}, MapReadable,
         local.i \in Nat, local.blockSize \in Nat \ {0}
  PROVE  /\ image.form = "raw" =>
              /\ EntryOffset = (local.i + 1) * local.blockSize
              /\ There <=> EntryOffset < image.length
              /\ There => EntryRead = DPME(EntryOffset)
         /\ image.form = "dmg" =>
              /\ EntryOffset = local.i * local.blockSize
              /\ There <=> EntryOffset < TableOf(0).count
              /\ There => EntryRead = DPME(image.spacing + EntryOffset)
<1>1. AppleReadable /\ image \in Images /\ image.scheme = "Apple"
  BY DEF RouteInv, MapReadable
<1>2. image.length \in Nat /\ image.spacing \in Nat \ {0}
  BY <1>1, ImageTyped
<1>3. EntryOffset \in Nat
  <2>1. \A a \in Nat : a * local.blockSize \in Nat
    OBVIOUS
  <2> QED BY <2>1 DEF EntryOffset
<1>4. CASE image.form = "raw"
  <2>1. mapReader = NoReader /\ m_reader = FileReader
    BY <1>4 DEF RouteInv
  <2>2. FileReader = [first |-> 0, size |-> image.length, limit |-> image.length, opaque |-> {}]
    BY <1>4 DEF FileReader
  <2>3. EntryReader = FileReader /\ EntryOffset = (local.i + 1) * local.blockSize
    BY <2>1 DEF EntryReader, EntryOffset
  <2>4. Sees(EntryReader, EntryOffset) = IF EntryOffset < image.length THEN EntryOffset ELSE Nowhere
    BY <1>2, <1>3, <2>2, <2>3 DEF Sees
  <2> QED BY <1>3, <1>4, <2>3, <2>4 DEF There, EntryRead, Nowhere
<1>5. CASE image.form = "dmg"
  <2>1. mapReader = KolyReader(0)
    BY <1>5 DEF RouteInv
  <2>2. image.dataFork = 0 /\ TableOf(0).first = image.spacing
    BY <1>1, <1>5 DEF AppleReadable, BlockZeroReadable
  <2>3. TableOf(0) # NoTable
    BY <1>2, <2>2 DEF NoTable, Nowhere
  <2>4. TableOf(0).count \in Nat
    BY <1>1, <2>3, TableFound, ImageTyped
  <2>5. mapReader = [first |-> image.spacing, size |-> TableOf(0).count,
                     limit |-> image.spacing + TableOf(0).count,
                     opaque |-> {TableOf(0).first + s : s \in TableOf(0).inLZFSE}]
    BY <2>1, <2>2, <2>3 DEF KolyReader, DMGPartition
  <2>6. mapReader # NoReader
    BY <1>2, <2>5 DEF NoReader, Nowhere
  <2>7. EntryReader = mapReader /\ EntryOffset = local.i * local.blockSize
    BY <2>6 DEF EntryReader, EntryOffset
  <2>8. Sees(EntryReader, EntryOffset)
          = IF EntryOffset < TableOf(0).count THEN image.spacing + EntryOffset ELSE Nowhere
    BY <1>2, <1>3, <2>4, <2>5, <2>7 DEF Sees
  <2> QED BY <1>2, <1>3, <1>5, <2>7, <2>8 DEF There, EntryRead, Nowhere
<1> QED BY <1>1, <1>4, <1>5, ImageTyped

\* The entries of a map that tells no block size have no gaps.
LEMMA NoGap ==
  ASSUME image \in Images, AppleReadable, image.declared = 0, NEW q \in Nat \ {0},
         q \notin DOMAIN image.entries
  PROVE  \A p \in DOMAIN image.entries : p < q
<1> DEFINE S == {p \in DOMAIN image.entries : p > q}
<1>1. \A p \in DOMAIN image.entries : p \in Nat /\ (p > 1 => p - 1 \in DOMAIN image.entries)
  BY ImageTyped DEF AppleReadable
<1>2. S = {}
  <2> SUFFICES ASSUME S # {} PROVE FALSE
    OBVIOUS
  <2>1. S \in SUBSET Nat
    BY <1>1
  <2>2. Min(S) \in S /\ \A m \in S : Min(S) <= m
    BY <2>1, MinNat
  <2> DEFINE m == Min(S)
  <2>3. m \in Nat /\ m > q /\ m - 1 \in DOMAIN image.entries
    BY <1>1, <2>2
  <2>4. m - 1 \notin S
    BY <2>2, <2>3
  <2> HIDE DEF m
  <2>5. m - 1 = q
    BY <2>3, <2>4
  <2> QED BY <2>3, <2>5
<1> QED BY <1>1, <1>2

\* One read of the loop that guesses the block size: it goes on, or the block
\* size is right.
Guessed ==
  \/ pc' = "guess" /\ GuessInv'
  \/ pc' = "map" /\ local' = Start(image.spacing)

\* What a read finds while the distance is guessed.
LEMMA GuessTyped ==
  ASSUME RouteInv, pc = "guess", MapReadable, GuessInv
  PROVE  /\ AppleReadable /\ image \in Images /\ image.scheme = "Apple"
         /\ image.spacing \in Nat \ {0} /\ image.declared = 0
         /\ local.blockSize = 1 /\ local.i \in Nat
         /\ image.form = "raw" =>
              /\ EntryOffset = local.i + 1
              /\ There <=> EntryOffset < image.length
              /\ There => EntryRead = DPME(local.i + 1)
         /\ image.form = "dmg" =>
              /\ EntryOffset = local.i
              /\ There <=> EntryOffset < TableOf(0).count
              /\ There => EntryRead = DPME(image.spacing + local.i)
<1>1. AppleReadable /\ image \in Images /\ image.scheme = "Apple"
  BY DEF RouteInv, MapReadable
<1>2. image.spacing \in Nat \ {0} /\ MapSlots \in Nat
  BY <1>1, ImageTyped, SizesAssumption
<1>3. local.blockSize = 1 /\ local.i \in Nat /\ image.declared = 0
  BY <1>2 DEF GuessInv
<1>4. (local.i + 1) * 1 = local.i + 1 /\ local.i * 1 = local.i
  BY <1>3
<1> QED BY <1>1, <1>2, <1>3, <1>4, MapReads

\* The loop that guesses goes on, or ends at the first gap.
LEMMA GuessCases ==
  ASSUME RouteInv, pc = "guess", MapReadable, GuessInv, NEW dpme, Guess(dpme)
  PROVE  /\ image' = image
         /\ \/ /\ dpme = NoEntry /\ pc' = "guess" /\ DOMAIN local' = ScanLocals /\ local'.blockSize = 1
               /\ local'.i = local.i + 1 /\ local'.lastOK = local.lastOK /\ local'.dpme = NoEntry
            \/ /\ dpme # NoEntry /\ pc' = "guess" /\ DOMAIN local' = ScanLocals /\ local'.blockSize = 1
               /\ local.lastOK = local.i - 1 /\ local'.i = local.i + 1 /\ local'.lastOK = local.i
            \/ /\ dpme # NoEntry /\ pc' = "map"
               /\ local.lastOK # local.i - 1 /\ local' = Start(1 * (local.i - local.lastOK))
<1>1. DOMAIN local = ScanLocals /\ local.blockSize = 1
  BY DEF GuessInv
<1>2. CASE dpme = NoEntry
  <2>1. local' = [local EXCEPT !.dpme = dpme, !.i = @ + 1] /\ pc' = pc /\ image' = image
    BY <1>2 DEF Guess
  <2> QED BY <1>1, <1>2, <2>1 DEF ScanLocals
<1>3. CASE dpme # NoEntry /\ AfterGap(local.i)
  BY <1>1, <1>3 DEF Guess, AfterGap
<1>4. CASE dpme # NoEntry /\ ~ AfterGap(local.i)
  <2>1. /\ local' = [local EXCEPT !.dpme = dpme, !.i = @ + 1, !.lastOK = local.i]
        /\ pc' = pc /\ image' = image
    BY <1>4 DEF Guess
  <2> QED BY <1>1, <1>4, <2>1 DEF ScanLocals, AfterGap
<1> QED BY <1>2, <1>3, <1>4

\* When the entries are 512 bytes apart none is missed.
LEMMA GuessOne ==
  ASSUME RouteInv, pc = "guess", MapReadable, GuessInv, local.i < MapSlots, image.spacing = 1,
         Guess(IF There THEN EntryRead ELSE local.dpme)
  PROVE  Guessed
<1> DEFINE dpme == IF There THEN EntryRead ELSE local.dpme
           places == DOMAIN image.entries
<1>1. /\ AppleReadable /\ image \in Images /\ image.scheme = "Apple" /\ image.declared = 0
      /\ local.i \in Nat /\ image.form \in {"raw", "dmg"}
      /\ image.form = "raw" => There <=> local.i + 1 < image.length
      /\ image.form = "dmg" => There <=> local.i < TableOf(0).count
      /\ There => EntryRead = DPME(local.i + 1)
  <2>1. 1 + local.i = local.i + 1
    BY GuessTyped
  <2> QED BY <2>1, GuessTyped, ImageTyped
<1>2. MapSlots \in Nat /\ \A p \in places : p \in Nat \ {0}
  BY <1>1, ImageTyped, SizesAssumption
<1>3. ASSUME NEW p \in places, p >= local.i + 1 PROVE There
  <2>1. CASE image.form = "raw"
    <3>1. 0 + 1 * (1 + p) <= image.length
      BY <1>1, <2>1 DEF AppleReadable, Inside
    <3>2. image.length \in Nat
      BY <1>1, ImageTyped
    <3> QED BY <1>1, <1>2, <1>3, <2>1, <3>1, <3>2
  <2>2. CASE image.form = "dmg"
    <3>1. 1 * p <= TableOf(0).count /\ TableOf(0).first = 1
      BY <1>1, <2>2 DEF AppleReadable
    <3>2. TableOf(0).count \in Nat
      <4>1. TableOf(0) # NoTable
        BY <3>1 DEF NoTable, Nowhere
      <4> QED BY <1>1, <4>1, TableFound, ImageTyped
    <3> QED BY <1>1, <1>2, <1>3, <2>2, <3>1, <3>2
  <2> QED BY <1>1, <2>1, <2>2
<1>4. /\ local.i + 1 \in places => DPME(local.i + 1) # NoEntry
      /\ local.i + 1 \notin places => DPME(local.i + 1) = NoEntry
  <2>1. (local.i + 1) * 1 = local.i + 1 /\ local.i + 1 \in Nat
    BY <1>1
  <2> QED BY <1>1, <2>1, EntryAt
<1>5. local.i + 1 \notin places => \A p \in places : p <= local.i
  <2>1. ASSUME local.i + 1 \notin places PROVE \A p \in places : p < local.i + 1
    BY <1>1, <2>1, NoGap
  <2> QED BY <1>1, <1>2, <2>1
<1>6. ~ There => \A p \in places : p <= local.i
  BY <1>1, <1>2, <1>3
<1>7. /\ image' = image
      /\ \/ /\ dpme = NoEntry /\ pc' = "guess" /\ DOMAIN local' = ScanLocals /\ local'.blockSize = 1
            /\ local'.i = local.i + 1 /\ local'.lastOK = local.lastOK /\ local'.dpme = NoEntry
         \/ /\ dpme # NoEntry /\ pc' = "guess" /\ DOMAIN local' = ScanLocals /\ local'.blockSize = 1
            /\ local.lastOK = local.i - 1 /\ local'.i = local.i + 1 /\ local'.lastOK = local.i
         \/ /\ dpme # NoEntry /\ pc' = "map"
            /\ local.lastOK # local.i - 1 /\ local' = Start(1 * (local.i - local.lastOK))
  <2> HIDE DEF dpme
  <2> QED BY GuessCases DEF dpme
<1>8. \/ local.lastOK = local.i - 1
      \/ local.dpme = NoEntry /\ \A p \in places : p <= local.i
  BY DEF GuessInv
<1>9. dpme = NoEntry => \A p \in places : p <= local.i + 1
  BY <1>1, <1>2, <1>4, <1>5, <1>6
<1>10. local.lastOK # local.i - 1 => dpme = NoEntry
  <2> SUFFICES ASSUME local.lastOK # local.i - 1 PROVE dpme = NoEntry
    OBVIOUS
  <2>1. local.i + 1 \notin places /\ local.dpme = NoEntry
    BY <1>1, <1>2, <1>8
  <2> QED BY <1>1, <1>4, <2>1
<1>11. local.i \in 0 .. MapSlots /\ local.i + 1 \in 0 .. MapSlots
  BY <1>1, <1>2
<1> HIDE DEF dpme
<1>12. CASE /\ dpme = NoEntry /\ pc' = "guess" /\ DOMAIN local' = ScanLocals /\ local'.blockSize = 1
            /\ local'.i = local.i + 1 /\ local'.lastOK = local.lastOK /\ local'.dpme = NoEntry
  BY <1>1, <1>7, <1>9, <1>11, <1>12 DEF Guessed, GuessInv
<1>13. CASE /\ dpme # NoEntry /\ pc' = "guess" /\ DOMAIN local' = ScanLocals /\ local'.blockSize = 1
            /\ local.lastOK = local.i - 1 /\ local'.i = local.i + 1 /\ local'.lastOK = local.i
  BY <1>1, <1>7, <1>11, <1>13 DEF Guessed, GuessInv
<1> QED BY <1>7, <1>10, <1>12, <1>13

\* In a file the first gap is before the first entry.
LEMMA GuessFile ==
  ASSUME RouteInv, pc = "guess", MapReadable, GuessInv, local.i < MapSlots,
         image.spacing > 1, image.form = "raw",
         Guess(IF There THEN EntryRead ELSE local.dpme)
  PROVE  Guessed
<1> DEFINE dpme == IF There THEN EntryRead ELSE local.dpme
           B    == image.spacing
<1>1. /\ AppleReadable /\ image \in Images /\ image.scheme = "Apple" /\ image.declared = 0
      /\ B \in Nat /\ B > 1 /\ local.i \in Nat /\ MapSlots \in Nat /\ image.length \in Nat
      /\ There <=> local.i + 1 < image.length
      /\ There => EntryRead = DPME(local.i + 1)
  BY GuessTyped, ImageTyped, SizesAssumption
<1>2. local.lastOK = -1 /\ local.i < B
  BY DEF GuessInv
<1>3. 1 \in DOMAIN image.entries /\ 0 + B * (1 + 1) <= image.length
  BY <1>1 DEF AppleReadable, Inside
<1>4. There
  BY <1>1, <1>2, <1>3
<1>5. dpme = DPME(local.i + 1)
  BY <1>1, <1>4
<1>6. /\ image' = image
      /\ \/ /\ dpme = NoEntry /\ pc' = "guess" /\ DOMAIN local' = ScanLocals /\ local'.blockSize = 1
            /\ local'.i = local.i + 1 /\ local'.lastOK = local.lastOK /\ local'.dpme = NoEntry
         \/ /\ dpme # NoEntry /\ pc' = "guess" /\ DOMAIN local' = ScanLocals /\ local'.blockSize = 1
            /\ local.lastOK = local.i - 1 /\ local'.i = local.i + 1 /\ local'.lastOK = local.i
         \/ /\ dpme # NoEntry /\ pc' = "map"
            /\ local.lastOK # local.i - 1 /\ local' = Start(1 * (local.i - local.lastOK))
  <2> HIDE DEF dpme
  <2> QED BY GuessCases DEF dpme
<1> HIDE DEF dpme
<1>7. CASE local.i + 1 < B
  <2>1. DPME(B * 0 + (local.i + 1)) = NoEntry
    BY <1>1, <1>7, NoEntryAt
  <2>2. B * 0 + (local.i + 1) = local.i + 1
    BY <1>1
  <2>3. dpme = NoEntry
    BY <1>5, <2>1, <2>2
  <2> QED BY <1>1, <1>2, <1>6, <1>7, <2>3 DEF Guessed, GuessInv
<1>8. CASE local.i + 1 = B
  <2>1. DPME(1 * B) # NoEntry /\ 1 * B = local.i + 1
    BY <1>1, <1>3, <1>8, EntryAt
  <2>2. dpme # NoEntry
    BY <1>5, <2>1
  <2>3. local.lastOK # local.i - 1 /\ 1 * (local.i - local.lastOK) = B
    BY <1>1, <1>2, <1>8
  <2> QED BY <1>6, <2>2, <2>3 DEF Guessed
<1> QED BY <1>1, <1>2, <1>7, <1>8

\* In the table of the map, which begins with the first entry, it is before
\* the second.
LEMMA GuessTable ==
  ASSUME RouteInv, pc = "guess", MapReadable, GuessInv, local.i < MapSlots,
         image.spacing > 1, image.form = "dmg",
         Guess(IF There THEN EntryRead ELSE local.dpme)
  PROVE  Guessed
<1> DEFINE dpme == IF There THEN EntryRead ELSE local.dpme
           B    == image.spacing
<1>1. /\ AppleReadable /\ image \in Images /\ image.scheme = "Apple" /\ image.declared = 0
      /\ B \in Nat /\ B > 1 /\ local.i \in Nat /\ MapSlots \in Nat
      /\ There <=> local.i < TableOf(0).count
      /\ There => EntryRead = DPME(B + local.i)
  BY GuessTyped, ImageTyped, SizesAssumption
<1>2. \/ local.lastOK = -1 /\ local.i = 0
      \/ local.lastOK = 0 /\ local.i \in 1 .. B
  BY DEF GuessInv
<1>3. 2 \in DOMAIN image.entries /\ 1 \in DOMAIN image.entries
  BY <1>1 DEF AppleReadable
<1>4. There
  <2>1. TableOf(0).first = B /\ B * 2 <= TableOf(0).count
    BY <1>1, <1>3 DEF AppleReadable
  <2>2. TableOf(0) # NoTable
    BY <1>1, <2>1 DEF NoTable, Nowhere
  <2>3. TableOf(0).count \in Nat
    BY <1>1, <2>2, TableFound, ImageTyped
  <2>4. local.i < TableOf(0).count
    BY <1>1, <1>2, <2>1, <2>3
  <2> QED BY <1>1, <2>4
<1>5. dpme = DPME(B + local.i)
  BY <1>1, <1>4
<1>6. /\ image' = image
      /\ \/ /\ dpme = NoEntry /\ pc' = "guess" /\ DOMAIN local' = ScanLocals /\ local'.blockSize = 1
            /\ local'.i = local.i + 1 /\ local'.lastOK = local.lastOK /\ local'.dpme = NoEntry
         \/ /\ dpme # NoEntry /\ pc' = "guess" /\ DOMAIN local' = ScanLocals /\ local'.blockSize = 1
            /\ local.lastOK = local.i - 1 /\ local'.i = local.i + 1 /\ local'.lastOK = local.i
         \/ /\ dpme # NoEntry /\ pc' = "map"
            /\ local.lastOK # local.i - 1 /\ local' = Start(1 * (local.i - local.lastOK))
  <2> HIDE DEF dpme
  <2> QED BY GuessCases DEF dpme
<1> HIDE DEF dpme
<1>7. CASE local.i = 0
  <2>1. DPME(1 * B) # NoEntry /\ 1 * B = B + local.i
    BY <1>1, <1>3, <1>7, EntryAt
  <2>2. dpme # NoEntry /\ local.lastOK = local.i - 1
    BY <1>2, <1>5, <1>7, <2>1
  <2> QED BY <1>1, <1>6, <1>7, <2>2 DEF Guessed, GuessInv
<1>8. CASE local.i \in 1 .. B - 1
  <2>1. DPME(B * 1 + local.i) = NoEntry
    BY <1>1, <1>8, NoEntryAt
  <2>2. B * 1 + local.i = B + local.i
    BY <1>1
  <2>3. dpme = NoEntry /\ local.lastOK = 0
    BY <1>2, <1>5, <1>8, <2>1, <2>2
  <2> QED BY <1>1, <1>6, <1>8, <2>3 DEF Guessed, GuessInv
<1>9. CASE local.i = B
  <2>1. DPME(2 * B) # NoEntry /\ 2 * B = B + local.i
    BY <1>1, <1>3, <1>9, EntryAt
  <2>2. dpme # NoEntry
    BY <1>5, <2>1
  <2>3. local.lastOK # local.i - 1 /\ 1 * (local.i - local.lastOK) = B
    BY <1>1, <1>2, <1>9
  <2> QED BY <1>6, <2>2, <2>3 DEF Guessed
<1> QED BY <1>1, <1>2, <1>7, <1>8, <1>9

\* The loop ends with the right block size, or goes on.
LEMMA GuessRight ==
  ASSUME RouteInv, pc = "guess", MapReadable, GuessInv,
         \/ local.i < MapSlots /\ Guess(IF There THEN EntryRead ELSE local.dpme)
         \/ GuessEnds
  PROVE  Guessed
<1>1. /\ AppleReadable /\ image \in Images /\ image.spacing \in Nat \ {0} /\ image.declared = 0
      /\ local.blockSize = 1 /\ local.i \in Nat /\ image.form \in {"raw", "dmg"} /\ MapSlots \in Nat
  BY GuessTyped, ImageTyped, SizesAssumption
<1>2. CASE local.i < MapSlots /\ Guess(IF There THEN EntryRead ELSE local.dpme)
  <2>1. CASE image.spacing = 1
    BY <1>2, <2>1, GuessOne
  <2>2. CASE image.spacing > 1 /\ image.form = "raw"
    BY <1>2, <2>2, GuessFile
  <2>3. CASE image.spacing > 1 /\ image.form = "dmg"
    BY <1>2, <2>3, GuessTable
  <2> QED BY <1>1, <2>1, <2>2, <2>3
<1>3. CASE GuessEnds
  <2>1. local.i = MapSlots /\ pc' = "map" /\ local' = Start(1)
    BY <1>1, <1>3 DEF GuessEnds
  <2>2. image.spacing < MapSlots
    BY <1>1 DEF AppleReadable
  <2>3. image.spacing > 1 => local.i <= image.spacing
    BY <1>1 DEF GuessInv
  <2>4. image.spacing = 1
    BY <1>1, <2>1, <2>2, <2>3
  <2> QED BY <2>1, <2>4 DEF Guessed
<1> QED BY <1>2, <1>3

\* The list is empty before the first entry is read.
LEMMA MapStarts ==
  ASSUME image \in Images, image' = image, m_partitions' = <<>>, local' = Start(image.spacing)
  PROVE  MapInv'
<1>1. \A p \in DOMAIN image.entries : p \in Nat /\ p # 0
  BY ImageTyped
<1>2. MapSlots \in Nat
  BY SizesAssumption
<1>3. {p \in DOMAIN image.entries : p <= 0} = {}
  BY <1>1
<1>4. local'.i = 0 /\ local'.blockSize = image.spacing /\ DOMAIN local' = ScanLocals
  BY DEF Start, ScanLocals
<1>5. ListedUpTo(0)'
  <2> DEFINE places == {p \in DOMAIN image.entries : p <= 0}
             place  == [k \in {} |-> 0]
  <2>1. place \in [{} -> places]
    BY <1>3
  <2>2. 1 .. Len(m_partitions') = {}
    BY NoList
  <2> QED BY <1>3, <2>1, <2>2 DEF ListedUpTo
<1>6. ListedUpTo(local.i)'
  BY <1>4, <1>5
<1> QED BY <1>2, <1>4, <1>6 DEF MapInv

\* What a read of an entry finds once the distance is known.
LEMMA MapTyped ==
  ASSUME RouteInv, pc = "map", MapReadable, MapInv
  PROVE  /\ AppleReadable /\ image \in Images /\ image.scheme = "Apple"
         /\ image.spacing \in Nat \ {0} /\ image.length \in Nat /\ MapSlots \in Nat
         /\ local.blockSize = image.spacing /\ local.i \in 0 .. MapSlots /\ local.i \in Nat
         /\ \A p \in DOMAIN image.entries : p \in Nat \ {0}
         /\ There => EntryRead = DPME((local.i + 1) * image.spacing)
<1>1. AppleReadable /\ image \in Images /\ image.scheme = "Apple"
  BY DEF RouteInv, MapReadable
<1>2. /\ image.spacing \in Nat \ {0} /\ image.length \in Nat /\ MapSlots \in Nat
      /\ \A p \in DOMAIN image.entries : p \in Nat \ {0}
      /\ image.form \in {"raw", "dmg"}
  BY <1>1, ImageTyped, SizesAssumption
<1>3. local.blockSize = image.spacing /\ local.i \in 0 .. MapSlots /\ local.i \in Nat
  BY <1>2 DEF MapInv
<1>4. image.spacing + local.i * image.spacing = (local.i + 1) * image.spacing
  BY <1>2, <1>3
<1>5. There => EntryRead = DPME((local.i + 1) * image.spacing)
  BY <1>2, <1>3, <1>4, MapReads
<1> QED BY <1>1, <1>2, <1>3, <1>5

\* An entry that was read is appended, a place without one adds nothing.
LEMMA MapGrows ==
  ASSUME RouteInv, pc = "map", MapReadable, MapInv, local.i < MapSlots, There, List(EntryRead)
  PROVE  MapInv'
<1> DEFINE i      == local.i
           e      == image.entries[i + 1]
           upTo   == {p \in DOMAIN image.entries : p <= i}
           next   == {p \in DOMAIN image.entries : p <= i + 1}
           n      == Len(m_partitions)
<1>1. /\ image \in Images /\ image.scheme = "Apple" /\ image.spacing \in Nat \ {0}
      /\ MapSlots \in Nat /\ local.blockSize = image.spacing /\ i \in Nat /\ i < MapSlots
      /\ \A p \in DOMAIN image.entries : p \in Nat
      /\ EntryRead = DPME((i + 1) * image.spacing)
  BY MapTyped
<1>2. /\ DOMAIN local = ScanLocals /\ local' = [local EXCEPT !.i = @ + 1]
      /\ image' = image
  BY DEF List, MapInv
<1>3. DOMAIN local' = ScanLocals /\ local'.blockSize = image.spacing /\ local'.i = i + 1
  BY <1>1, <1>2 DEF ScanLocals
<1>4. m_partitions \in Seq(Range(m_partitions)) /\ n \in Nat
  <2>1. m_partitions \in Seq(Range(m_partitions))
    BY DEF RouteInv
  <2> QED BY <2>1, LenProperties
<1>5. PICK place \in [1 .. n -> upTo] :
        /\ \A k \in 1 .. n : m_partitions[k] = EntryPart(image.entries[place[k]])
        /\ \A k, l \in 1 .. n : k < l => place[k] < place[l]
        /\ \A p \in upTo : \E k \in 1 .. n : place[k] = p
  BY DEF MapInv, ListedUpTo
<1>6. \A x : EntryPart(x)' = EntryPart(x)
  BY <1>2, PartsKept
<1>7. \E places \in [1 .. Len(m_partitions') -> next] :
        /\ \A k \in 1 .. Len(m_partitions') : m_partitions'[k] = EntryPart(image.entries[places[k]])
        /\ \A k, l \in 1 .. Len(m_partitions') : k < l => places[k] < places[l]
        /\ \A p \in next : \E k \in 1 .. Len(m_partitions') : places[k] = p
  <2>1. CASE i + 1 \notin DOMAIN image.entries
    <3>1. EntryRead = NoEntry
      BY <1>1, <2>1, EntryAt
    <3>2. m_partitions' = m_partitions
      BY <3>1 DEF List
    <3>3. upTo = next
      BY <1>1, <2>1
    <3> HIDE DEF upTo, next
    <3> QED BY <1>5, <3>2, <3>3
  <2>2. CASE i + 1 \in DOMAIN image.entries
    <3> DEFINE more == [k \in 1 .. n + 1 |-> IF k = n + 1 THEN i + 1 ELSE place[k]]
    <3>1. EntryRead = e /\ EntryRead # NoEntry
      BY <1>1, <2>2, EntryAt
    <3>2. PartitionOf(e) = EntryPart(e)
      BY <1>1 DEF PartitionOf, EntryPart, Part
    <3>3. m_partitions' = Append(m_partitions, EntryPart(e))
      BY <3>1, <3>2 DEF List
    <3>4. /\ Len(m_partitions') = n + 1
          /\ \A k \in 1 .. n : m_partitions'[k] = m_partitions[k]
          /\ m_partitions'[n + 1] = EntryPart(e)
      BY <1>4, <3>3, Appended
    <3>5. \A k \in 1 .. n + 1 : k = n + 1 \/ k \in 1 .. n
      BY <1>4
    <3>6. \A k \in 1 .. n : place[k] \in DOMAIN image.entries /\ place[k] <= i /\ place[k] \in Nat
      BY <1>1, <1>5
    <3>7. i + 1 \in next /\ \A p \in next : p = i + 1 \/ p \in upTo
      BY <1>1, <2>2
    <3>8. \A k \in 1 .. n : place[k] \in next
      BY <1>1, <3>6
    <3>9. /\ more \in [1 .. n + 1 -> next] /\ more[n + 1] = i + 1
          /\ \A k \in 1 .. n : more[k] = place[k]
      BY <1>4, <3>5, <3>7, <3>8
    <3> HIDE DEF more, upTo, next
    <3>10. \A k \in 1 .. n + 1 : m_partitions'[k] = EntryPart(image.entries[more[k]])
      BY <1>5, <3>4, <3>5, <3>9
    <3>11. \A k, l \in 1 .. n + 1 : k < l => more[k] < more[l]
      <4> SUFFICES ASSUME NEW k \in 1 .. n + 1, NEW l \in 1 .. n + 1, k < l
                   PROVE  more[k] < more[l]
        OBVIOUS
      <4>1. k \in 1 .. n
        BY <1>4
      <4>2. CASE l \in 1 .. n
        BY <1>5, <3>9, <4>1, <4>2
      <4>3. CASE l = n + 1
        BY <1>1, <3>6, <3>9, <4>1, <4>3
      <4> QED BY <3>5, <4>2, <4>3
    <3>12. \A p \in next : \E k \in 1 .. n + 1 : more[k] = p
      <4> SUFFICES ASSUME NEW p \in next PROVE \E k \in 1 .. n + 1 : more[k] = p
        OBVIOUS
      <4>1. n + 1 \in 1 .. n + 1 /\ \A k \in 1 .. n : k \in 1 .. n + 1
        BY <1>4
      <4>2. CASE p = i + 1
        BY <3>9, <4>1, <4>2
      <4>3. CASE p \in upTo
        <5>1. PICK k \in 1 .. n : place[k] = p
          BY <1>5, <4>3
        <5> QED BY <3>9, <4>1, <5>1
      <4> QED BY <3>7, <4>2, <4>3
    <3>13. \E places \in [1 .. n + 1 -> next] :
             /\ \A k \in 1 .. n + 1 : m_partitions'[k] = EntryPart(image.entries[places[k]])
             /\ \A k, l \in 1 .. n + 1 : k < l => places[k] < places[l]
             /\ \A p \in next : \E k \in 1 .. n + 1 : places[k] = p
      BY Zenon, <3>9, <3>10, <3>11, <3>12
    <3>14. Len(m_partitions') = n + 1
      BY <3>4
    <3> HIDE DEF n, e
    <3> QED BY Zenon, <3>13, <3>14
  <2> QED BY <2>1, <2>2
<1>8. ListedUpTo(local.i)'
  BY <1>2, <1>3, <1>6, <1>7 DEF ListedUpTo
<1> QED BY <1>1, <1>2, <1>3, <1>8 DEF MapInv

\* Where the loop ends there is no entry left.
LEMMA MapComplete ==
  ASSUME RouteInv, pc = "map", MapReadable, MapInv, ~ There \/ local.i = MapSlots
  PROVE  DOMAIN image.entries \subseteq 0 .. local.i
<1> DEFINE i == local.i
           B == image.spacing
<1>1. /\ AppleReadable /\ image \in Images /\ image.scheme = "Apple" /\ B \in Nat \ {0}
      /\ image.length \in Nat /\ MapSlots \in Nat /\ local.blockSize = B /\ i \in Nat
      /\ \A p \in DOMAIN image.entries : p \in Nat
      /\ image.form \in {"raw", "dmg"}
  BY MapTyped, ImageTyped
<1>2. SUFFICES ASSUME NEW p \in DOMAIN image.entries, i + 1 <= p PROVE FALSE
  BY <1>1
<1>3. p \in 1 .. MapSlots
  BY <1>1 DEF AppleReadable
<1>4. ~ There
  BY <1>1, <1>2, <1>3
<1>5. (i + 1) * B <= p * B
  BY <1>1, <1>2, Scaled
<1> DEFINE u == i * B
           v == p * B
<1>6. /\ B * (1 + p) = B + v /\ B * p = v /\ (i + 1) * B = u + B
      /\ u \in Int /\ v \in Int /\ 0 + (B + v) = B + v
  BY <1>1
<1> HIDE DEF u, v
<1>7. CASE image.form = "raw"
  <2>1. 0 + B * (1 + p) <= image.length
    BY <1>1, <1>2, <1>7 DEF AppleReadable, Inside
  <2>2. ~ ((i + 1) * B < image.length)
    BY <1>1, <1>4, <1>7, MapReads
  <2>3. u + B <= v /\ B + v <= image.length /\ ~ (u + B < image.length)
    BY <1>5, <1>6, <2>1, <2>2 DEF v
  <2> QED BY <1>1, <1>6, <2>3
<1>8. CASE image.form = "dmg"
  <2>1. B * p <= TableOf(0).count /\ TableOf(0).first = B
    BY <1>1, <1>2, <1>8 DEF AppleReadable
  <2>2. TableOf(0).count \in Nat
    <3>1. TableOf(0) # NoTable
      BY <1>1, <2>1 DEF NoTable, Nowhere
    <3> QED BY <1>1, <3>1, TableFound, ImageTyped
  <2>3. ~ (u < TableOf(0).count)
    BY <1>1, <1>4, <1>8, MapReads DEF u
  <2> QED BY <1>1, <1>5, <1>6, <2>1, <2>2, <2>3
<1> QED BY <1>1, <1>7, <1>8

----------------------------------------------------------------------------
(* Which way leads to which state.                                         *)

\* The kind of a file is the first of the tests that holds.
LEMMA FirstKind ==
  ASSUME NEW kind, kind = SelectInSeq(Kinds, Is), kind # 0
  PROVE  kind \in 1 .. 4 /\ Is(Kinds[kind]) /\ \A j \in 1 .. 4 : j < kind => ~ Is(Kinds[j])
<1> DEFINE I == {j \in 1 .. 4 : Is(Kinds[j])}
<1>1. Len(Kinds) = 4
  BY DEF Kinds
<1>2. I # {} /\ kind = Min(I)
  <2> HIDE DEF Kinds, Is
  <2> QED BY <1>1 DEF SelectInSeq
<1>3. I \in SUBSET Nat
  OBVIOUS
<1>4. kind \in I /\ \A j \in I : kind <= j
  BY <1>2, <1>3, MinNat
<1>5. kind \in 1 .. 4 /\ Is(Kinds[kind])
  BY <1>4
<1>6. ASSUME NEW j \in 1 .. 4, j < kind PROVE ~ Is(Kinds[j])
  <2>1. ~ (kind <= j)
    BY <1>5, <1>6
  <2> QED BY <1>4, <2>1
<1> QED BY <1>5, <1>6

\* What openDisk() finds out about a file.
LEMMA Detected ==
  ASSUME image \in Images, Detect
  PROVE  /\ image' = image /\ m_partitions' = m_partitions /\ mapReader' = mapReader
         /\ local' = local
         /\ \/ pc' = "failed"
            \/ /\ m_reader' = FileReader /\ UNCHANGED faults
               /\ \/ pc' = "koly" /\ image.form = "dmg"
                  \/ pc' = "gpt" /\ image.form = "raw" /\ image.scheme = "GPT"
                  \/ pc' = "block0" /\ image.form = "raw" /\ image.scheme = "Apple"
                  \/ /\ pc' = "header" /\ image.form = "raw"
                     /\ ~ IsGPTDisk(FileReader) /\ ~ IsAppleDisk(FileReader)
<1> DEFINE kind == SelectInSeq(Kinds, Is)
<1>1. image.form \in {"raw", "dmg"}
  BY ImageTyped
<1>2. /\ Kinds[1] = "dmg" /\ Kinds[2] = "gpt" /\ Kinds[3] = "apple" /\ Kinds[4] = "hfs"
      /\ FirstPc["dmg"] = "koly" /\ FirstPc["gpt"] = "gpt"
      /\ FirstPc["apple"] = "block0" /\ FirstPc["hfs"] = "header"
  BY DEF Kinds, FirstPc
<1>3. /\ Is("dmg") <=> image.form = "dmg"
      /\ Is("gpt") <=> IsGPTDisk(FileReader)
      /\ Is("apple") <=> IsAppleDisk(FileReader)
  BY DEF Is
<1>4. CASE pc' = "failed" /\ UNCHANGED <<image, m_partitions, mapReader, local>>
  BY <1>4
<1>5. CASE /\ kind # 0 /\ pc' = FirstPc[Kinds[kind]] /\ m_reader' = FileReader
           /\ UNCHANGED <<image, faults, m_partitions, mapReader, local>>
  <2>1. kind \in 1 .. 4 /\ Is(Kinds[kind]) /\ \A j \in 1 .. 4 : j < kind => ~ Is(Kinds[j])
    BY <1>5, FirstKind
  <2>2. IsGPTDisk(FileReader) => image.scheme = "GPT"
    BY DEF IsGPTDisk
  <2>3. IsAppleDisk(FileReader) => image.scheme = "Apple"
    BY DEF IsAppleDisk
  <2> HIDE DEF kind
  <2>4. CASE kind = 1
    BY <1>2, <1>3, <1>5, <2>1, <2>4
  <2>5. CASE kind = 2
    BY <1>1, <1>2, <1>3, <1>5, <2>1, <2>2, <2>5
  <2>6. CASE kind = 3
    BY <1>1, <1>2, <1>3, <1>5, <2>1, <2>3, <2>6
  <2>7. CASE kind = 4
    BY <1>1, <1>2, <1>3, <1>5, <2>1, <2>7
  <2> QED BY <2>1, <2>4, <2>5, <2>6, <2>7
<1> HIDE DEF kind
<1> QED BY <1>4, <1>5 DEF Detect, Fail, GoTo, kind

\* The number of entries that a read of the array gives.
LEMMA EntriesCounted == EntriesRead \in Nat
<1> DEFINE S == {s \in 0 .. GPTSectors - 1 : Sees(ArrayReader, ArrayOffset + s) # Nowhere}
<1>1. IsFiniteSet(0 .. GPTSectors - 1)
  BY SizesAssumption, FS_Interval
<1>2. IsFiniteSet(S)
  BY <1>1, FS_Subset
<1>3. Cardinality(S) \in Nat
  BY <1>2, FS_CardinalityType
<1> QED BY <1>3 DEF EntriesRead

\* The way begins with the file alone.
LEMMA RouteInvInit ==
  ASSUME DiskInit
  PROVE  RouteInv
BY NoList DEF DiskInit, RouteInv, Chosen

\* Every step keeps to it.
LEMMA RouteInvNext ==
  ASSUME RouteInv, DiskNext
  PROVE  RouteInv'
<1>1. image \in Images /\ m_partitions \in Seq(Range(m_partitions))
  BY DEF RouteInv
<1>2. image' = image => FileReader' = FileReader /\ \A id : KolyReader(id)' = KolyReader(id)
  BY TablesKept
<1>3. CASE Detect
  <2>1. pc = "detect"
    BY <1>3 DEF Detect
  <2>2. m_partitions = <<>> /\ mapReader = NoReader
    BY <2>1 DEF RouteInv
  <2> QED BY <1>1, <1>2, <1>3, <2>1, <2>2, Detected DEF RouteInv
<1>4. CASE ReadBlock0
  BY <1>2, <1>4 DEF ReadBlock0, Fail, GoTo, RouteInv
<1>5. CASE GuessBlockSize
  BY <1>2, <1>5 DEF GuessBlockSize, Guess, Fail, GoTo, RouteInv
<1>6. CASE GuessEnds
  BY <1>2, <1>6 DEF GuessEnds, RouteInv
<1>7. CASE LoadEntry
  <2>1. CASE pc = "map" /\ List(EntryRead)
    <3>1. m_partitions' \in Seq(Range(m_partitions'))
      BY <1>1, <2>1, Appended DEF List
    <3> QED BY <1>2, <2>1, <3>1 DEF List, RouteInv
  <2>2. CASE pc = "map" /\ Fail
    BY <1>2, <2>2 DEF Fail, GoTo, RouteInv
  <2>3. CASE pc = "map" /\ Listed
    BY <1>2, <2>3 DEF Listed, GoTo, RouteInv
  <2> QED BY <1>7, <2>1, <2>2, <2>3 DEF LoadEntry
<1>8. CASE LoadEnds
  BY <1>2, <1>8 DEF LoadEnds, Listed, GoTo, RouteInv
<1>9. CASE LoadPartitions
  <2>1. CASE m_partitions' = [i \in 1 .. EntriesRead |-> PartitionIn(Slot(i))]
             /\ pc = "gpt" /\ pc' = "listed" /\ UNCHANGED <<image, faults, m_reader, mapReader, local>>
    <3>1. m_partitions' \in [1 .. EntriesRead -> Range(m_partitions')]
      BY <2>1 DEF Range
    <3>2. m_partitions' \in Seq(Range(m_partitions'))
      BY <3>1, EntriesCounted, IsASeq
    <3> QED BY <1>2, <2>1, <3>2 DEF RouteInv
  <2>2. CASE pc = "gpt" /\ (GoTo("crashed") \/ GoTo("failed"))
    BY <1>2, <2>2 DEF GoTo, RouteInv
  <2> QED BY <1>9, <2>1, <2>2 DEF LoadPartitions, Fail
<1>10. CASE LoadKoly
  BY <1>2, <1>10 DEF LoadKoly, Fail, Listed, GoTo, RouteInv
<1>11. CASE LoadElement
  <2>1. CASE pc = "elements" /\ m_partitions = <<>> /\ GoTo("fallback")
    BY <1>2, <2>1 DEF GoTo, RouteInv
  <2>2. ASSUME pc = "elements", UNCHANGED <<image, pc, m_reader, mapReader>>,
               NEW e, m_partitions' = Append(m_partitions, e)
        PROVE  RouteInv'
    <3>1. m_partitions' \in Seq(Range(m_partitions'))
      BY <1>1, <2>2, Appended
    <3> QED BY <1>2, <2>2, <3>1 DEF RouteInv
  <2> QED BY <1>11, <2>1, <2>2 DEF LoadElement
<1>12. CASE LoadElementsEnds
  BY <1>2, <1>12 DEF LoadElementsEnds, Listed, GoTo, RouteInv
<1>13. CASE Fallback
  BY <1>2, <1>13 DEF Fallback, Fail, Listed, GoTo, IsAppleDisk, IsGPTDisk, RouteInv
<1>14. CASE Search
  BY <1>2, <1>14 DEF Search, RouteInv
<1>15. CASE Choose
  BY <1>2, <1>15 DEF Choose, Fail, GoTo, RouteInv
<1>16. CASE VolumeStep
  BY <1>2, <1>16 DEF VolumeStep, ReadHeader, ReadEmbedded, Fail, GoTo, RouteInv
<1> QED
  BY <1>3, <1>4, <1>5, <1>6, <1>7, <1>8, <1>9, <1>10, <1>11, <1>12, <1>13, <1>14, <1>15, <1>16
  DEF DiskNext, AppleStep, DMGStep

----------------------------------------------------------------------------
(* The list is what the map says.                                          *)

\* The whole array is read.
LEMMA ArrayRead ==
  ASSUME RouteInv, pc = "gpt", MapReadable
  PROVE  ArrayReader # NoReader /\ EntriesRead = 4 * GPTSectors
<1>1. GPTReadable /\ image \in Images /\ image.form \in {"raw", "dmg"} /\ image.length \in Nat
  <2>1. GPTReadable /\ image \in Images
    BY DEF RouteInv, MapReadable
  <2> QED BY <2>1, ImageTyped
<1>2. GPTSectors \in Nat
  BY SizesAssumption
<1>3. /\ ArrayReader # NoReader
      /\ \A s \in 0 .. GPTSectors - 1 : Sees(ArrayReader, ArrayOffset + s) # Nowhere
  <2>1. CASE image.form = "raw"
    <3>1. mapReader = NoReader /\ m_reader = FileReader
      BY <2>1 DEF RouteInv
    <3>2. FileReader = [first |-> 0, size |-> image.length, limit |-> image.length, opaque |-> {}]
      BY <2>1 DEF FileReader
    <3>3. ArrayReader = FileReader /\ ArrayOffset = 2
      BY <3>1 DEF ArrayReader, ArrayOffset
    <3>4. 0 + (2 + GPTSectors) <= image.length
      BY <1>1, <2>1 DEF GPTReadable, Inside
    <3> QED BY <1>1, <1>2, <3>2, <3>3, <3>4 DEF Sees, Nowhere, NoReader
  <2>2. CASE image.form = "dmg"
    <3>1. mapReader = KolyReader(1)
      BY <2>2 DEF RouteInv
    <3>2. image.dataFork = 0 /\ TableOf(1).first = 2 /\ TableOf(1).count >= GPTSectors
      BY <1>1, <2>2 DEF GPTReadable, BlockZeroReadable
    <3>3. TableOf(1) # NoTable
      BY <3>2 DEF NoTable, Nowhere
    <3>4. TableOf(1).count \in Nat
      BY <1>1, <3>3, TableFound, ImageTyped
    <3>5. mapReader = [first |-> 2, size |-> TableOf(1).count, limit |-> 2 + TableOf(1).count,
                       opaque |-> {TableOf(1).first + s : s \in TableOf(1).inLZFSE}]
      BY <3>1, <3>2, <3>3 DEF KolyReader, DMGPartition
    <3>6. mapReader # NoReader
      BY <3>5 DEF NoReader, Nowhere
    <3>7. ArrayReader = mapReader /\ ArrayOffset = 0
      BY <3>6 DEF ArrayReader, ArrayOffset
    <3> QED BY <1>2, <3>2, <3>4, <3>5, <3>6, <3>7 DEF Sees, Nowhere
  <2> QED BY <1>1, <2>1, <2>2
<1>4. {s \in 0 .. GPTSectors - 1 : Sees(ArrayReader, ArrayOffset + s) # Nowhere} = 0 .. GPTSectors - 1
  BY <1>3
<1>5. Cardinality(0 .. GPTSectors - 1) = GPTSectors
  BY <1>2, FS_Interval
<1> QED BY <1>3, <1>4, <1>5 DEF EntriesRead

\* A map that can be read begins in the file.
LEMMA MapSeen ==
  ASSUME image \in Images, image.form = "raw", MapReadable
  PROVE  IsGPTDisk(FileReader) \/ IsAppleDisk(FileReader)
<1>1. image.length \in Nat /\ image.spacing \in Nat \ {0} /\ GPTSectors \in Nat
  BY ImageTyped, SizesAssumption
<1>2. image.length > 0
  <2>1. CASE image.scheme = "Apple" /\ AppleReadable
    <3>1. 1 \in DOMAIN image.entries /\ 0 + image.spacing * (1 + 1) <= image.length
      BY <2>1 DEF AppleReadable, Inside
    <3> QED BY <1>1, <3>1
  <2>2. CASE image.scheme = "GPT" /\ GPTReadable
    <3>1. 0 + (2 + GPTSectors) <= image.length
      BY <2>2 DEF GPTReadable, Inside
    <3> QED BY <1>1, <3>1
  <2> QED BY <2>1, <2>2 DEF MapReadable
<1>3. FileReader = [first |-> 0, size |-> image.length, limit |-> image.length, opaque |-> {}]
  BY DEF FileReader
<1>4. Sees(FileReader, 0) = 0
  BY <1>1, <1>2, <1>3 DEF Sees
<1> QED BY <1>4 DEF IsGPTDisk, IsAppleDisk, MapReadable

\* A list that was made from the map stays it.
LEMMA ListedKept ==
  ASSUME MapListed, UNCHANGED <<image, m_partitions, faults>>
  PROVE  MapListed'
<1>1. \A x : EntryPart(x)' = EntryPart(x)
  BY PartsKept
<1>2. ASSUME NEW n, ListedUpTo(n) PROVE ListedUpTo(n)'
  BY <1>1, <1>2 DEF ListedUpTo
<1>3. ListedArray => ListedArray'
  BY TablesKept DEF ListedArray
<1> QED BY <1>2, <1>3 DEF MapListed

\* The list is complete, up to where it ends.
LEMMA ListEnds ==
  ASSUME RouteInv, pc = "map", MapReadable, MapInv, UNCHANGED <<image, m_partitions>>,
         \/ faults' # {}
         \/ ~ There
         \/ local.i = MapSlots
  PROVE  MapListed'
<1>1. \A x : EntryPart(x)' = EntryPart(x)
  BY PartsKept
<1>2. local.i \in 0 .. MapSlots /\ ListedUpTo(local.i) /\ image.scheme = "Apple"
  BY MapTyped DEF MapInv
<1>3. ASSUME NEW n, ListedUpTo(n) PROVE ListedUpTo(n)'
  BY <1>1, <1>3 DEF ListedUpTo
<1>4. faults' = {} => DOMAIN image.entries \subseteq 0 .. local.i
  BY MapComplete
<1>5. PICK n \in 0 .. MapSlots : ListedUpTo(n) /\ (faults' = {} => DOMAIN image.entries \subseteq 0 .. n)
  BY <1>2, <1>4
<1> QED BY <1>2, <1>3, <1>5 DEF MapListed

\* Nothing is listed at first.
LEMMA ListInvInit ==
  ASSUME DiskInit
  PROVE  ListInv
BY DEF DiskInit, ListInv, Chosen

\* What is known of the list when a step does not change it.
LEMMA ListStays ==
  ASSUME RouteInv, ListInv, UNCHANGED <<image, m_partitions, mapReader, faults>>,
         pc \in {"listed"} \cup Chosen, pc' \notin {"guess", "map"}
  PROVE  ListInv'
<1>1. MapReadable' = MapReadable
  BY ImageKept
<1> QED BY <1>1, ListedKept DEF ListInv

\* A list that was not made from a map.
LEMMA NoMap ==
  ASSUME RouteInv, image' = image, mapReader' = NoReader, pc' \notin {"guess", "map"},
         image.form = "dmg"
  PROVE  ListInv'
BY DEF ListInv

\* Before the list is made there is nothing to keep.
LEMMA Nothing ==
  ASSUME pc' \notin {"guess", "map", "listed"} \cup Chosen
  PROVE  ListInv'
BY DEF ListInv

\* What the loop that guesses leaves.
LEMMA GuessedRight ==
  ASSUME RouteInv, pc = "guess", ListInv, GuessBlockSize \/ GuessEnds
  PROVE  ListInv'
<1>1. SUFFICES ASSUME MapReadable', "guess" \notin faults'
               PROVE  /\ pc' = "guess" => GuessInv'
                      /\ pc' = "map" => MapInv'
                      /\ pc' \notin {"listed"} \cup Chosen
  BY DEF ListInv
<1>2. pc' = "failed" \/ (image' = image /\ faults' = faults /\ m_partitions' = m_partitions
         /\ ((local.i < MapSlots /\ Guess(IF There THEN EntryRead ELSE local.dpme)) \/ GuessEnds))
  BY <1>1 DEF GuessBlockSize, GuessEnds, Guess, Faulty, Fail, GoTo
<1>3. CASE pc' = "failed"
  BY <1>3 DEF Chosen
<1>4. CASE image' = image /\ faults' = faults /\ m_partitions' = m_partitions
           /\ ((local.i < MapSlots /\ Guess(IF There THEN EntryRead ELSE local.dpme)) \/ GuessEnds)
  <2>1. MapReadable
    BY <1>1, <1>4, ImageKept
  <2>2. GuessInv
    BY <1>1, <1>4, <2>1 DEF ListInv
  <2>3. Guessed
    BY <1>4, <2>1, <2>2, GuessRight
  <2>4. image \in Images /\ m_partitions' = <<>>
    BY <1>4 DEF RouteInv
  <2> QED BY <1>4, <2>3, <2>4, MapStarts DEF Guessed, Chosen
<1> QED BY <1>2, <1>3, <1>4

\* Every step keeps the list right.
LEMMA ListInvNext ==
  ASSUME RouteInv, ListInv, DiskNext
  PROVE  ListInv'
<1>1. image \in Images /\ image' = image
  BY DEF RouteInv, DiskNext, Detect, Fail, AppleStep, ReadBlock0, GuessBlockSize, Guess, GuessEnds,
         LoadEntry, List, LoadEnds, Listed, LoadPartitions, DMGStep, LoadKoly, LoadElement,
         LoadElementsEnds, Fallback, Search, Choose, VolumeStep, ReadHeader, ReadEmbedded, GoTo
<1>2. MapReadable' = MapReadable
  BY <1>1, ImageKept
<1>3. CASE Detect
  <2>1. CASE pc' = "header"
    <3>1. image.form = "raw" /\ ~ IsGPTDisk(FileReader) /\ ~ IsAppleDisk(FileReader)
      BY <1>1, <1>3, <2>1, Detected
    <3>2. ~ MapReadable
      BY <1>1, <3>1, MapSeen
    <3> QED BY <1>2, <3>2 DEF ListInv
  <2>2. CASE pc' # "header"
    BY <1>1, <1>3, <2>2, Detected, Nothing DEF Chosen
  <2> QED BY <2>1, <2>2
<1>4. CASE ReadBlock0
  <2>1. pc = "block0" /\ m_partitions = <<>> /\ image.scheme = "Apple"
    BY <1>4 DEF ReadBlock0, RouteInv
  <2>2. CASE pc' = "failed"
    BY <2>2, Nothing DEF Chosen
  <2>3. CASE image.declared = 0 /\ pc' = "guess" /\ local' = Start(1)
    <3> SUFFICES ASSUME MapReadable' PROVE GuessInv'
      BY <2>3 DEF ListInv, Chosen
    <3>1. /\ DOMAIN local' = ScanLocals /\ local'.blockSize = 1 /\ local'.i = 0 /\ local'.lastOK = -1
      BY <2>3 DEF Start, ScanLocals
    <3>2. MapSlots \in Nat /\ image.spacing \in Nat
      BY <1>1, ImageTyped, SizesAssumption
    <3> QED BY <1>1, <2>3, <3>1, <3>2 DEF GuessInv
  <2>4. CASE image.declared # 0 /\ pc' = "map" /\ local' = Start(image.declared)
             /\ m_partitions' = m_partitions
    <3> SUFFICES ASSUME MapReadable' PROVE MapInv'
      BY <2>4 DEF ListInv, Chosen
    <3>1. image.declared = image.spacing
      BY <1>2, <2>1, <2>4 DEF MapReadable, AppleReadable
    <3> QED BY <1>1, <2>1, <2>4, <3>1, MapStarts
  <2> QED BY <1>4, <2>2, <2>3, <2>4 DEF ReadBlock0, Fail, GoTo
<1>5. CASE GuessBlockSize \/ GuessEnds
  BY <1>5, GuessedRight DEF GuessBlockSize, GuessEnds
<1>6. CASE LoadEntry \/ LoadEnds
  <2>1. pc = "map"
    BY <1>6 DEF LoadEntry, LoadEnds
  <2>2. SUFFICES ASSUME MapReadable', "guess" \notin faults'
                 PROVE  /\ pc' # "guess"
                        /\ pc' = "map" => MapInv'
                        /\ pc' \in {"listed"} \cup Chosen => MapListed'
    BY DEF ListInv
  <2>3. faults \subseteq faults'
    BY <1>6 DEF LoadEntry, LoadEnds, List, Faulty, Fail, Listed, GoTo
  <2>4. MapReadable /\ MapInv
    BY <1>2, <2>1, <2>2, <2>3 DEF ListInv
  <2>5. CASE local.i < MapSlots /\ There /\ List(EntryRead)
    BY <2>1, <2>4, <2>5, MapGrows DEF List, Chosen
  <2>6. CASE Listed /\ (faults' # {} \/ ~ There \/ local.i = MapSlots)
    BY <1>1, <2>1, <2>4, <2>6, ListEnds DEF Listed, GoTo
  <2>7. CASE Fail
    BY <2>7 DEF Fail, GoTo, Chosen
  <2> QED BY <1>6, <2>5, <2>6, <2>7 DEF LoadEntry, LoadEnds, Faulty
<1>7. CASE LoadPartitions
  <2>1. pc = "gpt" /\ image.scheme = "GPT"
    BY <1>7 DEF LoadPartitions, RouteInv
  <2>2. CASE pc' \in {"crashed", "failed"}
    BY <2>2, Nothing DEF Chosen
  <2>3. CASE m_partitions' = [i \in 1 .. EntriesRead |-> PartitionIn(Slot(i))] /\ pc' = "listed"
    <3> SUFFICES ASSUME MapReadable' PROVE ListedArray'
      BY <1>1, <2>1, <2>3 DEF ListInv, MapListed
    <3>1. EntriesRead = 4 * GPTSectors
      BY <1>2, <2>1, ArrayRead
    <3>2. \A i : Slot(i)' = Slot(i)
      BY <1>1, TablesKept
    <3> QED BY <2>3, <3>1, <3>2 DEF ListedArray
  <2> QED BY <1>7, <2>2, <2>3 DEF LoadPartitions, Fail, GoTo
<1>8. CASE LoadKoly \/ LoadElement \/ LoadElementsEnds
  <2>1. pc \in {"koly", "elements"} /\ mapReader' = mapReader
    BY <1>8 DEF LoadKoly, LoadElement, LoadElementsEnds, Fail, Listed, GoTo
  <2>2. mapReader' = NoReader /\ image.form = "dmg"
    BY <1>1, <2>1, ImageTyped DEF RouteInv
  <2>3. pc' \notin {"guess", "map"}
    BY <1>8 DEF LoadKoly, LoadElement, LoadElementsEnds, Fail, Listed, GoTo
  <2> QED BY <1>1, <2>2, <2>3, NoMap
<1>9. CASE Fallback
  <2>1. CASE Listed
    <3>1. mapReader' = NoReader /\ image.form = "dmg" /\ pc' = "listed"
      BY <1>1, <1>9, <2>1, ImageTyped DEF Fallback, Listed, GoTo, RouteInv
    <3> QED BY <1>1, <3>1, NoMap
  <2>2. CASE pc' \in {"failed", "block0", "gpt"}
    BY <2>2, Nothing DEF Chosen
  <2> QED BY <1>9, <2>1, <2>2 DEF Fallback, Fail, GoTo
<1>10. CASE Search \/ Choose \/ VolumeStep
  <2>1. CASE pc' = "failed"
    BY <2>1, Nothing DEF Chosen
  <2>2. CASE pc' # "failed"
    <3>1. /\ pc \in {"listed"} \cup Chosen /\ pc' \notin {"guess", "map"}
          /\ UNCHANGED <<image, m_partitions, mapReader, faults>>
      BY <1>10, <2>2 DEF Search, Choose, VolumeStep, ReadHeader, ReadEmbedded, Fail, GoTo, Chosen
    <3> QED BY <3>1, ListStays
  <2> QED BY <2>1, <2>2
<1> QED
  BY <1>3, <1>4, <1>5, <1>6, <1>7, <1>8, <1>9, <1>10 DEF DiskNext, AppleStep, DMGStep

\* A GUID is told to be HFS+ if it is, and never to be another HFS type.
LEMMA TypesTold ==
  ASSUME image \in Images, image.scheme = "GPT", NEW p \in DOMAIN image.entries
  PROVE  LET e == image.entries[p]
         IN  /\ PartitionIn(e).type \in HFSTypes <=> EntryPart(e).type \in HFSTypes
             /\ PartitionIn(e).offset = EntryPart(e).offset
             /\ PartitionIn(e).size = EntryPart(e).size
<1> DEFINE e    == image.entries[p]
           guid == e.type
<1>1. e.first \in Nat /\ e.last \in Nat
  BY ImageTyped
<1>2. /\ guid.data3 \in Nat
      /\ guid.text = GUID_HFSPLUS.text => guid = GUID_HFSPLUS
      /\ guid.data3 < 4096 => guid.bare # GUID_HFSPLUS.text
      /\ guid.text \notin {"Apple_HFS", "Apple_HFSX"} /\ guid.bare \notin {"Apple_HFS", "Apple_HFSX"}
  BY GUIDsAssumption
<1>3. \A x, y : Text(x) = Text(y) <=> x = y
  BY DEF Text
<1>4. GUID_EMPTY.text # GUID_HFSPLUS.text /\ GUID_HFSPLUS.data3 = 4522
  BY DEF GUID_EMPTY, GUID_HFSPLUS
<1> DEFINE name == MakeGUID(guid)
<1>5. name \in {guid.text, guid.bare}
  BY DEF MakeGUID
<1>6. name = GUID_HFSPLUS.text <=> guid = GUID_HFSPLUS
  BY <1>2, <1>4 DEF MakeGUID
<1>7. TypeName(name) = IF name = GUID_EMPTY.text THEN Text("Apple_Free")
                       ELSE IF name = GUID_HFSPLUS.text THEN Text("Apple_HFS") ELSE Text(name)
  BY <1>4 DEF TypeName
<1> HIDE DEF name
<1>8. TypeName(name) \in HFSTypes <=> name = GUID_HFSPLUS.text
  BY <1>2, <1>3, <1>4, <1>5, <1>7 DEF HFSTypes
<1>9. Text(IF guid = GUID_HFSPLUS THEN "Apple_HFS" ELSE "other") \in HFSTypes <=> guid = GUID_HFSPLUS
  BY <1>3 DEF HFSTypes
<1>10. /\ PartitionIn(e).type = TypeName(name) /\ PartitionIn(e).offset = e.first
       /\ PartitionIn(e).size = (e.last - e.first) + 1
  BY DEF PartitionIn, name
<1>11. /\ EntryPart(e).type = Text(IF guid = GUID_HFSPLUS THEN "Apple_HFS" ELSE "other")
       /\ EntryPart(e).offset = e.first /\ EntryPart(e).size = (e.last + 1) - e.first
  BY DEF EntryPart, Part
<1>12. (e.last - e.first) + 1 = (e.last + 1) - e.first
  BY <1>1
<1> HIDE DEF e
<1> QED BY <1>6, <1>8, <1>9, <1>10, <1>11, <1>12 DEF e

\* A slot without an entry is no partition.
LEMMA EmptySlot ==
  ASSUME NEW i, i \notin DOMAIN image.entries
  PROVE  PartitionIn(Slot(i)).offset = 0 /\ PartitionIn(Slot(i)).type \notin HFSTypes
<1>1. Slot(i) = [type |-> GUID_EMPTY, first |-> 0, last |-> 0]
  BY DEF Slot
<1>2. MakeGUID(GUID_EMPTY) = "00000000-0000-0-0000-000000000000"
  BY DEF MakeGUID, GUID_EMPTY
<1>3. TypeName("00000000-0000-0-0000-000000000000") = Text("00000000-0000-0-0000-000000000000")
  BY DEF TypeName, GUID_EMPTY, GUID_HFSPLUS
<1>4. PartitionIn(Slot(i)).type = Text("00000000-0000-0-0000-000000000000")
  BY <1>1, <1>2, <1>3 DEF PartitionIn
<1> QED BY <1>1, <1>4 DEF PartitionIn, HFSTypes, Text

\* The list of an Apple map has its entries in their order.
LEMMA AppleInOrder ==
  ASSUME RouteInv, image.scheme = "Apple", NEW n, ListedUpTo(n), NEW all \in BOOLEAN,
         all => \A p \in DOMAIN image.entries : p <= n, n \in Nat
  PROVE  InOrder(m_partitions, all)
<1> DEFINE upTo  == {p \in DOMAIN image.entries : p <= n}
           there == {p \in Places : MediumPart(p).offset # 0}
           L     == {i \in DOMAIN m_partitions : m_partitions[i].offset # 0}
           m     == Len(m_partitions)
<1>1. m_partitions \in Seq(Range(m_partitions)) /\ image \in Images
  BY DEF RouteInv
<1>2. DOMAIN m_partitions = 1 .. m /\ m \in Nat
  BY <1>1, LenProperties
<1>3. PICK place \in [1 .. m -> upTo] :
        /\ \A k \in 1 .. m : m_partitions[k] = EntryPart(image.entries[place[k]])
        /\ \A k, l \in 1 .. m : k < l => place[k] < place[l]
        /\ \A p \in upTo : \E k \in 1 .. m : place[k] = p
  BY DEF ListedUpTo
<1>4. Places = DOMAIN image.entries /\ \A p : MediumPart(p) = EntryPart(image.entries[p])
  BY DEF Places, MediumPart
<1>5. \A p \in DOMAIN image.entries : p \in Nat
  BY <1>1, ImageTyped
<1> DEFINE f == [i \in L |-> place[i]]
<1>6. \A i \in L : i \in 1 .. m /\ place[i] \in upTo /\ place[i] \in there
  BY <1>2, <1>3, <1>4
<1>7. f \in [L -> there] /\ DOMAIN f = L /\ \A i \in L : f[i] = place[i]
  BY <1>6
<1> HIDE DEF f
<1>8. \A i \in L : Alike(m_partitions[i], MediumPart(f[i]))
  BY <1>3, <1>4, <1>6, <1>7 DEF Alike
<1>9. \A i, j \in L : i < j => f[i] < f[j]
  BY <1>3, <1>6, <1>7
<1>10. ASSUME NEW p \in there
       PROVE  (\E i \in L : f[i] = p) \/ (~ all /\ \A i \in L : f[i] < p)
  <2>1. CASE p <= n
    <3>1. p \in upTo
      BY <1>4, <2>1
    <3>2. PICK k \in 1 .. m : place[k] = p
      BY <1>3, <3>1
    <3>3. k \in L
      BY <1>2, <1>3, <1>4, <3>2
    <3> QED BY <1>7, <3>2, <3>3
  <2>2. CASE ~ (p <= n)
    <3>1. p \in DOMAIN image.entries /\ p \in Nat
      BY <1>4, <1>5
    <3>2. \A i \in L : f[i] < p
      BY <1>5, <1>6, <1>7, <2>2, <3>1
    <3> QED BY <2>2, <3>1, <3>2
  <2> QED BY <2>1, <2>2
<1> HIDE DEF L, there
<1> QED BY <1>7, <1>8, <1>9, <1>10 DEF InOrder, L, there

\* That of a GPT has the slots of its array, the empty ones at 0.
LEMMA ArrayInOrder ==
  ASSUME RouteInv, image.scheme = "GPT", MapReadable, ListedArray, NEW all \in BOOLEAN
  PROVE  InOrder(m_partitions, all)
<1> DEFINE there == {p \in Places : MediumPart(p).offset # 0}
           L     == {i \in DOMAIN m_partitions : m_partitions[i].offset # 0}
           f     == [i \in L |-> i]
<1>1. image \in Images /\ DOMAIN image.entries \subseteq 1 .. 4 * GPTSectors
  BY DEF RouteInv, MapReadable, GPTReadable
<1>2. /\ DOMAIN m_partitions = 1 .. 4 * GPTSectors
      /\ \A i \in 1 .. 4 * GPTSectors : m_partitions[i] = PartitionIn(Slot(i))
  BY DEF ListedArray
<1>3. Places = DOMAIN image.entries /\ \A p : MediumPart(p) = EntryPart(image.entries[p])
  BY DEF Places, MediumPart
<1>4. ASSUME NEW i \in DOMAIN image.entries PROVE Alike(m_partitions[i], MediumPart(i))
  <2>1. m_partitions[i] = PartitionIn(image.entries[i])
    BY <1>1, <1>2 DEF Slot
  <2> QED BY <1>1, <1>3, <2>1, TypesTold DEF Alike
<1>5. \A i \in L : i \in DOMAIN image.entries
  BY <1>2, EmptySlot
<1>6. \A p \in there : p \in L
  BY <1>1, <1>2, <1>3, <1>4 DEF Alike
<1>7. \A i \in L : i \in there
  BY <1>3, <1>4, <1>5 DEF Alike
<1>8. f \in [L -> there] /\ DOMAIN f = L /\ \A i \in L : f[i] = i
  BY <1>7
<1> HIDE DEF f, L, there
<1>9. \A i, j \in L : i < j => f[i] < f[j]
  BY <1>8
<1> QED BY <1>4, <1>5, <1>6, <1>8, <1>9 DEF InOrder, L, there

\* Either is the map's, from the entries read so far to the end.
LEMMA ListInvInOrder ==
  ASSUME RouteInv, ListInv
  PROVE  ListingIsMap
<1> SUFFICES ASSUME pc \in {"map", "listed", "search", "header", "mounted"},
                    image.scheme # "none", MapReadable, "guess" \notin faults,
                    image.form = "dmg" => mapReader # NoReader
             PROVE  InOrder(m_partitions, pc # "map" /\ faults = {})
  BY DEF ListingIsMap
<1>1. image \in Images /\ MapSlots \in Nat
  BY SizesAssumption DEF RouteInv
<1>2. image.scheme \in {"Apple", "GPT"}
  BY <1>1, ImageTyped
<1>3. CASE pc = "map"
  <2>1. MapInv /\ image.scheme = "Apple"
    BY <1>3 DEF ListInv, RouteInv
  <2>2. ListedUpTo(local.i) /\ local.i \in Nat
    BY <1>1, <2>1 DEF MapInv
  <2> QED BY <1>3, <2>1, <2>2, AppleInOrder
<1>4. CASE pc # "map"
  <2>1. MapListed
    BY <1>4 DEF ListInv, Chosen
  <2>2. CASE image.scheme = "Apple"
    <3>1. PICK n \in 0 .. MapSlots :
            ListedUpTo(n) /\ (faults = {} => DOMAIN image.entries \subseteq 0 .. n)
      BY <2>1, <2>2 DEF MapListed
    <3>2. n \in Nat /\ (faults = {} => \A p \in DOMAIN image.entries : p <= n)
      BY <1>1, <3>1
    <3> QED BY <1>4, <2>2, <3>1, <3>2, AppleInOrder
  <2>3. CASE image.scheme = "GPT"
    BY <1>4, <2>1, <2>3, ArrayInOrder DEF MapListed
  <2> QED BY <1>2, <2>2, <2>3
<1> QED BY <1>3, <1>4

----------------------------------------------------------------------------
(* The list is what the names say.                                         *)

\* An element that is no table has no type in its name.
LEMMA NoName == ~ ParseNameAndType(NoTable.name).ok
<1>1. NoTable.name = <<>> /\ Len(<<>>) = 0
  BY DEF NoTable
<1>2. SelectInSeq(<<>>, LAMBDA t : t = "(") = 0
  <2>1. {i \in 1 .. Len(<<>>) : <<>>[i] = "("} = {}
    BY NoList
  <2> QED BY <2>1 DEF SelectInSeq
<1>3. ParseNameAndType(<<>>) = [ok |-> FALSE, type |-> <<>>]
  BY <1>2 DEF ParseNameAndType
<1> QED BY <1>1, <1>3

\* An element whose name has a type is appended with it and its table.
LEMMA NamedGrows ==
  ASSUME RouteInv, NamesReadable, LoadElement, DOMAIN local = {"i"},
         local.i \in 0 .. Len(Elements), NamedUpTo(local.i)
  PROVE  /\ pc' = "elements" /\ DOMAIN local' = {"i"}
         /\ local'.i \in 0 .. Len(Elements) /\ NamedUpTo(local.i)'
<1> DEFINE i     == local.i
           n     == Len(Elements)
           e     == Elements[i + 1]
           named == ParseNameAndType(e.name)
<1>1. n \in Nat /\ image \in Images /\ m_partitions \in Seq(Range(m_partitions))
  BY ElementsCounted DEF RouteInv
<1>2. pc = "elements" /\ i < n /\ i \in Nat /\ i + 1 \in 1 .. n
  BY <1>1 DEF LoadElement
<1>3. named.ok /\ TableOf((i + 1) - 1) = e
  BY <1>2 DEF NamesReadable
<1>4. (i + 1) - 1 = i
  BY <1>2
<1>5. TableOf(i) = e
  BY <1>3, <1>4
<1>6. TableOf(i) # NoTable
  BY <1>3, <1>5, NoName
<1>7. TableAt(i) = {[offset |-> e.first, size |-> e.count]}
  BY <1>5, <1>6 DEF TableAt
<1>8. /\ \E part \in TableAt(i) :
           m_partitions' = Append(m_partitions, [type   |-> named.type,
                                                 offset |-> part.offset,
                                                 size   |-> part.size])
      /\ local' = [local EXCEPT !.i = @ + 1]
      /\ UNCHANGED <<image, pc, m_reader, mapReader>>
  BY <1>3 DEF LoadElement
<1>9. m_partitions' = Append(m_partitions, Part(named.type, e.first, e.count))
  BY <1>7, <1>8 DEF Part
<1>10. DOMAIN local' = {"i"} /\ local'.i = i + 1 /\ local'.i \in 0 .. n
  BY <1>1, <1>2, <1>8
<1>11. Elements' = Elements
  BY <1>8, TablesKept
<1>12. /\ Len(m_partitions') = i + 1
       /\ \A k \in 1 .. i : m_partitions'[k] = m_partitions[k]
       /\ m_partitions'[i + 1] = Part(named.type, e.first, e.count)
  BY <1>1, <1>9, Appended DEF NamedUpTo
<1>13. \A k \in 1 .. i + 1 : k = i + 1 \/ k \in 1 .. i
  BY <1>2
<1>14. ASSUME NEW k \in 1 .. i + 1
       PROVE  m_partitions'[k] = Part(ParseNameAndType(Elements[k].name).type,
                                      Elements[k].first, Elements[k].count)
  <2>1. CASE k \in 1 .. i
    BY <1>12, <2>1 DEF NamedUpTo
  <2>2. CASE k = i + 1
    BY <1>12, <2>2
  <2> QED BY <1>13, <2>1, <2>2
<1> HIDE DEF named, e
<1>15. NamedUpTo(local.i)'
  BY <1>10, <1>11, <1>12, <1>14 DEF NamedUpTo, Part
<1> QED BY <1>2, <1>8, <1>10, <1>15

\* A DMG whose map can be read has a reader of its own for the map.
LEMMA MapHasReader ==
  ASSUME RouteInv, MapReadable, image.form = "dmg", pc \in {"block0", "guess", "map", "gpt"}
  PROVE  mapReader # NoReader
<1>1. image \in Images /\ image.spacing \in Nat \ {0}
  BY ImageTyped DEF RouteInv
<1>2. CASE pc \in {"block0", "guess", "map"}
  <2>1. AppleReadable /\ mapReader = KolyReader(0)
    BY <1>2 DEF RouteInv, MapReadable
  <2>2. image.dataFork = 0 /\ TableOf(0).first = image.spacing
    BY <2>1 DEF AppleReadable, BlockZeroReadable
  <2>3. TableOf(0) # NoTable
    BY <1>1, <2>2 DEF NoTable, Nowhere
  <2>4. mapReader.first = image.spacing
    BY <2>1, <2>2, <2>3 DEF KolyReader, DMGPartition
  <2> QED BY <1>1, <2>4 DEF NoReader, Nowhere
<1>3. CASE pc = "gpt"
  <2>1. GPTReadable /\ mapReader = KolyReader(1)
    BY <1>3 DEF RouteInv, MapReadable
  <2>2. image.dataFork = 0 /\ TableOf(1).first = 2
    BY <2>1 DEF GPTReadable, BlockZeroReadable
  <2>3. TableOf(1) # NoTable
    BY <2>2 DEF NoTable, Nowhere
  <2>4. mapReader.first = 2
    BY <2>1, <2>2, <2>3 DEF KolyReader, DMGPartition
  <2> QED BY <2>4 DEF NoReader, Nowhere
<1> QED BY <1>2, <1>3

\* No name has been read at first.
LEMMA NamesInvInit ==
  ASSUME DiskInit
  PROVE  NamesInv
BY DEF DiskInit, NamesInv, Chosen

\* The image is the same after every step.
LEMMA SameImage ==
  ASSUME RouteInv, DiskNext
  PROVE  image \in Images /\ image' = image
BY DEF RouteInv, DiskNext, Detect, Fail, AppleStep, ReadBlock0, GuessBlockSize, Guess, GuessEnds,
       LoadEntry, List, LoadEnds, Listed, LoadPartitions, DMGStep, LoadKoly, LoadElement,
       LoadElementsEnds, Fallback, Search, Choose, VolumeStep, ReadHeader, ReadEmbedded, GoTo

\* If the names tell the types the map is not looked for.
LEMMA NamesReadKept ==
  ASSUME RouteInv, NamesInv, DiskNext, image.form = "dmg", NamesReadable
  PROVE  /\ pc' \notin {"fallback", "block0", "guess", "map", "gpt"}
         /\ pc' = "elements" =>
              DOMAIN local' = {"i"} /\ local'.i \in 0 .. Len(Elements) /\ NamedUpTo(local.i)'
         /\ pc' \in {"listed"} \cup Chosen => m_partitions' = <<>> \/ NamedUpTo(Len(Elements))'
<1>1. image \in Images /\ image' = image /\ Elements' = Elements /\ Len(Elements) \in Nat
  BY SameImage, TablesKept, ElementsCounted
<1>2. /\ pc \notin {"fallback", "block0", "guess", "map", "gpt"}
      /\ pc = "elements" => DOMAIN local = {"i"} /\ local.i \in 0 .. Len(Elements) /\ NamedUpTo(local.i)
      /\ pc \in {"listed"} \cup Chosen => m_partitions = <<>> \/ NamedUpTo(Len(Elements))
  BY DEF NamesInv
<1>3. CASE Detect
  BY <1>1, <1>3, Detected DEF Chosen
<1>4. CASE LoadKoly
  <2>1. pc = "koly" /\ m_partitions = <<>>
    BY <1>4 DEF LoadKoly, RouteInv
  <2>2. Elements # <<>>
    <3>1. \E i \in 1 .. Len(Elements) : TRUE
      BY DEF NamesReadable
    <3> QED BY <3>1, NoList
  <2>3. CASE pc' = "elements" /\ local' = [i |-> 0] /\ m_partitions' = m_partitions
    <3>1. DOMAIN local' = {"i"} /\ local'.i = 0 /\ Len(m_partitions') = 0
      BY <2>1, <2>3, NoList
    <3> QED BY <1>1, <2>3, <3>1 DEF NamedUpTo, Chosen
  <2>4. CASE pc' = "listed" /\ m_partitions' = m_partitions
    BY <2>1, <2>4
  <2>5. CASE pc' = "failed"
    BY <2>5 DEF Chosen
  <2> QED BY <1>4, <2>2, <2>3, <2>4, <2>5 DEF LoadKoly, Fail, Listed, GoTo
<1>5. CASE LoadElement
  <2>1. pc = "elements"
    BY <1>5 DEF LoadElement
  <2> QED BY <1>2, <1>5, <2>1, NamedGrows DEF Chosen
<1>6. CASE LoadElementsEnds
  <2>1. pc = "elements" /\ local.i = Len(Elements) /\ pc' = "listed" /\ m_partitions' = m_partitions
    BY <1>6 DEF LoadElementsEnds, Listed, GoTo
  <2>2. NamedUpTo(Len(Elements))
    BY <1>2, <2>1
  <2> QED BY <1>1, <2>1, <2>2 DEF NamedUpTo, Part
<1>7. CASE Search \/ Choose \/ VolumeStep
  <2>1. pc \in {"listed"} \cup Chosen /\ pc' \in Chosen \cup {"failed"} /\ m_partitions' = m_partitions
    BY <1>7 DEF Search, Choose, VolumeStep, ReadHeader, ReadEmbedded, Fail, GoTo, Chosen
  <2> QED BY <1>1, <1>2, <2>1 DEF NamedUpTo, Part, Chosen
<1>8. CASE AppleStep \/ LoadPartitions \/ Fallback
  BY <1>2, <1>8 DEF AppleStep, ReadBlock0, GuessBlockSize, GuessEnds, LoadEntry, LoadEnds,
                    LoadPartitions, Fallback
<1> QED BY <1>3, <1>4, <1>5, <1>6, <1>7, <1>8 DEF DiskNext, DMGStep

\* If the first name tells none, the map is read or there is no list.
LEMMA MapReadKept ==
  ASSUME RouteInv, NamesInv, DiskNext, image.form = "dmg", MapIsRead, MapReadable
  PROVE  /\ pc' = "elements" => local'.i = 0 /\ m_partitions' = <<>>
         /\ pc' \in {"listed"} \cup Chosen => m_partitions' = <<>> \/ mapReader' # NoReader
<1>1. image \in Images
  BY SameImage
<1>2. /\ pc = "elements" => local.i = 0 /\ m_partitions = <<>>
      /\ pc \in {"listed"} \cup Chosen => m_partitions = <<>> \/ mapReader # NoReader
  BY DEF NamesInv
<1>3. CASE Detect
  BY <1>1, <1>3, Detected DEF Chosen
<1>4. CASE LoadKoly
  <2>1. m_partitions = <<>>
    BY <1>4 DEF LoadKoly, RouteInv
  <2> QED BY <1>4, <2>1 DEF LoadKoly, Fail, Listed, GoTo, Chosen
<1>5. CASE LoadElement
  <2>1. local.i = 0 /\ m_partitions = <<>>
    BY <1>2, <1>5 DEF LoadElement
  <2>2. ~ ParseNameAndType(Elements[local.i + 1].name).ok
    BY <2>1 DEF MapIsRead
  <2>3. pc' = "fallback"
    BY <1>5, <2>1, <2>2 DEF LoadElement, GoTo
  <2> QED BY <2>3 DEF Chosen
<1>6. CASE LoadElementsEnds
  BY <1>2, <1>6 DEF LoadElementsEnds, Listed, GoTo
<1>7. CASE Search \/ Choose \/ VolumeStep
  BY <1>2, <1>7 DEF Search, Choose, VolumeStep, ReadHeader, ReadEmbedded, Fail, GoTo, Chosen
<1>8. CASE AppleStep
  <2>1. mapReader' = mapReader /\ pc \in {"block0", "guess", "map"} /\ pc' # "elements"
    BY <1>8 DEF AppleStep, ReadBlock0, GuessBlockSize, Guess, GuessEnds, LoadEntry, List, LoadEnds,
                Listed, Fail, GoTo
  <2> QED BY <2>1, MapHasReader
<1>9. CASE LoadPartitions
  <2>1. mapReader' = mapReader /\ pc = "gpt" /\ pc' # "elements"
    BY <1>9 DEF LoadPartitions, Fail, GoTo
  <2> QED BY <2>1, MapHasReader
<1>10. CASE Fallback
  <2>1. m_partitions = <<>>
    BY <1>10 DEF Fallback, RouteInv
  <2> QED BY <1>10, <2>1 DEF Fallback, Fail, Listed, GoTo, Chosen
<1> QED BY <1>3, <1>4, <1>5, <1>6, <1>7, <1>8, <1>9, <1>10 DEF DiskNext, DMGStep

\* Every step keeps the names right.
LEMMA NamesInvNext ==
  ASSUME RouteInv, NamesInv, DiskNext
  PROVE  NamesInv'
<1>1. image' = image
  BY SameImage
<1>2. /\ MapReadable' = MapReadable /\ NamesReadable' = NamesReadable /\ MapIsRead' = MapIsRead
      /\ Elements' = Elements
  BY <1>1, ImageKept, TablesKept
<1> QED BY <1>1, <1>2, NamesReadKept, MapReadKept DEF NamesInv

----------------------------------------------------------------------------
(* The first HFS+ partition is chosen.                                     *)

\* The suitable partition is the first one of the list.
LEMMA SuitableIsFirst ==
  ASSUME RouteInv, Suitable # 0
  PROVE  /\ Suitable \in 1 .. Len(m_partitions) /\ m_partitions[Suitable].type \in HFSTypes
         /\ \A k \in 1 .. Len(m_partitions) : k < Suitable => m_partitions[k].type \notin HFSTypes
<1> DEFINE I == {k \in 1 .. Len(m_partitions) : m_partitions[k].type \in HFSTypes}
<1>1. Len(m_partitions) \in Nat
  <2>1. m_partitions \in Seq(Range(m_partitions))
    BY DEF RouteInv
  <2> QED BY <2>1, LenProperties
<1>2. I # {} /\ Suitable = Min(I)
  BY DEF Suitable, SelectInSeq
<1>3. I \in SUBSET Nat
  BY <1>1
<1>4. Suitable \in I /\ \A k \in I : Suitable <= k
  BY <1>2, <1>3, MinNat
<1>5. ASSUME NEW k \in 1 .. Len(m_partitions), k < Suitable PROVE m_partitions[k].type \notin HFSTypes
  <2>1. Suitable \in Nat /\ k \in Nat /\ ~ (Suitable <= k)
    BY <1>1, <1>4, <1>5
  <2> QED BY <1>4, <2>1
<1> QED BY <1>4, <1>5

\* What the chosen partition is.
ChosenFirst ==
  /\ m_partitions[Suitable].offset = FirstPart.offset
  /\ m_partitions[Suitable].size = FirstPart.size

\* The first suitable entry of the list is that of an Apple map.
LEMMA AppleFirst ==
  ASSUME RouteInv, image.scheme = "Apple", NEW n \in Nat, ListedUpTo(n), Suitable # 0
  PROVE  ChosenFirst
<1> DEFINE upTo == {p \in DOMAIN image.entries : p <= n}
           m    == Len(m_partitions)
           s    == Suitable
<1>1. image \in Images
  BY DEF RouteInv
<1>2. /\ s \in 1 .. m /\ m_partitions[s].type \in HFSTypes
      /\ \A k \in 1 .. m : k < s => m_partitions[k].type \notin HFSTypes
  BY SuitableIsFirst
<1>3. PICK place \in [1 .. m -> upTo] :
        /\ \A k \in 1 .. m : m_partitions[k] = EntryPart(image.entries[place[k]])
        /\ \A k, l \in 1 .. m : k < l => place[k] < place[l]
        /\ \A p \in upTo : \E k \in 1 .. m : place[k] = p
  BY DEF ListedUpTo
<1>4. Places = DOMAIN image.entries /\ \A p : MediumPart(p) = EntryPart(image.entries[p])
  BY DEF Places, MediumPart
<1>5. \A k \in 1 .. m : place[k] \in DOMAIN image.entries /\ place[k] \in Nat /\ place[k] <= n
  BY <1>1, <1>3, ImageTyped
<1>6. place[s] \in HFSPlaces
  BY <1>2, <1>3, <1>4, <1>5 DEF HFSPlaces
<1> DEFINE q == Min(HFSPlaces)
<1>7. q \in HFSPlaces /\ q \in Places /\ q \in Nat /\ q <= place[s]
  BY <1>1, <1>6, FirstPlace
<1>8. q \in upTo /\ MediumPart(q).type \in HFSTypes
  BY <1>4, <1>5, <1>2, <1>7 DEF HFSPlaces
<1>9. FirstPart = MediumPart(q)
  BY DEF FirstPart
<1> HIDE DEF q, s
<1>10. PICK k \in 1 .. m : place[k] = q
  BY <1>3, <1>8
<1>11. ~ (k < s)
  BY <1>2, <1>3, <1>4, <1>8, <1>10
<1>12. ~ (s < k)
  <2>1. s < k => place[s] < place[k]
    BY <1>2, <1>3
  <2> QED BY <1>2, <1>5, <1>7, <1>10, <2>1
<1>13. k = s
  BY <1>2, <1>11, <1>12
<1>14. m_partitions[s] = FirstPart
  BY <1>3, <1>4, <1>9, <1>10, <1>13
<1> QED BY <1>14 DEF ChosenFirst, s

\* It is that of a GPT.
LEMMA ArrayFirst ==
  ASSUME RouteInv, image.scheme = "GPT", MapReadable, ListedArray, Suitable # 0
  PROVE  ChosenFirst
<1> DEFINE s == Suitable
           q == Min(HFSPlaces)
<1>1. image \in Images /\ DOMAIN image.entries \subseteq 1 .. 4 * GPTSectors /\ GPTSectors \in Nat
  BY SizesAssumption DEF RouteInv, MapReadable, GPTReadable
<1>2. /\ DOMAIN m_partitions = 1 .. 4 * GPTSectors
      /\ \A i \in 1 .. 4 * GPTSectors : m_partitions[i] = PartitionIn(Slot(i))
  BY DEF ListedArray
<1>3. DOMAIN m_partitions = 1 .. Len(m_partitions)
  <2>1. m_partitions \in Seq(Range(m_partitions))
    BY DEF RouteInv
  <2> QED BY <2>1, LenProperties
<1>4. /\ s \in 1 .. 4 * GPTSectors /\ m_partitions[s].type \in HFSTypes
      /\ \A k \in 1 .. 4 * GPTSectors : k < s => m_partitions[k].type \notin HFSTypes
  BY <1>2, <1>3, SuitableIsFirst
<1>5. Places = DOMAIN image.entries /\ \A p : MediumPart(p) = EntryPart(image.entries[p])
  BY DEF Places, MediumPart
<1>6. ASSUME NEW i \in DOMAIN image.entries PROVE Alike(m_partitions[i], MediumPart(i))
  <2>1. m_partitions[i] = PartitionIn(image.entries[i])
    BY <1>1, <1>2, <1>6 DEF Slot
  <2> QED BY <1>1, <1>5, <1>6, <2>1, TypesTold DEF Alike
<1>7. s \in DOMAIN image.entries
  BY <1>2, <1>4, EmptySlot
<1>8. s \in HFSPlaces
  BY <1>4, <1>5, <1>6, <1>7 DEF HFSPlaces, Alike
<1>9. q \in HFSPlaces /\ q \in Places /\ q \in Nat /\ q <= s
  BY <1>1, <1>8, FirstPlace
<1>10. FirstPart = MediumPart(q)
  BY DEF FirstPart
<1> HIDE DEF q, s
<1>11. m_partitions[q].type \in HFSTypes
  BY <1>5, <1>6, <1>9 DEF HFSPlaces, Alike
<1>12. ~ (q < s)
  BY <1>1, <1>4, <1>5, <1>9, <1>11
<1>13. q = s
  BY <1>4, <1>9, <1>12
<1> QED BY <1>6, <1>7, <1>10, <1>13 DEF ChosenFirst, Alike, s

\* It is the one that the names of a DMG tell.
LEMMA NamedFirst ==
  ASSUME RouteInv, NamesReadable, NamedUpTo(Len(Elements)), Suitable # 0
  PROVE  ChosenFirst
<1> DEFINE n     == Len(Elements)
           s     == Suitable
           Named(i) == ParseNameAndType(Elements[i].name)
           H     == {i \in 1 .. n : Named(i).type \in HFSTypes}
           q     == Min(H)
<1>1. n \in Nat
  BY ElementsCounted DEF RouteInv
<1>2. /\ Len(m_partitions) = n
      /\ \A k \in 1 .. n : /\ m_partitions[k].type = Named(k).type
                           /\ m_partitions[k].offset = Elements[k].first
                           /\ m_partitions[k].size = Elements[k].count
  <2>1. \A x, y, z : /\ Part(x, y, z).type = x /\ Part(x, y, z).offset = y
                     /\ Part(x, y, z).size = z
    BY DEF Part
  <2> QED BY <2>1 DEF NamedUpTo
<1>3. /\ s \in 1 .. n /\ m_partitions[s].type \in HFSTypes
      /\ \A k \in 1 .. n : k < s => m_partitions[k].type \notin HFSTypes
  BY <1>2, SuitableIsFirst
<1>4. H \in SUBSET Nat /\ H # {}
  BY <1>1, <1>2, <1>3
<1>5. q \in H /\ \A k \in H : q <= k
  BY <1>4, MinNat
<1>6. Elements[q].first = FirstPart.offset /\ Elements[q].count = FirstPart.size
  BY DEF NamesReadable
<1>7. s \in H
  BY <1>2, <1>3
<1> HIDE DEF q, s
<1>8. ~ (q < s)
  BY <1>2, <1>3, <1>5
<1>9. q = s
  BY <1>1, <1>3, <1>5, <1>7, <1>8
<1> QED BY <1>2, <1>3, <1>6, <1>9 DEF ChosenFirst, s

\* Whichever way the list was made, the first HFS+ volume of the medium is
\* chosen from it.
LEMMA ListedFirst ==
  ASSUME RouteInv, ListInv, NamesInv, Good, "guess" \notin faults, pc = "listed", Suitable # 0
  PROVE  ChosenFirst
<1>1. image \in Images /\ image.form \in {"raw", "dmg"} /\ MapSlots \in Nat
  BY ImageTyped, SizesAssumption DEF RouteInv
<1>2. m_partitions # <<>>
  BY SuitableIsFirst, NoList
<1>3. ASSUME MapReadable, image.form = "dmg" => mapReader # NoReader PROVE ChosenFirst
  <2>1. MapListed
    BY <1>3 DEF ListInv, MapReadable
  <2>2. CASE image.scheme = "Apple"
    <3>1. PICK n \in 0 .. MapSlots : ListedUpTo(n)
      BY <2>1, <2>2 DEF MapListed
    <3>2. n \in Nat
      BY <1>1
    <3> QED BY <2>2, <3>1, <3>2, AppleFirst
  <2>3. CASE image.scheme = "GPT"
    BY <1>3, <2>1, <2>3, ArrayFirst DEF MapListed
  <2> QED BY <1>3, <2>2, <2>3 DEF MapReadable
<1>4. CASE image.form = "raw"
  <2>1. image.scheme # "none"
    BY <1>4 DEF RouteInv
  <2>2. MapReadable
    BY <1>4, <2>1 DEF Good
  <2> QED BY <1>3, <1>4, <2>2
<1>5. CASE image.form = "dmg"
  <2>1. CASE NamesReadable
    <3>1. NamedUpTo(Len(Elements))
      BY <1>2, <1>5, <2>1 DEF NamesInv
    <3> QED BY <2>1, <3>1, NamedFirst
  <2>2. CASE MapIsRead /\ MapReadable
    <3>1. mapReader # NoReader
      BY <1>2, <1>5, <2>2 DEF NamesInv
    <3> QED BY <1>3, <2>2, <3>1
  <2> QED BY <1>5, <2>1, <2>2 DEF Good
<1> QED BY <1>1, <1>4, <1>5

----------------------------------------------------------------------------
(* The volume that is mounted.                                             *)

\* Where a partition is and how long is told by numbers.
LEMMA PartTyped ==
  ASSUME image \in Images, HFSPlaces # {}
  PROVE  FirstPart.offset \in Nat /\ FirstPart.size \in Int
<1> DEFINE q == Min(HFSPlaces)
<1>1. q \in Places
  BY FirstPlace
<1>2. FirstPart = MediumPart(q)
  BY DEF FirstPart
<1> HIDE DEF q
<1>3. \A x, y, z : Part(x, y, z).offset = y /\ Part(x, y, z).size = z
  BY DEF Part
<1>4. CASE image.scheme = "none"
  BY <1>2, <1>3, <1>4, ImageTyped DEF MediumPart
<1>5. CASE image.scheme = "Apple"
  <2>1. /\ image.entries[q].start \in Nat /\ image.entries[q].count \in Nat
        /\ image.spacing \in Nat
    BY <1>1, <1>5, ImageTyped DEF Places
  <2>2. \A x \in Nat : x * image.spacing \in Nat
    BY <2>1
  <2> QED BY <1>2, <1>3, <1>5, <2>1, <2>2 DEF MediumPart, EntryPart
<1>6. CASE image.scheme = "GPT"
  <2>1. image.entries[q].first \in Nat /\ image.entries[q].last \in Nat
    BY <1>1, <1>6, ImageTyped DEF Places
  <2> QED BY <1>2, <1>3, <1>6, <2>1 DEF MediumPart, EntryPart
<1> QED BY <1>4, <1>5, <1>6, ImageTyped

\* A volume that is one with the medium begins with it.
LEMMA VolumeAlone ==
  ASSUME image \in Images, image.scheme = "none", image.form = "raw"
  PROVE  Shows(FileReader, FirstPart)
<1>1. HFSPlaces = {1}
  BY DEF HFSPlaces, Places, MediumPart, Part, HFSTypes
<1>2. Min({1}) = 1
  <2>1. Min({1}) \in {1}
    BY MinNat
  <2> QED BY <2>1
<1>3. FirstPart = Part(Text("Apple_HFS"), 0, image.length)
  BY <1>1, <1>2 DEF FirstPart, MediumPart
<1>4. image.length \in Nat
  BY ImageTyped
<1> QED BY <1>3, <1>4 DEF Shows, FileReader, Part

\* The block that the header, or the master directory block, is read from.
Block == Header(FirstPart.offset + 2)
Embeds == Block.signature = "HFS" /\ Block.drEmbedSigWord \in PlusSignatures

\* What the master directory block says is a part of the partition, and the
\* products of 32 bits do not overflow.
LEMMA EmbeddedTyped ==
  ASSUME image \in Images, Good
  PROVE  /\ FirstPart.offset \in Nat /\ FirstPart.size \in Int
         /\ ~ Embeds => VolumeHere = FirstPart
         /\ Embeds =>
              /\ VolumeHere.offset = FirstPart.offset + EmbeddedOffset(Block)
              /\ VolumeHere.size = EmbeddedLength(Block)
              /\ EmbeddedOffset(Block) \in Nat /\ EmbeddedLength(Block) \in Nat
         /\ FirstPart.size > 2
         /\ VolumeHere.offset \in Nat /\ VolumeHere.size \in Int
         /\ VolumeHere.offset + VolumeHere.size <= FirstPart.offset + FirstPart.size
<1>1. /\ FirstPart.offset \in Nat /\ FirstPart.size \in Int /\ Wrap \in Nat \ {0}
      /\ VolumeHere.size >= 3
      /\ VolumeHere.offset + VolumeHere.size <= FirstPart.offset + FirstPart.size
      /\ Header(VolumeHere.offset + 2).signature \in PlusSignatures
      /\ VolumeHere = FirstPart \/ VolumeHere.offset + VolumeHere.size < FirstPart.offset + Wrap
  BY PartTyped, SizesAssumption DEF Good
<1>2. CASE ~ Embeds
  <2>1. VolumeHere = FirstPart
    BY <1>2 DEF VolumeHere, Embeds, Block
  <2> QED BY <1>1, <1>2, <2>1
<1>3. CASE Embeds
  <2> DEFINE siz    == Block.drAlBlkSiz
             st     == Block.drAlBlSt
             offset == siz * Block.startBlock
             size   == siz * Block.blockCount
  <2>1. VolumeHere = Part(FirstPart.type, (FirstPart.offset + st) + offset, size)
    BY <1>3 DEF VolumeHere, Embeds, Block
  <2>2. VolumeHere.offset = (FirstPart.offset + st) + offset /\ VolumeHere.size = size
    BY <2>1 DEF Part
  <2>3. siz \in Nat /\ st \in Nat /\ Block.startBlock \in Nat /\ Block.blockCount \in Nat
    <3>1. FirstPart.offset + 2 \in DOMAIN image.volumes /\ Block = image.volumes[FirstPart.offset + 2]
      BY <1>3 DEF Embeds, Block, Header, NoHeader
    <3>2. Block.drEmbedSigWord # "none"
      BY <1>3 DEF Embeds, PlusSignatures
    <3> QED BY <1>3, <3>1, <3>2, ImagesAssumption DEF Embeds
  <2>4. offset \in Nat /\ size \in Nat
    BY <2>3
  <2>5. /\ EmbeddedOffset(Block) = (offset + st) % Wrap
        /\ EmbeddedLength(Block) = size % Wrap
    BY DEF EmbeddedOffset, EmbeddedLength
  <2>6. VolumeHere # FirstPart
    <3>1. "HFS" \notin PlusSignatures
      BY DEF PlusSignatures
    <3> QED BY <1>1, <1>3, <3>1 DEF Embeds, Block
  <2> HIDE DEF offset, size, siz, st
  <2>7. offset + st \in 0 .. Wrap - 1 /\ size \in 0 .. Wrap - 1
    BY <1>1, <2>2, <2>3, <2>4, <2>6
  <2>8. (offset + st) % Wrap = offset + st /\ size % Wrap = size
    BY <1>1, <2>7, ModSmall
  <2>9. VolumeHere.offset = FirstPart.offset + (offset + st)
    BY <1>1, <2>2, <2>3, <2>4
  <2>10. FirstPart.size > 2
    BY <1>1, <2>2, <2>3, <2>4
  <2> QED BY <1>1, <1>3, <2>2, <2>3, <2>4, <2>5, <2>8, <2>9, <2>10
<1> QED BY <1>2, <1>3

\* The header of the partition is read from its third sector.
LEMMA HeaderSeen ==
  ASSUME image \in Images, Good, Shows(m_reader, FirstPart)
  PROVE  Header(Sees(m_reader, 2)) = Block
<1>1. FirstPart.offset \in Nat /\ FirstPart.size \in Int /\ FirstPart.size > 2
  BY EmbeddedTyped
<1>2. m_reader.first = FirstPart.offset /\ m_reader.size = FirstPart.size
  BY DEF Shows
<1>3. m_reader.limit \in Int /\ FirstPart.offset + FirstPart.size <= m_reader.limit
  BY DEF Shows
<1>4. Sees(m_reader, 2) = FirstPart.offset + 2
  BY <1>1, <1>2, <1>3 DEF Sees
<1> QED BY <1>4 DEF Block

\* Choosing, in a file, makes a reader of the first partition.
LEMMA ChooseRight ==
  ASSUME RouteInv, ListInv, NamesInv, Good, "guess" \notin faults, Choose
  PROVE  /\ pc' \in {"failed", "search", "header"}
         /\ pc' = "search" => m_partitions'[local'.index].offset = FirstPart.offset
         /\ pc' = "header" => Shows(m_reader', FirstPart)
<1>1. image \in Images /\ pc = "listed"
  BY DEF RouteInv, Choose
<1>2. CASE pc' = "failed"
  BY <1>2
<1>3. CASE Suitable # 0 /\ pc' = "search" /\ local' = [i |-> FirstID, index |-> Suitable]
           /\ m_partitions' = m_partitions
  <2>1. ChosenFirst
    BY <1>1, <1>3, ListedFirst
  <2> QED BY <1>3, <2>1 DEF ChosenFirst
<1>4. CASE /\ Suitable # 0 /\ image.form = "raw" /\ pc' = "header"
           /\ m_reader' = SubReader(FileReader, m_partitions[Suitable].offset,
                                                m_partitions[Suitable].size)
  <2>1. ChosenFirst
    BY <1>1, <1>4, ListedFirst
  <2>2. FirstPart.offset \in Nat /\ FirstPart.size \in Int /\ image.length \in Nat
    BY <1>1, PartTyped, ImageTyped DEF Good
  <2>3. FirstPart.offset + FirstPart.size <= image.length
    BY <1>4 DEF Good, Inside
  <2>4. FileReader = [first |-> 0, size |-> image.length, limit |-> image.length, opaque |-> {}]
    BY <1>4 DEF FileReader
  <2>5. m_reader' = [first |-> 0 + FirstPart.offset, size |-> FirstPart.size,
                     limit |-> Smaller(image.length, 0 + image.length), opaque |-> {}]
    BY <1>4, <2>1, <2>4 DEF ChosenFirst, SubReader
  <2>6. Smaller(image.length, 0 + image.length) = image.length /\ 0 + FirstPart.offset = FirstPart.offset
    BY <2>2 DEF Smaller
  <2> QED BY <1>4, <2>2, <2>3, <2>5, <2>6 DEF Shows
<1> QED BY <1>2, <1>3, <1>4 DEF Choose, Fail, GoTo

\* The table that is found by the first sector is that of the partition.
LEMMA SearchRight ==
  ASSUME RouteInv, ChosenInv, Good, "guess" \notin faults, Search
  PROVE  /\ pc' \in {"search", "header"}
         /\ pc' = "search" => m_partitions'[local'.index].offset = FirstPart.offset
         /\ pc' = "header" => Shows(m_reader', FirstPart)
<1> DEFINE table == TableOf(local.i)
<1>1. /\ image \in Images /\ pc = "search" /\ image.form = "dmg"
      /\ m_partitions[local.index].offset = FirstPart.offset
  BY ImageTyped DEF RouteInv, ChosenInv, Search
<1>2. CASE /\ table # NoTable /\ table.first = m_partitions[local.index].offset
           /\ pc' = "header" /\ m_reader' = CachedReader(DMGPartition(table))
  <2>1. table \in Range(image.blkx)
    BY <1>1, <1>2, TableFound
  <2>2. PICK b \in Range(image.blkx) : b.first = FirstPart.offset /\ b.count = FirstPart.size
    BY <1>1 DEF Good
  <2>3. table = b
    BY <1>1, <1>2, <2>1, <2>2 DEF Good
  <2>4. b.first \in Nat /\ b.count \in Nat
    BY <1>1, ImageTyped
  <2> HIDE DEF table
  <2> QED BY <1>2, <2>2, <2>3, <2>4 DEF CachedReader, DMGPartition, Shows
<1>3. CASE /\ pc' = pc /\ local' = [local EXCEPT !.i = @ + 1] /\ m_partitions' = m_partitions
  <2>1. local'.index = local.index
    BY <1>3
  <2> QED BY <1>1, <1>3, <2>1
<1> HIDE DEF table
<1> QED BY <1>2, <1>3 DEF Search, table

\* The header leads to the volume.
LEMMA HeaderRight ==
  ASSUME RouteInv, ChosenInv, Good, "guess" \notin faults, ReadHeader
  PROVE  /\ pc' \in {"failed", "mounted", "embedded"}
         /\ pc' # "failed" => Shows(m_reader', VolumeHere)
<1>1. image \in Images /\ pc = "header" /\ Shows(m_reader, FirstPart)
  BY DEF RouteInv, ChosenInv, ReadHeader
<1>2. Header(Sees(m_reader, 2)) = Block
  BY <1>1, HeaderSeen
<1>3. /\ FirstPart.offset \in Nat /\ FirstPart.size \in Int
      /\ ~ Embeds => VolumeHere = FirstPart
      /\ Embeds =>
           /\ VolumeHere.offset = FirstPart.offset + EmbeddedOffset(Block)
           /\ VolumeHere.size = EmbeddedLength(Block)
           /\ EmbeddedOffset(Block) \in Nat /\ EmbeddedLength(Block) \in Nat
      /\ VolumeHere.offset \in Nat /\ VolumeHere.size \in Int
      /\ VolumeHere.offset + VolumeHere.size <= FirstPart.offset + FirstPart.size
  BY <1>1, EmbeddedTyped
<1>4. CASE Block.signature \in PlusSignatures /\ pc' = "mounted" /\ m_reader' = m_reader
  <2>1. ~ Embeds
    BY <1>4 DEF Embeds, PlusSignatures
  <2> QED BY <1>1, <1>3, <1>4, <2>1
<1>5. CASE /\ Embeds /\ pc' = "embedded"
           /\ m_reader' = SubReader(m_reader, EmbeddedOffset(Block), EmbeddedLength(Block))
  <2>1. /\ m_reader.first = FirstPart.offset /\ m_reader.size = FirstPart.size
        /\ m_reader.limit \in Int /\ FirstPart.offset + FirstPart.size <= m_reader.limit
    BY <1>1 DEF Shows
  <2>2. Smaller(m_reader.limit, m_reader.first + m_reader.size) = FirstPart.offset + FirstPart.size
    BY <1>3, <2>1 DEF Smaller
  <2>3. /\ m_reader'.first = m_reader.first + EmbeddedOffset(Block) /\ m_reader'.size = EmbeddedLength(Block)
        /\ m_reader'.limit = FirstPart.offset + FirstPart.size
    BY <1>5, <2>2 DEF SubReader
  <2> QED BY <1>3, <1>5, <2>1, <2>3 DEF Shows
<1>6. CASE pc' = "failed"
  BY <1>6
<1> QED BY <1>2, <1>4, <1>5, <1>6 DEF ReadHeader, Embeds, Fail, GoTo

\* Nothing is chosen at first.
LEMMA ChosenInvInit ==
  ASSUME DiskInit
  PROVE  ChosenInv
BY DEF DiskInit, ChosenInv

\* Every step keeps what is chosen right.
LEMMA ChosenInvNext ==
  ASSUME RouteInv, ListInv, NamesInv, ChosenInv, DiskNext
  PROVE  ChosenInv'
<1>1. image \in Images /\ image' = image
  BY SameImage
<1>2. Good' = Good /\ FirstPart' = FirstPart /\ VolumeHere' = VolumeHere
  BY <1>1, ImageKept, PartsKept
<1>3. faults \subseteq faults'
  BY DEF RouteInv, DiskNext, Detect, Fail, AppleStep, ReadBlock0, GuessBlockSize, Guess, GuessEnds,
         LoadEntry, List, LoadEnds, Listed, LoadPartitions, DMGStep, LoadKoly, LoadElement,
         LoadElementsEnds, Fallback, Search, Choose, VolumeStep, ReadHeader, ReadEmbedded, GoTo,
         Faulty
<1>4. SUFFICES ASSUME Good, "guess" \notin faults
               PROVE  /\ pc' = "search" => m_partitions'[local'.index].offset = FirstPart.offset
                      /\ pc' = "header" => Shows(m_reader', FirstPart)
                      /\ pc' \in {"embedded", "mounted"} => Shows(m_reader', VolumeHere)
  BY <1>2, <1>3 DEF ChosenInv, Shows
<1>5. CASE Detect
  <2>1. CASE pc' = "header"
    <3>1. /\ image.form = "raw" /\ m_reader' = FileReader
          /\ ~ IsGPTDisk(FileReader) /\ ~ IsAppleDisk(FileReader)
      BY <1>1, <1>5, <2>1, Detected
    <3>2. image.scheme = "none"
      BY <1>1, <1>4, <3>1, MapSeen DEF Good
    <3> QED BY <1>1, <2>1, <3>1, <3>2, VolumeAlone
  <2>2. CASE pc' # "header"
    BY <1>1, <1>5, <2>2, Detected
  <2> QED BY <2>1, <2>2
<1>6. CASE Choose
  BY <1>4, <1>6, ChooseRight
<1>7. CASE Search
  BY <1>4, <1>7, SearchRight
<1>8. CASE ReadHeader
  BY <1>4, <1>8, HeaderRight
<1>9. CASE ReadEmbedded
  <2>1. pc = "embedded" /\ pc' \in {"mounted", "failed"} /\ m_reader' = m_reader
    BY <1>9 DEF ReadEmbedded, Fail, GoTo
  <2> QED BY <1>4, <2>1 DEF ChosenInv
<1>10. CASE AppleStep \/ LoadPartitions \/ LoadKoly \/ LoadElement \/ LoadElementsEnds \/ Fallback
  <2>1. pc' \notin {"search", "header", "embedded", "mounted"}
    BY <1>10 DEF AppleStep, ReadBlock0, GuessBlockSize, Guess, GuessEnds, LoadEntry, List, LoadEnds,
                 Listed, LoadPartitions, LoadKoly, LoadElement, LoadElementsEnds, Fallback, Fail, GoTo
  <2> QED BY <2>1
<1> QED
  BY <1>5, <1>6, <1>7, <1>8, <1>9, <1>10 DEF DiskNext, DMGStep, VolumeStep

----------------------------------------------------------------------------
(* The theorems about the opening.                                         *)

\* Nor does it change while nothing happens.
LEMMA DiskInvStuttering ==
  ASSUME DiskInv, UNCHANGED diskVars
  PROVE  DiskInv'
<1>1. /\ image' = image /\ pc' = pc /\ faults' = faults /\ m_partitions' = m_partitions
      /\ m_reader' = m_reader /\ mapReader' = mapReader /\ local' = local
  BY DEF diskVars
<1>2. /\ MapReadable' = MapReadable /\ NamesReadable' = NamesReadable /\ MapIsRead' = MapIsRead
      /\ Good' = Good /\ FirstPart' = FirstPart /\ VolumeHere' = VolumeHere /\ Elements' = Elements
      /\ FileReader' = FileReader /\ \A id : KolyReader(id)' = KolyReader(id)
      /\ \A x : EntryPart(x)' = EntryPart(x)
  BY <1>1, ImageKept, PartsKept, TablesKept
<1>3. RouteInv'
  BY <1>1, <1>2 DEF DiskInv, RouteInv
<1>4. ASSUME NEW n, ListedUpTo(n) PROVE ListedUpTo(n)'
  BY <1>1, <1>2, <1>4 DEF ListedUpTo
<1>5. MapListed => MapListed'
  BY <1>1, ListedKept
<1>6. GuessInv => GuessInv'
  BY <1>1 DEF GuessInv
<1>7. MapInv => MapInv'
  BY <1>1, <1>2 DEF MapInv, ListedUpTo
<1>8. ListInv'
  BY <1>1, <1>2, <1>5, <1>6, <1>7 DEF DiskInv, ListInv
<1>9. NamesInv'
  BY <1>1, <1>2 DEF DiskInv, NamesInv, NamedUpTo, Part
<1>10. ChosenInv'
  BY <1>1, <1>2 DEF DiskInv, ChosenInv, Shows
<1> QED BY <1>3, <1>8, <1>9, <1>10 DEF DiskInv

\* On every file: the partitions are listed by what the formats say, and the
\* reader at hand is that of the first HFS+ volume or leads to it.
THEOREM DiskInvariant == DiskSpec => []DiskInv
<1>1. DiskInit => DiskInv
  BY RouteInvInit, ListInvInit, NamesInvInit, ChosenInvInit DEF DiskInv
<1>2. DiskInv /\ [DiskNext]_diskVars => DiskInv'
  BY RouteInvNext, ListInvNext, NamesInvNext, ChosenInvNext, DiskInvStuttering DEF DiskInv
<1> QED BY <1>1, <1>2, PTL DEF DiskSpec

\* The list of partitions is that of the map, wherever it is read from and
\* whatever its block size, told or guessed.
THEOREM DiskListingIsMap == DiskSpec => []ListingIsMap
<1>1. DiskInv => ListingIsMap
  BY ListInvInOrder DEF DiskInv
<1> QED BY <1>1, DiskInvariant, PTL

\* What is mounted is the first HFS+ volume of the medium.
THEOREM DiskMountsFirst == DiskSpec => []MountsFirst
<1>1. DiskInv => MountsFirst
  <2> SUFFICES ASSUME DiskInv, pc = "mounted", Good, "guess" \notin faults
               PROVE  /\ m_reader.first = VolumeHere.offset /\ m_reader.size = VolumeHere.size
                      /\ m_reader.limit >= m_reader.first + m_reader.size
    BY DEF MountsFirst
  <2>1. Shows(m_reader, VolumeHere) /\ image \in Images
    BY DEF DiskInv, ChosenInv, RouteInv
  <2>2. VolumeHere.offset \in Nat /\ VolumeHere.size \in Int
    BY <2>1, EmbeddedTyped
  <2> QED BY <2>1, <2>2 DEF Shows
<1> QED BY <1>1, DiskInvariant, PTL

----------------------------------------------------------------------------
(* The catalog and what the file system says of it.                        *)

\* Two different records are in the set.
Many(S) == \E a, b \in S : a # b

\* The entries of a volume are well-formed, and their keys are.
LEMMA EntryTypes ==
  ASSUME NEW v \in Volumes
  PROVE  /\ v.binary \in BOOLEAN
         /\ FS!Entries(v) \subseteq Records
         /\ \A r \in FS!Entries(v) : r.kind \in {"folder", "file"} /\ r.name \in DiskNames
         /\ FS!Entries(v) = {r \in v.records : r.kind \in {"folder", "file"}}
         /\ \A a, b \in FS!Entries(v) : a.id = b.id => a = b
         /\ \A a, b \in FS!Entries(v) : a.parent = b.parent /\ a.name = b.name => a = b
         /\ \A r \in FS!Entries(v) : r.id # 0 /\ (r.parent = 1 <=> r.id = 2)
         /\ \A r \in FS!Entries(v) : r.kind = "folder" => r.data = 0 /\ ~ r.compressed /\ r.link = 0
         /\ \A r \in FS!Entries(v) : INodePath(r.link) # EmptyName
<1>1. FS!Entries(v) = {r \in v.records : r.kind # "thread"}
  BY DEF FS!Entries
<1>2. v.binary \in BOOLEAN /\ v.records \subseteq Records
  BY CatalogAssumption
<1>3. \A r \in Records : r.kind \in {"folder", "file", "thread"} /\ r.name \in DiskNames
  BY DEF Records
<1>4. /\ \A a, b \in FS!Entries(v) : a.id = b.id \/ (a.parent = b.parent /\ a.name = b.name) => a = b
      /\ \A r \in FS!Entries(v) : r.id # 0 /\ (r.parent = kHFSRootParentID <=> r.id = kHFSRootFolderID)
      /\ \A r \in FS!Entries(v) : r.kind = "folder" => r.data = 0 /\ ~ r.compressed /\ r.link = 0
      /\ \A r \in FS!Entries(v) : INodePath(r.link) # EmptyName
  BY <1>1, CatalogAssumption
<1> QED BY <1>1, <1>2, <1>3, <1>4 DEF kHFSRootParentID, kHFSRootFolderID

\* The path names the records of a folder, by the equations of Along.
LEMMA AlongIs ==
  ASSUME NEW v, NEW S, NEW path \in Seq(S)
  PROVE  /\ FS!Along(v, path)[0] = {r \in FS!Entries(v) : r.parent = 1}
         /\ \A n \in 1 .. Len(path) :
              FS!Along(v, path)[n] = {r \in UNION {FS!Children(v, f) : f \in FS!Along(v, path)[n - 1]} :
                                        FS!Same(v, FS!Shown(r.name), path[n])}
<1> DEFINE V    == SUBSET FS!Entries(v)
           N    == Len(path)
           zero == {r \in FS!Entries(v) : r.parent = 1}
           add  == [n \in 1 .. N |-> [F \in V |-> {r \in UNION {FS!Children(v, f) : f \in F} :
                                                     FS!Same(v, FS!Shown(r.name), path[n])}]]
<1>1. N \in Nat
  OBVIOUS
<1>2. zero \in V
  OBVIOUS
<1>3. add \in [1 .. N -> [V -> V]]
  BY DEF FS!Children
<1>4. \A n \in 1 .. N : \A F \in V : add[n][F] = {r \in UNION {FS!Children(v, f) : f \in F} :
                                                     FS!Same(v, FS!Shown(r.name), path[n])}
  OBVIOUS
<1> HIDE DEF V, zero, add, N
<1>5. PICK g \in [0 .. N -> V] : g[0] = zero /\ \A n \in 1 .. N : g[n] = add[n][g[n - 1]]
  BY <1>1, <1>2, <1>3, SumExists
<1> DEFINE Step_(f) == [n \in 0 .. Len(path) |->
                          IF n = 0 THEN {r \in FS!Entries(v) : r.parent = 1}
                          ELSE {r \in UNION {FS!Children(v, h) : h \in f[n - 1]} :
                                  FS!Same(v, FS!Shown(r.name), path[n])}]
<1>6. g = Step_(g)
  <2>1. ASSUME NEW n \in 1 .. N PROVE g[n] = {r \in UNION {FS!Children(v, h) : h \in g[n - 1]} :
                                                FS!Same(v, FS!Shown(r.name), path[n])}
    <3>1. n - 1 \in 0 .. N
      BY <1>1
    <3>2. g[n - 1] \in V
      BY <1>5, <3>1
    <3> QED BY <1>4, <1>5, <3>2
  <2> QED BY <1>1, <1>5, <2>1 DEF zero, N
<1>7. FS!Along(v, path) = Step_(FS!Along(v, path))
  <2>1. FS!Along(v, path) = CHOOSE f : f = Step_(f)
    BY Zenon DEF FS!Along, FS!RootParent
  <2> HIDE DEF Step_
  <2> QED BY <1>6, <2>1
<1>8. \A h : h = Step_(h) => /\ h[0] = {r \in FS!Entries(v) : r.parent = 1}
                             /\ \A n \in 1 .. Len(path) :
                                  h[n] = {r \in UNION {FS!Children(v, f) : f \in h[n - 1]} :
                                            FS!Same(v, FS!Shown(r.name), path[n])}
  <2> SUFFICES ASSUME NEW h, h = Step_(h)
               PROVE  /\ h[0] = {r \in FS!Entries(v) : r.parent = 1}
                      /\ \A n \in 1 .. Len(path) :
                           h[n] = {r \in UNION {FS!Children(v, f) : f \in h[n - 1]} :
                                     FS!Same(v, FS!Shown(r.name), path[n])}
    BY Zenon
  <2>1. 0 \in 0 .. Len(path) /\ \A n \in 1 .. Len(path) : n \in 0 .. Len(path) /\ n # 0
    BY <1>1 DEF N
  <2>2. ASSUME NEW n \in 0 .. Len(path)
        PROVE  h[n] = IF n = 0 THEN {r \in FS!Entries(v) : r.parent = 1}
                      ELSE {r \in UNION {FS!Children(v, f) : f \in h[n - 1]} :
                              FS!Same(v, FS!Shown(r.name), path[n])}
    BY Zenon
  <2>3. h[0] = {r \in FS!Entries(v) : r.parent = 1}
    BY <2>1, <2>2
  <2>4. ASSUME NEW n \in 1 .. Len(path)
        PROVE  h[n] = {r \in UNION {FS!Children(v, f) : f \in h[n - 1]} :
                         FS!Same(v, FS!Shown(r.name), path[n])}
    BY <2>1, <2>2
  <2> QED BY <2>3, <2>4
<1> HIDE DEF Step_
<1> QED BY <1>7, <1>8

\* The fields of names.  What they are made of is kept apart: a proof about
\* names needs no letters.
Cases == {"small", "capital"}
Separators == {"", "/", ":"}
Names == [text : STRING, case : Cases, sep : Separators, tail : Nat]

\* A record of such fields is a name.
LEMMA NameIs ==
  ASSUME NEW t \in STRING, NEW c \in Cases, NEW s \in Separators, NEW n \in Nat
  PROVE  [text |-> t, case |-> c, sep |-> s, tail |-> n] \in Names
BY DEF Names

\* What is on disk is a name, with no colon.
LEMMA DiskNameTypes ==
  ASSUME NEW a \in DiskNames
  PROVE  a \in Names /\ a.sep \in {"", "/"}
<1>1. /\ a.text \in STRING /\ a.case \in {"small", "capital"} /\ a.sep \in {"", "/"} /\ a.tail \in Nat
      /\ a = [text |-> a.text, case |-> a.case, sep |-> a.sep, tail |-> a.tail]
  BY DEF DiskNames
<1>2. a.case \in Cases /\ a.sep \in Separators
  BY <1>1 DEF Cases, Separators
<1> QED BY <1>1, <1>2, NameIs

\* An element of a path is a name, with no slash and not empty.
LEMMA PathNameTypes ==
  ASSUME NEW e \in PathNames
  PROVE  e \in Names /\ e.sep \in {"", ":"} /\ e.text # ""
<1>1. e.text # ""
  BY DEF PathNames, SuffixLength
<1>2. /\ e.text \in STRING /\ e.case \in {"small", "capital"} /\ e.sep \in {"", ":"} /\ e.tail \in 0 .. 17
      /\ e = [text |-> e.text, case |-> e.case, sep |-> e.sep, tail |-> e.tail]
  BY DEF PathNames, SuffixLength
<1>3. e.tail \in Nat
  <2>1. e.tail \in 0 .. 17
    BY <1>2
  <2> QED BY <2>1
<1>4. e.case \in Cases /\ e.sep \in Separators
  BY <1>2 DEF Cases, Separators
<1> QED BY <1>1, <1>2, <1>3, <1>4, NameIs

\* Names are equal if their fields are.
LEMMA NamesEqual ==
  ASSUME NEW a \in Names, NEW e \in Names
  PROVE  a = e <=> a.text = e.text /\ a.case = e.case /\ a.sep = e.sep /\ a.tail = e.tail
BY DEF Names

\* Names are equal but for the case if their other fields are.
LEMMA NamesEqualNoCase ==
  ASSUME NEW a \in Names, NEW e \in Names
  PROVE  [a EXCEPT !.case = e.case] = e <=> a.text = e.text /\ a.sep = e.sep /\ a.tail = e.tail
BY DEF Names

\* Replacing the separator leaves the rest.
LEMMA SepChanged ==
  ASSUME NEW a \in Names, NEW s \in Separators
  PROVE  /\ [a EXCEPT !.sep = s] \in Names /\ [a EXCEPT !.sep = s].text = a.text /\ [a EXCEPT !.sep = s].case = a.case
         /\ [a EXCEPT !.sep = s].sep = s /\ [a EXCEPT !.sep = s].tail = a.tail
BY DEF Names

\* On the way to the disk only the separator changes, and so it does on the
\* way back.
LEMMA OnDisk ==
  ASSUME NEW e \in PathNames
  PROVE  /\ ToDisk(e) \in Names /\ ToDisk(e).text = e.text /\ ToDisk(e).case = e.case /\ ToDisk(e).tail = e.tail
         /\ ToDisk(e).sep = (IF e.sep = ":" THEN "/" ELSE "")
<1>1. "/" \in Separators
  BY DEF Separators
<1>2. e \in Names /\ e.sep \in {"", ":"}
  BY PathNameTypes
<1>3. CASE e.sep = ":"
  <2>1. ToDisk(e) = [e EXCEPT !.sep = "/"]
    BY <1>3 DEF ToDisk
  <2> QED BY <1>1, <1>2, <1>3, <2>1, SepChanged
<1>4. CASE e.sep # ":"
  BY <1>2, <1>4 DEF ToDisk
<1> QED BY <1>3, <1>4

\* The same of a name that is listed.
LEMMA InPath ==
  ASSUME NEW a \in DiskNames
  PROVE  /\ FS!Shown(a) \in Names /\ FS!Shown(a).text = a.text /\ FS!Shown(a).case = a.case /\ FS!Shown(a).tail = a.tail
         /\ FS!Shown(a).sep = (IF a.sep = "/" THEN ":" ELSE "")
<1>1. ":" \in Separators
  BY DEF Separators
<1>2. a \in Names /\ a.sep \in {"", "/"}
  BY DiskNameTypes
<1>3. CASE a.sep = "/"
  <2>1. FS!Shown(a) = [a EXCEPT !.sep = ":"]
    BY <1>3 DEF FS!Shown
  <2> QED BY <1>1, <1>2, <1>3, <2>1, SepChanged
<1>4. CASE a.sep # "/"
  BY <1>2, <1>4 DEF FS!Shown
<1> QED BY <1>3, <1>4

\* No element of a path is empty, also as it is on disk.
LEMMA NotEmpty ==
  ASSUME NEW e \in PathNames
  PROVE  e # EmptyName /\ ToDisk(e) # EmptyName
<1>1. EmptyName.text = ""
  BY DEF EmptyName
<1> QED BY <1>1, PathNameTypes, OnDisk

\* A name on disk and one in a path are equal whichever of the two is
\* converted.
LEMMA EqualAgrees ==
  ASSUME NEW v \in Volumes, NEW a \in DiskNames, NEW e \in PathNames
  PROVE  Equal(v, a, ToDisk(e)) <=> FS!Same(v, FS!Shown(a), e)
<1> DEFINE d == ToDisk(e)
           s == FS!Shown(a)
<1>1. a \in Names /\ e \in Names /\ d \in Names /\ s \in Names
  BY DiskNameTypes, PathNameTypes, OnDisk, InPath
<1>2. d.sep = a.sep <=> s.sep = e.sep
  <2>1. a.sep \in {"", "/"} /\ e.sep \in {"", ":"}
    BY DiskNameTypes, PathNameTypes
  <2>2. d.sep = (IF e.sep = ":" THEN "/" ELSE "") /\ s.sep = (IF a.sep = "/" THEN ":" ELSE "")
    BY OnDisk, InPath
  <2> HIDE DEF d, s
  <2> QED BY <2>1, <2>2
<1>3. d.text = e.text /\ d.case = e.case /\ d.tail = e.tail /\ s.text = a.text /\ s.case = a.case /\ s.tail = a.tail
  BY OnDisk, InPath
<1> HIDE DEF d, s
<1>4. a = d <=> s = e
  BY <1>2, <1>1, <1>3, NamesEqual
<1>5. [a EXCEPT !.case = d.case] = d <=> [s EXCEPT !.case = e.case] = e
  <2>1. [a EXCEPT !.case = d.case] = d <=> a.text = d.text /\ a.sep = d.sep /\ a.tail = d.tail
    BY <1>1, NamesEqualNoCase
  <2>2. [s EXCEPT !.case = e.case] = e <=> s.text = e.text /\ s.sep = e.sep /\ s.tail = e.tail
    BY <1>1, NamesEqualNoCase
  <2> QED BY <1>2, <1>3, <2>1, <2>2
<1> QED BY <1>4, <1>5 DEF Equal, EqualCase, EqualNoCase, FS!Same, d, s

\* Of the records of one folder several have different names if there are
\* several.
LEMMA SeveralAreMany ==
  ASSUME NEW v \in Volumes, NEW parentID, NEW elem
  PROVE  /\ InFolder(v, parentID, elem) \subseteq FS!Entries(v)
         /\ Several(InFolder(v, parentID, elem)) <=> Many(InFolder(v, parentID, elem))
<1>1. \A r \in InFolder(v, parentID, elem) : r \in FS!Entries(v) /\ r.parent = parentID
  BY EntryTypes DEF InFolder
<1>2. \A a, b \in InFolder(v, parentID, elem) : a # b => a.name # b.name
  BY <1>1, EntryTypes
<1> QED BY <1>1, <1>2 DEF Several, Many

\* The first search, of the root, and the one behind the n-th element give
\* what the path names up to there.
LEMMA SearchFinds ==
  ASSUME NEW v \in Volumes, NEW path \in Seq(PathNames)
  PROVE  /\ FS!Along(v, path)[0] = InFolder(v, kHFSRootParentID, ToDisk(EmptyName))
         /\ \A n \in 1 .. Len(path) : \A f :
              FS!Along(v, path)[n - 1] = {f} => FS!Along(v, path)[n] = InFolder(v, f.id, ToDisk(path[n]))
<1>1. ToDisk(EmptyName) = EmptyName
  BY DEF ToDisk, EmptyName
<1>2. FS!Along(v, path)[0] = InFolder(v, kHFSRootParentID, ToDisk(EmptyName))
  BY <1>1, AlongIs, EntryTypes DEF InFolder, kHFSRootParentID
<1>3. ASSUME NEW n \in 1 .. Len(path), NEW f, FS!Along(v, path)[n - 1] = {f}
      PROVE  FS!Along(v, path)[n] = InFolder(v, f.id, ToDisk(path[n]))
  <2>1. FS!Along(v, path)[n] = {r \in UNION {FS!Children(v, h) : h \in {f}} :
                                  FS!Same(v, FS!Shown(r.name), path[n])}
    BY <1>3, AlongIs
  <2>2. UNION {FS!Children(v, h) : h \in {f}} = FS!Children(v, f)
    OBVIOUS
  <2>3. path[n] \in PathNames
    OBVIOUS
  <2>4. \A r \in FS!Entries(v) : Equal(v, r.name, ToDisk(path[n])) <=> FS!Same(v, FS!Shown(r.name), path[n])
    BY <2>3, EntryTypes, EqualAgrees
  <2>5. ToDisk(path[n]) # EmptyName
    BY <2>3, NotEmpty
  <2>6. FS!Along(v, path)[n] = {r \in FS!Entries(v) : r.parent = f.id /\ Equal(v, r.name, ToDisk(path[n]))}
    BY <2>1, <2>2, <2>4 DEF FS!Children
  <2> QED BY <2>5, <2>6, EntryTypes DEF InFolder
<1> QED BY <1>2, <1>3

\* Behind what names nothing there is nothing.
LEMMA NothingBehind ==
  ASSUME NEW v, NEW S, NEW path \in Seq(S), NEW n \in 0 .. Len(path), FS!Along(v, path)[n] = {}
  PROVE  \A m \in n .. Len(path) : FS!Along(v, path)[m] = {}
<1> DEFINE good == {m \in 0 .. Len(path) : m < n \/ FS!Along(v, path)[m] = {}}
<1>1. Len(path) \in Nat
  OBVIOUS
<1>2. 0 \in good
  BY <1>1
<1>3. ASSUME NEW m \in 1 .. Len(path), m - 1 \in good PROVE m \in good
  <2>1. CASE m < n
    BY <2>1
  <2>2. CASE m = n
    BY <2>2
  <2>3. CASE m > n
    <3>1. FS!Along(v, path)[m - 1] = {}
      BY <1>3, <2>3
    <3>2. FS!Along(v, path)[m] = {}
      BY <3>1, AlongIs
    <3> QED BY <3>2
  <2> QED BY <2>1, <2>2, <2>3
<1> HIDE DEF good
<1>4. 0 .. Len(path) \subseteq good
  BY <1>1, <1>2, <1>3, UpTo, Zenon
<1> QED BY <1>1, <1>4 DEF good
----------------------------------------------------------------------------
(* Hard links.                                                             *)

\* Names that are made equal by the same case are equal but for the case.
LEMMA EqualThrough ==
  ASSUME NEW a \in Names, NEW b \in Names, NEW c, [a EXCEPT !.case = c] = [b EXCEPT !.case = c]
  PROVE  [a EXCEPT !.case = b.case] = b
<1>1. /\ [a EXCEPT !.case = c].text = a.text /\ [a EXCEPT !.case = c].sep = a.sep /\ [a EXCEPT !.case = c].tail = a.tail
      /\ [b EXCEPT !.case = c].text = b.text /\ [b EXCEPT !.case = c].sep = b.sep /\ [b EXCEPT !.case = c].tail = b.tail
  BY DEF Names
<1>2. a.text = b.text /\ a.sep = b.sep /\ a.tail = b.tail
  BY <1>1
<1> QED BY <1>2, NamesEqualNoCase

\* The folders with the files behind hard links.
LEMMA PrivateIs == ASSUME NEW v \in Volumes PROVE PrivateFolders(v) = FS!Private(v)
<1>1. FS!Named(v, <<>>) = {r \in FS!Entries(v) : r.parent = 1}
  <2>1. <<>> \in Seq({}) /\ Len(<<>>) = 0
    OBVIOUS
  <2> QED BY <2>1, AlongIs DEF FS!Named
<1>2. PrivateData # EmptyName /\ PrivateData = FS!PrivateName
  BY DEF PrivateData, EmptyName, FS!PrivateName
<1>3. \A a, b : Equal(v, a, b) <=> FS!Same(v, a, b)
  BY DEF Equal, EqualCase, EqualNoCase, FS!Same
<1>4. InFolder(v, 1, EmptyName) = {r \in FS!Entries(v) : r.parent = 1}
  BY EntryTypes DEF InFolder
<1>5. \A p : InFolder(v, p, PrivateData) = {r \in FS!Entries(v) : r.parent = p /\ FS!Same(v, r.name, FS!PrivateName)}
  BY <1>2, <1>3, EntryTypes DEF InFolder
<1> QED BY <1>1, <1>4, <1>5 DEF PrivateFolders, FS!Private, kHFSRootParentID

\* The folder of the files behind hard links, by its ID, and what is found in
\* it for a record.
LinkFolder(v) == IF PrivateFolders(v) = {} THEN 0 ELSE (CHOOSE r \in PrivateFolders(v) : TRUE).id
Linked(v, f) == InFolder(v, LinkFolder(v), INodePath(f.link))

\* What is found in the link folder is what is behind the record.
LEMMA LinkIs ==
  ASSUME NEW v \in Volumes, NEW f \in FS!Entries(v)
  PROVE  /\ FS!Behind(v, f) = IF f.link # 0 /\ LinkFolder(v) # 0 /\ Linked(v, f) # {}
                              THEN CHOOSE i \in Linked(v, f) : TRUE ELSE f
         /\ Linked(v, f) \subseteq FS!Entries(v)
         /\ FS!Behind(v, f) \in FS!Entries(v)
         /\ FS!Behind(v, f) # f => FS!Behind(v, f).kind = "file"
         /\ LinkFolder(v) # 0 => ~ Several(Linked(v, f))
<1> DEFINE dir    == LinkFolder(v)
           found  == Linked(v, f)
           inodes == {i \in UNION {FS!Children(v, d) : d \in FS!Private(v)} : FS!Same(v, i.name, FS!INode(f.link))}
<1>1. found = {r \in FS!Entries(v) : r.parent = dir /\ FS!Same(v, r.name, FS!INode(f.link))}
  <2>1. FS!INode(f.link) = INodePath(f.link)
    BY Zenon DEF FS!INode, INodePath
  <2>2. INodePath(f.link) # EmptyName
    BY EntryTypes
  <2>3. \A a, b : Equal(v, a, b) <=> FS!Same(v, a, b)
    BY DEF Equal, EqualCase, EqualNoCase, FS!Same
  <2> QED BY <2>1, <2>2, <2>3, EntryTypes DEF InFolder, Linked
<1>0. dir = IF PrivateFolders(v) = {} THEN 0 ELSE (CHOOSE r \in PrivateFolders(v) : TRUE).id
  BY DEF LinkFolder
<1>2. CASE PrivateFolders(v) = {}
  <2>1. inodes = {}
    BY <1>2, PrivateIs
  <2>2. FS!Behind(v, f) = f
    BY <2>1, Zenon DEF FS!Behind
  <2>3. dir = 0
    BY <1>0, <1>2
  <2> QED BY <1>1, <2>2, <2>3
<1>3. CASE PrivateFolders(v) # {}
  <2>1. PICK d \in PrivateFolders(v) : d = CHOOSE r \in PrivateFolders(v) : TRUE
    BY <1>3
  <2>2. PrivateFolders(v) = {d} /\ dir = d.id
    BY <1>0, <1>3, <2>1, LinksAssumption
  <2>3. d \in FS!Entries(v)
    BY <2>1, PrivateIs DEF FS!Private
  <2>4. dir # 0
    BY <2>2, <2>3, EntryTypes
  <2>5. inodes = found
    BY <1>1, <2>2, PrivateIs DEF FS!Children
  <2>6. FS!Behind(v, f) = IF f.link # 0 /\ found # {} THEN CHOOSE i \in found : TRUE ELSE f
    <3>1. FS!Behind(v, f) = IF f.link # 0 /\ inodes # {} THEN CHOOSE i \in inodes : TRUE ELSE f
      BY Zenon DEF FS!Behind
    <3> HIDE DEF inodes
    <3> QED BY <2>5, <3>1, Zenon
  <2>7. InFolder(v, d.id, EmptyName) = {r \in FS!Entries(v) : r.parent = d.id}
    BY EntryTypes DEF InFolder
  <2>8. \A i \in found : i.kind = "file"
    <3>1. \A i \in InFolder(v, d.id, EmptyName) : i.kind = "file"
      BY <2>1, LinksAssumption
    <3>2. found \subseteq InFolder(v, d.id, EmptyName)
      BY <1>1, <2>2, <2>7
    <3> QED BY <3>1, <3>2
  <2>9. ASSUME NEW a \in found, NEW b \in found PROVE a = b
    <3>1. a \in InFolder(v, d.id, EmptyName) /\ b \in InFolder(v, d.id, EmptyName)
      BY <1>1, <2>2, <2>7
    <3>2. a.name \in Names /\ b.name \in Names
      BY <1>1, EntryTypes, DiskNameTypes
    <3>3. FS!Same(v, a.name, FS!INode(f.link)) /\ FS!Same(v, b.name, FS!INode(f.link))
      BY <1>1
    <3>4. Equal(v, a.name, b.name)
      <4>1. CASE v.binary
        BY <3>3, <4>1 DEF FS!Same, Equal, EqualCase
      <4>2. CASE ~ v.binary
        <5>1. [a.name EXCEPT !.case = FS!INode(f.link).case] = [b.name EXCEPT !.case = FS!INode(f.link).case]
          BY <3>3, <4>2 DEF FS!Same
        <5>2. [a.name EXCEPT !.case = b.name.case] = b.name
          BY <3>2, <5>1, EqualThrough
        <5> QED BY <4>2, <5>2 DEF Equal, EqualNoCase
      <4> QED BY <4>1, <4>2
    <3> QED BY <2>1, <3>1, <3>4, LinksAssumption
  <2> QED BY <1>1, <2>4, <2>6, <2>8, <2>9 DEF Several
<1> QED BY <1>2, <1>3

----------------------------------------------------------------------------
(* Hypotheses on the calls and the volumes.                                *)

\* The name of the resource fork is given in these calls only.
SuffixedOnly(ops) == \A v \in Volumes : \A r \in Requests(v) : EndsWithSuffix(r.path) => r.op \in ops

\* The callbacks that leave the name of the resource fork as it is, or strip it.
Suffixable == {"getxattr", "readdir", "listxattr"}

\* Compressed files have no data fork.
CompressedEmpty == \A v \in Volumes : \A r \in FS!Entries(v) : r.compressed => r.data = 0

----------------------------------------------------------------------------
(* The inductive invariant of the serving.                                 *)

\* The path that a call is about.
Meant(r) == IF r.op = "getxattr" THEN FS!Plain(r.path) ELSE r.path

\* The path names one record of the volume, and f is the file behind it.
Denotes(v, path, f) ==
  /\ ~ FS!Ambiguous(v, path)
  /\ \E n \in FS!Entries(v) : FS!Named(v, path) = {n} /\ f = FS!Behind(v, n)

\* The volume is one of those, its link folder is known.
VolumeTypes ==
  /\ volume \in Volumes
  /\ hardLinkDir = LinkFolder(volume)

\* n elements of the path, the root first, have been found.
WalkedTo(path, n) ==
  /\ elems \in Seq(PathNames \cup {EmptyName}) /\ Len(elems) = Len(path) + 1 - n
  /\ \A i \in 1 .. Len(elems) : elems[i] = IF n + i = 1 THEN EmptyName ELSE path[n + i - 1]
  /\ n = 0 => last = {}
  /\ n > 0 => \E f \in FS!Entries(volume) : last = {f} /\ FS!Along(volume, path)[n - 1] = {f}
  /\ \A m \in 0 .. n - 1 : ~ Many(FS!Along(volume, path)[m])

\* How far the walk along the path of the call has come.
WalkInv(path) ==
  /\ walk \in {"walking", "found", "ENOENT", "several", "failed"}
  /\ walk = "walking" => \E n \in 0 .. Len(path) + 1 : WalkedTo(path, n)
  /\ walk = "ENOENT" => ~ FS!Ambiguous(volume, path) /\ FS!Named(volume, path) = {}
  /\ walk = "several" => FS!Ambiguous(volume, path)
  /\ walk = "found" => \E f \in FS!Entries(volume) : last = {f} /\ Denotes(volume, path, f)

\* What the walk is for, and what is known from the one before it.
StageInv(r) ==
  /\ stage \in {"stat", "openFile", "resource"}
  /\ stage = "stat" => FirstStage(r) = "stat"
  /\ stage = "openFile" => \/ r.op = "getxattr" /\ r.attr = XATTR_RESOURCE_FORK
                           \/ /\ r.op \in {"open", "readlink"}
                              /\ \E f \in FS!Entries(volume) : Denotes(volume, r.path, f) /\ ~ f.compressed
  /\ stage = "resource" => /\ r.op \in {"open", "readlink"}
                           /\ \E f \in FS!Entries(volume) : /\ Denotes(volume, r.path, f) /\ f.compressed
                                                            /\ \E h \in Decmpfs(f) : h.type = 4

\* The call that runs, and what it is answered with.
CallInv(r) ==
  /\ request = {r} /\ r \in Requests(volume)
  /\ stage = "handle" <=> r.op \in {"read", "release"}
  /\ stage # "handle" => StageInv(r) /\ WalkInv(Meant(r))
  /\ answer # NoAnswer /\ ~ broken /\ stage # "handle" => answer \in FS!Answers(volume, r)
  /\ answer # NoAnswer /\ broken => answer = Error("EIO") \/ (r.op = "getxattr" /\ answer.what # {})

\* There is a call, and what it has come to, or there is none.
RequestInv ==
  /\ broken \in BOOLEAN /\ (answer = NoAnswer => broken = FALSE)
  /\ request = {} => stage = "none" /\ walk = "none" /\ answer = NoAnswer
  /\ \A r \in request : CallInv(r)

\* The reader is as long as the file, and an open file has such a reader over
\* the one that its path denotes.
Fits(v, f, reader) ==
  \/ ~ f.compressed /\ reader.length = f.data
  \/ f.compressed /\ \E a \in FS!Header(v, f) : reader.length = a.size

HandlesInv ==
  \A h \in handles :
    \E r \in Requests(volume), f \in FS!Entries(volume) :
      r.op = "open" /\ r.path = h.path /\ Denotes(volume, h.path, f) /\ Fits(volume, f, h.reader)

\* What has been told was an answer.
ToldInv ==
  \A t \in told : /\ t.call \in Requests(volume) /\ t.call.op \in {"getattr", "readdir", "listxattr"}
                  /\ Value(t.what) \in FS!Answers(volume, t.call)

VolumeInv == VolumeTypes /\ RequestInv /\ HandlesInv /\ ToldInv

----------------------------------------------------------------------------
(* The walk.                                                               *)

\* Setting how much of the suffix an element of a path ends with gives an
\* element of a path.
LEMMA TailChanged ==
  ASSUME NEW e \in PathNames, NEW n \in 0 .. 17
  PROVE  [e EXCEPT !.tail = n] \in PathNames
BY DEF PathNames, SuffixLength

\* A call walks along the path that it means.
LEMMA CallPath ==
  ASSUME SuffixedOnly(Suffixable), NEW v \in Volumes, NEW r \in Requests(v)
  PROVE  /\ r.op \in Operations /\ r.path \in Seq(PathNames) /\ Meant(r) \in Seq(PathNames)
         /\ r.op \notin {"read", "release"} => SPath(r) = Meant(r)
         /\ r.op \notin Suffixable => ~ EndsWithSuffix(r.path)
<1>1. r.op \in Operations /\ r.path \in Seq(PathNames)
  BY RequestsAssumption
<1>2. EndsWithSuffix(r.path) => r.op \in Suffixable
  BY DEF SuffixedOnly
<1>3. CASE ~ EndsWithSuffix(r.path)
  <2>1. SPath(r) = r.path
    BY <1>3 DEF SPath
  <2>2. Meant(r) = r.path
    BY <1>3 DEF Meant, FS!Plain, EndsWithSuffix, SuffixLength, Last, FS!Last
  <2> QED BY <1>1, <1>3, <2>1, <2>2
<1>4. CASE EndsWithSuffix(r.path) /\ r.op # "getxattr"
  <2>1. r.op \in {"readdir", "listxattr"}
    BY <1>2, <1>4 DEF Suffixable
  <2>2. SPath(r) = r.path /\ Meant(r) = r.path
    BY <1>4, <2>1 DEF SPath, Meant
  <2> QED BY <1>1, <1>2, <1>4, <2>2
<1>5. CASE EndsWithSuffix(r.path) /\ r.op = "getxattr"
  <2> DEFINE n == Len(r.path)
             e == r.path[n]
  <2>1. r.path # <<>> /\ e.tail = 17
    BY <1>5 DEF EndsWithSuffix, Last, SuffixLength
  <2>2. n \in 1 .. Len(r.path) /\ e \in PathNames
    BY <1>1, <2>1
  <2>3. Meant(r) = [r.path EXCEPT ![n] = [e EXCEPT !.tail = 0]]
    BY <1>5, <2>1 DEF Meant, FS!Plain, Last, FS!Last
  <2>4. SPath(r) = [r.path EXCEPT ![n] = [e EXCEPT !.tail = 0]]
    BY <1>5, <2>1 DEF SPath, Resized, SuffixLength
  <2>5. [e EXCEPT !.tail = 0] \in PathNames
    <3> HIDE DEF e, n
    <3>1. 0 \in 0 .. 17
      OBVIOUS
    <3> QED BY <2>2, <3>1, TailChanged
  <2>6. Meant(r) \in Seq(PathNames)
    <3> HIDE DEF e, n
    <3> QED BY <1>1, <2>2, <2>3, <2>5
  <2> QED BY <1>1, <1>2, <2>3, <2>4, <2>6
<1> QED BY <1>3, <1>4, <1>5

\* A walk that begins has found nothing.
LEMMA WalkBegins ==
  ASSUME NEW path \in Seq(PathNames), BeginStat(path)
  PROVE  WalkInv(path)' /\ walk' = "walking"
<1>1. elems' = <<EmptyName>> \o path /\ last' = {} /\ walk' = "walking"
  BY DEF BeginStat
<1>2. elems' \in Seq(PathNames \cup {EmptyName}) /\ Len(elems') = Len(path) + 1
  <2>1. path \in Seq(PathNames \cup {EmptyName}) /\ <<EmptyName>> \in Seq(PathNames \cup {EmptyName})
    OBVIOUS
  <2> QED BY <1>1, <2>1
<1>3. \A i \in 1 .. Len(elems') : elems'[i] = IF i = 1 THEN EmptyName ELSE path[i - 1]
  BY <1>1, <1>2
<1>4. WalkedTo(path, 0)'
  BY <1>1, <1>2, <1>3 DEF WalkedTo
<1>5. 0 \in 0 .. Len(path) + 1
  OBVIOUS
<1> QED BY <1>1, <1>4, <1>5 DEF WalkInv

\* What the search for the next element finds is what the path names up to
\* there.
LEMMA NextFinds ==
  ASSUME VolumeTypes, NEW path \in Seq(PathNames), NEW n \in 0 .. Len(path) + 1, WalkedTo(path, n), elems # <<>>
  PROVE  /\ n <= Len(path)
         /\ InFolder(volume, ParentID, ToDisk(Head(elems))) = FS!Along(volume, path)[n]
<1>1. /\ elems \in Seq(PathNames \cup {EmptyName}) /\ Len(elems) = Len(path) + 1 - n /\ Len(path) \in Nat
      /\ \A i \in 1 .. Len(elems) : elems[i] = IF n + i = 1 THEN EmptyName ELSE path[n + i - 1]
  BY DEF WalkedTo
<1>2. n <= Len(path) /\ Head(elems) = IF n = 0 THEN EmptyName ELSE path[n]
  BY <1>1
<1>3. CASE n = 0
  <2>1. last = {}
    BY <1>3 DEF WalkedTo
  <2> QED BY <1>2, <1>3, <2>1, SearchFinds DEF ParentID, VolumeTypes
<1>4. CASE n # 0
  <2>1. PICK f : last = {f} /\ FS!Along(volume, path)[n - 1] = {f}
    <3>1. n > 0
      BY <1>4
    <3> QED BY <3>1 DEF WalkedTo
  <2>2. ParentID = f.id
    BY <2>1 DEF ParentID
  <2>3. n \in 1 .. Len(path) /\ Head(elems) = path[n]
    BY <1>1, <1>2, <1>4
  <2> QED BY <1>2, <2>1, <2>2, <2>3, SearchFinds DEF VolumeTypes
<1> QED BY <1>3, <1>4

\* What is along a path is in the catalog.
LEMMA AlongEntries ==
  ASSUME NEW v, NEW S, NEW path \in Seq(S), NEW n \in 0 .. Len(path)
  PROVE  FS!Along(v, path)[n] \subseteq FS!Entries(v)
<1>1. n = 0 \/ n \in 1 .. Len(path)
  OBVIOUS
<1>2. \A f : FS!Children(v, f) \subseteq FS!Entries(v)
  BY DEF FS!Children
<1> QED BY <1>1, <1>2, AlongIs

\* The walk takes an element.
LEMMA NextKeeps ==
  ASSUME VolumeTypes, NEW path \in Seq(PathNames), WalkInv(path), NextElement
  PROVE  WalkInv(path)'
<1> DEFINE found == InFolder(volume, ParentID, ToDisk(Head(elems)))
<1>1. walk = "walking" /\ elems # <<>> /\ volume' = volume
  BY DEF NextElement
<1>2. PICK n \in 0 .. Len(path) + 1 : WalkedTo(path, n)
  BY <1>1 DEF WalkInv
<1>3. n <= Len(path) /\ found = FS!Along(volume, path)[n]
  BY <1>1, <1>2, NextFinds
<1>4. Len(path) \in Nat /\ n \in 0 .. Len(path)
  BY <1>3
<1>5. Several(found) <=> Many(found)
  BY SeveralAreMany DEF VolumeTypes
<1>6. found \subseteq FS!Entries(volume)
  BY <1>3, <1>4, AlongEntries
<1>7. /\ found = {} \/ Several(found) => walk' = (IF found = {} THEN "ENOENT" ELSE "several")
      /\ ~ (found = {} \/ Several(found)) => last' = {CHOOSE r \in found : TRUE} /\ elems' = Tail(elems) /\ walk' = walk
  BY DEF NextElement
<1> HIDE DEF found
<1>8. CASE found = {}
  <2>1. \A m \in n .. Len(path) : FS!Along(volume, path)[m] = {}
    BY <1>3, <1>4, <1>8, NothingBehind
  <2>2. \A m \in 0 .. Len(path) : ~ Many(FS!Along(volume, path)[m])
    <3>1. ASSUME NEW m \in 0 .. Len(path) PROVE ~ Many(FS!Along(volume, path)[m])
      <4>1. m \in 0 .. n - 1 \/ m \in n .. Len(path)
        BY <1>4
      <4>2. \A k \in 0 .. n - 1 : ~ Many(FS!Along(volume, path)[k])
        BY <1>2 DEF WalkedTo
      <4> QED BY <2>1, <4>1, <4>2 DEF Many
    <3> QED BY <3>1
  <2>3. ~ FS!Ambiguous(volume, path)
    BY <2>2 DEF FS!Ambiguous, Many
  <2>4. FS!Named(volume, path) = {}
    BY <1>4, <2>1 DEF FS!Named
  <2> QED BY <1>1, <1>7, <1>8, <2>3, <2>4 DEF WalkInv
<1>9. CASE Several(found)
  <2>1. FS!Ambiguous(volume, path)
    BY <1>3, <1>4, <1>5, <1>9 DEF FS!Ambiguous, Many
  <2>2. found # {}
    BY <1>9 DEF Several
  <2> QED BY <1>1, <1>7, <1>9, <2>1, <2>2 DEF WalkInv
<1>10. CASE found # {} /\ ~ Several(found)
  <2>1. PICK f \in FS!Entries(volume) : found = {f}
    BY <1>5, <1>6, <1>10 DEF Many
  <2>2. last' = {f} /\ elems' = Tail(elems) /\ walk' = "walking"
    BY <1>1, <1>7, <1>10, <2>1
  <2>3. /\ elems \in Seq(PathNames \cup {EmptyName}) /\ Len(elems) = Len(path) + 1 - n
        /\ \A i \in 1 .. Len(elems) : elems[i] = IF n + i = 1 THEN EmptyName ELSE path[n + i - 1]
        /\ \A m \in 0 .. n - 1 : ~ Many(FS!Along(volume, path)[m])
    BY <1>2 DEF WalkedTo
  <2>4. elems' \in Seq(PathNames \cup {EmptyName}) /\ Len(elems') = Len(path) + 1 - (n + 1)
    BY <1>1, <1>4, <2>2, <2>3
  <2>5. \A i \in 1 .. Len(elems') : elems'[i] = IF n + 1 + i = 1 THEN EmptyName ELSE path[n + 1 + i - 1]
    <3>1. \A i \in 1 .. Len(elems') : elems'[i] = elems[i + 1] /\ i + 1 \in 1 .. Len(elems)
      BY <1>1, <1>4, <2>2, <2>3
    <3> QED BY <1>4, <2>3, <3>1
  <2>6. \A m \in 0 .. (n + 1) - 1 : ~ Many(FS!Along(volume, path)[m])
    <3>1. ~ Many(FS!Along(volume, path)[n])
      BY <1>3, <2>1 DEF Many
    <3>2. \A m \in 0 .. (n + 1) - 1 : m = n \/ m \in 0 .. n - 1
      BY <1>4
    <3> QED BY <2>3, <3>1, <3>2
  <2>7. FS!Along(volume, path)[(n + 1) - 1] = {f} /\ n + 1 > 0 /\ n + 1 # 0 /\ n + 1 \in 0 .. Len(path) + 1
    <3>1. (n + 1) - 1 = n /\ n + 1 > 0 /\ n + 1 # 0 /\ n + 1 \in 0 .. Len(path) + 1
      BY <1>4
    <3> QED BY <1>3, <2>1, <3>1
  <2>8. WalkedTo(path, n + 1)'
    BY <1>1, <2>1, <2>2, <2>4, <2>5, <2>6, <2>7 DEF WalkedTo
  <2> QED BY <2>2, <2>7, <2>8 DEF WalkInv
<1> QED BY <1>8, <1>9, <1>10

\* The walk ends with the file behind the record.
LEMMA LinkKeeps ==
  ASSUME VolumeTypes, NEW path \in Seq(PathNames), WalkInv(path), ResolveLink
  PROVE  WalkInv(path)'
<1>1. walk = "walking" /\ elems = <<>> /\ volume' = volume
  BY DEF ResolveLink
<1>2. PICK n \in 0 .. Len(path) + 1 : WalkedTo(path, n)
  BY <1>1 DEF WalkInv
<1>3. Len(path) \in Nat /\ n = Len(path) + 1
  BY <1>1, <1>2 DEF WalkedTo
<1>4. PICK f \in FS!Entries(volume) : last = {f} /\ FS!Along(volume, path)[n - 1] = {f}
  BY <1>2, <1>3 DEF WalkedTo
<1>5. FS!Named(volume, path) = {f}
  <2>1. n - 1 = Len(path)
    BY <1>3
  <2> QED BY <1>4, <2>1 DEF FS!Named
<1>6. ~ FS!Ambiguous(volume, path)
  <2>1. \A m \in 0 .. Len(path) : m \in 0 .. n - 1
    BY <1>3
  <2>2. \A m \in 0 .. n - 1 : ~ Many(FS!Along(volume, path)[m])
    BY <1>2 DEF WalkedTo
  <2> QED BY <2>1, <2>2 DEF FS!Ambiguous, Many
<1> DEFINE found == InFolder(volume, hardLinkDir, INodePath(f.link))
<1>f. found = Linked(volume, f) /\ hardLinkDir = LinkFolder(volume) /\ volume \in Volumes
  BY DEF VolumeTypes, Linked
<1>7. /\ FS!Behind(volume, f) = IF f.link # 0 /\ hardLinkDir # 0 /\ found # {} THEN CHOOSE i \in found : TRUE ELSE f
      /\ FS!Behind(volume, f) \in FS!Entries(volume)
      /\ hardLinkDir # 0 => ~ Several(found)
  <2> HIDE DEF found
  <2> QED BY <1>f, LinkIs
<1>8. IF f.link # 0 /\ hardLinkDir # 0 /\ found # {}
      THEN IF Several(found) THEN walk' = "several" /\ UNCHANGED last
           ELSE walk' = "found" /\ last' = {CHOOSE i \in found : TRUE}
      ELSE walk' = "found" /\ UNCHANGED last
  BY <1>4 DEF ResolveLink
<1> HIDE DEF found
<1>9. walk' = "found" /\ last' = {FS!Behind(volume, f)}
  BY <1>4, <1>7, <1>8
<1>10. Denotes(volume, path, FS!Behind(volume, f))
  BY <1>5, <1>6 DEF Denotes
<1> QED BY <1>1, <1>7, <1>9, <1>10 DEF WalkInv

\* The walk keeps what is known of it.
LEMMA WalkKeeps ==
  ASSUME VolumeTypes, NEW path \in Seq(PathNames), WalkInv(path), WalkStep
  PROVE  WalkInv(path)'
<1>1. CASE NextElement
  BY <1>1, NextKeeps
<1>2. CASE ResolveLink
  BY <1>2, LinkKeeps
<1>3. CASE SearchFails
  BY <1>3 DEF SearchFails, WalkInv
<1> QED BY <1>1, <1>2, <1>3 DEF WalkStep
----------------------------------------------------------------------------
(* Answers.                                                                *)

\* What the file system promises for a path that names nothing, or several
\* records.
LEMMA AnswersNone ==
  ASSUME NEW v, NEW r
  PROVE  /\ FS!Ambiguous(v, Meant(r)) => FS!Answers(v, r) = {Error("EIO")}
         /\ ~ FS!Ambiguous(v, Meant(r)) /\ FS!Named(v, Meant(r)) = {} => FS!Answers(v, r) = {Error("ENOENT")}
BY Zenon DEF FS!Answers, Meant, Error, FS!Error

\* The two attributes that are stored elsewhere have different names.
LEMMA ForksDiffer == XATTR_RESOURCE_FORK # XATTR_FINDER_INFO
BY DEF XATTR_RESOURCE_FORK, XATTR_FINDER_INFO

\* What it promises for a path that names one.
LEMMA AnswersOne ==
  ASSUME NEW v, NEW r, NEW f, Denotes(v, Meant(r), f)
  PROVE  FS!Answers(v, r) =
        CASE r.op = "getattr" -> {Value({<<f.id, FS!Size(v, f)>>})}
          [] r.op = "readdir" -> {IF f.kind = "folder" THEN Value(FS!Listing(v, f)) ELSE Error("ENOENT")}
          [] r.op = "readlink" /\ (f.compressed => FS!Unpackable(v, f)) ->
               {IF f.kind = "file" THEN Value({FS!Contents(v, f)}) ELSE Error("ENOENT")}
          [] r.op = "open" /\ (f.compressed => FS!Unpackable(v, f)) ->
               {IF f.kind = "file" THEN Value({}) ELSE Error("ENOENT")}
          [] r.op = "listxattr" -> {Value(FS!AttributeNames(v, f))}
          [] r.op = "getxattr" /\ r.attr = XATTR_RESOURCE_FORK ->
               {IF f.kind = "folder" THEN Error("EPERM")
                ELSE IF f.rsrc = 0 THEN Error("ENODATA") ELSE Value({<<f.id, "rsrc">>})}
          [] r.op = "getxattr" /\ r.attr = XATTR_FINDER_INFO ->
               {IF f.finder THEN Value({<<f.id, XATTR_FINDER_INFO>>}) ELSE Value({})}
          [] r.op = "getxattr" /\ r.attr \notin {XATTR_FINDER_INFO, XATTR_RESOURCE_FORK} ->
               {IF r.attr \in FS!Attributes(v, f) THEN Value({<<f.id, r.attr>>}) ELSE Error("ENODATA")}
          [] OTHER -> {Error(e) : e \in {"ENOENT", "ENOSYS", "EIO"}}
<1>1. PICK n : FS!Named(v, Meant(r)) = {n} /\ f = FS!Behind(v, n) /\ ~ FS!Ambiguous(v, Meant(r))
  BY DEF Denotes
<1>2. FS!Named(v, Meant(r)) # {} /\ (CHOOSE m \in FS!Named(v, Meant(r)) : TRUE) = n
  BY <1>1
<1>3. FS!Behind(v, CHOOSE m \in FS!Named(v, Meant(r)) : TRUE) = f
  BY <1>1, <1>2
<1> QED BY <1>1, <1>2, <1>3, Zenon
           DEF FS!Answers, Meant, Error, FS!Error, Value, FS!Value,
               XATTR_RESOURCE_FORK, XATTR_FINDER_INFO, FS!ResourceFork, FS!FinderInfo

\* The same by callbacks: getattr().
LEMMA AnswersGetattr ==
  ASSUME NEW v, NEW r, NEW f, Denotes(v, Meant(r), f), r.op = "getattr"
  PROVE  FS!Answers(v, r) = {Value({<<f.id, FS!Size(v, f)>>})}
BY AnswersOne

\* readdir().
LEMMA AnswersReaddir ==
  ASSUME NEW v, NEW r, NEW f, Denotes(v, Meant(r), f), r.op = "readdir"
  PROVE  FS!Answers(v, r) = {IF f.kind = "folder" THEN Value(FS!Listing(v, f)) ELSE Error("ENOENT")}
BY AnswersOne

\* readlink() of what can be read.
LEMMA AnswersReadlink ==
  ASSUME NEW v, NEW r, NEW f, Denotes(v, Meant(r), f), r.op = "readlink", f.compressed => FS!Unpackable(v, f)
  PROVE  FS!Answers(v, r) = {IF f.kind = "file" THEN Value({FS!Contents(v, f)}) ELSE Error("ENOENT")}
BY AnswersOne

\* open() of what can be read.
LEMMA AnswersOpen ==
  ASSUME NEW v, NEW r, NEW f, Denotes(v, Meant(r), f), r.op = "open", f.compressed => FS!Unpackable(v, f)
  PROVE  FS!Answers(v, r) = {IF f.kind = "file" THEN Value({}) ELSE Error("ENOENT")}
BY AnswersOne

\* Both of what cannot be unpacked.
LEMMA AnswersPacked ==
  ASSUME NEW v, NEW r, NEW f, Denotes(v, Meant(r), f), r.op \in {"open", "readlink"},
         f.compressed, ~ FS!Unpackable(v, f)
  PROVE  FS!Answers(v, r) = {Error(e) : e \in {"ENOENT", "ENOSYS", "EIO"}}
BY AnswersOne

\* listxattr().
LEMMA AnswersListxattr ==
  ASSUME NEW v, NEW r, NEW f, Denotes(v, Meant(r), f), r.op = "listxattr"
  PROVE  FS!Answers(v, r) = {Value(FS!AttributeNames(v, f))}
BY AnswersOne

\* getxattr() of the resource fork.
LEMMA AnswersFork ==
  ASSUME NEW v, NEW r, NEW f, Denotes(v, Meant(r), f), r.op = "getxattr", r.attr = XATTR_RESOURCE_FORK
  PROVE  FS!Answers(v, r) = {IF f.kind = "folder" THEN Error("EPERM")
                             ELSE IF f.rsrc = 0 THEN Error("ENODATA") ELSE Value({<<f.id, "rsrc">>})}
BY AnswersOne, ForksDiffer

\* getxattr() of the Finder's information.
LEMMA AnswersFinder ==
  ASSUME NEW v, NEW r, NEW f, Denotes(v, Meant(r), f), r.op = "getxattr", r.attr = XATTR_FINDER_INFO
  PROVE  FS!Answers(v, r) = {IF f.finder THEN Value({<<f.id, XATTR_FINDER_INFO>>}) ELSE Value({})}
BY AnswersOne, ForksDiffer

\* getxattr() of any other attribute.
LEMMA AnswersAttribute ==
  ASSUME NEW v, NEW r, NEW f, Denotes(v, Meant(r), f), r.op = "getxattr",
         r.attr \notin {XATTR_FINDER_INFO, XATTR_RESOURCE_FORK}
  PROVE  FS!Answers(v, r) = {IF r.attr \in FS!Attributes(v, f) THEN Value({<<f.id, r.attr>>}) ELSE Error("ENODATA")}
BY AnswersOne, ForksDiffer

----------------------------------------------------------------------------
(* What the callbacks put together is what is promised.                    *)

\* The size that getattr() tells.
LEMMA SizeIs ==
  ASSUME VolumeTypes, NEW f \in FS!Entries(volume)
  PROVE  /\ Decmpfs(f) = FS!Header(volume, f)
         /\ ForkLength(f, FALSE) = f.data
         /\ StatSize(f, FALSE) = FS!Size(volume, f)
<1>1. Decmpfs(f) = FS!Header(volume, f)
  BY DEF Decmpfs, AttributesOf, FS!Header, DECMPFS_XATTR_NAME, FS!Decmpfs
<1>2. ForkLength(f, FALSE) = f.data
  BY EntryTypes DEF VolumeTypes, ForkLength
<1>3. StatSize(f, FALSE) = IF f.compressed /\ ForkLength(f, FALSE) = 0 /\ Decmpfs(f) # {}
                           THEN (CHOOSE h \in Decmpfs(f) : TRUE).size ELSE ForkLength(f, FALSE)
  BY Zenon DEF StatSize
<1>4. FS!Size(volume, f) = IF f.compressed /\ f.data = 0 /\ FS!Header(volume, f) # {}
                           THEN (CHOOSE a \in FS!Header(volume, f) : TRUE).size ELSE f.data
  BY Zenon DEF FS!Size
<1>5. (CHOOSE h \in Decmpfs(f) : TRUE) = (CHOOSE a \in FS!Header(volume, f) : TRUE)
  BY <1>1, Zenon
<1>6. StatSize(f, FALSE) = FS!Size(volume, f)
  <2>1. CASE f.compressed /\ f.data = 0 /\ Decmpfs(f) # {}
    BY <1>1, <1>2, <1>3, <1>4, <1>5, <2>1, Zenon
  <2>2. CASE ~ (f.compressed /\ f.data = 0 /\ Decmpfs(f) # {})
    BY <1>1, <1>2, <1>3, <1>4, <2>2, Zenon
  <2> QED BY <2>1, <2>2, Zenon
<1> QED BY <1>1, <1>2, <1>6

\* The names that readdir() lists, with what is hidden in the root.
LEMMA ListingIs ==
  ASSUME VolumeTypes, NEW f \in FS!Entries(volume)
  PROVE  {<<ToPath(c.name), c.id>> : c \in {r \in InFolder(volume, f.id, EmptyName) :
                                              f.id = kHFSRootFolderID => r.name.text \notin FilteredOut}}
           = FS!Listing(volume, f)
<1>1. f.parent = FS!RootParent <=> f.id = kHFSRootFolderID
  BY EntryTypes DEF VolumeTypes, FS!RootParent, kHFSRootFolderID
<1>2. FilteredOut = FS!Hidden
  BY DEF FilteredOut, FS!Hidden
<1>3. InFolder(volume, f.id, EmptyName) = FS!Children(volume, f)
  BY EntryTypes DEF VolumeTypes, InFolder, FS!Children
<1>4. \A n : ToPath(n) = FS!Shown(n)
  BY Zenon DEF ToPath, FS!Shown
<1>5. {r \in InFolder(volume, f.id, EmptyName) : f.id = kHFSRootFolderID => r.name.text \notin FilteredOut}
        = {c \in FS!Children(volume, f) : f.parent = FS!RootParent => c.name.text \notin FS!Hidden}
  BY <1>1, <1>2, <1>3
<1> QED BY <1>4, <1>5 DEF FS!Listing

\* The names that listxattr() lists.
LEMMA NamesAre ==
  ASSUME VolumeTypes, NEW f \in FS!Entries(volume)
  PROVE  {n \in {XATTR_FINDER_INFO} : f.finder} \cup {n \in {XATTR_RESOURCE_FORK} : ListsFork(f)}
         \cup {a.name : a \in {a \in AttributesOf(f) : f.compressed => a.name # DECMPFS_XATTR_NAME}}
           = FS!AttributeNames(volume, f)
<1>1. {a.name : a \in {a \in AttributesOf(f) : f.compressed => a.name # DECMPFS_XATTR_NAME}}
        = {n \in FS!Attributes(volume, f) : f.compressed => n # FS!Decmpfs}
  BY DEF AttributesOf, FS!Attributes, DECMPFS_XATTR_NAME, FS!Decmpfs
<1> HIDE DEF FS!Attributes
<1> QED BY <1>1 DEF FS!AttributeNames, XATTR_FINDER_INFO, FS!FinderInfo, XATTR_RESOURCE_FORK, FS!ResourceFork, ListsFork

\* What readers give.
LEMMA ServesFork ==
  ASSUME NEW f
  PROVE  Serves(Fork(f, FALSE)) = <<f.id, "data">> /\ Serves(Fork(f, TRUE)) = <<f.id, "rsrc">>
<1>1. ASSUME NEW u \in Unpacks PROVE u[1] # "data" /\ u[1] # "rsrc"
  <2>1. u = <<"memory", 1>> \/ u = <<"zlib memory", 3>> \/ u = <<"zlib resource", 4>>
    BY DEF Unpacks
  <2>2. /\ <<"memory", 1>>[1] = "memory" /\ <<"zlib memory", 3>>[1] = "zlib memory"
        /\ <<"zlib resource", 4>>[1] = "zlib resource"
    OBVIOUS
  <2>3. u[1] \in {"memory", "zlib memory", "zlib resource"}
    BY <2>1, <2>2, Zenon
  <2> QED BY <2>3
<1>2. /\ Fork(f, FALSE).over = "data" /\ Fork(f, FALSE).file = f.id
      /\ Fork(f, TRUE).over = "rsrc" /\ Fork(f, TRUE).file = f.id
  BY DEF Fork
<1> QED BY <1>1, <1>2 DEF Serves

\* A reader for headers of a type unpacks a file with such a header.
LEMMA ServesUnpacked ==
  ASSUME NEW f, NEW h \in Decmpfs(f), NEW how, <<how, h.type>> \in Unpacks
  PROVE  Serves(Unpacking(how, f, h)) = <<f.id, "unpacked">> /\ Unpacking(how, f, h).length = h.size
<1>1. h \in volume.attributes /\ h.file = f.id /\ h.name = DECMPFS_XATTR_NAME
  BY DEF Decmpfs, AttributesOf
<1>2. /\ Unpacking(how, f, h).over = how /\ Unpacking(how, f, h).file = f.id
      /\ Unpacking(how, f, h).length = h.size
  BY DEF Unpacking
<1>3. <<how, h.type>>[1] = how
  OBVIOUS
<1> QED BY <1>1, <1>2, <1>3 DEF Serves

----------------------------------------------------------------------------
(* Steps that answer.                                                      *)

\* The call is answered with what is promised, and a file opened with it.
Replies(r) ==
  /\ request = {r} /\ answer = NoAnswer /\ stage # "handle" /\ r.op \notin {"read", "release"}
  /\ answer' \in FS!Answers(volume, r) /\ broken' = FALSE
  /\ UNCHANGED <<catalogVars, request, stage, told>>
  /\ IF r.op = "open" /\ answer'.error = ""
     THEN \E f \in FS!Entries(volume) : \E reader :
            /\ Denotes(volume, r.path, f) /\ handles' = handles \cup {[path |-> r.path, reader |-> reader]}
            /\ Serves(reader) = FS!Contents(volume, f) /\ Fits(volume, f, reader)
     ELSE UNCHANGED handles

\* A callback goes on with what the walk has found.
LEMMA AtFound ==
  ASSUME VolumeInv, NEW ops, NEW s, s # "handle", Found(ops, s)
  PROVE  \E r \in request, f \in FS!Entries(volume) :
           /\ request = {r} /\ Call = r /\ r.op \in ops /\ r \in Requests(volume) /\ volume \in Volumes
           /\ answer = NoAnswer /\ stage = s /\ r.op \notin {"read", "release"}
           /\ StageInv(r) /\ last = {f} /\ File = f /\ Denotes(volume, Meant(r), f)
<1>1. answer = NoAnswer /\ walk = "found" /\ stage = s /\ Call.op \in ops
  BY DEF Found
<1>2. request # {}
  BY <1>1 DEF VolumeInv, RequestInv
<1>3. PICK r \in request : CallInv(r)
  BY <1>2 DEF VolumeInv, RequestInv
<1>4. request = {r} /\ Call = r
  BY <1>3 DEF CallInv, Call
<1>5. r \in Requests(volume) /\ r.op \notin {"read", "release"} /\ StageInv(r) /\ WalkInv(Meant(r))
  BY <1>1, <1>3 DEF CallInv
<1>6. PICK f \in FS!Entries(volume) : last = {f} /\ Denotes(volume, Meant(r), f)
  BY <1>1, <1>5 DEF WalkInv
<1>7. File = f
  BY <1>6 DEF File
<1> QED BY <1>1, <1>4, <1>5, <1>6, <1>7 DEF VolumeInv, VolumeTypes

\* An answer that opens nothing.
LEMMA AnswerReplies ==
  ASSUME NEW r, NEW a, request = {r}, answer = NoAnswer, stage # "handle", r.op \notin {"read", "release"},
         a \in FS!Answers(volume, r), r.op = "open" => a.error # "", Answer(a)
  PROVE  Replies(r)
BY DEF Answer, Replies

\* A path that names nothing is answered with ENOENT.
LEMMA NotFoundReplies == ASSUME VolumeInv, NotFound PROVE \E r \in request : Replies(r)
<1>1. answer = NoAnswer /\ walk = "ENOENT" /\ stage # "handle" /\ Answer(Error("ENOENT"))
  BY DEF NotFound
<1>2. request # {}
  BY <1>1 DEF VolumeInv, RequestInv
<1>3. PICK r \in request : CallInv(r)
  BY <1>2 DEF VolumeInv, RequestInv
<1>4. request = {r} /\ r.op \notin {"read", "release"} /\ WalkInv(Meant(r))
  BY <1>1, <1>3 DEF CallInv
<1>5. Error("ENOENT") \in FS!Answers(volume, r)
  BY <1>1, <1>4, AnswersNone DEF WalkInv
<1>6. Error("ENOENT").error # ""
  BY DEF Error
<1> QED BY <1>1, <1>4, <1>5, <1>6, AnswerReplies

\* A path that names several records is answered with EIO.
LEMMA TooManyReplies == ASSUME VolumeInv, TooMany PROVE \E r \in request : Replies(r)
<1>1. answer = NoAnswer /\ walk = "several" /\ stage # "handle" /\ Answer(Error("EIO"))
  BY DEF TooMany
<1>2. request # {}
  BY <1>1 DEF VolumeInv, RequestInv
<1>3. PICK r \in request : CallInv(r)
  BY <1>2 DEF VolumeInv, RequestInv
<1>4. request = {r} /\ r.op \notin {"read", "release"} /\ WalkInv(Meant(r))
  BY <1>1, <1>3 DEF CallInv
<1>5. Error("EIO") \in FS!Answers(volume, r)
  BY <1>1, <1>4, AnswersNone DEF WalkInv
<1>6. Error("EIO").error # ""
  BY DEF Error
<1> QED BY <1>1, <1>4, <1>5, <1>6, AnswerReplies

\* The callbacks answer as promised: getattr().
LEMMA GetAttrReplies == ASSUME SuffixedOnly(Suffixable), VolumeInv, GetAttr PROVE \E r \in request : Replies(r)
<1>1. Found({"getattr"}, "stat") /\ Answer(Value({<<File.id, StatSize(File, EndsWithSuffix(Call.path))>>}))
  BY DEF GetAttr
<1>2. PICK r \in request, f \in FS!Entries(volume) :
        /\ request = {r} /\ Call = r /\ r.op = "getattr" /\ r \in Requests(volume) /\ volume \in Volumes
        /\ answer = NoAnswer /\ stage = "stat" /\ File = f /\ Denotes(volume, Meant(r), f)
  BY <1>1, AtFound
<1>3. ~ EndsWithSuffix(r.path)
  BY <1>2, CallPath DEF Suffixable
<1>4. StatSize(f, FALSE) = FS!Size(volume, f)
  BY SizeIs DEF VolumeInv
<1>5. Answer(Value({<<f.id, FS!Size(volume, f)>>}))
  <2>1. EndsWithSuffix(r.path) = FALSE
    BY <1>3 DEF EndsWithSuffix
  <2> QED BY <1>1, <1>2, <1>4, <2>1, Zenon
<1>6. Value({<<f.id, FS!Size(volume, f)>>}) \in FS!Answers(volume, r)
  <2>1. FS!Answers(volume, r) = {Value({<<f.id, FS!Size(volume, f)>>})}
    BY <1>2, AnswersGetattr
  <2> QED BY <2>1
<1> QED BY <1>2, <1>5, <1>6, AnswerReplies

\* readdir().
LEMMA ListDirectoryReplies == ASSUME VolumeInv, ListDirectory PROVE \E r \in request : Replies(r)
<1>1. Found({"readdir"}, "stat")
  BY DEF ListDirectory
<1>2. PICK r \in request, f \in FS!Entries(volume) :
        /\ request = {r} /\ Call = r /\ r.op = "readdir" /\ r \in Requests(volume) /\ volume \in Volumes
        /\ answer = NoAnswer /\ stage = "stat" /\ File = f /\ Denotes(volume, Meant(r), f)
  BY <1>1, AtFound
<1>3. Answer(IF f.kind = "folder" THEN Value(FS!Listing(volume, f)) ELSE Error("ENOENT"))
  BY <1>2, ListingIs, Zenon DEF ListDirectory, VolumeInv
<1>4. (IF f.kind = "folder" THEN Value(FS!Listing(volume, f)) ELSE Error("ENOENT")) \in FS!Answers(volume, r)
  <2>1. FS!Answers(volume, r) = {IF f.kind = "folder" THEN Value(FS!Listing(volume, f)) ELSE Error("ENOENT")}
    BY <1>2, AnswersReaddir
  <2> QED BY <2>1
<1> QED BY <1>2, <1>3, <1>4, AnswerReplies

\* listxattr().
LEMMA ListXattrReplies == ASSUME VolumeInv, ListXattr PROVE \E r \in request : Replies(r)
<1>1. Found({"listxattr"}, "stat")
  BY DEF ListXattr
<1>2. PICK r \in request, f \in FS!Entries(volume) :
        /\ request = {r} /\ Call = r /\ r.op = "listxattr" /\ r \in Requests(volume) /\ volume \in Volumes
        /\ answer = NoAnswer /\ stage = "stat" /\ File = f /\ Denotes(volume, Meant(r), f)
  BY <1>1, AtFound
<1>3. Answer(Value(FS!AttributeNames(volume, f)))
  BY <1>2, NamesAre, Zenon DEF ListXattr, VolumeInv
<1>4. Value(FS!AttributeNames(volume, f)) \in FS!Answers(volume, r)
  <2>1. FS!Answers(volume, r) = {Value(FS!AttributeNames(volume, f))}
    BY <1>2, AnswersListxattr
  <2> QED BY <2>1
<1> QED BY <1>2, <1>3, <1>4, AnswerReplies

\* getxattr() of the resource fork.
LEMMA GetXattrForkReplies == ASSUME VolumeInv, GetXattrFork PROVE \E r \in request : Replies(r)
<1>1. Found({"getxattr"}, "openFile")
  BY DEF GetXattrFork
<1>2. PICK r \in request, f \in FS!Entries(volume) :
        /\ request = {r} /\ Call = r /\ r.op = "getxattr" /\ r \in Requests(volume) /\ volume \in Volumes
        /\ answer = NoAnswer /\ stage = "openFile" /\ StageInv(r) /\ File = f /\ Denotes(volume, Meant(r), f)
  BY <1>1, AtFound
<1>3. r.attr = XATTR_RESOURCE_FORK
  BY <1>2 DEF StageInv
<1> DEFINE a == IF f.kind = "folder" THEN Error("EPERM")
                ELSE IF f.rsrc = 0 THEN Error("ENODATA") ELSE Value({<<f.id, "rsrc">>})
<1>4. Answer(a)
  <2> DEFINE b == IF f.kind = "folder" THEN Error("EPERM")
                  ELSE IF f.rsrc = 0 THEN Error("ENODATA") ELSE Value({Serves(Fork(f, TRUE))})
  <2>1. Answer(b)
    BY <1>2, Zenon DEF GetXattrFork
  <2>2. a = b
    BY ServesFork
  <2> HIDE DEF a, b
  <2> QED BY <2>1, <2>2, Zenon
<1>5. a \in FS!Answers(volume, r)
  <2>1. FS!Answers(volume, r) = {a}
    BY <1>2, <1>3, AnswersFork
  <2> QED BY <2>1
<1> HIDE DEF a
<1> QED BY <1>2, <1>4, <1>5, AnswerReplies

\* getxattr() of the Finder's information.
LEMMA GetXattrFinderInfoReplies == ASSUME VolumeInv, GetXattrFinderInfo PROVE \E r \in request : Replies(r)
<1>1. Found({"getxattr"}, "stat")
  BY DEF GetXattrFinderInfo
<1>2. PICK r \in request, f \in FS!Entries(volume) :
        /\ request = {r} /\ Call = r /\ r.op = "getxattr" /\ r \in Requests(volume) /\ volume \in Volumes
        /\ answer = NoAnswer /\ stage = "stat" /\ last = {f} /\ Denotes(volume, Meant(r), f)
  BY <1>1, AtFound
<1>3. r.attr = XATTR_FINDER_INFO
  BY <1>2 DEF GetXattrFinderInfo
<1>4. {<<g.id, XATTR_FINDER_INFO>> : g \in {g \in last : g.finder}}
        = IF f.finder THEN {<<f.id, XATTR_FINDER_INFO>>} ELSE {}
  BY <1>2
<1>5. Answer(Value(IF f.finder THEN {<<f.id, XATTR_FINDER_INFO>>} ELSE {}))
  BY <1>4, Zenon DEF GetXattrFinderInfo
<1>6. Value(IF f.finder THEN {<<f.id, XATTR_FINDER_INFO>>} ELSE {}) \in FS!Answers(volume, r)
  <2>1. FS!Answers(volume, r) = {IF f.finder THEN Value({<<f.id, XATTR_FINDER_INFO>>}) ELSE Value({})}
    BY <1>2, <1>3, AnswersFinder
  <2> QED BY <2>1
<1> QED BY <1>2, <1>5, <1>6, AnswerReplies

\* getxattr() of any other attribute.
LEMMA GetXattrAttributeReplies == ASSUME VolumeInv, GetXattrAttribute PROVE \E r \in request : Replies(r)
<1>1. Found({"getxattr"}, "stat")
  BY DEF GetXattrAttribute
<1>2. PICK r \in request, f \in FS!Entries(volume) :
        /\ request = {r} /\ Call = r /\ r.op = "getxattr" /\ r \in Requests(volume) /\ volume \in Volumes
        /\ answer = NoAnswer /\ stage = "stat" /\ StageInv(r) /\ File = f /\ Denotes(volume, Meant(r), f)
  BY <1>1, AtFound
<1>3. r.attr \notin {XATTR_FINDER_INFO, XATTR_RESOURCE_FORK}
  <2>1. FirstStage(r) = "stat"
    BY <1>2 DEF StageInv
  <2>2. r.attr # XATTR_RESOURCE_FORK
    BY <1>2, <2>1 DEF FirstStage
  <2> QED BY <1>2, <2>2 DEF GetXattrAttribute
<1> DEFINE values == {<<a.file, a.name>> : a \in {a \in AttributesOf(f) : a.name = r.attr}}
<1>4. values = IF r.attr \in FS!Attributes(volume, f) THEN {<<f.id, r.attr>>} ELSE {}
  BY DEF AttributesOf, FS!Attributes
<1>5. Answer(IF values = {} THEN Error("ENODATA") ELSE Value(values))
  BY <1>2, Zenon DEF GetXattrAttribute
<1> HIDE DEF values
<1>6. (IF values = {} THEN Error("ENODATA") ELSE Value(values)) \in FS!Answers(volume, r)
  <2>1. FS!Answers(volume, r)
          = {IF r.attr \in FS!Attributes(volume, f) THEN Value({<<f.id, r.attr>>}) ELSE Error("ENODATA")}
    BY <1>2, <1>3, AnswersAttribute
  <2> QED BY <2>1, <1>4
<1> QED BY <1>2, <1>5, <1>6, AnswerReplies

\* Opening answers, with a file, and puts a reader over it.
LEMMA OpenedReplies ==
  ASSUME NEW r, request = {r}, Call = r, answer = NoAnswer, stage # "handle", r.op \in {"open", "readlink"},
         NEW f \in FS!Entries(volume), Denotes(volume, r.path, f), f.kind = "file",
         f.compressed => FS!Unpackable(volume, f),
         NEW reader, Serves(reader) = FS!Contents(volume, f), Fits(volume, f, reader), Opened(reader)
  PROVE  Replies(r)
<1>1. Denotes(volume, Meant(r), f)
  BY DEF Meant
<1>2. /\ IF r.op = "open"
         THEN handles' = handles \cup {[path |-> r.path, reader |-> reader]} /\ answer' = Value({})
         ELSE answer' = Value({FS!Contents(volume, f)}) /\ UNCHANGED handles
      /\ broken' = FALSE /\ UNCHANGED <<catalogVars, request, stage, told>>
  BY DEF Opened
<1>3. CASE r.op = "open"
  <2>1. FS!Answers(volume, r) = {IF f.kind = "file" THEN Value({}) ELSE Error("ENOENT")}
    BY <1>1, <1>3, AnswersOpen
  <2>2. answer' \in FS!Answers(volume, r)
    BY <1>2, <1>3, <2>1
  <2>3. r.op \notin {"read", "release"}
    BY <1>3
  <2>4. handles' = handles \cup {[path |-> r.path, reader |-> reader]}
    BY <1>2, <1>3
  <2>5. \E g \in FS!Entries(volume) : \E rd :
          /\ Denotes(volume, r.path, g) /\ handles' = handles \cup {[path |-> r.path, reader |-> rd]}
          /\ Serves(rd) = FS!Contents(volume, g) /\ Fits(volume, g, rd)
    BY <2>4, Zenon
  <2>6. answer'.error = ""
    <3>1. answer' = Value({})
      BY <1>2, <1>3
    <3>2. Value({}).error = ""
      BY DEF Value
    <3> QED BY <3>1, <3>2
  <2> QED BY <1>2, <1>3, <2>2, <2>3, <2>5, <2>6 DEF Replies
<1>4. CASE r.op = "readlink"
  <2>1. FS!Answers(volume, r) = {IF f.kind = "file" THEN Value({FS!Contents(volume, f)}) ELSE Error("ENOENT")}
    BY <1>1, <1>4, AnswersReadlink
  <2>2. answer' \in FS!Answers(volume, r)
    BY <1>2, <1>4, <2>1
  <2> QED BY <1>2, <1>4, <2>2 DEF Replies
<1> QED BY <1>3, <1>4

\* An error in opening is one that is promised of files that cannot be unpacked.
LEMMA PackedReplies ==
  ASSUME NEW r, request = {r}, answer = NoAnswer, stage # "handle", r.op \in {"open", "readlink"},
         NEW f \in FS!Entries(volume), Denotes(volume, r.path, f), f.compressed, ~ FS!Unpackable(volume, f),
         NEW e \in {"ENOENT", "ENOSYS", "EIO"}, Answer(Error(e))
  PROVE  Replies(r)
<1>1. Denotes(volume, Meant(r), f)
  BY DEF Meant
<1>2. FS!Answers(volume, r) = {Error(n) : n \in {"ENOENT", "ENOSYS", "EIO"}}
  BY <1>1, AnswersPacked
<1>3. Error(e) \in FS!Answers(volume, r)
  BY <1>2
<1>4. Error(e).error # ""
  BY DEF Error
<1> QED BY <1>3, <1>4, AnswerReplies

\* A file has one header.
LEMMA OneHeader ==
  ASSUME VolumeTypes, NEW f
  PROVE  /\ \A a, b \in Decmpfs(f) : a = b
         /\ Decmpfs(f) = FS!Header(volume, f)
         /\ \A h \in Decmpfs(f) : FS!Unpackable(volume, f) <=> h.type \in {1, 3} \/ (h.type = 4 /\ f.resource = "there")
<1>1. Decmpfs(f) = FS!Header(volume, f)
  BY DEF Decmpfs, AttributesOf, FS!Header, DECMPFS_XATTR_NAME, FS!Decmpfs
<1>2. \A a, b \in Decmpfs(f) : a = b
  BY AttributesAssumption DEF Decmpfs, AttributesOf, VolumeTypes
<1> QED BY <1>1, <1>2 DEF FS!Unpackable

\* A call that opens says what is meant without the name of the fork.
LEMMA OpenAtFound ==
  ASSUME SuffixedOnly(Suffixable), VolumeInv, NEW s, s # "handle", Found({"open", "readlink"}, s)
  PROVE  \E r \in request, f \in FS!Entries(volume) :
           /\ request = {r} /\ Call = r /\ r.op \in {"open", "readlink"} /\ r \in Requests(volume)
           /\ answer = NoAnswer /\ stage = s /\ StageInv(r) /\ File = f
           /\ Meant(r) = r.path /\ SPath(r) = r.path /\ ~ EndsWithSuffix(r.path) /\ Denotes(volume, r.path, f)
<1>1. PICK r \in request, f \in FS!Entries(volume) :
        /\ request = {r} /\ Call = r /\ r.op \in {"open", "readlink"} /\ r \in Requests(volume) /\ volume \in Volumes
        /\ answer = NoAnswer /\ stage = s /\ StageInv(r) /\ File = f /\ Denotes(volume, Meant(r), f)
  BY AtFound
<1>2. Meant(r) = r.path
  BY <1>1 DEF Meant
<1>3. ~ EndsWithSuffix(r.path) /\ SPath(r) = Meant(r)
  BY <1>1, CallPath DEF Suffixable
<1> QED BY <1>1, <1>2, <1>3

\* Two files behind one path are one.
LEMMA DenotesOne ==
  ASSUME NEW v, NEW path, NEW f, NEW g, Denotes(v, path, f), Denotes(v, path, g)
  PROVE  f = g
BY DEF Denotes

\* open() and readlink() of a plain file.
LEMMA OpenForkReplies ==
  ASSUME SuffixedOnly(Suffixable), VolumeInv, OpenFork
  PROVE  \E r \in request : Replies(r)
<1>1. Found({"open", "readlink"}, "openFile")
  BY DEF OpenFork
<1>2. PICK r \in request, f \in FS!Entries(volume) :
        /\ request = {r} /\ Call = r /\ r.op \in {"open", "readlink"} /\ r \in Requests(volume)
        /\ answer = NoAnswer /\ stage = "openFile" /\ StageInv(r) /\ File = f
        /\ Meant(r) = r.path /\ ~ EndsWithSuffix(r.path) /\ Denotes(volume, r.path, f)
  BY <1>1, OpenAtFound
<1>3. ~ f.compressed
  <2>1. PICK g \in FS!Entries(volume) : Denotes(volume, r.path, g) /\ ~ g.compressed
    BY <1>2 DEF StageInv
  <2> QED BY <1>2, <2>1, DenotesOne
<1>4. EndsWithSuffix(Call.path) = FALSE
  BY <1>2 DEF EndsWithSuffix
<1>5. IF f.kind = "file" THEN Opened(Fork(f, FALSE)) ELSE Answer(Error("ENOENT"))
  BY <1>2, <1>4, Zenon DEF OpenFork
<1>6. CASE f.kind = "file"
  <2>1. Opened(Fork(f, FALSE))
    BY <1>5, <1>6
  <2>2. Serves(Fork(f, FALSE)) = FS!Contents(volume, f)
    BY <1>3, ServesFork DEF FS!Contents
  <2>3. Fits(volume, f, Fork(f, FALSE))
    BY <1>3, <1>6 DEF Fits, Fork, ForkLength
  <2> QED BY <1>2, <1>3, <1>6, <2>1, <2>2, <2>3, OpenedReplies
<1>7. CASE f.kind # "file"
  <2>1. Answer(Error("ENOENT"))
    BY <1>5, <1>7
  <2>2. FS!Answers(volume, r) = {Error("ENOENT")}
    <3>1. CASE r.op = "open"
      BY <1>2, <1>3, <1>7, <3>1, AnswersOpen
    <3>2. CASE r.op = "readlink"
      BY <1>2, <1>3, <1>7, <3>2, AnswersReadlink
    <3> QED BY <1>2, <3>1, <3>2
  <2>3. Error("ENOENT").error # ""
    BY DEF Error
  <2> QED BY <1>2, <2>1, <2>2, <2>3, AnswerReplies
<1> QED BY <1>6, <1>7

\* The steps that put a reader over a compressed file, or look for its
\* resource fork.
LEMMA OpenCompressedReplies ==
  ASSUME SuffixedOnly(Suffixable), VolumeInv, OpenCompressed
  PROVE  \E r \in request, f \in FS!Entries(volume) :
           \/ Replies(r)
           \/ /\ request = {r} /\ r.op \in {"open", "readlink"} /\ answer = NoAnswer /\ stage = "stat"
              /\ StatAgain("resource") /\ SPath(Call) = r.path
              /\ Denotes(volume, r.path, f) /\ f.compressed /\ \E h \in Decmpfs(f) : h.type = 4
<1>1. Found({"open", "readlink"}, "stat") /\ File.compressed
  BY DEF OpenCompressed
<1>2. PICK r \in request, f \in FS!Entries(volume) :
        /\ request = {r} /\ Call = r /\ r.op \in {"open", "readlink"} /\ r \in Requests(volume)
        /\ answer = NoAnswer /\ stage = "stat" /\ File = f /\ SPath(r) = r.path /\ Denotes(volume, r.path, f)
  BY <1>1, OpenAtFound
<1>3. f.compressed
  BY <1>1, <1>2, Zenon
<1>4. f.kind = "file"
  BY <1>3, EntryTypes DEF VolumeInv, VolumeTypes
<1>5. VolumeTypes
  BY DEF VolumeInv
<1>6. CASE Decmpfs(f) = {}
  <2>1. Answer(Error("ENOENT"))
    BY <1>2, <1>6, Zenon DEF OpenCompressed
  <2>2. ~ FS!Unpackable(volume, f)
    BY <1>5, <1>6, OneHeader DEF FS!Unpackable
  <2>3. "ENOENT" \in {"ENOENT", "ENOSYS", "EIO"}
    OBVIOUS
  <2> QED BY <1>2, <1>3, <2>1, <2>2, <2>3, PackedReplies
<1>7. CASE Decmpfs(f) # {}
  <2>1. PICK h \in Decmpfs(f) :
          CASE h.type = 1 -> Opened(Unpacking("memory", f, h))
            [] h.type = 3 -> Opened(Unpacking("zlib memory", f, h))
            [] h.type = 4 -> StatAgain("resource")
            [] OTHER      -> Answer(Error("ENOSYS"))
    BY <1>2, <1>7, Zenon DEF OpenCompressed
  <2>2. FS!Unpackable(volume, f) <=> h.type \in {1, 3} \/ (h.type = 4 /\ f.resource = "there")
    BY <1>5, OneHeader
  <2>3. h \in FS!Header(volume, f)
    BY <1>5, OneHeader
  <2>4. ASSUME NEW how, <<how, h.type>> \in Unpacks, Opened(Unpacking(how, f, h)), FS!Unpackable(volume, f)
        PROVE  Replies(r)
    <3> DEFINE reader == Unpacking(how, f, h)
    <3>1. Serves(reader) = <<f.id, "unpacked">> /\ reader.length = h.size
      BY <2>4, ServesUnpacked
    <3> HIDE DEF reader
    <3>2. Serves(reader) = FS!Contents(volume, f)
      BY <1>3, <3>1 DEF FS!Contents
    <3>3. Fits(volume, f, reader)
      BY <1>3, <2>3, <3>1 DEF Fits
    <3>4. Opened(reader)
      BY <2>4 DEF reader
    <3> QED BY <1>2, <1>4, <2>4, <3>2, <3>3, <3>4, OpenedReplies
  <2>5. CASE h.type = 1
    <3>1. Opened(Unpacking("memory", f, h))
      BY <2>1, <2>5
    <3>2. <<"memory", h.type>> \in Unpacks
      BY <2>5 DEF Unpacks
    <3> QED BY <2>2, <2>4, <2>5, <3>1, <3>2
  <2>6. CASE h.type = 3
    <3>1. Opened(Unpacking("zlib memory", f, h))
      <4>1. h.type = 3 /\ h.type # 1 /\ h.type # 4
        BY <2>6
      <4> QED BY <2>1, <4>1
    <3>2. <<"zlib memory", h.type>> \in Unpacks
      BY <2>6 DEF Unpacks
    <3> QED BY <2>2, <2>4, <2>6, <3>1, <3>2
  <2>7. CASE h.type = 4
    <3>1. StatAgain("resource")
      BY <2>1, <2>7
    <3> QED BY <1>2, <1>3, <2>7, <3>1
  <2>8. CASE h.type \notin {1, 3, 4}
    <3>1. Answer(Error("ENOSYS"))
      BY <2>1, <2>8
    <3>2. "ENOSYS" \in {"ENOENT", "ENOSYS", "EIO"}
      OBVIOUS
    <3>3. Replies(r)
      BY <1>2, <1>3, <2>2, <2>8, <3>1, <3>2, PackedReplies
    <3> QED BY <1>2, <3>3
  <2> QED BY <2>5, <2>6, <2>7, <2>8
<1> QED BY <1>6, <1>7

\* open() and readlink() of a file compressed into its resource fork.
LEMMA OpenResourceReplies ==
  ASSUME SuffixedOnly(Suffixable), VolumeInv, OpenResource
  PROVE  \E r \in request : Replies(r)
<1>1. Found({"open", "readlink"}, "resource")
  BY DEF OpenResource
<1>2. PICK r \in request, f \in FS!Entries(volume) :
        /\ request = {r} /\ Call = r /\ r.op \in {"open", "readlink"} /\ r \in Requests(volume)
        /\ answer = NoAnswer /\ stage = "resource" /\ StageInv(r) /\ File = f /\ Denotes(volume, r.path, f)
  BY <1>1, OpenAtFound
<1>3. f.compressed /\ \E h \in Decmpfs(f) : h.type = 4
  <2>1. PICK g \in FS!Entries(volume) : Denotes(volume, r.path, g) /\ g.compressed /\ \E h \in Decmpfs(g) : h.type = 4
    BY <1>2 DEF StageInv
  <2>2. f = g
    BY <1>2, <2>1, DenotesOne
  <2> QED BY <2>1, <2>2, Zenon
<1>4. f.kind = "file"
  BY <1>3, EntryTypes DEF VolumeInv, VolumeTypes
<1>5. VolumeTypes
  BY DEF VolumeInv
<1>6. \A h \in Decmpfs(f) : h.type = 4
  BY <1>3, <1>5, OneHeader
<1>7. IF f.resource = "there" THEN \E h \in Decmpfs(f) : Opened(Unpacking("zlib resource", f, h))
      ELSE Answer(Error(IF f.resource = "damaged" THEN "EIO" ELSE "ENOSYS"))
  <2>1. f.kind # "folder"
    BY <1>4
  <2> QED BY <1>2, <2>1, Zenon DEF OpenResource
<1>8. CASE f.resource = "there"
  <2>1. PICK h \in Decmpfs(f) : Opened(Unpacking("zlib resource", f, h))
    BY <1>7, <1>8
  <2>2. FS!Unpackable(volume, f) /\ h \in FS!Header(volume, f)
    BY <1>5, <1>6, <1>8, OneHeader
  <2>3. <<"zlib resource", h.type>> \in Unpacks
    BY <1>6 DEF Unpacks
  <2> DEFINE reader == Unpacking("zlib resource", f, h)
  <2>4. Serves(reader) = <<f.id, "unpacked">> /\ reader.length = h.size /\ Opened(reader)
    BY <2>1, <2>3, ServesUnpacked
  <2> HIDE DEF reader
  <2>5. Serves(reader) = FS!Contents(volume, f)
    BY <1>3, <2>4 DEF FS!Contents
  <2>6. Fits(volume, f, reader)
    BY <1>3, <2>2, <2>4 DEF Fits
  <2> QED BY <1>2, <1>4, <2>2, <2>4, <2>5, <2>6, OpenedReplies
<1>9. CASE f.resource # "there"
  <2> DEFINE e == IF f.resource = "damaged" THEN "EIO" ELSE "ENOSYS"
  <2>1. Answer(Error(e)) /\ e \in {"ENOENT", "ENOSYS", "EIO"}
    BY <1>7, <1>9
  <2> HIDE DEF e
  <2>2. ~ FS!Unpackable(volume, f)
    BY <1>3, <1>5, <1>6, <1>9, OneHeader
  <2> QED BY <1>2, <1>3, <2>1, <2>2, PackedReplies
<1> QED BY <1>8, <1>9

----------------------------------------------------------------------------
(* The invariant holds.                                                    *)

\* What depends on the catalog only.
LEMMA SameCatalog ==
  ASSUME UNCHANGED catalogVars
  PROVE  /\ VolumeTypes => VolumeTypes'
         /\ \A path : WalkInv(path) => WalkInv(path)'
         /\ \A f : Decmpfs(f)' = Decmpfs(f)
         /\ \A reader : Serves(reader)' = Serves(reader)
<1>1. volume' = volume /\ hardLinkDir' = hardLinkDir /\ walk' = walk /\ elems' = elems /\ last' = last
  BY DEF catalogVars
<1>2. VolumeTypes => VolumeTypes'
  BY <1>1 DEF VolumeTypes
<1>3. ASSUME NEW path, WalkInv(path) PROVE WalkInv(path)'
  BY <1>1, <1>3 DEF WalkInv, WalkedTo
<1>4. ASSUME NEW f PROVE Decmpfs(f)' = Decmpfs(f)
  BY <1>1 DEF Decmpfs, AttributesOf
<1>5. ASSUME NEW reader PROVE Serves(reader)' = Serves(reader)
  BY <1>1 DEF Serves
<1> QED BY <1>2, <1>3, <1>4, <1>5

\* Known stages stay known while the volume is the same.
LEMMA SameStage ==
  ASSUME NEW r, StageInv(r), volume' = volume, stage' = stage
  PROVE  StageInv(r)'
<1>1. ASSUME NEW f PROVE Decmpfs(f)' = Decmpfs(f)
  BY DEF Decmpfs, AttributesOf
<1> QED BY <1>1 DEF StageInv

\* Handles that stay or go keep their files.
LEMMA SameHandles ==
  ASSUME HandlesInv, volume' = volume, handles' \subseteq handles
  PROVE  HandlesInv'
BY DEF HandlesInv

\* What has been told stays an answer.
LEMMA SameTold ==
  ASSUME ToldInv, volume' = volume, told' = told
  PROVE  ToldInv'
BY DEF ToldInv

\* The invariant holds at first.
LEMMA VolumeInvInit == VolumeInit => VolumeInv
<1> SUFFICES ASSUME VolumeInit PROVE VolumeInv
  OBVIOUS
<1>1. VolumeTypes
  BY Zenon DEF VolumeInit, Init, VolumeTypes, LinkFolder
<1>2. RequestInv
  BY DEF VolumeInit, Init, RequestInv
<1>3. HandlesInv /\ ToldInv
  BY DEF VolumeInit, HandlesInv, ToldInv
<1> QED BY <1>1, <1>2, <1>3 DEF VolumeInv

\* A call begins with nothing found, or with an open file.
LEMMA AskKeeps ==
  ASSUME SuffixedOnly(Suffixable), VolumeInv, NEW r \in Requests(volume), Ask(r)
  PROVE  VolumeInv'
<1>1. /\ request = {} /\ request' = {r} /\ answer' = answer /\ handles' = handles /\ told' = told /\ broken' = broken
      /\ IF r.op \in {"read", "release"} THEN stage' = "handle" /\ UNCHANGED catalogVars
         ELSE BeginStat(SPath(r)) /\ stage' = FirstStage(r)
  BY DEF Ask
<1>2. volume' = volume /\ hardLinkDir' = hardLinkDir
  BY <1>1 DEF catalogVars, BeginStat
<1>3. VolumeTypes'
  BY <1>2 DEF VolumeInv, VolumeTypes
<1>4. answer' = NoAnswer /\ NoAnswer' = NoAnswer /\ broken' = FALSE
  BY <1>1 DEF VolumeInv, RequestInv, NoAnswer, Error
<1>5. ASSUME r.op \in {"read", "release"} PROVE CallInv(r)'
  BY <1>1, <1>2, <1>4, <1>5 DEF CallInv
<1>6. ASSUME r.op \notin {"read", "release"} PROVE CallInv(r)'
  <2>1. SPath(r) = Meant(r) /\ Meant(r) \in Seq(PathNames) /\ (r.op \notin Suffixable => ~ EndsWithSuffix(r.path))
    BY <1>6, CallPath DEF VolumeInv, VolumeTypes
  <2>2. WalkInv(Meant(r))'
    <3>1. BeginStat(Meant(r))
      BY <1>1, <1>6, <2>1
    <3> QED BY <2>1, <3>1, WalkBegins
  <2>3. stage' = FirstStage(r) /\ stage' \in {"stat", "openFile"}
    BY <1>1, <1>6 DEF FirstStage
  <2>4. StageInv(r)'
    <3>1. stage' = "openFile" => r.op = "getxattr" /\ r.attr = XATTR_RESOURCE_FORK
      BY <2>1, <2>3 DEF FirstStage, Suffixable
    <3> QED BY <2>3, <3>1 DEF StageInv
  <2> QED BY <1>1, <1>2, <1>4, <1>6, <2>2, <2>3, <2>4 DEF CallInv
<1>7. RequestInv'
  BY <1>1, <1>4, <1>5, <1>6 DEF RequestInv
<1> QED BY <1>1, <1>2, <1>3, <1>7, SameHandles, SameTold DEF VolumeInv

\* The walk changes nothing else.
LEMMA WalkKeepsInv ==
  ASSUME SuffixedOnly(Suffixable), VolumeInv, Walk
  PROVE  VolumeInv'
<1>1. /\ WalkStep /\ request' = request /\ stage' = stage /\ answer' = answer /\ handles' = handles
      /\ broken' = broken /\ told' = told
  BY DEF Walk
<1>2. volume' = volume /\ hardLinkDir' = hardLinkDir /\ walk = "walking"
  BY <1>1 DEF WalkStep, NextElement, ResolveLink, SearchFails
<1>3. VolumeTypes'
  BY <1>2 DEF VolumeInv, VolumeTypes
<1>4. request # {}
  BY <1>2 DEF VolumeInv, RequestInv
<1>5. PICK r \in request : CallInv(r)
  BY <1>4 DEF VolumeInv, RequestInv
<1>6. CallInv(r)'
  <2>1. ASSUME stage # "handle" PROVE WalkInv(Meant(r))' /\ StageInv(r)'
    <3>1. WalkInv(Meant(r)) /\ StageInv(r)
      BY <1>5, <2>1 DEF CallInv
    <3>2. Meant(r) \in Seq(PathNames)
      BY <1>5, CallPath DEF CallInv, VolumeInv, VolumeTypes
    <3>3. WalkInv(Meant(r))'
      BY <1>1, <3>1, <3>2, WalkKeeps DEF VolumeInv
    <3> QED BY <1>1, <1>2, <3>1, <3>3, SameStage
  <2>2. NoAnswer' = NoAnswer /\ Error("EIO")' = Error("EIO")
    BY DEF NoAnswer, Error
  <2> QED BY <1>1, <1>2, <1>5, <2>1, <2>2 DEF CallInv
<1>7. RequestInv'
  <2>1. request' = {r}
    BY <1>1, <1>5 DEF CallInv
  <2>2. broken' \in BOOLEAN /\ (answer' = NoAnswer' => broken' = FALSE)
    <3>1. NoAnswer' = NoAnswer
      BY DEF NoAnswer, Error
    <3> QED BY <1>1, <3>1 DEF VolumeInv, RequestInv
  <2> QED BY <1>6, <2>1, <2>2 DEF RequestInv
<1> QED BY <1>1, <1>2, <1>3, <1>7, SameHandles, SameTold DEF VolumeInv

\* An answer is one that is promised, an open file has its reader.
LEMMA RepliesKeeps ==
  ASSUME VolumeInv, NEW r, Replies(r)
  PROVE  VolumeInv'
<1>1. /\ request = {r} /\ stage # "handle" /\ answer' \in FS!Answers(volume, r) /\ broken' = FALSE
      /\ UNCHANGED catalogVars /\ request' = request /\ stage' = stage /\ told' = told
  BY DEF Replies
<1>2. volume' = volume
  BY <1>1 DEF catalogVars
<1>3. CallInv(r)
  BY <1>1 DEF VolumeInv, RequestInv
<1>4. StageInv(r)' /\ WalkInv(Meant(r))'
  BY <1>1, <1>2, <1>3, SameCatalog, SameStage DEF CallInv
<1>5. CallInv(r)'
  BY <1>1, <1>2, <1>3, <1>4 DEF CallInv
<1>6. RequestInv'
  BY <1>1, <1>5 DEF RequestInv
<1>7. HandlesInv'
  <2>1. CASE r.op = "open" /\ answer'.error = ""
    <3>0. PICK f \in FS!Entries(volume) : \E reader :
            /\ Denotes(volume, r.path, f) /\ handles' = handles \cup {[path |-> r.path, reader |-> reader]}
            /\ Fits(volume, f, reader)
      BY <2>1 DEF Replies
    <3>1. PICK reader :
            /\ Denotes(volume, r.path, f) /\ handles' = handles \cup {[path |-> r.path, reader |-> reader]}
            /\ Fits(volume, f, reader)
      BY <3>0
    <3>2. r \in Requests(volume)
      BY <1>3 DEF CallInv
    <3> DEFINE new == [path |-> r.path, reader |-> reader]
    <3>3. new.path = r.path /\ new.reader = reader
      OBVIOUS
    <3> HIDE DEF new
    <3>4. \E q \in Requests(volume), g \in FS!Entries(volume) :
            q.op = "open" /\ q.path = new.path /\ Denotes(volume, new.path, g) /\ Fits(volume, g, new.reader)
      BY <2>1, <3>1, <3>2, <3>3
    <3>5. \A h \in handles' : h \in handles \/ h = new
      BY <3>1 DEF new
    <3> QED BY <1>2, <3>4, <3>5 DEF HandlesInv, VolumeInv
  <2>2. CASE ~ (r.op = "open" /\ answer'.error = "")
    BY <1>2, <2>2, SameHandles DEF Replies, VolumeInv
  <2> QED BY <2>1, <2>2
<1> QED BY <1>1, <1>2, <1>6, <1>7, SameCatalog, SameTold DEF VolumeInv

\* The second walk is for a file that the first one has found.
LEMMA StatAgainKeeps ==
  ASSUME SuffixedOnly(Suffixable), VolumeInv, NEW r, request = {r}, r.op \in {"open", "readlink"}, answer = NoAnswer,
         NEW s \in {"openFile", "resource"}, StatAgain(s),
         NEW f \in FS!Entries(volume), Denotes(volume, r.path, f),
         s = "openFile" => ~ f.compressed,
         s = "resource" => f.compressed /\ \E h \in Decmpfs(f) : h.type = 4
  PROVE  VolumeInv'
<1>1. /\ BeginStat(SPath(Call)) /\ stage' = s /\ request' = request /\ answer' = answer /\ handles' = handles
      /\ broken' = broken /\ told' = told
  BY DEF StatAgain
<1>2. volume' = volume /\ hardLinkDir' = hardLinkDir
  BY <1>1 DEF BeginStat
<1>3. CallInv(r) /\ Call = r
  BY DEF VolumeInv, RequestInv, Call
<1>4. Meant(r) \in Seq(PathNames) /\ SPath(r) = Meant(r)
  BY <1>3, CallPath DEF CallInv, VolumeInv, VolumeTypes
<1>5. WalkInv(Meant(r))'
  BY <1>1, <1>3, <1>4, WalkBegins
<1>6. Decmpfs(f)' = Decmpfs(f)
  BY <1>2 DEF Decmpfs, AttributesOf
<1>7. StageInv(r)'
  <2>1. CASE s = "openFile"
    BY <1>1, <1>2, <2>1 DEF StageInv
  <2>2. CASE s = "resource"
    BY <1>1, <1>2, <1>6, <2>2 DEF StageInv
  <2> QED BY <2>1, <2>2
<1>8. CallInv(r)'
  <2>1. answer' = NoAnswer /\ NoAnswer' = NoAnswer
    BY <1>1 DEF NoAnswer, Error
  <2> QED BY <1>1, <1>2, <1>3, <1>5, <1>7, <2>1 DEF CallInv
<1>9. RequestInv'
  BY <1>1, <1>8 DEF RequestInv, VolumeInv
<1> QED BY <1>1, <1>2, <1>9, SameHandles, SameTold DEF VolumeInv, VolumeTypes

\* Reading from an open file, and releasing it.
LEMMA HandleKeeps ==
  ASSUME VolumeInv, Read \/ Release
  PROVE  VolumeInv'
<1>1. /\ stage = "handle" /\ answer = NoAnswer /\ UNCHANGED catalogVars /\ request' = request /\ stage' = stage
      /\ handles' \subseteq handles /\ broken' = FALSE /\ told' = told
  BY DEF Read, Release, Answer
<1>2. volume' = volume
  BY <1>1 DEF catalogVars
<1>3. PICK r \in request : CallInv(r)
  BY <1>1 DEF VolumeInv, RequestInv
<1>4. CallInv(r)'
  BY <1>1, <1>2, <1>3 DEF CallInv
<1>5. RequestInv'
  BY <1>1, <1>3, <1>4 DEF RequestInv, CallInv
<1> QED BY <1>1, <1>2, <1>5, SameCatalog, SameHandles, SameTold DEF VolumeInv

\* A failure answers with EIO.
LEMMA FailsKeeps ==
  ASSUME VolumeInv, Fails
  PROVE  VolumeInv'
<1>1. /\ request # {} /\ answer' = Error("EIO") /\ broken' = TRUE /\ UNCHANGED catalogVars /\ request' = request
      /\ stage' = stage /\ handles' = handles /\ told' = told
  BY DEF Fails
<1>2. volume' = volume
  BY <1>1 DEF catalogVars
<1>3. PICK r \in request : CallInv(r)
  BY <1>1 DEF VolumeInv, RequestInv
<1>4. CallInv(r)'
  <2>1. Error("EIO")' = Error("EIO")
    BY DEF Error
  <2>2. stage # "handle" => StageInv(r)' /\ WalkInv(Meant(r))'
    BY <1>1, <1>2, <1>3, SameCatalog, SameStage DEF CallInv
  <2> QED BY <1>1, <1>2, <1>3, <2>1, <2>2 DEF CallInv
<1>5. RequestInv'
  <2>1. answer' # NoAnswer'
    BY <1>1 DEF NoAnswer, Error
  <2> QED BY <1>1, <1>3, <1>4, <2>1 DEF RequestInv, CallInv
<1> QED BY <1>1, <1>2, <1>5, SameCatalog, SameHandles, SameTold DEF VolumeInv

\* The attribute of a resource fork has a value, whatever was read.
LEMMA UnreadIs ==
  ASSUME VolumeInv, GetXattrUnread
  PROVE  \E r \in request, f \in FS!Entries(volume) :
           /\ request = {r} /\ r.op = "getxattr" /\ r.attr = XATTR_RESOURCE_FORK /\ answer = NoAnswer
           /\ stage # "handle" /\ Denotes(volume, Meant(r), f) /\ f.kind # "folder" /\ f.rsrc # 0
           /\ answer' = Value({<<f.id, "unread">>}) /\ broken' = TRUE
           /\ UNCHANGED <<catalogVars, request, stage, handles, told>>
<1>1. Found({"getxattr"}, "openFile")
  BY DEF GetXattrUnread
<1>2. PICK r \in request, f \in FS!Entries(volume) :
        /\ request = {r} /\ r.op = "getxattr" /\ answer = NoAnswer /\ stage = "openFile" /\ StageInv(r)
        /\ File = f /\ Denotes(volume, Meant(r), f)
  BY <1>1, AtFound
<1>3. r.attr = XATTR_RESOURCE_FORK
  BY <1>2 DEF StageInv
<1>4. /\ f.kind # "folder" /\ f.rsrc # 0 /\ answer' = Value({<<f.id, "unread">>}) /\ broken' = TRUE
      /\ UNCHANGED <<catalogVars, request, stage, handles, told>>
  BY <1>2, Zenon DEF GetXattrUnread
<1> QED BY <1>2, <1>3, <1>4

\* It is an answer to getxattr().
LEMMA UnreadKeeps ==
  ASSUME VolumeInv, GetXattrUnread
  PROVE  VolumeInv'
<1>1. PICK r \in request, f \in FS!Entries(volume) :
        /\ request = {r} /\ r.op = "getxattr" /\ stage # "handle"
        /\ answer' = Value({<<f.id, "unread">>}) /\ broken' = TRUE
        /\ UNCHANGED <<catalogVars, request, stage, handles, told>>
  BY UnreadIs
<1>2. volume' = volume /\ request' = request /\ stage' = stage /\ handles' = handles /\ told' = told
  BY <1>1 DEF catalogVars
<1>3. CallInv(r)
  BY DEF VolumeInv, RequestInv
<1>4. answer'.what # {} /\ answer' # NoAnswer'
  BY <1>1 DEF Value, NoAnswer, Error
<1>5. StageInv(r)' /\ WalkInv(Meant(r))'
  BY <1>1, <1>2, <1>3, SameCatalog, SameStage DEF CallInv
<1>6. CallInv(r)'
  BY <1>1, <1>2, <1>3, <1>4, <1>5 DEF CallInv
<1>7. RequestInv'
  BY <1>1, <1>2, <1>4, <1>6 DEF RequestInv
<1> QED BY <1>1, <1>2, <1>7, SameCatalog, SameHandles, SameTold DEF VolumeInv

\* An answer without error is a value.
LEMMA ToldValue ==
  \A v, r, a :
    r.op \in {"getattr", "readdir", "listxattr"} /\ a \in FS!Answers(v, r) /\ a.error = ""
    => a = Value(a.what)
<1> TAKE v, r, a
<1> HAVE r.op \in {"getattr", "readdir", "listxattr"} /\ a \in FS!Answers(v, r) /\ a.error = ""
<1>1. /\ \A e : Error(e).error = e
      /\ \A s : Value(s).what = s
  BY DEF Error, Value
<1> DEFINE file == FS!Behind(v, CHOOSE n \in FS!Named(v, Meant(r)) : TRUE)
           s1 == {<<file.id, FS!Size(v, file)>>}
           s2 == FS!Listing(v, file)
           s3 == FS!AttributeNames(v, file)
<1>2. FS!Answers(v, r) \in {{Error("EIO")}, {Error("ENOENT")}, {Value(s1)}, {Value(s2)}, {Value(s3)}}
  <2>1. CASE r.op = "getattr"
    BY <2>1 DEF FS!Answers, Meant, Error, FS!Error, Value, FS!Value
  <2>2. CASE r.op = "readdir"
    BY <2>2 DEF FS!Answers, Meant, Error, FS!Error, Value, FS!Value
  <2>3. CASE r.op = "listxattr"
    BY <2>3 DEF FS!Answers, Meant, Error, FS!Error, Value, FS!Value
  <2> QED BY <2>1, <2>2, <2>3
<1> HIDE DEF s1, s2, s3
<1>3. a \in {Error("EIO"), Error("ENOENT"), Value(s1), Value(s2), Value(s3)}
  BY <1>2
<1>4. a # Error("EIO") /\ a # Error("ENOENT")
  BY <1>1
<1> QED BY <1>1, <1>3, <1>4

\* What is told was the answer.
LEMMA ReturnKeeps ==
  ASSUME VolumeInv, Return
  PROVE  VolumeInv'
<1>1. /\ answer # NoAnswer /\ request' = {} /\ stage' = "none" /\ answer' = NoAnswer /\ broken' = FALSE
      /\ walk' = "none" /\ volume' = volume /\ hardLinkDir' = hardLinkDir /\ handles' = handles
      /\ told' = IF answer.error = "" /\ Call.op \in {"getattr", "readdir", "listxattr"}
                 THEN {[call |-> Call, what |-> answer.what]} ELSE told
  BY DEF Return
<1>2. PICK r \in request : CallInv(r)
  BY <1>1 DEF VolumeInv, RequestInv
<1>3. Call = r
  BY <1>2 DEF CallInv, Call
<1>4. RequestInv'
  <2>1. NoAnswer' = NoAnswer
    BY DEF NoAnswer, Error
  <2> QED BY <1>1, <2>1 DEF RequestInv
<1>5. ToldInv'
  <2>1. CASE answer.error = "" /\ r.op \in {"getattr", "readdir", "listxattr"}
    <3> DEFINE t == [call |-> r, what |-> answer.what]
    <3>1. told' = {t} /\ t.call = r /\ t.what = answer.what
      BY <1>1, <1>3, <2>1
    <3>2. answer # Error("EIO") /\ r.op \notin {"read", "release"}
      <4>1. \A e : Error(e).error = e
        BY DEF Error
      <4> QED BY <2>1, <4>1
    <3>3. answer \in FS!Answers(volume, r) /\ r \in Requests(volume)
      BY <1>1, <1>2, <2>1, <3>2 DEF CallInv, VolumeInv, RequestInv
    <3>4. Value(t.what) \in FS!Answers(volume, r)
      <4>1. answer = Value(answer.what)
        <5>1. answer.error = "" /\ answer \in FS!Answers(volume, r)
          BY <2>1, <3>3
        <5>2. r.op \in {"getattr", "readdir", "listxattr"}
          BY <2>1
        <5> HIDE DEF t
        <5> QED BY <5>1, <5>2, ToldValue, Zenon
      <4> QED BY <3>1, <3>3, <4>1
    <3>5. \A s : Value(s)' = Value(s)
      BY DEF Value
    <3> HIDE DEF t
    <3> QED BY <1>1, <2>1, <3>1, <3>3, <3>4 DEF ToldInv
  <2>2. CASE ~ (answer.error = "" /\ r.op \in {"getattr", "readdir", "listxattr"})
    <3>1. told' = told
      BY <1>1, <1>3, <2>2
    <3> QED BY <1>1, <3>1, SameTold DEF VolumeInv
  <2> QED BY <2>1, <2>2
<1>6. VolumeTypes' /\ HandlesInv'
  <2>1. VolumeTypes /\ HandlesInv /\ volume' = volume /\ hardLinkDir' = hardLinkDir /\ handles' \subseteq handles
    BY <1>1 DEF VolumeInv
  <2>2. VolumeTypes'
    BY <2>1 DEF VolumeTypes
  <2>3. HandlesInv'
    BY <2>1, SameHandles
  <2> QED BY <2>2, <2>3
<1> QED BY <1>4, <1>5, <1>6 DEF VolumeInv

\* Every step of the callbacks keeps the invariant.
LEMMA StepKeeps ==
  ASSUME SuffixedOnly(Suffixable), VolumeInv, Step
  PROVE  VolumeInv'
<1>1. CASE Walk
  BY <1>1, WalkKeepsInv
<1>2. CASE NotFound \/ TooMany
  BY <1>2, NotFoundReplies, TooManyReplies, RepliesKeeps
<1>3. CASE GetAttr \/ ListDirectory \/ ListXattr
  BY <1>3, GetAttrReplies, ListDirectoryReplies, ListXattrReplies, RepliesKeeps
<1>4. CASE GetXattrFork \/ GetXattrFinderInfo \/ GetXattrAttribute
  BY <1>4, GetXattrForkReplies, GetXattrFinderInfoReplies, GetXattrAttributeReplies, RepliesKeeps
<1>5. CASE OpenPlain
  <2>1. Found({"open", "readlink"}, "stat") /\ ~ File.compressed /\ StatAgain("openFile")
    BY <1>5 DEF OpenPlain
  <2>2. PICK r \in request, f \in FS!Entries(volume) :
          /\ request = {r} /\ r.op \in {"open", "readlink"} /\ answer = NoAnswer /\ File = f
          /\ Denotes(volume, r.path, f)
    BY <2>1, OpenAtFound
  <2>3. ~ f.compressed
    BY <2>1, <2>2, Zenon
  <2>4. "openFile" \in {"openFile", "resource"} /\ "openFile" # "resource"
    OBVIOUS
  <2> QED BY <2>1, <2>2, <2>3, <2>4, StatAgainKeeps
<1>6. CASE OpenFork \/ OpenResource
  BY <1>6, OpenForkReplies, OpenResourceReplies, RepliesKeeps
<1>7. CASE OpenCompressed
  <2>1. PICK r \in request, f \in FS!Entries(volume) :
          \/ Replies(r)
          \/ /\ request = {r} /\ r.op \in {"open", "readlink"} /\ answer = NoAnswer /\ stage = "stat"
             /\ StatAgain("resource") /\ SPath(Call) = r.path
             /\ Denotes(volume, r.path, f) /\ f.compressed /\ \E h \in Decmpfs(f) : h.type = 4
    BY <1>7, OpenCompressedReplies
  <2>2. CASE Replies(r)
    BY <2>2, RepliesKeeps
  <2>3. CASE ~ Replies(r)
    <3>1. "resource" \in {"openFile", "resource"} /\ "resource" # "openFile"
      OBVIOUS
    <3> QED BY <2>1, <2>3, <3>1, StatAgainKeeps
  <2> QED BY <2>2, <2>3
<1>8. CASE Read \/ Release
  BY <1>8, HandleKeeps
<1>9. CASE Fails
  BY <1>9, FailsKeeps
<1>10. CASE Return
  BY <1>10, ReturnKeeps
<1>11. CASE GetXattrUnread
  BY <1>11, UnreadKeeps
<1> QED BY <1>1, <1>2, <1>3, <1>4, <1>5, <1>6, <1>7, <1>8, <1>9, <1>10, <1>11 DEF Step

\* Nothing changes, and the invariant holds.
LEMMA StutterKeeps ==
  ASSUME VolumeInv, UNCHANGED vars
  PROVE  VolumeInv'
<1>1. /\ UNCHANGED catalogVars /\ request' = request /\ stage' = stage /\ answer' = answer /\ handles' = handles
      /\ broken' = broken /\ told' = told
  BY DEF vars
<1>2. volume' = volume
  BY <1>1 DEF catalogVars
<1>3. ASSUME NEW r \in request PROVE CallInv(r)'
  <2>1. CallInv(r)
    BY DEF VolumeInv, RequestInv
  <2>2. stage # "handle" => StageInv(r)' /\ WalkInv(Meant(r))'
    BY <1>1, <1>2, <2>1, SameCatalog, SameStage DEF CallInv
  <2>3. NoAnswer' = NoAnswer /\ Error("EIO")' = Error("EIO")
    BY DEF NoAnswer, Error
  <2> QED BY <1>1, <1>2, <2>1, <2>2, <2>3 DEF CallInv
<1>4. RequestInv'
  <2>1. NoAnswer' = NoAnswer /\ walk' = walk
    BY <1>1 DEF NoAnswer, Error, catalogVars
  <2> QED BY <1>1, <1>3, <2>1 DEF RequestInv, VolumeInv
<1> QED BY <1>1, <1>2, <1>4, SameCatalog, SameHandles, SameTold DEF VolumeInv

\* The invariant of the volume, for all volumes and calls, if the name of the
\* resource fork is only given where it is understood.
THEOREM VolumeInvariant == SuffixedOnly(Suffixable) => (Spec => []VolumeInv)
<1> SUFFICES ASSUME SuffixedOnly(Suffixable) PROVE Spec => []VolumeInv
  OBVIOUS
<1>1. VolumeInit => VolumeInv
  BY VolumeInvInit
<1>2. VolumeInv /\ [Next]_vars => VolumeInv'
  <2> SUFFICES ASSUME VolumeInv, [Next]_vars PROVE VolumeInv'
    OBVIOUS
  <2>1. CASE Step
    BY <2>1, StepKeeps
  <2>2. CASE \E r \in Requests(volume) : Ask(r)
    BY <2>2, AskKeeps
  <2>3. CASE UNCHANGED vars
    BY <2>3, StutterKeeps
  <2> QED BY <2>1, <2>2, <2>3 DEF Next
<1> QED BY <1>1, <1>2, PTL DEF Spec

----------------------------------------------------------------------------
(* The volume implements the file system.                                  *)

\* The open files as the file system has them.
Bar == {[path |-> h.path, contents |-> Serves(h.reader)] : h \in handles}

\* Answers are written in the same way.
LEMMA FSNames ==
  /\ FS!NoAnswer = NoAnswer /\ \A e : FS!Error(e) = Error(e)
  /\ \A s : FS!Value(s) = Value(s)
BY DEF FS!NoAnswer, NoAnswer, FS!Error, Error, FS!Value, Value

\* The open files by their paths.
LEMMA BarIs ==
  /\ \A p : (\E h \in Bar : h.path = p) <=> \E h \in handles : h.path = p
  /\ \A p : {h.contents : h \in {h \in Bar : h.path = p}} = {Serves(h.reader) : h \in {h \in handles : h.path = p}}
  /\ \A p : {h \in Bar : h.path # p}
              = {[path |-> h.path, contents |-> Serves(h.reader)] : h \in {h \in handles : h.path # p}}
<1> DEFINE B(h) == [path |-> h.path, contents |-> Serves(h.reader)]
<1>1. \A h : B(h).path = h.path /\ B(h).contents = Serves(h.reader)
  OBVIOUS
<1>2. Bar = {B(h) : h \in handles}
  BY DEF Bar
<1> HIDE DEF B
<1>3. \A p : (\E h \in Bar : h.path = p) <=> \E h \in handles : h.path = p
  BY <1>1, <1>2
<1>4. \A p : {h.contents : h \in {h \in Bar : h.path = p}} = {Serves(h.reader) : h \in {h \in handles : h.path = p}}
  BY <1>1, <1>2
<1>5. \A p : {h \in Bar : h.path # p} = {B(h) : h \in {h \in handles : h.path # p}}
  BY <1>1, <1>2
<1> QED BY <1>3, <1>4, <1>5 DEF B

\* The open files after a step.
LEMMA SameBar ==
  ASSUME volume' = volume
  PROVE  Bar' = {[path |-> h.path, contents |-> Serves(h.reader)] : h \in handles'}
<1>1. ASSUME NEW reader PROVE Serves(reader)' = Serves(reader)
  BY DEF Serves
<1> QED BY <1>1 DEF Bar

\* At first nothing is open.
LEMMA InitImplements == VolumeInit => FS!Init
BY FSNames DEF VolumeInit, Init, FS!Init

\* A call is one of the file system.
LEMMA AskImplements ==
  ASSUME NEW r \in Requests(volume), Ask(r)
  PROVE  FS!Ask(r)
<1>1. volume' = volume /\ handles' = handles
  BY DEF Ask, catalogVars, BeginStat
<1>2. Bar' = Bar
  BY <1>1, SameBar DEF Bar
<1>3. FS!Callable(r)
  <2>1. /\ r.op \in {"read", "release"} => \E h \in handles : h.path = r.path
        /\ r.op = "open" => \A h \in handles : h.path # r.path
    BY DEF Ask
  <2>2. /\ r.op \in {"read", "release"} => \E h \in Bar : h.path = r.path
        /\ r.op = "open" => \A h \in Bar : h.path # r.path
    BY <2>1, BarIs
  <2> QED BY <2>2 DEF FS!Callable, Bar
<1> QED BY <1>1, <1>2, <1>3 DEF Ask, FS!Ask, Bar

\* Steps that are not seen.
LEMMA StutterImplements ==
  ASSUME UNCHANGED <<volume, request, answer, handles, broken>>
  PROVE  UNCHANGED FS!vars
<1>1. Bar' = Bar
  BY SameBar DEF Bar
<1> QED BY <1>1 DEF FS!vars, Bar

\* An answer is one of the file system.
LEMMA RepliesImplements ==
  ASSUME VolumeInv, NEW r, Replies(r)
  PROVE  FS!Reply
<1>1. /\ request = {r} /\ answer = NoAnswer /\ r.op \notin {"read", "release"} /\ answer' \in FS!Answers(volume, r)
      /\ volume' = volume /\ request' = request
  BY DEF Replies, catalogVars
<1>2. broken' = broken
  BY <1>1 DEF Replies, VolumeInv, RequestInv
<1>3. Bar' = IF r.op = "open" /\ answer'.error = ""
             THEN Bar \cup {[path |-> r.path,
                    contents |-> FS!Contents(volume, FS!Behind(volume, CHOOSE n \in FS!Named(volume, r.path) : TRUE))]}
             ELSE Bar
  <2>1. CASE r.op = "open" /\ answer'.error = ""
    <3>0. PICK f \in FS!Entries(volume) : \E reader :
            /\ Denotes(volume, r.path, f) /\ handles' = handles \cup {[path |-> r.path, reader |-> reader]}
            /\ Serves(reader) = FS!Contents(volume, f)
      BY <2>1 DEF Replies
    <3>1. PICK reader :
            /\ Denotes(volume, r.path, f) /\ handles' = handles \cup {[path |-> r.path, reader |-> reader]}
            /\ Serves(reader) = FS!Contents(volume, f)
      BY <3>0
    <3>2. PICK n \in FS!Entries(volume) : FS!Named(volume, r.path) = {n} /\ f = FS!Behind(volume, n)
      BY <3>1 DEF Denotes
    <3>3. (CHOOSE m \in FS!Named(volume, r.path) : TRUE) = n
      BY <3>2
    <3> DEFINE B(h) == [path |-> h.path, contents |-> Serves(h.reader)]
               new  == [path |-> r.path, reader |-> reader]
    <3>4. Bar = {B(h) : h \in handles} /\ Bar' = {B(h) : h \in handles'}
      BY <1>1, SameBar DEF Bar
    <3>5. B(new) = [path |-> r.path, contents |-> FS!Contents(volume, f)]
      BY <3>1
    <3>6. handles' = handles \cup {new}
      BY <3>1
    <3> HIDE DEF B, new
    <3>7. Bar' = Bar \cup {B(new)}
      BY <3>4, <3>6
    <3>8. FS!Behind(volume, CHOOSE m \in FS!Named(volume, r.path) : TRUE) = f
      BY <3>2, <3>3
    <3> QED BY <2>1, <3>5, <3>7, <3>8
  <2>2. CASE ~ (r.op = "open" /\ answer'.error = "")
    <3>1. handles' = handles
      BY <2>2 DEF Replies
    <3> QED BY <1>1, <2>2, <3>1, SameBar DEF Bar
  <2> QED BY <2>1, <2>2
<1>4. answer = FS!NoAnswer
  BY <1>1, FSNames
<1> QED BY <1>1, <1>2, <1>3, <1>4 DEF FS!Reply, Bar

\* Reading gives the contents, releasing closes.
LEMMA HandleImplements ==
  ASSUME VolumeInv, Read \/ Release
  PROVE  FS!Reply
<1>1. answer = NoAnswer /\ stage = "handle" /\ volume' = volume /\ request' = request /\ broken' = FALSE
  BY DEF Read, Release, Answer, catalogVars
<1>2. PICK r \in request : request = {r} /\ Call = r
  BY <1>1 DEF VolumeInv, RequestInv, CallInv, Call
<1>3. broken' = broken
  BY <1>1 DEF VolumeInv, RequestInv
<1>4. answer = FS!NoAnswer
  BY <1>1, FSNames
<1>5. CASE Read
  <2>1. /\ r.op = "read" /\ answer' = Value({Serves(h.reader) : h \in {h \in handles : h.path = r.path}})
        /\ handles' = handles
    BY <1>2, <1>5 DEF Read, Answer
  <2>2. Bar' = Bar
    BY <1>1, <2>1, SameBar DEF Bar
  <2>3. answer' = FS!Value({h.contents : h \in {h \in Bar : h.path = r.path}})
    BY <2>1, BarIs, FSNames
  <2> QED BY <1>1, <1>2, <1>3, <1>4, <2>1, <2>2, <2>3 DEF FS!Reply, Bar
<1>6. CASE Release
  <2>1. /\ r.op = "release" /\ answer' = Value({}) /\ handles' = {h \in handles : h.path # r.path}
    BY <1>2, <1>6 DEF Release
  <2>2. Bar' = {h \in Bar : h.path # r.path}
    BY <1>1, <2>1, SameBar, BarIs
  <2>3. answer' = FS!Value({})
    BY <2>1, FSNames
  <2> QED BY <1>1, <1>2, <1>3, <1>4, <2>1, <2>2, <2>3 DEF FS!Reply, Bar
<1> QED BY <1>5, <1>6

\* What could not be read has other bytes.
LEMMA UnreadImplements ==
  ASSUME VolumeInv, GetXattrUnread
  PROVE  FS!ReplyUnread
<1>1. PICK r \in request, f \in FS!Entries(volume) :
        /\ r.op = "getxattr" /\ r.attr = XATTR_RESOURCE_FORK /\ answer = NoAnswer
        /\ Denotes(volume, Meant(r), f) /\ f.kind # "folder" /\ f.rsrc # 0
        /\ answer' = Value({<<f.id, "unread">>}) /\ broken' = TRUE
        /\ UNCHANGED <<catalogVars, request, stage, handles, told>>
  BY UnreadIs
<1>2. volume' = volume /\ request' = request /\ handles' = handles
  BY <1>1 DEF catalogVars
<1>3. Bar' = Bar
  BY <1>2, SameBar DEF Bar
<1> DEFINE a == Value({<<f.id, "rsrc">>})
<1>4. FS!Answers(volume, r) = {a}
  BY <1>1, AnswersFork
<1>5. a.error = "" /\ a.what = {<<f.id, "rsrc">>}
  BY DEF Value
<1> HIDE DEF a
<1>6. {<<fork[1], "unread">> : fork \in a.what} = {<<f.id, "unread">>}
  <2> DEFINE e == <<f.id, "rsrc">>
  <2>1. a.what = {e} /\ e[1] = f.id
    BY <1>5
  <2> HIDE DEF e
  <2> QED BY <2>1
<1>7. /\ a \in FS!Answers(volume, r) /\ r.attr = FS!ResourceFork
      /\ answer = FS!NoAnswer /\ answer' = FS!Value({<<fork[1], "unread">> : fork \in a.what})
  BY <1>1, <1>4, <1>6, FSNames DEF XATTR_RESOURCE_FORK, FS!ResourceFork
<1> QED BY <1>1, <1>2, <1>3, <1>5, <1>7 DEF FS!ReplyUnread, Bar

\* Every step is one of the file system, or not seen.
LEMMA StepImplements ==
  ASSUME SuffixedOnly(Suffixable), VolumeInv, Step
  PROVE  [FS!Next]_(FS!vars)
<1>1. CASE \E r \in request : Replies(r)
  BY <1>1, RepliesImplements DEF FS!Next, FS!Progress
<1>2. CASE Walk \/ OpenPlain
  <2>1. UNCHANGED <<volume, request, answer, handles, broken>>
    BY <1>2 DEF Walk, WalkStep, NextElement, ResolveLink, SearchFails, OpenPlain, StatAgain, BeginStat
  <2> QED BY <2>1, StutterImplements
<1>3. CASE NotFound \/ TooMany \/ GetAttr \/ ListDirectory \/ ListXattr
  BY <1>1, <1>3, NotFoundReplies, TooManyReplies, GetAttrReplies, ListDirectoryReplies, ListXattrReplies
<1>4. CASE GetXattrFork \/ GetXattrFinderInfo \/ GetXattrAttribute \/ OpenFork \/ OpenResource
  BY <1>1, <1>4, GetXattrForkReplies, GetXattrFinderInfoReplies, GetXattrAttributeReplies, OpenForkReplies,
     OpenResourceReplies
<1>5. CASE OpenCompressed
  <2>1. CASE StatAgain("resource")
    <3>1. UNCHANGED <<volume, request, answer, handles, broken>>
      BY <2>1 DEF StatAgain, BeginStat
    <3> QED BY <3>1, StutterImplements
  <2> QED BY <1>1, <1>5, <2>1, OpenCompressedReplies
<1>6. CASE Read \/ Release
  BY <1>6, HandleImplements DEF FS!Next, FS!Progress
<1>7. CASE Fails
  <2>1. /\ request # {} /\ answer = FS!NoAnswer /\ answer' = FS!Error("EIO") /\ broken' = TRUE /\ volume' = volume
        /\ request' = request /\ handles' = handles
    BY <1>7, FSNames DEF Fails, catalogVars
  <2>2. Bar' = Bar
    BY <2>1, SameBar DEF Bar
  <2> QED BY <2>1, <2>2 DEF FS!ReplyEIO, FS!Next, FS!Progress, Bar
<1>8. CASE Return
  <2>1. /\ answer # FS!NoAnswer /\ request' = {} /\ answer' = FS!NoAnswer /\ broken' = FALSE /\ volume' = volume
        /\ handles' = handles
    BY <1>8, FSNames DEF Return
  <2>2. Bar' = Bar
    BY <2>1, SameBar DEF Bar
  <2> QED BY <2>1, <2>2 DEF FS!Return, FS!Next, FS!Progress, Bar
<1>9. CASE GetXattrUnread
  BY <1>9, UnreadImplements DEF FS!Next, FS!Progress
<1> QED BY <1>2, <1>3, <1>4, <1>5, <1>6, <1>7, <1>8, <1>9 DEF Step

\* The safety of FileSystemContract.
THEOREM VolumeImplementsFileSystem == SuffixedOnly(Suffixable) => (Spec => FS!SafeSpec)
<1> SUFFICES ASSUME SuffixedOnly(Suffixable) PROVE Spec => FS!SafeSpec
  OBVIOUS
<1>1. VolumeInit => FS!Init
  BY InitImplements
<1>2. VolumeInv /\ [Next]_vars => [FS!Next]_(FS!vars)
  <2> SUFFICES ASSUME VolumeInv, [Next]_vars PROVE [FS!Next]_(FS!vars)
    OBVIOUS
  <2>1. CASE Step
    BY <2>1, StepImplements
  <2>2. CASE \E r \in Requests(volume) : Ask(r)
    BY <2>2, AskImplements DEF FS!Next
  <2>3. CASE UNCHANGED vars
    <3>1. UNCHANGED <<volume, request, answer, handles, broken>>
      BY <2>3 DEF vars, catalogVars
    <3> QED BY <3>1, StutterImplements
  <2> QED BY <2>1, <2>2, <2>3 DEF Next
<1>3. Spec => []VolumeInv
  BY VolumeInvariant
<1> QED BY <1>1, <1>2, <1>3, PTL DEF Spec, FS!SafeSpec

----------------------------------------------------------------------------
(* Calls that agree.                                                       *)

\* What is along a path is what is along a longer one.
LEMMA AlongFront ==
  ASSUME NEW v, NEW S, NEW path \in Seq(S), NEW front \in Seq(S), Len(front) + 1 = Len(path),
         \A i \in 1 .. Len(front) : front[i] = path[i]
  PROVE  \A n \in 0 .. Len(front) : FS!Along(v, front)[n] = FS!Along(v, path)[n]
<1> DEFINE same == {n \in 0 .. Len(front) : FS!Along(v, front)[n] = FS!Along(v, path)[n]}
<1>1. Len(front) \in Nat /\ Len(path) \in Nat
  OBVIOUS
<1>2. 0 \in same
  <2>1. FS!Along(v, front)[0] = {r \in FS!Entries(v) : r.parent = 1}
    BY AlongIs
  <2>2. FS!Along(v, path)[0] = {r \in FS!Entries(v) : r.parent = 1}
    BY AlongIs
  <2>3. 0 \in 0 .. Len(front)
    BY <1>1
  <2> QED BY <2>1, <2>2, <2>3
<1>3. ASSUME NEW n \in 1 .. Len(front), n - 1 \in same PROVE n \in same
  <2>1. n \in 1 .. Len(path) /\ front[n] = path[n] /\ n \in 0 .. Len(front)
    BY <1>1
  <2>2. FS!Along(v, front)[n - 1] = FS!Along(v, path)[n - 1]
    BY <1>3
  <2>3. FS!Along(v, front)[n] = {r \in UNION {FS!Children(v, f) : f \in FS!Along(v, front)[n - 1]} :
                                   FS!Same(v, FS!Shown(r.name), front[n])}
    BY AlongIs
  <2>4. FS!Along(v, path)[n] = {r \in UNION {FS!Children(v, f) : f \in FS!Along(v, path)[n - 1]} :
                                  FS!Same(v, FS!Shown(r.name), path[n])}
    BY <2>1, AlongIs
  <2>5. FS!Along(v, front)[n] = FS!Along(v, path)[n]
    BY <2>1, <2>2, <2>3, <2>4
  <2> QED BY <2>1, <2>5
<1> HIDE DEF same
<1>4. 0 .. Len(front) \subseteq same
  BY <1>1, <1>2, <1>3, UpTo, Zenon
<1> QED BY <1>4 DEF same

\* An answer with a value is about a path that denotes a file.
LEMMA ValueDenotes ==
  ASSUME NEW v, NEW r, Meant(r) \in Seq(PathNames), NEW a \in FS!Answers(v, r),
         a # Error("EIO"), a # Error("ENOENT")
  PROVE  \E f : Denotes(v, Meant(r), f)
<1>1. ~ FS!Ambiguous(v, Meant(r)) /\ FS!Named(v, Meant(r)) # {}
  BY AnswersNone
<1>2. Len(Meant(r)) \in 0 .. Len(Meant(r)) /\ Len(Meant(r)) \in Nat
  OBVIOUS
<1>3. \A m, n \in FS!Named(v, Meant(r)) : m = n
  BY <1>1, <1>2 DEF FS!Ambiguous, FS!Named
<1>4. PICK n : FS!Named(v, Meant(r)) = {n}
  BY <1>1, <1>3
<1>5. n \in FS!Entries(v)
  BY <1>2, <1>4, AlongEntries DEF FS!Named
<1> QED BY <1>1, <1>4, <1>5 DEF Denotes

\* The size of a file is that of the reader over it.
LEMMA SizeFits ==
  ASSUME VolumeTypes, CompressedEmpty, NEW f \in FS!Entries(volume), NEW reader, Fits(volume, f, reader)
  PROVE  reader.length = FS!Size(volume, f)
<1>1. FS!Size(volume, f) = IF f.compressed /\ f.data = 0 /\ FS!Header(volume, f) # {}
                           THEN (CHOOSE a \in FS!Header(volume, f) : TRUE).size ELSE f.data
  BY Zenon DEF FS!Size
<1>2. CASE ~ f.compressed
  BY <1>1, <1>2, Zenon DEF Fits
<1>3. CASE f.compressed
  <2>1. PICK a \in FS!Header(volume, f) : reader.length = a.size
    BY <1>3 DEF Fits
  <2>2. f.data = 0
    BY <1>3 DEF CompressedEmpty, VolumeTypes
  <2>3. \A b \in FS!Header(volume, f) : b = a
    BY <2>1, OneHeader
  <2>4. FS!Header(volume, f) # {} /\ (CHOOSE b \in FS!Header(volume, f) : TRUE) = a
    BY <2>1, <2>3
  <2> QED BY <1>1, <1>3, <2>1, <2>2, <2>4, Zenon
<1> QED BY <1>2, <1>3

\* The size told and the reader are those of one file.
LEMMA SizesFollow == ASSUME SuffixedOnly(Suffixable), CompressedEmpty, VolumeInv PROVE SizesAgree
<1> SUFFICES ASSUME NEW t \in told, NEW h \in handles, t.call.op = "getattr", t.call.path = h.path, NEW a \in t.what
             PROVE  a[2] = h.reader.length
  BY DEF SizesAgree
<1>1. PICK q \in Requests(volume), f \in FS!Entries(volume) :
        q.op = "open" /\ q.path = h.path /\ Denotes(volume, h.path, f) /\ Fits(volume, f, h.reader)
  BY DEF VolumeInv, HandlesInv
<1>2. Value(t.what) \in FS!Answers(volume, t.call)
  BY DEF VolumeInv, ToldInv
<1>3. Meant(t.call) = h.path
  BY DEF Meant
<1>4. FS!Answers(volume, t.call) = {Value({<<f.id, FS!Size(volume, f)>>})}
  BY <1>1, <1>3, AnswersGetattr
<1>5. \A s, u : Value(s) = Value(u) => s = u
  <2>1. \A s : Value(s).what = s
    BY DEF Value
  <2> QED BY <2>1
<1>6. t.what = {<<f.id, FS!Size(volume, f)>>}
  BY <1>2, <1>4, <1>5
<1>7. a[2] = FS!Size(volume, f)
  BY <1>6
<1> QED BY <1>1, <1>7, SizeFits DEF VolumeInv

\* SizesAgree for all volumes whose compressed files have no data fork.
THEOREM VolumeSizesAgree == SuffixedOnly(Suffixable) /\ CompressedEmpty => (Spec => []SizesAgree)
<1> SUFFICES ASSUME SuffixedOnly(Suffixable), CompressedEmpty PROVE Spec => []SizesAgree
  OBVIOUS
<1>1. VolumeInv => SizesAgree
  BY SizesFollow
<1>2. Spec => []VolumeInv
  BY VolumeInvariant
<1> QED BY <1>1, <1>2, PTL

\* The names told and the value are those of one file.
LEMMA ListedFollow == ASSUME SuffixedOnly({"getxattr", "readdir"}), VolumeInv PROVE ListedHaveValues
<1> SUFFICES ASSUME NEW t \in told, NEW r \in request, t.call.op = "listxattr", r.op = "getxattr", t.call.path = r.path,
                    r.attr \in t.what, answer \notin {NoAnswer, Error("EIO")}, ~ broken
             PROVE  answer.what # {}
  BY DEF ListedHaveValues, VolumeInv, RequestInv, CallInv
<1>1. /\ t.call \in Requests(volume) /\ Value(t.what) \in FS!Answers(volume, t.call)
      /\ r \in Requests(volume) /\ volume \in Volumes
  BY DEF VolumeInv, ToldInv, RequestInv, CallInv, VolumeTypes
<1>2. answer \in FS!Answers(volume, r)
  BY DEF VolumeInv, RequestInv, CallInv
<1>3. ~ EndsWithSuffix(r.path) /\ SuffixedOnly(Suffixable)
  BY <1>1 DEF SuffixedOnly, Suffixable
<1>4. Meant(t.call) = r.path /\ Meant(r) = r.path /\ r.path \in Seq(PathNames)
  <2>1. FS!Plain(r.path) = r.path
    BY <1>3 DEF FS!Plain, EndsWithSuffix, SuffixLength, Last, FS!Last
  <2> QED BY <1>1, <2>1, RequestsAssumption DEF Meant
<1>5. /\ \A s : Value(s).what = s /\ Value(s).error = ""
      /\ \A e : Error(e).error = e
  BY DEF Value, Error
<1>6. PICK f : Denotes(volume, r.path, f)
  <2>1. \A e : e # "" => Value(t.what) # Error(e)
    <3>1. Value(t.what).error = "" /\ \A e : Error(e).error = e
      BY <1>5, Zenon
    <3> QED BY <3>1, Zenon
  <2>2. Value(t.what) # Error("EIO") /\ Value(t.what) # Error("ENOENT")
    BY <2>1
  <2> QED BY <1>1, <1>4, <2>2, ValueDenotes
<1>7. FS!Answers(volume, t.call) = {Value(FS!AttributeNames(volume, f))}
  BY <1>4, <1>6, AnswersListxattr
<1>8. r.attr \in FS!AttributeNames(volume, f)
  <2>1. Value(t.what) = Value(FS!AttributeNames(volume, f))
    BY <1>1, <1>7
  <2>2. t.what = FS!AttributeNames(volume, f)
    BY <1>5, <2>1, Zenon
  <2> QED BY <2>2
<1>9. \A a \in volume.attributes : a.name \notin {XATTR_RESOURCE_FORK, XATTR_FINDER_INFO}
  BY <1>1, AttributesAssumption
<1>10. r.attr \in FS!Attributes(volume, f) => r.attr \notin {XATTR_RESOURCE_FORK, XATTR_FINDER_INFO}
  BY <1>9 DEF FS!Attributes
<1>11. CASE r.attr = XATTR_RESOURCE_FORK
  <2>1. f.kind = "file" /\ f.rsrc # 0
    BY <1>8, <1>10, <1>11, ForksDiffer
       DEF FS!AttributeNames, XATTR_RESOURCE_FORK, XATTR_FINDER_INFO, FS!FinderInfo, FS!ResourceFork
  <2>2. answer = Value({<<f.id, "rsrc">>})
    BY <1>2, <1>4, <1>6, <1>11, <2>1, AnswersFork
  <2> QED BY <1>5, <2>2
<1>12. CASE r.attr = XATTR_FINDER_INFO
  <2>1. f.finder
    BY <1>8, <1>10, <1>12, ForksDiffer
       DEF FS!AttributeNames, XATTR_RESOURCE_FORK, XATTR_FINDER_INFO, FS!FinderInfo, FS!ResourceFork
  <2>2. answer = Value({<<f.id, XATTR_FINDER_INFO>>})
    BY <1>2, <1>4, <1>6, <1>12, <2>1, AnswersFinder
  <2> QED BY <1>5, <2>2
<1>13. CASE r.attr \notin {XATTR_FINDER_INFO, XATTR_RESOURCE_FORK}
  <2>1. r.attr \in FS!Attributes(volume, f)
    BY <1>8, <1>13 DEF FS!AttributeNames, XATTR_RESOURCE_FORK, XATTR_FINDER_INFO, FS!FinderInfo, FS!ResourceFork
  <2>2. answer = Value({<<f.id, r.attr>>})
    BY <1>2, <1>4, <1>6, <1>13, <2>1, AnswersAttribute
  <2> QED BY <1>5, <2>2
<1> QED BY <1>11, <1>12, <1>13

\* ListedHaveValues for all volumes; listXattr() takes the name of a resource
\* fork for that of a file.
THEOREM VolumeListedHaveValues == SuffixedOnly({"getxattr", "readdir"}) => (Spec => []ListedHaveValues)
<1> SUFFICES ASSUME SuffixedOnly({"getxattr", "readdir"}) PROVE Spec => []ListedHaveValues
  OBVIOUS
<1>1. VolumeInv => ListedHaveValues
  BY ListedFollow
<1>2. Spec => []VolumeInv
  <2>1. SuffixedOnly(Suffixable)
    BY DEF SuffixedOnly, Suffixable
  <2> QED BY <2>1, VolumeInvariant
<1> QED BY <1>1, <1>2, PTL

\* Behind a hard link there is a file.
LEMMA BehindFile ==
  ASSUME NEW v \in Volumes, NEW f \in FS!Entries(v), FS!Behind(v, f) # f
  PROVE  FS!Behind(v, f).kind = "file"
BY LinkIs

\* A name that is listed is that of the element it is equal to.
LEMMA SameText ==
  ASSUME NEW v, NEW a \in DiskNames, NEW e \in PathNames, FS!Same(v, FS!Shown(a), e)
  PROVE  a.text = e.text
<1>1. FS!Shown(a) \in Names /\ FS!Shown(a).text = a.text /\ e \in Names
  BY InPath, PathNameTypes
<1>2. CASE v.binary
  BY <1>1, <1>2 DEF FS!Same
<1>3. CASE ~ v.binary
  <2>1. [FS!Shown(a) EXCEPT !.case = e.case] = e
    BY <1>3 DEF FS!Same
  <2> QED BY <1>1, <2>1, NamesEqualNoCase
<1> QED BY <1>2, <1>3

\* The names told are those that the longer path goes on with.
LEMMA ListingFollow == ASSUME SuffixedOnly(Suffixable), VolumeInv PROVE ListingAgrees
<1> SUFFICES ASSUME NEW t \in told, NEW r \in request, t.call.op = "readdir", r.op = "getattr",
                    answer \notin {NoAnswer, Error("EIO")}, r.path # <<>>, Front(r.path) = t.call.path,
                    Last(r.path).text \notin FS!Hidden
             PROVE  LET listed == {f \in FS!Entries(volume) :
                                     \E e \in t.what : f.id = e[2] /\ FS!Same(volume, e[1], Last(r.path))}
                    IN  {found[1] : found \in answer.what} = {FS!Behind(volume, f).id : f \in listed}
  BY DEF ListingAgrees
<1> DEFINE front == t.call.path
           path  == r.path
           n     == Len(path)
           e     == path[n]
           listed == {f \in FS!Entries(volume) : \E x \in t.what : f.id = x[2] /\ FS!Same(volume, x[1], e)}
<1>1. /\ t.call \in Requests(volume) /\ Value(t.what) \in FS!Answers(volume, t.call)
      /\ r \in Requests(volume) /\ volume \in Volumes /\ VolumeTypes
  BY DEF VolumeInv, ToldInv, RequestInv, CallInv, VolumeTypes
<1>2. answer \in FS!Answers(volume, r)
  BY DEF VolumeInv, RequestInv, CallInv
<1>3. /\ Meant(t.call) = front /\ Meant(r) = path /\ path \in Seq(PathNames) /\ front \in Seq(PathNames)
  BY <1>1, RequestsAssumption DEF Meant
<1>4. /\ n \in Nat /\ n >= 1 /\ Len(front) = n - 1 /\ e \in PathNames /\ Last(path) = e
      /\ \A i \in 1 .. Len(front) : front[i] = path[i]
  BY <1>3 DEF Front, Last
<1>5. /\ \A s : Value(s).what = s /\ Value(s).error = ""
      /\ \A x : Error(x).error = x /\ Error(x).what = {}
  BY DEF Value, Error
<1>6. PICK g : Denotes(volume, front, g)
  <2>1. Value(t.what).error = "" /\ \A x : Error(x).error = x
    BY <1>5, Zenon
  <2>2. Value(t.what) # Error("EIO") /\ Value(t.what) # Error("ENOENT")
    BY <2>1
  <2> QED BY <1>1, <1>3, <2>2, ValueDenotes
<1>7. PICK d \in FS!Entries(volume) : FS!Named(volume, front) = {d} /\ g = FS!Behind(volume, d)
  BY <1>6 DEF Denotes
<1>8. FS!Answers(volume, t.call) = {IF g.kind = "folder" THEN Value(FS!Listing(volume, g)) ELSE Error("ENOENT")}
  BY <1>3, <1>6, AnswersReaddir
<1>9. g.kind = "folder" /\ t.what = FS!Listing(volume, g)
  <2>1. Value(t.what) = IF g.kind = "folder" THEN Value(FS!Listing(volume, g)) ELSE Error("ENOENT")
    BY <1>1, <1>8
  <2>2. Value(t.what).error = "" /\ Error("ENOENT").error = "ENOENT"
    BY <1>5, Zenon
  <2>3. g.kind = "folder"
    BY <2>1, <2>2
  <2>4. Value(t.what) = Value(FS!Listing(volume, g))
    BY <2>1, <2>3
  <2> QED BY <1>5, <2>3, <2>4, Zenon
<1>10. g = d
  <2>1. g # d => g.kind = "file"
    BY <1>1, <1>7, BehindFile
  <2> QED BY <1>9, <2>1
<1>11. FS!Named(volume, path) = {f \in FS!Children(volume, d) : FS!Same(volume, FS!Shown(f.name), e)}
  <2>1. FS!Along(volume, path)[n - 1] = {d}
    <3>1. \A m \in 0 .. Len(front) : FS!Along(volume, front)[m] = FS!Along(volume, path)[m]
      <4>1. Len(front) + 1 = Len(path)
        BY <1>4
      <4> HIDE DEF front, path, n, e
      <4> QED BY <1>3, <1>4, <4>1, AlongFront
    <3>2. n - 1 \in 0 .. Len(front)
      BY <1>4
    <3>3. FS!Along(volume, front)[n - 1] = {d}
      BY <1>4, <1>7 DEF FS!Named
    <3> QED BY <3>1, <3>2, <3>3
  <2>2. n \in 1 .. Len(path)
    BY <1>4
  <2>3. FS!Along(volume, path)[n] = {f \in UNION {FS!Children(volume, h) : h \in FS!Along(volume, path)[n - 1]} :
                                       FS!Same(volume, FS!Shown(f.name), path[n])}
    BY <1>3, <2>2, AlongIs
  <2>4. UNION {FS!Children(volume, h) : h \in {d}} = FS!Children(volume, d)
    OBVIOUS
  <2> QED BY <2>1, <2>3, <2>4 DEF FS!Named
<1>12. listed = FS!Named(volume, path)
  <2> DEFINE shown == {c \in FS!Children(volume, d) : d.parent = FS!RootParent => c.name.text \notin FS!Hidden}
  <2>1. t.what = {<<FS!Shown(c.name), c.id>> : c \in shown}
    BY <1>9, <1>10 DEF FS!Listing
  <2>2. shown \subseteq FS!Entries(volume)
    BY DEF FS!Children
  <2>3. \A a, b \in FS!Entries(volume) : a.id = b.id => a = b
    BY <1>1, EntryTypes
  <2>4. \A c \in FS!Children(volume, d) : FS!Same(volume, FS!Shown(c.name), e) => c \in shown
    <3>1. ASSUME NEW c \in FS!Children(volume, d), FS!Same(volume, FS!Shown(c.name), e)
          PROVE  c.name.text = e.text
      <4>1. c.name \in DiskNames
        BY <1>1, EntryTypes DEF FS!Children
      <4> QED BY <1>4, <3>1, <4>1, SameText
    <3> QED BY <1>4, <3>1
  <2> HIDE DEF shown, e
  <2>5. listed = {f \in FS!Entries(volume) : \E c \in shown : f.id = c.id /\ FS!Same(volume, FS!Shown(c.name), e)}
    <3>1. ASSUME NEW f
          PROVE  (\E x \in t.what : f.id = x[2] /\ FS!Same(volume, x[1], e))
                   <=> \E c \in shown : f.id = c.id /\ FS!Same(volume, FS!Shown(c.name), e)
      <4> DEFINE Pair(c) == <<FS!Shown(c.name), c.id>>
      <4>1. \A c : Pair(c)[1] = FS!Shown(c.name) /\ Pair(c)[2] = c.id
        OBVIOUS
      <4>2. t.what = {Pair(c) : c \in shown}
        BY <2>1
      <4> HIDE DEF Pair
      <4> QED BY <4>1, <4>2
    <3> QED BY <3>1
  <2>6. listed = {c \in shown : FS!Same(volume, FS!Shown(c.name), e)}
    BY <2>2, <2>3, <2>5
  <2>7. shown \subseteq FS!Children(volume, d)
    BY DEF shown
  <2> QED BY <1>11, <2>4, <2>6, <2>7
<1>13. {found[1] : found \in answer.what} = {FS!Behind(volume, f).id : f \in listed}
  <2>1. ~ FS!Ambiguous(volume, path)
    BY <1>2, <1>3, AnswersNone
  <2>2. CASE FS!Named(volume, path) = {}
    <3>1. answer = Error("ENOENT")
      BY <1>2, <1>3, <2>1, <2>2, AnswersNone
    <3>2. answer.what = {}
      BY <1>5, <3>1, Zenon
    <3> HIDE DEF listed
    <3> QED BY <1>12, <2>2, <3>2
  <2>3. CASE FS!Named(volume, path) # {}
    <3>1. n \in 0 .. Len(path)
      BY <1>4
    <3>2. PICK m : FS!Named(volume, path) = {m}
      <4>1. n = Len(path)
        BY <1>4
      <4>2. FS!Named(volume, path) = FS!Along(volume, path)[n]
        BY <4>1 DEF FS!Named
      <4>3. \A a, b \in FS!Along(volume, path)[n] : a = b
        BY <2>1, <3>1 DEF FS!Ambiguous
      <4> QED BY <2>3, <4>2, <4>3
    <3> DEFINE f == FS!Behind(volume, m)
    <3>3. Denotes(volume, path, f)
      <4>1. m \in FS!Entries(volume)
        BY <1>11, <3>2 DEF FS!Children
      <4> QED BY <2>1, <3>2, <4>1 DEF Denotes
    <3> HIDE DEF f
    <3>4. answer = Value({<<f.id, FS!Size(volume, f)>>})
      BY <1>2, <1>3, <3>3, AnswersGetattr
    <3>5. answer.what = {<<f.id, FS!Size(volume, f)>>}
      BY <1>5, <3>4, Zenon
    <3>6. {found[1] : found \in answer.what} = {f.id}
      BY <3>5
    <3> HIDE DEF listed
    <3> QED BY <1>12, <3>2, <3>6 DEF f
  <2> QED BY <2>2, <2>3
<1> HIDE DEF listed
<1> QED BY <1>4, <1>13, Zenon DEF listed

\* ListingAgrees for all volumes.
THEOREM VolumeListingAgrees == SuffixedOnly(Suffixable) => (Spec => []ListingAgrees)
<1> SUFFICES ASSUME SuffixedOnly(Suffixable) PROVE Spec => []ListingAgrees
  OBVIOUS
<1>1. VolumeInv => ListingAgrees
  BY ListingFollow
<1>2. Spec => []VolumeInv
  BY VolumeInvariant
<1> QED BY <1>1, <1>2, PTL

=============================================================================
