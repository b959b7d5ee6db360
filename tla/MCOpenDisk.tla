----------------------------- MODULE MCOpenDisk -----------------------------
(* Model checking of OpenDisk: files of every form and scheme it tells      *)
(* apart, with sound and with broken formats.  Partition maps of up to      *)
(* eight places, a GPT of two sectors, 32-bit products wrapped at 64        *)
(* sectors.                                                                 *)
EXTENDS OpenDisk

Plus     == [signature |-> "HFS+"]
PlusX    == [signature |-> "HFSX"]
PlainHFS == [signature |-> "HFS", drEmbedSigWord |-> "none"]
Wrapper(alBlkSiz, start, blockCount) ==
  [signature |-> "HFS", drEmbedSigWord |-> "HFS+", drAlBlkSiz |-> alBlkSiz,
   drAlBlSt |-> 1, startBlock |-> start, blockCount |-> blockCount]

Raw(scheme, spacing, declared, entries, volumes) ==
  [form |-> "raw", scheme |-> scheme, length |-> 48, spacing |-> spacing, declared |-> declared,
   entries |-> entries, volumes |-> volumes, blkx |-> <<>>, dataFork |-> 0]
Dmg(medium, blkx) == [medium EXCEPT !.form = "dmg", !.blkx = blkx]

Entry(type, start, blocks) == [type |-> Text(type), start |-> start, count |-> blocks]
Slice(guid, first, last)   == [type |-> guid, first |-> first, last |-> last]

HFS == "Apple_HFS"
Map == "Apple_partition_map"

----------------------------------------------------------------------------
(* Media: a map, a driver, and HFS volumes behind them.                     *)

\* Entries next to each other, two volumes of which the second is smaller.
TwoVolumes == << Entry(Map, 1, 5), Entry(HFS, 6, 10), Entry("Apple_HFSX", 16, 6) >>
Sectors(declared) == Raw("Apple", 1, declared, TwoVolumes, 8 :> Plus @@ 18 :> PlusX)

\* Entries four sectors apart.
BigBlocks == << Entry(Map, 1, 2), Entry("Apple_Driver", 3, 1), Entry(HFS, 4, 4) >>
Blocks(declared) == Raw("Apple", 4, declared, BigBlocks, 18 :> Plus)

\* A place of the map that holds no entry.
Gap == Raw("Apple", 1, 1, 1 :> Entry(Map, 1, 5) @@ 2 :> Entry("Apple_Free", 6, 2)
                          @@ 4 :> Entry(HFS, 8, 10), 10 :> Plus)

Wrapped == Raw("Apple", 1, 1, << Entry(Map, 1, 3), Entry(HFS, 4, 40) >>,
               6 :> Wrapper(4, 2, 7) @@ 15 :> Plus)

EFI    == [text |-> "C12A7328-F81F-11D2-BA4B-00A0C93EC93B",
           bare |-> "C12A7328-F81F-11D2-BA4B-00A0C93EC93B", data3 |-> 4562]
Slices == << Slice(EFI, 6, 9), Slice(GUID_HFSPLUS, 10, 29), Slice(GUID_HFSPLUS, 30, 39) >>
GPT    == Raw("GPT", 1, 0, Slices, 12 :> Plus @@ 32 :> PlusX)

Volume(header) == Raw("none", 1, 0, <<>>, 2 :> header)
Whole == [Volume(Wrapper(2, 3, 10)) EXCEPT !.volumes = @ @@ (1 + 2 * 3 + 2) :> Plus]

----------------------------------------------------------------------------
(* The elements of a DMG, with their names cut into pieces.                 *)

Table(id, name, first, sectors) ==
  [id |-> id, name |-> name, first |-> first, count |-> sectors, inLZFSE |-> {}]

\* The sectors of every table are one LZFSE run.
LZFSE(dmg) ==
  [dmg EXCEPT !.blkx = [i \in DOMAIN dmg.blkx |->
     [dmg.blkx[i] EXCEPT !.inLZFSE = 1 .. dmg.blkx[i].count - 1]]]

Name(type)  == <<"disk image ", "(", type, " ", ":", " ", "1", ")">>
Garbled     == <<"?">>
Twice(type) == <<"disk ", "(", "backup", ")", " ", "(", type, " ", ":", " ", "1", ")">>

Listing(name) == << Table(-1, Name("DDM"), 0, 1), Table(0, name[1], 1, 5),
                    Table(1, name[2], 6, 10), Table(2, name[3], 16, 6) >>
Names   == << Name(Map), Name(HFS), Name("Apple_HFSX") >>
NoNames == << Garbled, Name(HFS), Garbled >>

SliceTables(name) ==
  << Table(-1, Name("MBR"), 0, 1), Table(0, name[1], 1, 1), Table(1, name[2], 2, 2),
     Table(2, name[3], 6, 4), Table(3, name[4], 10, 20), Table(4, name[5], 30, 10) >>
SliceNames == << Name("GPT Header"), Name("GPT Data"), Name("EFI"), Name(HFS), Name(HFS) >>

BlockTables == << Table(-1, Garbled, 0, 4), Table(0, Garbled, 4, 12),
                  Table(1, Garbled, 12, 4), Table(2, Garbled, 16, 16) >>

Sound ==
  { Sectors(0), Sectors(1), Blocks(0), Blocks(4), Gap, Wrapped, GPT, Volume(PlusX), Whole,
    Dmg(Sectors(1), Listing(Names)), Dmg(Sectors(1), Listing(NoNames)),
    [Dmg(Sectors(1), Listing(Names)) EXCEPT !.dataFork = 3],
    Dmg(Sectors(0), Listing(NoNames)),
    Dmg(Blocks(0), BlockTables), Dmg(Blocks(4), BlockTables),
    Dmg(GPT, SliceTables(SliceNames)), Dmg(GPT, SliceTables([i \in 1 .. 5 |-> Garbled])),
    Dmg(Volume(Plus), << Table(0, Name(HFS), 0, 48) >>),
    Dmg(Whole, << Table(0, Name(HFS), 0, 48) >>),
    LZFSE(Dmg(Sectors(1), Listing(Names))),
    LZFSE(Dmg(GPT, SliceTables([i \in 1 .. 5 |-> Garbled]))),
    LZFSE(Dmg(Whole, << Table(0, Name(HFS), 0, 48) >>)) }

\* The names tell no types, and the entries of the map are in an LZFSE run.
Packed ==
  { LZFSE(Dmg(Sectors(1), Listing(NoNames))), LZFSE(Dmg(Sectors(0), Listing(NoNames))),
    LZFSE(Dmg(Blocks(0), BlockTables)), LZFSE(Dmg(Blocks(4), BlockTables)),
    [Dmg(Sectors(1), Listing(NoNames)) EXCEPT !.blkx[2].inLZFSE = {2, 4}] }

Broken ==
  { Volume(PlainHFS), [Sectors(1) EXCEPT !.volumes = 8 :> PlainHFS],
    Volume(Wrapper(32, 2, 1)),
    Volume([signature |-> "none"]), [Sectors(1) EXCEPT !.length = 3],
    [Gap EXCEPT !.declared = 0], [GPT EXCEPT !.length = 3],
    [GPT EXCEPT !.entries = << Slice(EFI, 6, 9) >>],
    \* IDs that are not places; the table of the volume is missing
    Dmg(Sectors(1), << Table(0, Name(Map), 1, 5), Table(2, Name(HFS), 6, 10) >>),
    Dmg(Sectors(1), << Table(1, Name(HFS), 6, 10), Table(0, Name(Map), 1, 5) >>),
    \* a name with two parentheses, one without a type behind others
    Dmg(Sectors(1), Listing(<< Name(Map), Twice(HFS), Name("Apple_HFSX") >>)),
    Dmg(Sectors(1), Listing(<< Name(Map), Garbled, Garbled >>)),
    \* the map must be read, but is not there, or elsewhere, or unknown
    [Dmg(Sectors(1), Listing(NoNames)) EXCEPT !.dataFork = 3],
    Dmg(Sectors(1), Tail(Listing(NoNames))),
    Dmg(Sectors(1), << Table(-1, Garbled, 0, 1), Table(1, Garbled, 6, 10) >>),
    Dmg(Volume(Plus), << Table(-1, Garbled, 0, 4), Table(0, Garbled, 4, 44) >>),
    Dmg(GPT, << Table(-1, Garbled, 0, 1), Table(0, Garbled, 10, 20) >>),
    \* the map lists a partition that has no table
    Dmg(Sectors(1), << Table(-1, Garbled, 0, 1), Table(0, Garbled, 1, 5), Table(1, Garbled, 7, 10) >>),
    Dmg(Sectors(1), <<>>), Dmg(Sectors(1), << Table(-1, Garbled, 0, 1), Table(1, Name(HFS), 6, 10) >>) }

\* Any order of the elements of a DMG, with any names; any two places of a
\* map, with any block size declared.
AnyListing ==
  { Dmg(Sectors(1), [i \in 1 .. 4 |-> Listing(names)[order[i]]]) :
      order \in {f \in [1 .. 4 -> 1 .. 4] : IsInjective(f)},
      names \in [1 .. 3 -> {Name(Map), Name(HFS), Twice(HFS), Garbled}] }

AnyMap ==
  { Raw("Apple", spacing, declared,
        [i \in places |-> IF i = 1 THEN Entry(Map, 1, 1) ELSE Entry(HFS, 2 * i, 2 * i)],
        [s \in {2 + 2 * i * spacing : i \in places} |-> Plus]) :
      spacing \in 1 .. 3, declared \in 0 .. 3, places \in SUBSET (1 .. 4) }

MCImages == Sound \cup Packed \cup Broken \cup AnyListing \cup AnyMap
=============================================================================
