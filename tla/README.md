# darling-dmg in TLA+

Specifications, model-checking runs and machine-checked proofs of darling-dmg,
a read-only FUSE file system for Apple disk images (`src/` is the repository's
source directory, `test/` its tests).  `PROJECT.json` maps every definition to
the lines it stands for.

- [The system](#the-system): its parts, their state, what is hard about them
- [The modules](#the-modules): which module models what, and how
- [The runs](#the-runs): what TLC checks, within which bounds, what it shows
- [The proofs](#the-proofs): what holds for every value of the constants
- [Disagreements](#disagreements) between the code and what it says of itself
- [What is not modelled](#what-is-not-modelled), and [the plan](#the-plan)

To check a module: `tlc -config MCCachedReader.cfg MCCachedReader`.  To check
the proofs of one: `tlapm CachedReaderProofs.tla`.

## The system

Everything below the FUSE callbacks is a stack of `Reader`s, objects with
`read(buf, count, offset)`, `length()` and `adviseOptimalBlock()`:

    main-fuse.cpp          openDisk, then getattr, readdir, open, read
      HFSHighLevelVolume   path -> Reader
        CachedReader       of a file, in the file zone
          HFSFork | HFSZlibReader over MemoryReader or a resource in an HFSFork
            volume reader: SubReader | CachedReader | FileReader, as openDisk() made it
              DMGPartition   runs of an image: raw, zero, zlib, bzip2, ADC, LZFSE
                DMGDecompressor over SubReader
                  FileReader (pread)
      HFSCatalogBTree, HFSAttributeBTree, HFSExtentsOverflowBTree : HFSBTree
        CachedReader       in the B-tree zone
          HFSFork          of the tree's own file

Before the first callback `openDisk()` finds out what the file is and builds the lower
half of that stack:

    openDisk               DMG? GPT? Apple map? HFS+?
      DMGDisk | GPTDisk | AppleDisk    list of partitions (m_partitions)
        DMGDisk: names in the XML, or AppleDisk | GPTDisk over a
                 DMGPartition of the map, without a CachedReader
      readerForPartition   of the first partition with an HFS type
      HFSVolume            an HFS+ volume, or one embedded in an HFS one

The process is single-threaded (`main-fuse.cpp:62` passes `-s`), the disk image
is never written, and nothing is stored between runs.  So the hard behaviour is
not that of threads: it is *state that outlives a call* (blocks in a zone,
extents in a fork, a zlib stream in a reader, an input buffer in a
decompressor), *calls that nest* (the read of a catalog block may need the
overflow tree, which reads through the same zone), *reads that fail or come
short* in the middle of a loop, and *arithmetic* on positions in several
coordinate systems and integer widths; and, when a disk is opened, *guesses*: the size of
a map's blocks, whether a name tells a type, which element of a DMG is which partition.

| component | state | operations | with whom | what is hard | correct if |
|---|---|---|---|---|---|
| `CacheZone` | map of blocks, list of their ages, limit | `get`, `store`, `setMaxBlocks`, `evictCache` | `CachedReader`s | a list iterator in every entry; `store` of a key that is there | iterators point to their nodes, the limit holds, an entry never changes |
| `CachedReader` | none of its own; locals of nested calls | `read`, `nonCachedRead` | a zone, a backing reader | pieces from the zone and from below interleave; eviction and nested calls in the middle; 32-bit clamping | the answer is the reader's bytes, the zone never holds a wrong block |
| `DMGPartition` | run table | `read`, `readRun`, `adviseOptimalBlock` | disk, decompressors, the cache above | runs that abut, short reads, first and last sectors | right across runs; advised blocks are what the cache needs |
| `DMGDecompressor` | input buffer, codec, position | `decompress` for zlib, bzip2, LZFSE, ADC | codec libraries | the codec points into a buffer that is refilled; skipping to an offset; ADC's sliding window | input seen once and in order; what is claimed is delivered |
| `HFSZlibReader` | kept `z_stream`, last run and offset | `read`, `readRun` (calls itself) | resource fork | when the stream may be gone on with | answers right in any order of reads |
| `HFSFork` | known extents, grown on demand | `read`, `loadFromOverflowsFile` | volume, overflow tree | a load in the middle of a read, keyed by blocks counted so far | extents are the fork's own; complete and right across extents |
| `HFSExtentsOverflowBTree` | none | `findExtentsForFile` | `HFSBTree`, `HFSFork` | records skipped, unexpected, of the other fork | finds what is missing, and only that |
| `HFSBTree` | header | `findLeafNode`, `findLeafNodes` | a `CachedReader` | keys equal across leaves, broken links, 32-bit offsets | a record that is there is found |
| `HFSCatalogBTree` | folder ID of the private directory, case rule | `stat`, `listDirectory`, `openFile` | `HFSBTree`, `HFSVolume` | empty path elements, hard links, `:` and `/` | a path names one record |
| `HFSHighLevelVolume` | zone sizes | `stat`, `openFile`, xattrs | catalog, attributes, readers | which reader a path needs: resource fork, decmpfs types | bytes read are the file's |
| `HFSVolume` | header, zones, trees | constructor, `isHFSPlus` | partition reader | embedded volumes, in 32-bit products | the volume found is the partition, or what it embeds |
| `AppleDisk` | list of partitions | `load`, `readerForPartition` | `FileReader`, or a DMG's map | the block size is a guess; reads whose results are not looked at; gaps | the list is the map's, at the right places |
| `GPTDisk` | list of partitions | `loadPartitions`, `readerForPartition` | `FileReader`, or a DMG's table 1 | a reader that is null, a read of -1; GUIDs as text | the list is the array's |
| `DMGDisk` | XML, list of partitions | `loadKoly`, `loadPartitionElements`, `readerForPartition` | XML, the two above, `DMGPartition` | IDs against places, names against types, a search without end | what the list says is in the table that is opened |
| `openDisk()` | | | all of these | which way leads to a volume | the first HFS+ volume is mounted, if it is there |
| FUSE front-end | open handles | callbacks | `HFSHighLevelVolume` | a handle outlives the lookup | errors become error codes |

The hazards, each at its line, are in `PROJECT.json`.

## The modules

`Reader` is the abstract specification: a call of `read` is running until it is
answered with exactly the reader's bytes (clamped to its length) or fails; calls
nest; an error that is not caught fails the caller too; every call ends.
`CachedReader`, `DMGPartition` and `HFSFork` are shown to implement it
(`ReaderContract`, by `INSTANCE Reader WITH` a refinement mapping of their state
to the stack of calls).

`DMGPartition` in its turn is what `DMGPartitionRuns` implements.  `DMGPartition` takes the
decompression of a run as one step, which gives the bytes wanted or fails;
`DMGPartitionRuns` composes it with `DMGDecompressor`, whose steps replace that one
(`ImplementsPartition`), so that the contract holds of the two together.

Two more abstract specifications stand above the tree and the volume.
`RecordSearch` says what a search of a B-tree gives: all records that match, or an
error.  `HFSBTree` implements it (`SearchContract`), and `HFSCatalogBTree` is built on it:
one of its actions is one such search.  `FileSystem` says what the kernel is promised: it
defines what a path names, what file is behind a hard link and what the file's
contents, size and attributes are, on the volume as a whole and without any search,
stage or reader; `HFSHighLevelVolume` implements it (`FileSystemContract`).

In all modules data is symbolic: the byte at position `p` of a reader `t` is
`<<t, p>>` (or the number `p` where there is one reader), so "the answer is
right" is an equation, and a byte from a wrong place or never written
(`Garbage`) breaks it.

| module | of | how |
|---|---|---|
| `Reader` | `Reader.h`, `exceptions.h` | variable `calls`, a stack |
| `CacheZone` | `CacheZone` | `cache` and `itAge` are the map, `cacheAge` the list, an iterator is a position in it; `Store`, `Get`, `SetMaxBlocks`, each with the whole `evictCache` |
| `CachedReader` | `CachedReader` over a `CacheZone` | `stack` holds the frames of the calls in progress with their locals; one action per piece: a hit, a miss, the end of the loop, the advised block, the backing read (whole, short, or with a nested call before it), one stored block at a time |
| `DMGPartition` | `DMGPartition` | one action per way through the loop of `read` and the cases of `readRun`; what is below delivers all, less or an error |
| `DMGDecompressor` | its zlib, bzip2 and LZFSE classes | `m_buf` as a range of input positions, the codec as a function of the bytes it has used; one action per read, per codec call; used by the next |
| `DMGPartitionRuns` | `readRun` and what it creates | extends `DMGPartition`, instantiates `DMGDecompressor` with variables of its own; `Create`, `TakeResult`, `NoResult` are where they meet |
| `ADCDecompressor` | its ADC class, `adc_decompress` | a phrase is `[in, out, back]`; the window holds positions, so a copy is right if it copies the right positions |
| `HFSZlibReader` | `HFSZlibReader` | the frames of `readRun` calling itself; the kept stream as `[run, fed, out]` |
| `HFSFork` | `HFSFork`, `findExtentsForFile` | extents and tree records as sequences; loading as an action of the read that needs it |
| `RecordSearch` | `HFSBTree.h` | variables `search`, `status`, `found` |
| `HFSBTree` | `HFSBTree`, the comparators of the trees | nodes as records with keys, children and links; `Bounds` is where the bisection of `traverseTree` may end, with the comparator of the search: one place if the keys are in its order, or any at which the record before is to the left and the one behind is not; one action per node that is read |
| `FileSystem` | `main-fuse.h` | variables `request`, `answer`, `handles`; `Along`, `Named`, `Behind`, `Answers` define what is right; a path is `Ambiguous` if somewhere along it two records have one name, and may then be refused |
| `HFSCatalogBTree` | `HFSCatalogBTree` | `walk`, `elems`, `last` are the loop of `stat()`; names are records with a text, a `case`, a separator and a tail, so that the exchange of `/` and `:`, the case rule and the suffix of the resource fork are visible |
| `PartitionedDisk` | `FileReader`, `SubReader`, `DMGPartition` as seen from above, the variables of `openDisk()` | a reader is a window `[first, size, limit, opaque]` of the medium; `Sees` says if a read of it finds a sector, `opaque` are the sectors inside LZFSE runs, at which a read that starts there throws if no `CachedReader` is between |
| `AppleDisk`, `GPTDisk`, `DMGDisk` | the classes of that name | one action per entry that is read, with its failures; the guess of the block size (`GuessBlockSize`), the array of a GPT (`LoadPartitions`), an element of a DMG (`LoadElement`), the search for a table (`Search`) |
| `HFSVolume` | the constructor of `HFSVolume` | `EmbeddedOffset`, `EmbeddedLength` in 32 bits (`Wrap`) |
| `OpenDisk` | `openDisk()` | composes the four: `Detect`, `Choose` and their steps |
| `HFSHighLevelVolume` | `HFSHighLevelVolume`, the FUSE callbacks | extends the catalog; `stage` says what a walk is for, since `openFile()` walks up to twice; one action per way a callback ends; a reader is a record of what it is over |

`CachedReaderProofs`, `DMGPartitionProofs` (with `DMGPartitionRuns`), `HFSForkProofs`,
`HFSZlibReaderProofs` and `HFSBTreeProofs` hold [the proofs](#the-proofs) about the module
they are named after, `BufferProofs` those about the two buffers, `CacheZone` and
`ADCDecompressor`, and `VolumeProofs` those about the two ends of a volume, `OpenDisk`, which
opens it, and `HFSHighLevelVolume`, which serves it; `ProofLemmas` has what they share:
`\div` and `%`, `Min` and `Max`, and induction up to a number.

The operators named after an operation with a suffix (`Store_AdvancesFirst`,
`Slides_WhenFull`) are variants with a plausible bug; no action uses them.  Each
property of a passing run is known to fail when one of them takes the place of
the operation.

### What is abstracted

- The codecs (`inflate`, `BZ2_bzDecompress`, `lzfse_decode_buffer`) are external: a stream
  yields its bytes evenly over its input and stops at the end of its input or of
  the room it is given.
- The stored form of a run (its place in the image, its length) and the bits of an ADC
  phrase header are abstracted to sizes and distances.
- Block numbers stand as positions of first bytes; the counters of `hitRate()` are left
  out.
- A node of a B-tree is its keys, children and link: how `getKey()` finds a key in the
  bytes of a node, and the 32-bit offset of a node in its file, are left out.
- An image file is a medium of sectors with a scheme, entries and volume headers, in the
  file as it is or behind the tables of a DMG.  Its XML is the list of its `blkx` elements; one
  that cannot be parsed is one without elements.  A name of an element is a sequence of
  pieces cut at the characters `parseNameAndType()` looks for; a GUID is two texts, with
  and without the zeros that `makeGUID()` may lose.  No file meets two of the tests of
  `openDisk()`, which are made in a fixed order.  A DMG whose data fork does not start at
  0 has other bytes where its partition map is looked for.
- Of `struct stat` the file's number and size are modelled, of listed entries name and
  number; a resource fork has the decmpfs resource, lacks it or cannot be parsed.

## The runs

| run | bounds | shows |
|---|---|---|
| `cache_zone` | 3 keys, 2 values, limits 0-3, up to 5 nodes in the age list | all histories of stores (also of keys that are there, which orphans a node), hits and new limits keep the iterators valid and the limit; eviction never drops more than it must, and a new entry survives its store |
| `cached_reader` | 2 readers of 5 and 3 bytes in one zone, the one's backing reader calls the other once; blocks of 2 bytes, the last partial; limits 0-3; offsets 0, 1, 3 and 19, where the 32-bit clamp wraps (`HalfRange` 8 stands for 2^31) | right answers, no wrong block, nothing fetched that is cached, and the contract, with failing reads and evictions everywhere |
| `cached_reader_unaligned` | as above, one advised block that ends inside a cache block | see [Disagreements](#disagreements) |
| `dmg_partition` | cuts of 4 sectors of 2 bytes into 3 runs, raw, filled and compressed by each codec, and 3 unsound tables; runs whole or a byte short; reads of at most 2 of 3 bytes of input, waste buffer of 2; every offset and count | right across runs; the advice satisfies what `CachedReader` assumes of it; the codec sees its input once and in order, nothing good is called short; partition and decompressors together keep the contract, and calls end |
| `adc_decompressor` | a window of 2*3+2 bytes, runs of up to 12, so that it slides twice; reads of at most 7, none that starts inside a half of the window which is dropped before it is satisfied | later copies find their bytes, there is always room, requests are served |
| `zlib_reader` | files of 2 or 3 runs of 4 bytes, reads of 2; any reads of compressed files, reads from the starts of runs (as a `CachedReader` makes them) of files that mix stored runs and of a file with unreadable places | the stream is gone on with only where it is; answers right; calls end |
| `zlib_reader_faults` | the file with unreadable places | see below |
| `hfs_fork` | 2 extents in the catalog record, 2 in a tree record, blocks of 2 bytes; 8 forks, 4 of them damaged; reads fail or come short (also with -1) | extents stay the fork's own, only a failure below fails a read of an intact fork, and the contract |
| `hfs_btree` | 5 records in leaves of 1 or 2, trees of 2 or 3 levels, 6 sequences of keys with up to 5 that a search takes for equal; links that loop; the empty tree; every search key between and beside the records | the descent does not go past a match, leaves come in order, the contract |
| `volume` | 4 volumes of up to 13 records (see `MCHFSHighLevelVolume`), paths of up to 2 names, one open file; every search and read may fail | listing, lookup, sizes and attribute lists agree from one call to the next, and the contract |
| `open_disk` | 1773 files: Apple maps of up to 8 places with blocks of 1 to 4 sectors, declared right, wrong or not at all, with and without gaps; GPT of 2 sectors; DMGs with 4 elements in any order and with any of 4 kinds of names, and with runs of LZFSE; HFS wrappers; one failed read | the list is the map's; what is mounted is the first HFS+ volume, from its first sector to its last; a file in which everything is there is mounted; `openDisk()` ends, unless it searches for a table that is not there |
| `volume_named_fork` | the same volumes, `getattr` and `open` of names with the suffix of the resource fork | see below |

The bounds are the smallest in which the interesting case occurs: two blocks with a
partial last one, a zone smaller than a request, a run boundary within a
request, a window that slides a second time, a search that passes the table of another
partition, a place of the map behind a gap, a record of the tree that is loaded
after another, a fork whose first tree record does not follow its last inline
extent.  Nothing in the code depends on a larger number than "one more than fits".

Where a run narrows the requests, this is because the program never makes the others:
`DMGDisk.cpp:249` and `253`, `HFSBTree.cpp:21` and `HFSHighLevelVolume.cpp:176` put a
`CachedReader` over every partition, tree and file, and a `CachedReader` asks for the
blocks it was advised, which are whole runs of a `DMGPartition` or an
`HFSZlibReader`.  The direct requests that fail are hazards with a note:
ADC at an offset inside a half of the window that is dropped before the call
is satisfied (`DMGDecompressor.cpp:270`), stored zlib runs after
compressed ones (`HFSZlibReader.cpp:127`), a skip behind a truncated run (`:90`).  A read that
goes on from inside a zlib run into the next one fails too (`:171`), and is made by no `CachedReader`.

The tables of the partition map of a DMG are the exception: `DMGDisk.cpp:269` gives
`AppleDisk` and `GPTDisk` a `DMGPartition` as it is.  `GPTDisk` reads its table at once, from
its start.  `AppleDisk` reads one sector after the other, most of them inside a run.  zlib and bzip2
skip to them, and ADC too, since what it drops are whole sectors; LZFSE
throws at every offset but the start of a run (`DMGDecompressor.cpp:344-353`: what is skipped takes all
input, and the decode behind it finds none).  In `dmg_partition` a decompressor is asked for every
offset, and LZFSE fails there in the same way; `open_disk` has such maps
(`Packed`), and they are not opened (see [Disagreements](#disagreements)).

`hfs_btree` has trees with both forks of one file only: the comparator of the extents
puts the fork before the file, the disk the file before the fork, and with both forks of
two files the descent goes past a match (`OnTheWay` fails; `HFSExtentsOverflowBTree.cpp:66`).
`open_disk` runs without deadlock checking, since `openDisk()` ends: mounted or with an
error.  Its `ListingIsMap` and `MountsFirst` leave out one thing that fails, a read that comes to
nothing while the block size of a map is guessed (`AppleDisk.cpp:47`, the entry looked at is then
the previous one); and `GoodIsMounted` is about files in which everything is there,
which `Good` says by the formats alone, and in which an Apple map that has to be read from a DMG
is not inside an LZFSE run (`EntriesDecodable`).  Of the others some are opened nevertheless, some end
with an error, and those with a table missing are searched without end (see
[Disagreements](#disagreements)); that there is no other endless search or loop is `OpenEnds`.
The readers of a DMG throw if the file cannot be read, as its decompressors do; what `DMGPartition`
makes of a raw run that cannot be read, or comes short, is the matter of `DMGPartition` alone.

What `getXattr()` gives of a resource fork is not looked at (`HFSHighLevelVolume.cpp:274`): a short or
failed read leaves zeros, and the call succeeds.  That is `GetXattrUnread`, and `FileSystem` has to
allow for it (`ReplyUnread`), as it allows for EIO, only when something below has failed.

The kernel of `volume` never passes empty path elements and opens no folder as a file
except to be refused; compressed files have an empty data fork.

### Fairness

Every specification has `WF_vars(Step)`, where `Step` is the disjunction of what the
program does by itself once it is called; that somebody calls `read` is never
assumed.  `openDisk()` is what `main()` does first, and all of it is such a step.  The code justifies this: one thread runs the call to its end, and the
system calls and library functions it uses return, with a result or an error.  Which
of the two is not constrained, so liveness does not lean on reads that succeed.

## The proofs

| theorem | says, for every value of the constants |
|---|---|
| `ZoneTypeCorrect`, `ZoneIteratorsValid`, `ZoneSizeBounded` | `TypeOK`, `IteratorsValid`, `SizeBounded` are invariants of `CacheZone` |
| `ZoneEntriesImmutable`, `ZoneEvictsOnlyToFit`, `ZoneFreshStoreSurvives` | its action properties: no step changes an entry that stays, drops more than it must, or drops the block it has just stored (the first, `EntriesImmutable`, is not checked by a run) |
| `CacheAlwaysRight` | no block of the zone of a `CachedReader` holds a wrong byte |
| `AnswersAreRight` | every answer is the reader's bytes |
| `NothingLeftOut` | a running call lacks exactly what it has still to fetch |
| `TypesKept` | the 32-bit locals stay in range, and no byte is written outside the caller's buffer |
| `CachedIsNotRead` | a call whose remaining blocks are in the zone does not read below, and so cannot fail |
| `ImplementsReader` | nested `CachedReader`s of one zone keep the contract of `Reader` |
| `PartitionAdviceUsable` | the block a `DMGPartition` advises contains the position and lies within the partition |
| `PartitionSuitsCache` | a `DMGPartition` with aligned runs advises what a `CachedReader` over it relies on |
| `PartitionAtRunStart` | `read()` of a `DMGPartition` goes on at the first byte of a run |
| `PartitionImplementsReader` | a `DMGPartition` keeps the contract of `Reader` |
| `RunsInputInOrder` | a codec is given each byte of its run once and in order |
| `RunsNeverShort` | a decompressor does not take a good run for a short one |
| `RunsImplementPartition` | a `DMGPartition` with its decompressors takes the steps of one without |
| `RunsImplementReader` | so the two together keep the contract of `Reader` |
| `ADCRoomForPhrase` | the ADC window always has room for the next phrase, and is never overrun |
| `ADCLookback` | the window ends with the last bytes of the output, as far back as a phrase may copy from |
| `ADCDeliversClaimed` | what an ADC call says it has delivered are the bytes asked for |
| `ZlibResumes` | the kept zlib stream is gone on with only where it is |
| `ZlibReturnsContents` | what `HFSZlibReader::read()` returns is complete and right |
| `ZlibSucceeds` | such a call fails only if a read of the compressed data has |
| `ForkPlaceKnown` | the blocks a read of a fork has counted are those before its place |
| `ForkExtentsAreOwn` | the extents known are the fork's own, without gap or repetition |
| `ForkSucceeds` | a read of an intact fork fails only if something fails below |
| `ForkImplementsReader` | an `HFSFork` keeps the contract of `Reader` |
| `TreeOnTheWay` | no descent of a B-tree goes past a record that matches |
| `TreeInOrder` | the leaves of a search come in the order of the tree, without gap or repetition |
| `SearchImplements` | a search keeps the contract of `RecordSearch`, also where links loop |
| `DiskInvariant` | on every file, what each loop of `openDisk()` knows when it stops in the middle |
| `DiskListingIsMap` | the list of an Apple map or a GPT is the map's, in its order, wherever it is read from and whether its block size is told or guessed |
| `DiskMountsFirst` | what is mounted is the first HFS+ volume, from its first sector to its last |
| `VolumeInvariant` | a walk has found what the file system names by the path behind it, and the reader of a handle is as long as its file |
| `VolumeImplementsFileSystem` | the callbacks keep the contract of `FileSystem` |
| `VolumeListingAgrees` | what `readdir` lists `getattr` finds, and nothing else |
| `VolumeSizesAgree` | the size `getattr` tells is that of the reader `open` makes |
| `VolumeListedHaveValues` | an attribute that `listxattr` names has a value |

By "keeps the contract" the safety part is meant, `SafeSpec` of `Reader`, `RecordSearch` or `FileSystem`:
the initial states and every step.  That calls end is left to the runs.

The theorems rest on the named assumptions of the modules (`KeysAssumption`,
`SizeAssumption`, `AdviceAssumption`, `GeometryAssumption`, ...), which say that sizes are natural
numbers, counts fit an `int32_t`, tables are sequences, an advised block contains the
position it is advised for and lies within the reader, and a node of a tree that is not the header
is an index or a leaf node with at least one record.  Those about files and volumes say what the
formats do:

- `SizesAssumption`, `ImagesAssumption`, `EntriesAssumption`, `GUIDsAssumption`: a map has finitely many entries,
  at places from 1, with natural numbers for sectors; an entry has a signature; no type of a
  GPT but that of HFS+ is written like it.  Nothing is said of how the entries lie, of the
  tables of a DMG or of what its names say.
- `CatalogAssumption`: the parent and the name are a key of the catalog (up to case there may be two, a
  damaged volume), the number of a record is another; a folder has no forks and is no hard link.
- `LinksAssumption`: there is one folder for the files behind hard links at most, with nothing but files, none
  twice (also up to case).
- `AttributesAssumption`: a file has one attribute of a name; the resource fork and the Finder's
  information are not stored as attributes.
- `RequestsAssumption`: the kernel passes no empty path elements, and none that is the suffix alone.

TLC evaluates them on the instances of the runs.  Some theorems have a hypothesis more:

| hypothesis | of | says | in the code |
|---|---|---|---|
| `EndAligned` | all six of `CachedReader` | an advised block ends where a cache block ends or the reader does | true of a `DMGPartition` whose runs start at multiples of 4096 bytes (`PartitionSuitsCache`); where they do not, the theorems fail (`cached_reader_unaligned`) |
| `StartsWithin` | `PartitionAdviceUsable` | no run starts past the end of the partition | nothing in `DMGPartition.cpp` checks it; a sound table has it (`SoundStartsWithin`) |
| `TablesSound`, `StartsAligned` | `PartitionSuitsCache` | runs follow each other without holes and start at multiples of 4096 bytes | neither is checked; images made with chunks of whole blocks have it |
| `TablesSound`, `DiskFaults = {}` | `PartitionAtRunStart`, `PartitionImplementsReader`, `RunsImplementReader` | runs follow each other without holes; the disk gives all or fails | with a short read the theorems fail (see [Disagreements](#disagreements)) |
| `RunsMeasured` | the first three `Runs` theorems | `StartsWithin`, and the lengths of runs are numbers; runs may overlap, leave holes or go past the end | a sound table has it (`SoundMeasured`) |
| `Bzip2Whole` | `RunsImplementPartition`, `RunsImplementReader` | bzip2 runs hold what the table says | without it the refinement fails, since bzip2 claims the whole count |
| `SoundStreams` | `ADCLookback`, `ADCDeliversClaimed` | no phrase copies from before the start of its run | `adc_decompress` does not check it, and would copy from before the buffer |
| `Reachable` | `ADCDeliversClaimed` | a call starts where a half of the window does, or is satisfied before that half is dropped | `DMGDecompressor.cpp:270` clears the offset before it is used; a `CachedReader` reads runs from their start |
| `SoundFiles` | the three of `HFSZlibReader` | every byte is in its run; a stored run is one byte longer than it is read as; a file with stored runs is only read from the start of a run | what the tools write; reads as a `CachedReader` makes them, others fail (`HFSZlibReader.cpp:127`) |
| `Chained` of every fork | `ForkExtentsAreOwn`, `ForkImplementsReader` | each record of a fork in the tree goes on where what is before it ends | `findExtentsForFile` takes a record for missing otherwise; `OwnInv` says it fork by fork, so one damaged fork harms no other |
| `Disjoint` of every fork | `ForkImplementsReader` | no block is in two extents of a fork | a volume block then holds two places of the fork, and there is no one right byte |
| `SoundTrees` | the three of `HFSBTree` | `Layout`: leaves linked in the order of their keys, index records with the first key of their child, the root above all leaves; the last leaf may link back to any. `Agrees`: the comparator does not contradict the order | nothing in `HFSBTree.cpp` checks it; the comparator of the extents violates `Agrees` if the tree has both forks of two files (see [The runs](#the-runs)) |
| `MapReadable`, in the property | `DiskListingIsMap`, `DiskMountsFirst` | the entries are in the file, or in a table that begins with them, at places that are looked at; block 0 tells the right block size, or none, and then the entries follow each other without gaps | `AppleDisk.cpp:54` takes the first gap for the block size, and line 67 looks at 63 places |
| no failed read while the block size is guessed, in the property | the same | | the results of these reads are not looked at (`AppleDisk.cpp:47`) |
| `Good`, in the property | `DiskMountsFirst` | there is an HFS+ volume, embedded in its partition if at all, at an offset that does not wrap; the map can be read, or the names tell the type and the first HFS one is the first volume; in a DMG one table begins where the partition does, and is as long | see [Disagreements](#disagreements): each of these is something the code does not check |
| `SuffixedOnly(Suffixable)` | `VolumeInvariant`, `VolumeImplementsFileSystem`, `VolumeListingAgrees`, `VolumeSizesAgree` | of the calls, `getattr`, `open` and `readlink` are not given names with the suffix of the resource fork | these are looked up under a name that is not there (`volume_named_fork`) |
| `SuffixedOnly({"getxattr", "readdir"})` | `VolumeListedHaveValues` | nor is `listxattr` | it looks the name up as it is, `getxattr` without the suffix, so the two are about two files |
| `CompressedEmpty` | `VolumeSizesAgree` | compressed files have an empty data fork | what the tools write; `HFSHighLevelVolume.cpp:90` keeps a size that is not 0, and the handle gets what is unpacked |

TLC has found the instances of the runs to satisfy `SoundFiles`, `SoundStreams`, `Reachable`,
`Disjoint` and `SoundTrees`, so none of these is empty, and the files of `open_disk` that are
`Good` to be mounted (`GoodIsMounted`); `hfs_fork` has on purpose a fork that is not `Chained`.
The calls of `volume` are those of `SuffixedOnly(Suffixable)`.

`PartitionSuitsCache` is the `AdviceAssumption` and the `EndAligned` of `CachedReader` for the
reader it is most often put over; that composition itself is not a module.
`PartitionAdviceUsable` needs less of the table, and says nothing of the block's alignment nor of
positions before the first run.

*CacheZone.*  `ZoneInv == TypeOK /\ IteratorsValid /\ SizeBounded` is inductive:
`evictCache` takes the front of the age list while the map is too large, so the
bound needs every entry to have a node, and `get` erases through an iterator, so
that needs the iterators to survive removals in front of them.
The lemma `EvictCacheCorrect` carries both through eviction;
`RemoveAtProperties` through a hit.  The action properties need what eviction does exactly:
it drops a prefix of the age list, the shortest that leaves few enough entries
(`EvictCacheMinimal`), and a key whose only node is the last is not in it as long as
the limit is not 0 (`EvictCacheKeepsYoungest`).

*CachedReader.*  `CacheInv` conjoins the zone's integrity, that its keys are blocks,
and `FrameOK` for every frame of the stack.  `CacheIntegrity` alone is not
inductive: that a block about to be stored is right depends on where
`nonCachedRead` is in the advised block (`FetchOK`), that the buffer is right on
which pieces have been skipped (`BufferOK`, `ProgressOK`), and that a read
past the end cannot take a wrapped count for a real one on its distance from the end
(`CountOK`, `BeyondOK`).  Nested calls are no trouble for it because a frame only depends on
the zone through `CacheIntegrity`.  There is one lemma per action group
(`CallInv`, `LoopInv`, `FetchInv`, `EndInv`).  The refinement needs one thing more, that all
calls but the innermost wait for their backing reader (`OuterWaits`), as the contract has it.

*DMGPartition.*  In a sound table the run `upper_bound()` finds for a position is the one that
holds it (`FoundRunHolds`), and the sector after a run is the first of another or the
end of the partition (`RunAfter`).  `PartitionInv` says that a call that has read
something and is not done is where a run starts; a piece that does not end the call goes
up to the end of its run (`AdvanceInv`), so the next one starts there.  For the contract
`FillInv` says that the buffer holds the bytes asked for up to what has been read; the answer
is then the slice (`ReturnsSlice`).

*DMGPartitionRuns.*  `RunsInv` has four parts.  `ReadInv` types the variables of `read()`;
`CallInv` ties a decompressor to the run `read()` is in, with the offset and the count
of the piece; `InputInv` says that what has been read of the run is what the codec has used
and what is left in `m_buf`, where `next_in` points to it, which is `InputInOrder`; `SkipInv`
accounts for what the codec has delivered: what has been skipped and what is in the
buffer.  The refinement needs all four: a result that `readRun()` accepts is the wanted bytes
because of `SkipInv`, of the run at hand because of `CallInv`.

*ADCDecompressor.*  `WindowInv`: when input is wanted the window holds two halves at most, since
it has just moved on from at most a phrase more than that, or was not yet due to.
`LookbackInv`: what it holds is the output from `Base` up to the phrase at hand; `Slide` drops
a half only when there are two, so what a phrase may copy from is left.  That the outputs of
phrases add up (`OutputAddsUp`) is an induction up to the length of the run.  `OutInv`: the byte
delivered next is the one at the offset into the window, counted from `Base`.

*HFSZlibReader.*  `ZlibInv` says `Good` until a read of the compressed data fails, behind which nothing
is promised (see `zlib_reader_faults`).  While `readRun()` runs, the stream has given out the
first bytes of its run up to where the members say (`RunInv`); each frame of the call of itself
has the bytes before its offset skipped (`FramesInv`); between two calls the stream is that of
`m_lastRun`, or the next call is sure to start it anew (`BetweenInv`).  The last is the part that
is not obvious: a stored run changes `m_lastRun` and not the stream, and the next call is saved by
the comparison of offsets.

*HFSFork.*  The extents known are those of the catalog record until a read comes to their end; it
then looks for the blocks behind those it has counted.  `PlaceInv` says these are the
blocks before its place, so what is found is what follows the record and all of it
(`AllMissing`), and a later search finds nothing (`NoneMissing`): `OwnInv`.  A position of the fork
is then one place in one extent (`ByteInExtent`), which with `FillInv` gives the contract.
The sums and concatenations are recursive functions; `UpTo` and `SumExists` of `ProofLemmas`
are what induction over them needs.

*HFSBTree.*  `Plan` is a layout of the tree: the leaves in order, for each node the places of the
leaves below it and its height; that the leaves `Below` a node are those at its places
(`BelowCovered`) is an induction over the height.  The key of an index record is the first one of
the leaf where its child begins, so a comparison with it says on which side of that leaf the matches are
(`Sides`).  `DescendInv`: no match is left of the node, and in an exact search none is right of
it, wherever the bisection ends (`DescendStep`).  `WalkInv`: the walk has been straight through
the places from `q` to `c`, or is back from the last one, and then has read all matches.
`OnTheWay` says the former of leaves instead of places, `InOrder` follows from `Neighbours`,
the contract from `ReturnedInv`.

*OpenDisk.*  `DiskInv` has four parts.  `RouteInv` says which way through the formats led to the state.
`ListInv` is about the list: the loop that lists has the entries of the map at the places it has
looked at, in their order (`ListedUpTo`), which grows by one place with each read (`MapGrows`).  For this
the reads must be in the right places, and that is decided by the loop before it: `GuessInv` says
that as long as the block size is taken for 1 and is not, the entries it has seen are at most the
first one, so that the first gap that it meets is the block size (`GuessRight`); a table of a DMG
begins with the first entry, the file with block 0, and the two are counted differently (`GuessFile`,
`GuessTable`).  `NamesInv` says the same of the elements of a DMG by their names, and that the map is read
instead when the first name tells no type.  From each of these the first entry that is suitable is the one at
the first of the places with an HFS type (`ListedFirst`), because a list in the order of the places has
nothing suitable before it.  `ChosenInv` follows that offset through the search for the table, or to the
`SubReader`, and through the embedded volume, whose offset does not wrap (`EmbeddedTyped`).

`Good` asks for a table that is exactly as long as the partition.  A longer one would be enough to mount it,
but what is mounted would then be more than the volume: `DMGDisk.cpp:249` makes the reader of the
whole table, whatever the list says of the partition.

*HFSHighLevelVolume.*  The promise of `FileSystem` is about whole paths, the code takes one element after the other,
asks for one record each time and keeps no more than it.  `WalkInv` says that after `n`
elements `last` is the only record that the file system has `Along` the path at `n - 1`, and that there
were no two anywhere before it; so the walk ends with what is `Named`, with nothing (behind an
element that names nothing there is nothing, `NothingBehind`) or with two (`Ambiguous`).  The hard link is
resolved at the end, in one folder found when the volume was opened; that this is the folder the
file system means is `LinkIs`.  `openFile()` walks twice for a compressed file: `StageInv` keeps what the first
walk found for the second one.  With that each callback answers what is promised (the lemmas `Answers...`, one for
each callback, and `Replies`), and the refinement and the three agreements follow: two calls about
one path agree because each agrees with the volume.  `ListingAgrees` needs that what
`listDirectory()` does to a name is undone by `stat()`.

Not proved, only model-checked: liveness (`CallsEnd`, `GoodIsMounted`, `OpenEnds`, and the fairness in `ReaderContract`,
`ImplementsPartition`, `SearchContract` and `FileSystemContract`).  The prover has no rule for `WF` and
`ENABLED` that could be used here.

## Disagreements

1. **A block that ends inside a cache block** (`cached_reader_unaligned`,
   `CachedReader.cpp:129`): the rest of the stored block was never written, and is
   served later.
2. **A zlib run after one that failed** (`zlib_reader_faults`,
   `HFSZlibReader.cpp:112`): the test for going on with the kept stream compares members
   the failed call left behind, and a good run is read with the other's stream.
3. **The name of the resource fork** (`volume_named_fork`, `HFSHighLevelVolume.cpp:70`):
   `README.md:59` offers `/original/filename#..namedfork#rsrc`, but 7 of the 17
   characters are taken off, and the file is not found.

Two more come with a small change of a run:

- *A short read of a raw run* (`DMGPartition.cpp:83`; `DiskFaults = {"short"}` in
  `MCDMGPartition.cfg`): the position within the run is forgotten, the read goes on at
  its start.
- *A bzip2 stream that ends early* (`DMGDecompressor.cpp:208`; `{0, 1}` for bzip2 in
  `MCStreamsOf`): the whole count is claimed, and `ImplementsPartition` fails; zlib returns what
  there was.

Opening a disk has some that are part of the model, so that the properties of `open_disk`
exclude them or the files in question are not `Good`:

- `DMGDisk.cpp:228`: the search for a partition's table has no end when none has its
  first sector; the model ends it after the last ID, without a volume.
- `DMGDisk.cpp:131`: the place of an element in the XML is taken for its ID; the two
  agree in the images Apple's tools make, and where they do not, the partition has another
  one's table, or an offset that was never set.
- `DMGDisk.cpp:139`: the map is read only if the *first* name has no type; a later one
  without a type is listed with none.
- `DMGDisk.cpp:153`: the type is looked for behind the first parenthesis, so a
  volume with one in its name has a wrong type.
- `DMGDisk.cpp:269`: the map of a DMG is read without the offset of the data fork that
  `readerForPartition()` adds, and without the `CachedReader` that it puts over a
  `DMGPartition`.  So if the names of the elements tell no types, and the entries of the Apple map are in
  an LZFSE run, the second entry cannot be decoded and the disk is not opened, although everything is there
  and no read of the file fails, and `README.md:9` names DMG files with an Apple Disk Image
  among the supported types: `Good ~> pc = "mounted" \/ faults # {}`, which is `GoodIsMounted`
  without `EntriesDecodable`, fails.
- `AppleDisk.cpp:47`: the results of the reads that guess the block size are not looked at.
- `AppleDisk.cpp:67`: 63 places are looked at, whatever `dpme_map_entries` says.
- `GPTDisk.cpp:47`: `setw` holds for the next field only, so a third group with leading zeros
  loses them: an empty entry is never recognised, and is listed with a type no one asks for.
- `GPTDisk.cpp:71` and `75`: a DMG without table 1 has no reader to load from, and a read of
  -1 is a huge number of entries.
- `HFSVolume.cpp:54`: offset and length of an embedded volume are 32-bit products.

## What is not modelled

- An index node that points at itself or up (`HFSBTree.cpp:120`): the search recurses
  without end, only the links of leaves are checked for loops.
- ICU's full case folding (`unichar.cpp:35`), which makes names with a sharp s and with a
  double one equal: in the model letters differ by capitals only.
- Parsing of records (`ResourceFork`, `MacBinary`, plists, base64), conversions
  (`unichar`, `be.h`, `stat_xlate`): no state, and no property about them.
- `main-hdiutil.cpp` and the command line of `main-fuse.cpp`: process glue.
- `MemoryReader`: clamping around `memcpy`.  `FileReader` and `SubReader` are windows in
  `PartitionedDisk`, and part of what "the reader below" may do in the modules above;
  `SubReader::adviseOptimalBlock` is left out.
- Reads of `DMGDisk` beyond its trailer and its XML, and the 32 bits in which it keeps the offset of
  the data fork (`DMGDisk.cpp:239`).
- Two outcomes are left out of a model and named here: the assertion of the LZFSE
  skip (`DMGDecompressor.cpp:350`), taken for a failure, and the one of
  `HFSFork.cpp:126` after a first read that returns -1, taken for a failed read as
  in a build without assertions.
- `DMGPartition` takes the disk's -1 (`DMGPartition.cpp:87`) only when its constant
  `DiskFaults` has "error"; no run does, since it fails as short reads do.

## The plan

In this order; the core comes first because everything reads through it.

| step | module | composes | properties |
|---|---|---|---|
| done | `CacheZone`, `CachedReader`, `Reader` | zone, nested readers | above |
| done | `DMGPartition`, `DMGDecompressor`, `ADCDecompressor` | `DMGPartitionRuns` composes the first two | above |
| done | `HFSZlibReader`, `HFSFork` | fork and overflow records | above |
| done | `HFSBTree`, `RecordSearch` | | above |
| done | `HFSCatalogBTree`, `HFSHighLevelVolume`, `FileSystem` | `RecordSearch` as the catalog's search | above |
| done | `PartitionedDisk`, `AppleDisk`, `GPTDisk`, `DMGDisk`, `HFSVolume` | `OpenDisk` | above |
| 1 | a `CachedReader` over a `DMGPartition` | both | `PartitionSuitsCache` discharges `AdviceAssumption` and `EndAligned` |
| 2 | `ResourceFork` and the run table `HFSZlibReader` parses from it | both | every run lies within its resource |

A module has one run, and one more where the code disagrees with what it says of
itself.
