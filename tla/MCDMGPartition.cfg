SPECIFICATION AllSpec
CONSTANTS
  Partition = Partition
  Garbage = Garbage
  Tables <- MCTables
  SectorCount = 4
  SectorSize = 2
  BlockSize = 4
  DiskFaults = {}
  Offsets = {0, 1, 2, 3, 7, 8}
  Counts = {0, 1, 3, 9}
  StreamsOf <- MCStreamsOf
  InLen = 3
  ChunkSize = 2
  WasteSize = 2
INVARIANTS
  AtRunStart
  AdviceUsable
  InputInOrder
  NeverShort
PROPERTIES
  ImplementsPartition
  ReaderContract
