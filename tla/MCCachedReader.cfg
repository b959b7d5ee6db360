SPECIFICATION Spec
CONSTANTS
  catalog = catalog
  overflow = overflow
  Tags <- MCTags
  Length <- MCLength
  Below <- MCBelow
  Advise <- MCAdvise
  Garbage = Garbage
  BlockSize = 2
  HalfRange = 8
  Offsets = {0, 1, 3, 19}
  Counts = {1, 3, 5}
  Limits = {0, 1, 2, 3}
  AgeBound = 3
  NestedBound = 1
INVARIANTS
  TypeOK
  CacheIntegrity
  ReturnsContents
  FilledUpToLast
PROPERTIES
  NoFetchWhenCached
  ReaderContract
