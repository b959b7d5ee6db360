SPECIFICATION Spec
CONSTANTS
  NullID = NullID
  Garbage = Garbage
  Forks <- MCForks
  MaxInline = 2
  BlockSize = 2
  Offsets = {0, 1, 3, 6, 9, 12, 14}
  Counts = {0, 1, 4, 7, 14}
INVARIANTS
  PlaceKnown
  ExtentsAreOwn
  Succeeds
PROPERTY
  ReaderContract
