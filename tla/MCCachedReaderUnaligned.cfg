SPECIFICATION Spec
CONSTANTS
  partition = partition
  Tags <- MCTags
  Length <- MCLength
  Below <- MCBelow
  Advise <- MCAdvise
  Garbage = Garbage
  BlockSize = 2
  HalfRange = 8
  Offsets = {0, 2}
  Counts = {2}
  Limits = {3}
  AgeBound = 4
  NestedBound = 0
INVARIANTS
  ReturnsContents
