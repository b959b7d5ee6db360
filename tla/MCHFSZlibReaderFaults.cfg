SPECIFICATION Spec
CONSTANTS
  Files <- MCFaulty
  Requests <- MCRequests
  RunLength = 4
  WasteSize = 2
  InputSize = 2
  Faulty <- MCFaulty
  Garbage = Garbage
INVARIANT
  ResumesInPlace
