SPECIFICATION Spec
CONSTANTS
  Files <- MCFiles
  Requests <- MCRequests
  RunLength = 4
  WasteSize = 2
  InputSize = 2
  Faulty <- MCFaulty
  Garbage = Garbage
INVARIANTS
  ResumesUndisturbed
  ReturnsContents
  Succeeds
PROPERTY
  CallsEnd
