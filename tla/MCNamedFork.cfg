SPECIFICATION Spec
CONSTANTS
  Volumes <- MCVolumes
  Requests <- NamedForkRequests
  MaxHandles = 1
INVARIANT
  NamedForksThere
