SPECIFICATION Spec
CONSTANTS
  Volumes <- MCVolumes
  Requests <- MCRequests
  MaxHandles = 1
INVARIANTS
  ListingAgrees
  SizesAgree
  ListedHaveValues
PROPERTY
  FileSystemContract
