SPECIFICATION DiskSpec
CONSTANTS
  Images <- MCImages
  MapSlots = 8
  GPTSectors = 2
  Wrap = 64
  MaxFaults = 1
INVARIANTS
  ListingIsMap
  MountsFirst
PROPERTIES
  GoodIsMounted
  OpenEnds
CHECK_DEADLOCK FALSE
