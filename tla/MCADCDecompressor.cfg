SPECIFICATION ADCSpec
CONSTANTS
  Streams <- MCStreams
  Requests <- MCRequests
  W = 3
  MaxChunk = 2
  ReadSize = 7
  Own = Own
  Garbage = Garbage
INVARIANTS
  WindowHoldsLookback
  RoomForPhrase
  DeliversClaimed
PROPERTY
  CallsEnd
