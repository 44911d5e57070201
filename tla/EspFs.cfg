SPECIFICATION Spec
CONSTANTS
  WindowBits = 4
  LookaheadBits = 3
  InputBuffer = 16
  Listings <- MCListings
  Inputs <- MCInputs
  Names <- MCNames
  ReadSizes <- MCReadSizes
  Offsets <- MCOffsets
  Chunks <- MCChunks
  BufferSizes <- MCBufferSizes
INVARIANTS
  TypeOK
  RoundTrip
  ReadIsFile
PROPERTIES
  ProgramsEnd
CHECK_DEADLOCK FALSE
