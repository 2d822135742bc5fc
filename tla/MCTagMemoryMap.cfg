SPECIFICATION Spec
CONSTANTS
  ADDRINT <- MCADDRINT
  low32 <- MClow32
  WrittenRange <- MCRange
  ChangedRange <- MCChanged
  MaxLength = 8
INVARIANTS
  TypeOK
  OneEntryPerByte
  ListingDelimited
  DumpIsAccurate
PROPERTIES
  ImplementsTagUpdate
  DumpEnds
CHECK_DEADLOCK FALSE
