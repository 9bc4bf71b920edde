CONSTANTS
  NULL = NULL
  SizeBits = 6
  Inputs <- NoneOrTwo
  PartLength <- Lengths
  MAX_FILENAME_LENGTH = 8
  ChunkSizes <- Sizes
  MaxData = 36
  MaxWords = 3
  MaxFaults = 2

SPECIFICATION Spec

INVARIANTS
  TypeOK
  NothingIsLeftBehind
  ArraysHoldWhatWasWritten
  ObjectFileIsTheImage
  OutputsMatchResults
PROPERTIES
  ImplementsBatch
  MainEnds
