CONSTANTS
  ByteBits = 3
  AddressBits = 8
  SourceLines <- SymbolLines
  MaxLines = 4
  MaxFaults = 0

SPECIFICATION Spec

INVARIANTS
  TypeOK
  LabelsPointAtTheirLines
  CodeIsWhereItWasCounted
  ReferencesReachTheirLabels
  ExternalUsesAreListed
  EntriesAreListed
PROPERTIES
  SymbolsStayPut
  ImplementsAssembler
  Terminates
