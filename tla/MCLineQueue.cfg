CONSTANTS
  n1 = n1
  n2 = n2
  n3 = n3
  n4 = n4
  A = A
  B = B
  NoName = NoName
  Nodes <- FourNodes
  NULL = NULL
  MaxLines = 4
  MaxFaults = 2
  Sources <- SourceFiles

SPECIFICATION SourceSpec

INVARIANTS
  TypeOK
  PointersAreLive
  EverythingIsFreed
  SymbolsAreLive
  SymbolsAreFreed
  QueueInvariant
  SymbolInvariant
PROPERTIES
  ImplementsFifo
  IsFreed
  ImplementsTable
  TableIsFreed
