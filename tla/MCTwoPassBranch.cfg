CONSTANTS
  ByteBits = 3
  AddressBits = 8
  SourceLines <- FarLines
  MaxLines = 3
  MaxFaults = 0

SPECIFICATION Spec

INVARIANTS
  BranchesReachTheirLabels
