CONSTANTS
  ByteBits = 3
  AddressBits = 8
  SourceLines <- AllocatingLines
  MaxLines = 2
  MaxFaults = 1

SPECIFICATION Spec

INVARIANTS
  MemoryErrorsAreFatal
