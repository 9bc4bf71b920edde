CONSTANTS
  ByteBits = 3
  AddressBits = 8
  SourceLines <- RegisterLines
  MaxLines = 2
  MaxFaults = 0

SPECIFICATION Spec

INVARIANTS
  RegistersAreEncoded
