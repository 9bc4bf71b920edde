CONSTANTS
  ByteBits = 3
  AddressBits = 8
  SourceLines <- LargestLines
  MaxLines = 2
  MaxFaults = 0

SPECIFICATION Spec

INVARIANTS
  LargestNumberIsSupported
