CONSTANTS
  ByteBits = 3
  AddressBits = 8
  SourceLines <- NumberLines
  MaxLines = 2
  MaxFaults = 0

SPECIFICATION Spec

INVARIANTS
  SignedNumbersAreSupported
