CONSTANTS
  ByteBits = 3
  AddressBits = 8
  SourceLines <- OperandLines
  MaxLines = 2
  MaxFaults = 2

SPECIFICATION Spec

INVARIANTS
  AcceptsExactlyCleanSource
  AcceptanceInvariant
  ImmediatesAreEncoded
  QueueHasNoHole
  AddressInvariant
  ReferenceInvariant
PROPERTIES
  ImplementsAssembler
  Terminates
