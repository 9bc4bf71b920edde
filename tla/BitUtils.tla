------------------------------ MODULE BitUtils ------------------------------
(***************************************************************************)
(* bit_utils.c and the integer widths the assembler depends on.  Every     *)
(* width is a multiple of the byte, so that an instance can be scaled down *)
(* for model checking: the program has ByteBits = 8, which makes a long of *)
(* 32 bits (the 32-bit target the README of the repository names), a 16-bit *)
(* immediate field, and AddressBits = 25.                                  *)
(***************************************************************************)
EXTENDS PowersOfTwo

CONSTANTS
  ByteBits,     \* bits of a byte: 8 in the program
  AddressBits   \* bits of JInstruction.address: 25 in the program

LongBits  == 4 * ByteBits      \* a long, and the int a data directive stores
ImmedBits == 2 * ByteBits      \* IInstruction.immed
RegBits   == 5                 \* rs, rt, rd and funct

LongMax == TwoTo[LongBits - 1] - 1
LongMin == -(TwoTo[LongBits - 1])

ASSUME WidthAssumption == ByteBits \in Nat \ {0} /\ AddressBits \in Nat \ {0}

-----------------------------------------------------------------------------

(***************************************************************************)
(* "Check if the number can fit as a signed integer in a specific number   *)
(* of bits".  The mask keeps the bits from number_of_bits up, so the test  *)
(* is on the magnitude, taken as an unsigned long.  A negative number is   *)
(* replaced by -number + 1, as in the source.                              *)
(***************************************************************************)
number_fits_in_bits(number, number_of_bits) ==
  LET magnitude == IF number < 0 THEN -number + 1 ELSE number
  IN  magnitude % TwoTo[LongBits] < TwoTo[number_of_bits]

(* An assignment to an unsigned bit-field of `width' bits, when the field is *)
(* wide enough for every value: what is lost if the field is not truncated.  *)
BitFieldUnbounded(value, width) == value

(* An assignment to an unsigned bit-field of `width' bits. *)
BitField(value, width) == value % TwoTo[width]

(* The number that a field of `width' bits holds in two's complement: what *)
(* the machine that runs the program reads in an immediate field.          *)
SignExtend(field, width) ==
  IF field < TwoTo[width - 1] THEN field ELSE field - TwoTo[width]
=============================================================================
