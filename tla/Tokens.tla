------------------------------- MODULE Tokens -------------------------------
(***************************************************************************)
(* The operands of a line, as handleToken delivers them (assembly_line.c), *)
(* and the conversions of an operand to a register and to a number.        *)
(*                                                                         *)
(* A token is kept by its shape, its number and its text:                  *)
(*   reg      $n, without leading zeros         padreg  $ and a padded n    *)
(*   dollar   $ alone                           badreg  $ and other text    *)
(*   num      text strtol converts to n         name    letters and digits  *)
(*   str      n characters between quotes       text    anything else       *)
(*   empty    no character at all                                          *)
(***************************************************************************)
EXTENDS BitUtils

TokenKinds ==
  {"reg", "padreg", "dollar", "badreg", "num", "name", "str", "text", "empty"}

Token == {tok \in [k : TokenKinds, n : Int, s : STRING] : tok.k = "str" => tok.n \in Nat}

NoText == ""

(* A fact that the provers lack. *)
ASSUME TextAssumption == NoText \in STRING

Name(str) == [k |-> "name", n |-> 0, s |-> str]
Empty     == [k |-> "empty", n |-> 0, s |-> NoText]

(* The first character is '$'. *)
IsDollar(tok) == tok.k \in {"reg", "padreg", "dollar", "badreg"}

-----------------------------------------------------------------------------

(***************************************************************************)
(* The register an operand names, or -1.  Register 32 passes the range     *)
(* check.  For $ alone sscanf meets the end of its input and returns EOF,  *)
(* which the check for 0 lets through, and the number read is              *)
(* uninitialized: the n of the token stands for what is found there.       *)
(***************************************************************************)
registerFromString(tok) ==
  IF /\ tok.k \in {"reg", "padreg", "dollar"}
     /\ tok.n \in 0 .. 32
     /\ tok.k = "padreg" => tok.n = 0
  THEN tok.n
  ELSE -1

(* strtol: the number of a token, clamped to a long; 0 if it has none. *)
Clamped(n) == IF n > LongMax THEN LongMax ELSE IF n < LongMin THEN LongMin ELSE n
NumberOf(tok) == IF tok.k = "num" THEN Clamped(tok.n) ELSE 0

(* strtol sets errno to ERANGE for this token; nothing ever clears errno. *)
SetsErange(tok) == tok.k = "num" /\ tok.n # Clamped(tok.n)

(* So does the library's sscanf, for a register with too many digits. *)
RegisterSetsErange(tok) == tok.k \in {"reg", "padreg"} /\ tok.n > LongMax

(* numberFromString that leaves no bit for the sign. *)
numberFromStringUnsigned(tok, number_of_bits, erange) ==
  IF tok.k # "num"
  THEN "ERR_INVALID_NUMBER_TOKEN"
  ELSE IF number_fits_in_bits(NumberOf(tok), number_of_bits)
       THEN "SUCCESS" ELSE "ERR_INVALID_NUMBER_SIZE"

(***************************************************************************)
(* numberFromString: the error it returns; the number it stores is         *)
(* NumberOf.  erange says that errno is ERANGE before the call.            *)
(***************************************************************************)
numberFromString(tok, number_of_bits, erange) ==
  IF tok.k # "num"
  THEN "ERR_INVALID_NUMBER_TOKEN"
  ELSE IF \/ /\ NumberOf(tok) \in {LongMin, LongMax}
             /\ erange \/ SetsErange(tok)
          \/ ~ number_fits_in_bits(NumberOf(tok), number_of_bits - 1)
       THEN "ERR_INVALID_NUMBER_SIZE"
       ELSE "SUCCESS"
=============================================================================
