-------------------------- MODULE AcceptanceProofs --------------------------
(***************************************************************************)
(* Proof of which sources are assembled, and into what: those of which no  *)
(* line is at fault, whatever the first pass found out on one line and the *)
(* second on another, into the words, bytes and listings that their text   *)
(* determines.  Only the largest number is left to what errno happens to   *)
(* be.  Together: the two passes implement the module Assembler.           *)
(***************************************************************************)
EXTENDS ReferenceProofs

-----------------------------------------------------------------------------
(***************************************************************************)
(* Numbers.                                                                *)
(***************************************************************************)
LEMMA LongBounds ==
  ASSUME NEW w \in Nat \ {0}, w <= LongBits
  PROVE  /\ TwoTo[w - 1] \in Nat /\ 1 <= TwoTo[w - 1] /\ TwoTo[w - 1] <= TwoTo[LongBits - 1]
         /\ TwoTo[LongBits - 1] \in Nat /\ 4 <= TwoTo[LongBits - 1]
         /\ TwoTo[LongBits] = 2 * TwoTo[LongBits - 1]
         /\ LongMax = TwoTo[LongBits - 1] - 1 /\ LongMin = -(TwoTo[LongBits - 1])
<1>1. LongBits \in Nat /\ LongBits >= 4
  BY Widths
<1>2. LongBits - 1 \in Nat /\ w - 1 \in Nat /\ (LongBits - 1) + 1 = LongBits
  BY <1>1
<1>3. TwoTo[w - 1] \in Nat /\ 1 <= TwoTo[w - 1] /\ TwoTo[LongBits - 1] \in Nat
      /\ TwoTo[LongBits] = 2 * TwoTo[LongBits - 1]
  BY <1>2, TwoToPositive, TwoToDefined
<1>4. TwoTo[w - 1] <= TwoTo[LongBits - 1]
  <2>1. CASE w = LongBits
    BY <1>3, <2>1
  <2>2. CASE w < LongBits
    <3>1. 2 * TwoTo[w - 1] <= TwoTo[LongBits - 1]
      BY <1>1, <1>2, <2>2, TwoToGrows
    <3> QED BY <1>3, <3>1
  <2> QED BY <1>1, <2>1, <2>2
<1>5. 4 <= TwoTo[LongBits - 1]
  <2>1. TwoTo[0] = 1 /\ 0 < 1 /\ 1 < LongBits - 1
    BY <1>1, TwoToDefined
  <2>2. 2 * TwoTo[0] <= TwoTo[1] /\ 2 * TwoTo[1] <= TwoTo[LongBits - 1]
    BY <1>2, <2>1, TwoToGrows
  <2> QED BY <1>3, <2>1, <2>2, TwoToPositive
<1> QED BY <1>3, <1>4, <1>5 DEF LongMax, LongMin

(* What the magnitude test lets through. *)
LEMMA FitsExactly ==
  ASSUME NEW w \in Nat \ {0}, w <= LongBits, NEW v \in LongMin .. LongMax
  PROVE  number_fits_in_bits(v, w - 1) <=> v \in AcceptedNumbers(w)
<1> DEFINE big   == TwoTo[LongBits - 1]
           small == TwoTo[w - 1]
           magnitude == IF v < 0 THEN -v + 1 ELSE v
<1>1. /\ small \in Nat /\ 1 <= small /\ small <= big /\ big \in Nat /\ 4 <= big
      /\ TwoTo[LongBits] = 2 * big /\ LongMax = big - 1 /\ LongMin = -big
  BY LongBounds
<1>2. AcceptedNumbers(w) = {0} \cup (2 - small .. small - 1)
  BY DEF AcceptedNumbers
<1>3. number_fits_in_bits(v, w - 1) <=> magnitude % TwoTo[LongBits] < small
  BY DEF number_fits_in_bits
<1> HIDE DEF big, small
<1>4. v \in Int /\ -big <= v /\ v <= big - 1
  BY <1>1
<1>5. magnitude \in 0 .. 2 * big - 1
  BY <1>1, <1>4
<1>6. magnitude % (2 * big) = magnitude
  <2> HIDE DEF magnitude
  <2> QED BY <1>1, <1>5
<1>7. magnitude < small <=> v \in {0} \cup (2 - small .. small - 1)
  BY <1>1, <1>4
<1> QED BY <1>1, <1>2, <1>3, <1>6, <1>7

(* A number operand that is out of the range of a long is clamped, and never *)
(* accepted; one in the range is accepted if it fits, but for the largest.   *)
LEMMA NumberAccepted ==
  ASSUME NEW tok \in Token, NEW w \in Nat \ {0}, w <= LongBits, NEW flag \in BOOLEAN
  PROVE  /\ numberFromString(tok, w, flag) = "SUCCESS" =>
              tok.k = "num" /\ tok.n \in AcceptedNumbers(w)
         /\ tok.k = "num" /\ tok.n \in AcceptedNumbers(w) /\ tok.n # LongMax =>
              numberFromString(tok, w, flag) = "SUCCESS"
<1> DEFINE big   == TwoTo[LongBits - 1]
           small == TwoTo[w - 1]
<1>1. /\ small \in Nat /\ 1 <= small /\ small <= big /\ big \in Nat /\ 4 <= big
      /\ LongMax = big - 1 /\ LongMin = -big
  BY LongBounds
<1>2. tok.n \in Int
  BY DEF Token
<1>3. NumberOf(tok) \in LongMin .. LongMax
  BY NumberInLong
<1>4. number_fits_in_bits(NumberOf(tok), w - 1) <=> NumberOf(tok) \in AcceptedNumbers(w)
  BY <1>3, FitsExactly
<1>5. AcceptedNumbers(w) = {0} \cup (2 - small .. small - 1)
  BY DEF AcceptedNumbers
<1> HIDE DEF big, small
<1>6. ASSUME tok.k = "num"
      PROVE  /\ NumberOf(tok) = Clamped(tok.n)
             /\ NumberOf(tok) = tok.n \/ (SetsErange(tok) /\ NumberOf(tok) \in {LongMin, LongMax})
  BY <1>2, <1>6 DEF NumberOf, SetsErange, Clamped
<1>7. ASSUME numberFromString(tok, w, flag) = "SUCCESS"
      PROVE  tok.k = "num" /\ tok.n \in AcceptedNumbers(w)
  <2>1. tok.k = "num" /\ number_fits_in_bits(NumberOf(tok), w - 1)
        /\ ~ (NumberOf(tok) \in {LongMin, LongMax} /\ (flag \/ SetsErange(tok)))
    BY <1>7 DEF numberFromString
  <2> QED BY <1>4, <1>6, <2>1
<1>8. ASSUME tok.k = "num", tok.n \in AcceptedNumbers(w), tok.n # LongMax
      PROVE  numberFromString(tok, w, flag) = "SUCCESS"
  <2>1. LongMin < tok.n /\ tok.n < LongMax
    BY <1>1, <1>2, <1>5, <1>8
  <2>2. Clamped(tok.n) = tok.n
    BY <1>1, <1>2, <2>1 DEF Clamped
  <2>3. NumberOf(tok) = tok.n /\ number_fits_in_bits(NumberOf(tok), w - 1)
    BY <1>4, <1>6, <1>8, <2>2
  <2>4. NumberOf(tok) \notin {LongMin, LongMax}
    BY <1>1, <1>2, <2>1, <2>3
  <2> QED BY <1>8, <2>3, <2>4 DEF numberFromString
<1> QED BY <1>7, <1>8
-----------------------------------------------------------------------------
(***************************************************************************)
(* The operands of one line, as the decoders and as the reference see them.*)
(***************************************************************************)
LargestIn(raw) ==
  \E k \in DOMAIN raw.args : raw.args[k].k = "num" /\ raw.args[k].n = LongMax

LEMMA FirstErrorExactly ==
  ASSUME NEW results, NEW n \in Nat, DOMAIN results = 1 .. n
  PROVE  FirstError(results) = "SUCCESS" <=> \A i \in 1 .. n : results[i] = "SUCCESS"
<1>1. FirstError(results) = "SUCCESS" => \A i \in 1 .. n : results[i] = "SUCCESS"
  BY NoFirstError
<1>2. ASSUME \A i \in 1 .. n : results[i] = "SUCCESS"
      PROVE  FirstError(results) = "SUCCESS"
  <2>1. {i \in DOMAIN results : results[i] # "SUCCESS"} = {}
    BY <1>2
  <2> QED BY <2>1 DEF FirstError, FirstBad
<1> QED BY <1>1, <1>2

LEMMA ChunkBits ==
  ASSUME NEW directive
  PROVE  /\ ChunkSize(directive) * ByteBits \in Nat \ {0}
         /\ ChunkSize(directive) * ByteBits <= LongBits
BY Widths DEF ChunkSize, LongBits

(* decodeDataLine accepts what DataOperandsFit describes. *)
LEMMA DataExactly ==
  ASSUME NEW raw \in RawLine, NEW line, line.opcode_name = raw.command.name,
         line.args = raw.args, NEW flag \in BOOLEAN
  PROVE  /\ DataError(line, flag, {}) = "SUCCESS" => DataOperandsFit(raw)
         /\ DataOperandsFit(raw) /\ ~ LargestIn(raw) => DataError(line, flag, {}) = "SUCCESS"
<1> DEFINE bits == ChunkSize(raw.command.name) * ByteBits
           results == NumberResults(line, flag)
<1>1. raw.args \in Seq(Token) /\ Len(raw.args) \in Nat /\ DOMAIN raw.args = 1 .. Len(raw.args)
  BY DEF RawLine
<1>2. bits \in Nat \ {0} /\ bits <= LongBits
  BY ChunkBits
<1>3. CASE raw.command.name = "asciz"
  BY <1>3 DEF DataError, DataOperandsFit
<1>4. CASE raw.command.name # "asciz"
  <2>1. /\ DataError(line, flag, {}) = "SUCCESS" <=>
             raw.args # <<>> /\ FirstError(results) = "SUCCESS"
    BY <1>4 DEF DataError
  <2>2. /\ DOMAIN results = 1 .. Len(raw.args)
        /\ \A i \in 1 .. Len(raw.args) : results[i] = numberFromString(raw.args[i], bits, flag)
    BY <1>1 DEF NumberResults
  <2>3. FirstError(results) = "SUCCESS" <=> \A i \in 1 .. Len(raw.args) : results[i] = "SUCCESS"
    BY <1>1, <2>2, FirstErrorExactly
  <2>4. DataOperandsFit(raw) <=>
          /\ raw.args # <<>>
          /\ \A i \in 1 .. Len(raw.args) :
               raw.args[i].k = "num" /\ raw.args[i].n \in AcceptedNumbers(bits)
    BY <1>1, <1>4 DEF DataOperandsFit
  <2> HIDE DEF bits, results
  <2>5. ASSUME NEW i \in 1 .. Len(raw.args)
        PROVE  /\ numberFromString(raw.args[i], bits, flag) = "SUCCESS" =>
                    raw.args[i].k = "num" /\ raw.args[i].n \in AcceptedNumbers(bits)
               /\ /\ raw.args[i].k = "num" /\ raw.args[i].n \in AcceptedNumbers(bits)
                  /\ raw.args[i].n # LongMax
                  => numberFromString(raw.args[i], bits, flag) = "SUCCESS"
    <3>1. raw.args[i] \in Token
      BY <1>1
    <3> QED BY <1>2, <3>1, NumberAccepted
  <2>6. ~ LargestIn(raw) =>
          \A i \in 1 .. Len(raw.args) : raw.args[i].k = "num" => raw.args[i].n # LongMax
    BY <1>1 DEF LargestIn
  <2> QED BY <2>1, <2>2, <2>3, <2>4, <2>5, <2>6
<1> QED BY <1>3, <1>4

(* A label can only be the last operand. *)
LEMMA LabelIsLast ==
  ASSUME NEW line \in AssemblyLine
  PROVE  LET format == OperandFormat(line)
         IN  /\ format \in Seq({"register", "number", "label"}) /\ Len(format) \in Nat
             /\ LabelOperand(line) # 0 => LabelOperand(line) = Len(format)
             /\ \A k \in 1 .. Len(format) : format[k] = "label" <=> LabelOperand(line) = k
<1> DEFINE format == OperandFormat(line)
<1>1. format \in Seq({"register", "number", "label"}) /\ Len(format) \in Nat
  BY OperandFormatType
<1>2. \/ format \in {<<"register", "register", "label">>, <<"register", "number", "register">>,
                     <<>>, <<"label">>}
      \/ \E n \in 1 .. 3 : format = Registers(n)
  BY DEF OperandFormat
<1>3. LabelOperand(line) = IF format # <<>> /\ format[Len(format)] = "label" THEN Len(format) ELSE 0
  BY DEF LabelOperand
<1> HIDE DEF format
<1>4. \A k \in 1 .. Len(format) : format[k] = "label" => k = Len(format)
  <2>1. CASE format \in {<<"register", "register", "label">>, <<"register", "number", "register">>,
                         <<>>, <<"label">>}
    <3>1. CASE format = <<"register", "register", "label">>
      BY <3>1
    <3>2. CASE format = <<"register", "number", "register">>
      BY <3>2
    <3>3. CASE format = <<>>
      BY <3>3
    <3>4. CASE format = <<"label">>
      BY <3>4
    <3> QED BY <2>1, <3>1, <3>2, <3>3, <3>4
  <2>2. CASE \E n \in 1 .. 3 : format = Registers(n)
    <3>1. PICK n \in 1 .. 3 : format = [i \in 1 .. n |-> "register"]
      BY <2>2 DEF Registers
    <3> QED BY <3>1
  <2> QED BY <1>2, <2>1, <2>2
<1>5. format # <<>> => Len(format) # 0
  BY <1>1
<1>6. \A k \in 1 .. Len(format) : format[k] = "label" <=> LabelOperand(line) = k
  BY <1>1, <1>3, <1>4
<1> QED BY <1>1, <1>3, <1>6 DEF format

(* The operands that are no label, as the decoder and the reference see them. *)
OperandFits(tok, kind) ==
  CASE kind = "register" -> registerFromString(tok) # -1
    [] kind = "number"   -> tok.k = "num" /\ tok.n \in AcceptedNumbers(ImmedBits)
    [] OTHER             -> TRUE

LEMMA OperandExactly ==
  ASSUME NEW tok \in Token, NEW kind \in {"register", "number", "label"}, NEW flag \in BOOLEAN
  PROVE  /\ OperandError(kind, tok, flag) = "SUCCESS" => OperandFits(tok, kind)
         /\ OperandFits(tok, kind) /\ (tok.k = "num" => tok.n # LongMax) =>
              OperandError(kind, tok, flag) = "SUCCESS"
<1>1. ImmedBits \in Nat \ {0} /\ ImmedBits <= LongBits
  BY Widths DEF ImmedBits, LongBits
<1>2. CASE kind = "number"
  BY <1>1, <1>2, NumberAccepted DEF OperandError, OperandFits
<1>3. CASE kind # "number"
  BY <1>3 DEF OperandError, OperandFits
<1> QED BY <1>2, <1>3

LEMMA OperandsExactly ==
  ASSUME NEW line \in AssemblyLine, NEW flag \in BOOLEAN
  PROVE  LET format == OperandFormat(line)
             fit == /\ Len(line.args) = Len(format)
                    /\ \A k \in 1 .. Len(format) : OperandFits(line.args[k], format[k])
         IN  /\ OperandsError(line, flag) = "SUCCESS" => fit
             /\ fit /\ ~ LargestIn(line) => OperandsError(line, flag) = "SUCCESS"
<1> DEFINE format == OperandFormat(line)
           results == OperandResults(line, flag)
<1>1. /\ format \in Seq({"register", "number", "label"}) /\ Len(format) \in Nat
      /\ line.args \in Seq(Token) /\ DOMAIN line.args = 1 .. Len(line.args)
  BY OperandFormatType DEF AssemblyLine
<1>2. /\ DOMAIN results = 1 .. Len(format)
      /\ \A k \in 1 .. Len(format) : results[k] = OperandError(format[k], line.args[k], flag)
  BY <1>1 DEF OperandResults
<1>3. OperandsError(line, flag) = "SUCCESS" <=>
        Len(line.args) = Len(format) /\ FirstError(results) = "SUCCESS"
  BY DEF OperandsError
<1> HIDE DEF format, results
<1>4. FirstError(results) = "SUCCESS" <=> \A k \in 1 .. Len(format) : results[k] = "SUCCESS"
  BY <1>1, <1>2, FirstErrorExactly
<1>5. ASSUME Len(line.args) = Len(format), NEW k \in 1 .. Len(format)
      PROVE  /\ results[k] = "SUCCESS" => OperandFits(line.args[k], format[k])
             /\ OperandFits(line.args[k], format[k]) /\ ~ LargestIn(line) =>
                  results[k] = "SUCCESS"
  <2>1. line.args[k] \in Token /\ format[k] \in {"register", "number", "label"}
        /\ k \in DOMAIN line.args
    BY <1>1, <1>5
  <2>2. ~ LargestIn(line) => (line.args[k].k = "num" => line.args[k].n # LongMax)
    BY <2>1 DEF LargestIn
  <2> QED BY <1>2, <2>1, <2>2, OperandExactly
<1> QED BY <1>3, <1>4, <1>5 DEF format

-----------------------------------------------------------------------------
(***************************************************************************)
(* A line that was parsed completely, and the text it was parsed from.     *)
(***************************************************************************)
Kinds == {"Code", "Data", "Extern", "Entry"}

LEMMA WholeParse ==
  ASSUME NEW raw \in RawLine
  PROVE  /\ ParseError(raw, Len(raw.args)) # "ERR_OUT_OF_MEMEORY"
         /\ raw.form = "text" => ParseError(raw, Len(raw.args)) # "ERR_EOF"
         /\ raw.form # "text" => TypeOf(raw) = "None"
<1>1. ~ (Len(raw.args) < Len(raw.args))
  BY DEF RawLine
<1>2. raw.form \in {"text", "blank", "toolong", "eof"}
  BY DEF RawLine
<1>3. LabelError(raw.label) \notin {"ERR_OUT_OF_MEMEORY", "ERR_EOF"}
  BY DEF LabelError
<1> QED BY <1>1, <1>2, <1>3 DEF ParseError, TypeOf

LEMMA ParsedLine ==
  ASSUME NEW raw \in RawLine, NEW line, IsParseOf(line, raw)
  PROVE  /\ \A kind \in Kinds : line.type = kind <=> TypeOf(raw) = kind
         /\ TypeOf(raw) \in Kinds =>
              /\ line.opcode_name = raw.command.name /\ line.args = raw.args
              /\ line.label = IF raw.label.colon THEN Name(raw.label.text) ELSE Empty
<1> DEFINE parsed == parseLine(raw, Len(raw.args))
<1>1. /\ line.type = parsed.type /\ line.label = parsed.label
      /\ line.opcode_name = parsed.opcode_name /\ line.args = parsed.args
  BY DEF IsParseOf
<1>2. CASE raw.form # "text"
  <2>1. TypeOf(raw) = "None"
    BY <1>2, WholeParse
  <2>2. parsed.type \in {"Empty", "None"}
    BY <1>2 DEF parseLine, ParseError, newLine, RawLine
  <2> HIDE DEF parsed
  <2> QED BY <1>1, <2>1, <2>2 DEF Kinds
<1>3. CASE raw.form = "text" /\ ParseError(raw, Len(raw.args)) # "SUCCESS"
  <2>1. TypeOf(raw) = "None"
    BY <1>3 DEF TypeOf, ParsesCleanly
  <2>2. parsed.type = "None"
    BY <1>3, WholeParse DEF parseLine, newLine
  <2> HIDE DEF parsed
  <2> QED BY <1>1, <2>1, <2>2 DEF Kinds
<1>4. CASE raw.form = "text" /\ ParseError(raw, Len(raw.args)) = "SUCCESS"
  <2>1. LabelError(raw.label) = "SUCCESS"
    BY <1>4 DEF ParseError
  <2>2. TypeOf(raw) = CommandType(raw.command)
    BY <1>4 DEF TypeOf, ParsesCleanly
  <2>3. /\ parsed.type = CommandType(raw.command) /\ parsed.opcode_name = raw.command.name
        /\ parsed.label = IF raw.label.colon THEN Name(raw.label.text) ELSE Empty
        /\ parsed.args = [i \in 1 .. Len(raw.args) |-> raw.args[i]]
    BY <1>4, <2>1 DEF parseLine, newLine
  <2>4. parsed.args = raw.args
    <3>1. raw.args \in Seq(Token)
      BY DEF RawLine
    <3>2. [i \in 1 .. Len(raw.args) |-> raw.args[i]] = raw.args
      BY <3>1
    <3> QED BY <2>3, <3>2
  <2> HIDE DEF parsed
  <2> QED BY <1>1, <2>2, <2>3, <2>4
<1> QED BY <1>2, <1>3, <1>4

LEMMA WholeParseIsParse ==
  ASSUME NEW raw
  PROVE  IsParseOf(parseLine(raw, Len(raw.args)), raw)
BY DEF IsParseOf

LEMMA BytesType ==
  ASSUME NEW raw \in RawLine
  PROVE  BytesOf(raw) \in Nat
<1> DEFINE line == parseLine(raw, Len(raw.args))
<1>1. CASE TypeOf(raw) = "Data" /\ DirectiveFits(raw)
  <2>1. line.opcode_name = raw.command.name /\ line.args = raw.args
    BY <1>1, ParsedLine, WholeParseIsParse DEF Kinds
  <2>2. DataOperandsFit(raw) /\ raw.args \in Seq(Token)
    BY <1>1 DEF DirectiveFits, RawLine
  <2> HIDE DEF line
  <2>3. DataSize(line) \in Nat
    <3>1. CASE raw.command.name = "asciz"
      <4>1. raw.args[1] \in Token /\ raw.args[1].k = "str"
        BY <2>2, <3>1 DEF DataOperandsFit
      <4>2. raw.args[1].n \in Nat
        BY <4>1 DEF Token
      <4> QED BY <2>1, <3>1, <4>2 DEF DataSize
    <3>2. CASE raw.command.name # "asciz"
      <4>1. Len(line.args) \in Nat /\ ChunkSize(line.opcode_name) \in Nat
        BY <2>1, <2>2 DEF ChunkSize
      <4> QED BY <2>1, <3>2, <4>1 DEF DataSize
    <3> QED BY <3>1, <3>2
  <2>4. BytesOf(raw) = DataSize(line)
    BY <1>1 DEF BytesOf, line
  <2> QED BY <2>3, <2>4
<1>2. CASE ~ (TypeOf(raw) = "Data" /\ DirectiveFits(raw))
  BY <1>2 DEF BytesOf
<1> QED BY <1>1, <1>2

LEMMA SizeIsBytes ==
  ASSUME NEW raw \in RawLine, NEW line, IsParseOf(line, raw), line.type = "Data",
         DirectiveFits(raw)
  PROVE  DataSize(line) = BytesOf(raw)
<1> DEFINE parsed == parseLine(raw, Len(raw.args))
<1>1. TypeOf(raw) = "Data"
  BY ParsedLine DEF Kinds
<1>2. line.opcode_name = parsed.opcode_name /\ line.args = parsed.args
  BY DEF IsParseOf
<1> HIDE DEF parsed
<1>3. DataSize(line) = DataSize(parsed)
  BY <1>2 DEF DataSize
<1> QED BY <1>1, <1>3 DEF BytesOf, parsed

(* An instruction without a label, or whose label is accepted, is accepted    *)
(* exactly if its operands fit.                                               *)
LEMMA CodeExactly ==
  ASSUME NEW raw \in RawLine, NEW line \in AssemblyLine, IsParseOf(line, raw),
         TypeOf(raw) = "Code", NEW flag \in BOOLEAN, NEW i,
         LabelOperand(line) # 0 /\ Len(raw.args) = LabelOperand(line) =>
           (ReferenceError(line, {}) = "SUCCESS" <=> LabelFits(raw, i))
  PROVE  /\ InstructionError(line, flag, {}) = "SUCCESS" => CodeOperandsFit(raw, i)
         /\ CodeOperandsFit(raw, i) /\ ~ LargestIn(raw) =>
              InstructionError(line, flag, {}) = "SUCCESS"
<1> DEFINE format == OperandFormat(line)
           fit == /\ Len(line.args) = Len(format)
                  /\ \A k \in 1 .. Len(format) : OperandFits(line.args[k], format[k])
<1>1. line.args = raw.args /\ (LargestIn(line) <=> LargestIn(raw))
  BY ParsedLine DEF Kinds, LargestIn
<1>2. format = OperandFormat(parseLine(raw, Len(raw.args)))
  BY DEF OperandFormat, IsParseOf
<1>3. /\ OperandsError(line, flag) = "SUCCESS" => fit
      /\ fit /\ ~ LargestIn(raw) => OperandsError(line, flag) = "SUCCESS"
  BY <1>1, OperandsExactly
<1>4. /\ DOMAIN format = 1 .. Len(format)
      /\ \A k \in 1 .. Len(format) : format[k] \in {"register", "number", "label"}
      /\ \A k \in 1 .. Len(format) : format[k] = "label" <=> LabelOperand(line) = k
      /\ LabelOperand(line) # 0 =>
           LabelOperand(line) = Len(format) /\ LabelOperand(line) \in 1 .. Len(format)
  BY LabelIsLast
<1>5. /\ CodeOperandsFit(raw, i) <=>
           /\ Len(raw.args) = Len(format)
           /\ \A k \in DOMAIN format :
                CASE format[k] = "register" -> registerFromString(raw.args[k]) # -1
                  [] format[k] = "number"   -> raw.args[k].k = "num"
                                               /\ raw.args[k].n \in AcceptedNumbers(ImmedBits)
                  [] format[k] = "label"    -> LabelFits(raw, i)
  BY <1>2 DEF CodeOperandsFit
<1> HIDE DEF format
<1>6. CodeOperandsFit(raw, i) <=> fit /\ (LabelOperand(line) # 0 => LabelFits(raw, i))
  <2>1. ASSUME NEW k \in 1 .. Len(format)
        PROVE  (CASE format[k] = "register" -> registerFromString(raw.args[k]) # -1
                  [] format[k] = "number"   -> raw.args[k].k = "num"
                                               /\ raw.args[k].n \in AcceptedNumbers(ImmedBits)
                  [] format[k] = "label"    -> LabelFits(raw, i))
               <=> /\ OperandFits(line.args[k], format[k])
                   /\ LabelOperand(line) = k => LabelFits(raw, i)
    <3>1. CASE format[k] = "register"
      BY <1>1, <1>4, <3>1 DEF OperandFits
    <3>2. CASE format[k] = "number"
      BY <1>1, <1>4, <3>2 DEF OperandFits
    <3>3. CASE format[k] = "label"
      BY <1>1, <1>4, <3>3 DEF OperandFits
    <3> QED BY <1>4, <3>1, <3>2, <3>3
  <2>2. (\A k \in 1 .. Len(format) : LabelOperand(line) = k => LabelFits(raw, i))
          <=> (LabelOperand(line) # 0 => LabelFits(raw, i))
    BY <1>4
  <2> QED BY <1>1, <1>4, <1>5, <2>1, <2>2
<1>7. InstructionError(line, flag, {}) = "SUCCESS" <=>
        /\ OperandsError(line, flag) = "SUCCESS"
        /\ LabelOperand(line) # 0 => ReferenceError(line, {}) = "SUCCESS"
  BY DEF InstructionError, UsesSymbol
<1>8. fit => (LabelOperand(line) # 0 => Len(raw.args) = LabelOperand(line))
  BY <1>1, <1>4
<1> HIDE DEF fit
<1> QED BY <1>3, <1>6, <1>7, <1>8

-----------------------------------------------------------------------------
(***************************************************************************)
(* The bytes in front of a line, for any sequence of lines of text.        *)
(***************************************************************************)
BytesOfLine(src, j) == {j} \X (1 .. BytesOf(src[j]))
BytesBefore(src, n) == UNION {BytesOfLine(src, j) : j \in 1 .. n}

LEMMA BytesOfOneLine ==
  ASSUME NEW src, NEW j, BytesOf(src[j]) \in Nat
  PROVE  /\ IsFiniteSet(BytesOfLine(src, j))
         /\ Cardinality(BytesOfLine(src, j)) = BytesOf(src[j])
<1>1. IsFiniteSet({j}) /\ Cardinality({j}) = 1
  BY FS_Singleton
<1>2. /\ IsFiniteSet(1 .. BytesOf(src[j]))
      /\ Cardinality(1 .. BytesOf(src[j])) = BytesOf(src[j])
  BY FS_Interval
<1>3. PICK single, bytes : single = {j} /\ bytes = 1 .. BytesOf(src[j])
  OBVIOUS
<1>4. IsFiniteSet(single \X bytes)
      /\ Cardinality(single \X bytes) = Cardinality(single) * Cardinality(bytes)
  BY <1>1, <1>2, <1>3, FS_Product
<1>5. BytesOfLine(src, j) = single \X bytes
  BY <1>3 DEF BytesOfLine
<1> QED BY <1>1, <1>2, <1>3, <1>4, <1>5

LEMMA BytesGrow ==
  ASSUME NEW src, NEW n \in Nat
  PROVE  BytesBefore(src, n + 1) = BytesBefore(src, n) \cup BytesOfLine(src, n + 1)
<1>1. 1 .. n + 1 = (1 .. n) \cup {n + 1}
  OBVIOUS
<1> QED BY <1>1, Zenon DEF BytesBefore

LEMMA BytesFinite ==
  ASSUME NEW src, NEW n \in Nat, \A j \in 1 .. n : BytesOf(src[j]) \in Nat
  PROVE  IsFiniteSet(BytesBefore(src, n)) /\ Cardinality(BytesBefore(src, n)) \in Nat
<1> DEFINE T == {m \in Nat : m <= n => IsFiniteSet(BytesBefore(src, m))}
<1>1. BytesBefore(src, 0) = {}
  BY DEF BytesBefore
<1>2. 0 \in T
  BY <1>1, FS_EmptySet
<1>3. ASSUME NEW m \in Nat, m \in T PROVE m + 1 \in T
  <2>1. SUFFICES ASSUME m + 1 <= n PROVE IsFiniteSet(BytesBefore(src, m + 1))
    OBVIOUS
  <2>2. IsFiniteSet(BytesBefore(src, m)) /\ BytesOf(src[m + 1]) \in Nat
    BY <1>3, <2>1
  <2>3. IsFiniteSet(BytesOfLine(src, m + 1))
    BY <2>2, BytesOfOneLine
  <2>4. IsFiniteSet(BytesBefore(src, m) \cup BytesOfLine(src, m + 1))
    BY <2>2, <2>3, FS_Union
  <2> QED BY <2>4, BytesGrow
<1> HIDE DEF T
<1>4. \A m \in Nat : m \in T
  BY <1>2, <1>3, EveryNatural
<1>5. IsFiniteSet(BytesBefore(src, n))
  BY <1>4 DEF T
<1> QED BY <1>5, FS_CardinalityType

LEMMA BytesZero == \A src : Cardinality(BytesBefore(src, 0)) = 0
BY FS_EmptySet DEF BytesBefore

LEMMA BytesStep ==
  ASSUME NEW src, NEW n \in Nat, \A j \in 1 .. n + 1 : BytesOf(src[j]) \in Nat
  PROVE  Cardinality(BytesBefore(src, n + 1)) =
           Cardinality(BytesBefore(src, n)) + BytesOf(src[n + 1])
<1> DEFINE old == BytesBefore(src, n)
           new == BytesOfLine(src, n + 1)
<1>1. IsFiniteSet(old) /\ Cardinality(old) \in Nat
  BY BytesFinite
<1>2. IsFiniteSet(new) /\ Cardinality(new) = BytesOf(src[n + 1]) /\ BytesOf(src[n + 1]) \in Nat
  BY BytesOfOneLine
<1>3. old \cap new = {}
  <2>1. ASSUME NEW p \in old, p \in new PROVE FALSE
    <3>1. PICK j \in 1 .. n : p \in BytesOfLine(src, j)
      BY <2>1 DEF BytesBefore
    <3>2. p[1] = j /\ p[1] = n + 1
      BY <2>1, <3>1 DEF BytesOfLine
    <3> QED BY <3>1, <3>2
  <2> QED BY <2>1
<1>4. Cardinality(old \cap new) = 0
  BY <1>3, FS_EmptySet
<1> HIDE DEF old, new
<1>5. Cardinality(old \cup new) = Cardinality(old) + Cardinality(new) - Cardinality(old \cap new)
  BY <1>1, <1>2, FS_Union
<1>6. Cardinality(old \cup new) = Cardinality(old) + BytesOf(src[n + 1])
  BY <1>1, <1>2, <1>4, <1>5
<1> QED BY <1>6, BytesGrow DEF old, new

LEMMA BytesMonotone ==
  ASSUME NEW src, NEW n \in Nat, \A j \in 1 .. n : BytesOf(src[j]) \in Nat, NEW m \in 0 .. n
  PROVE  Cardinality(BytesBefore(src, m)) <= Cardinality(BytesBefore(src, n))
<1>1. BytesBefore(src, m) \subseteq BytesBefore(src, n)
  BY DEF BytesBefore
<1>2. IsFiniteSet(BytesBefore(src, n))
  BY BytesFinite
<1> QED BY <1>1, <1>2, FS_Subset

LEMMA BytesSame ==
  ASSUME NEW src, NEW other, NEW n \in Nat, \A j \in 1 .. n : other[j] = src[j], NEW m \in 0 .. n
  PROVE  BytesBefore(other, m) = BytesBefore(src, m)
<1>1. \A j \in 1 .. m : BytesOfLine(other, j) = BytesOfLine(src, j)
  BY DEF BytesOfLine
<1> QED BY <1>1 DEF BytesBefore

LEMMA BytesNow == \A n : DataBytes(n) = Cardinality(BytesBefore(source, n))
BY DEF DataBytes, BytesBefore, BytesOfLine

LEMMA BytesNext == \A n : DataBytes(n)' = Cardinality(BytesBefore(source', n))
BY DEF DataBytes, BytesBefore, BytesOfLine

-----------------------------------------------------------------------------
(***************************************************************************)
(* Source and lines, while no allocation has failed.                       *)
(***************************************************************************)
Invariants == TypeInvariant /\ AddressInvariant /\ ReferenceInvariant /\ AcceptanceInvariant

LEMMA SourceOfLine ==
  ASSUME TypeInvariant
  PROVE  /\ Len(lines) \in Nat /\ Len(source) = Len(lines)
         /\ DOMAIN lines = 1 .. Len(lines) /\ DOMAIN source = 1 .. Len(lines)
         /\ \A i \in 1 .. Len(lines) :
              source[i] \in RawLine /\ lines[i] \in AssemblyLine /\ BytesOf(source[i]) \in Nat
<1>1. source \in Seq(RawLine) /\ lines \in Seq(AssemblyLine) /\ Len(source) = Len(lines)
  BY DEF TypeInvariant, TypeOK, LinesAreKept
<1>2. \A i \in 1 .. Len(lines) : source[i] \in RawLine /\ lines[i] \in AssemblyLine
  BY <1>1
<1> QED BY <1>1, <1>2, BytesType

LEMMA ParseOfLine ==
  ASSUME TypeInvariant, AcceptanceInvariant, faults = 0, NEW i \in 1 .. Len(lines)
  PROVE  /\ source[i] \in RawLine /\ lines[i] \in AssemblyLine
         /\ IsParseOf(lines[i], source[i])
         /\ \A kind \in Kinds : lines[i].type = kind <=> OfType(i, kind)
<1>1. source[i] \in RawLine /\ lines[i] \in AssemblyLine /\ IsParseOf(lines[i], source[i])
  BY SourceOfLine DEF AcceptanceInvariant, LinesAreParses
<1> QED BY <1>1, ParsedLine DEF OfType

(* The names of a line are its label, or the operand of .extern. *)
LEMMA NamesOfLine ==
  ASSUME NEW raw \in RawLine, NEW line, IsParseOf(line, raw), NEW name
  PROVE  name \in Names(raw) <=>
           \/ line.type \in {"Code", "Data"} /\ line.label # Empty /\ line.label = name
           \/ line.type = "Extern" /\ Len(line.args) = 1 /\ line.args[1] = name
<1>1. Name(raw.label.text) # Empty
  BY DEF Name, Empty
<1>2. CASE TypeOf(raw) \in {"Code", "Data"}
  <2>1. /\ line.label = IF raw.label.colon THEN Name(raw.label.text) ELSE Empty
        /\ line.type \in {"Code", "Data"} /\ line.type # "Extern"
    BY <1>2, ParsedLine DEF Kinds
  <2>2. Names(raw) = IF raw.label.colon THEN {Name(raw.label.text)} ELSE {}
    BY <1>2 DEF Names
  <2> QED BY <1>1, <2>1, <2>2
<1>3. CASE TypeOf(raw) = "Extern"
  <2>1. line.type = "Extern" /\ line.args = raw.args
    BY <1>3, ParsedLine DEF Kinds
  <2>2. Names(raw) = IF Len(raw.args) = 1 THEN {raw.args[1]} ELSE {}
    BY <1>3 DEF Names
  <2> QED BY <2>1, <2>2
<1>4. CASE TypeOf(raw) \notin {"Code", "Data", "Extern"}
  <2>1. line.type \notin {"Code", "Data", "Extern"}
    BY <1>4, ParsedLine DEF Kinds
  <2> QED BY <1>4, <2>1 DEF Names
<1> QED BY <1>2, <1>3, <1>4

LEMMA SoundParts ==
  ASSUME Invariants, Sound
  PROVE  Progress /\ UniqueSymbols /\ References /\ SoFarClean /\ FirstPassClean /\ faults = 0
BY DEF Invariants, AddressInvariant, ReferenceInvariant, AcceptanceInvariant, Sound, SoFarClean

LEMMA HandledRange ==
  ASSUME TypeInvariant
  PROVE  /\ LastHandled \in 0 .. Len(lines) /\ LastHandled \in Nat
         /\ pc # "handle" => LastHandled = Len(lines)
<1>1. Len(lines) \in Nat /\ (pc = "handle" => Len(lines) # 0)
  BY DEF TypeInvariant, TypeOK, LinesAreKept
<1> QED BY <1>1 DEF LastHandled

(* The symbol table holds the names of the lines that were handled. *)
LEMMA NamesKnown ==
  ASSUME Invariants, Sound, NEW name
  PROVE  exists(name) <=> \E i \in 1 .. LastHandled : name \in Names(source[i])
<1>1. TypeInvariant /\ AcceptanceInvariant /\ faults = 0 /\ LastHandled \in 0 .. Len(lines)
      /\ Len(lines) \in Nat
  BY SoundParts, HandledRange, SourceOfLine DEF Invariants
<1>2. /\ SymbolsComeFromLines /\ ExternsAreDeclared /\ LabelsAreDeclared
      /\ \A i \in 1 .. LastHandled : DirectiveFits(source[i])
  BY SoundParts DEF References, Progress, FirstPassClean
<1>3. ASSUME NEW i \in 1 .. LastHandled
      PROVE  /\ source[i] \in RawLine /\ IsParseOf(lines[i], source[i])
             /\ lines[i].type = "Extern" => Len(lines[i].args) = 1
  <2>1. source[i] \in RawLine /\ IsParseOf(lines[i], source[i])
        /\ (lines[i].type = "Extern" <=> TypeOf(source[i]) = "Extern")
    BY <1>1, ParseOfLine DEF Kinds, OfType
  <2>2. TypeOf(source[i]) = "Extern" => lines[i].args = source[i].args
    BY <2>1, ParsedLine DEF Kinds
  <2> QED BY <1>2, <2>1, <2>2 DEF DirectiveFits
<1>4. ASSUME NEW s \in DOMAIN symtab, symtab[s].symbol = name
      PROVE  \E i \in 1 .. LastHandled : name \in Names(source[i])
  <2>1. PICK i \in 1 .. LastHandled : ComesFrom(symtab[s], i)
    BY <1>2 DEF SymbolsComeFromLines
  <2>2. \/ lines[i].type = "Extern" /\ lines[i].args[1] = name
        \/ lines[i].type \in {"Code", "Data"} /\ lines[i].label # Empty /\ lines[i].label = name
    BY <1>4, <2>1 DEF ComesFrom, Declares, Labelled
  <2> QED BY <1>3, <2>2, NamesOfLine
<1>5. ASSUME NEW i \in 1 .. LastHandled, name \in Names(source[i])
      PROVE  exists(name)
  <2>1. CASE lines[i].type \in {"Code", "Data"} /\ lines[i].label # Empty /\ lines[i].label = name
    <3>1. Labelled(i)
      BY <2>1 DEF Labelled
    <3>2. PICK s \in DOMAIN symtab : DeclaredBy(symtab[s], lines[i], i, data, DataBase)
      BY <1>2, <3>1 DEF LabelsAreDeclared
    <3> QED BY <2>1, <3>2 DEF DeclaredBy, exists
  <2>2. CASE lines[i].type = "Extern" /\ lines[i].args[1] = name
    <3>1. PICK s \in DOMAIN symtab : ExternalBy(symtab[s], lines[i])
      BY <1>2, <2>2 DEF ExternsAreDeclared
    <3> QED BY <2>2, <3>1 DEF ExternalBy, exists
  <2>3. \/ lines[i].type \in {"Code", "Data"} /\ lines[i].label # Empty /\ lines[i].label = name
        \/ lines[i].type = "Extern" /\ lines[i].args[1] = name
    <3>1. source[i] \in RawLine /\ IsParseOf(lines[i], source[i])
      BY <1>3
    <3> QED BY <1>5, <3>1, NamesOfLine
  <2> QED BY <2>1, <2>2, <2>3
<1> QED BY <1>4, <1>5 DEF exists

-----------------------------------------------------------------------------
(***************************************************************************)
(* The addresses of the source are the addresses of the symbols.           *)
(***************************************************************************)
LEMMA CodeLinesCount ==
  ASSUME TypeInvariant, AcceptanceInvariant, faults = 0, NEW n \in 0 .. Len(lines)
  PROVE  CodeLines(n) = Count(lines, n)
<1>1. \A j \in 1 .. n : OfType(j, "Code") <=> lines[j].type = "Code"
  <2>1. ASSUME NEW j \in 1 .. n PROVE OfType(j, "Code") <=> lines[j].type = "Code"
    <3>1. j \in 1 .. Len(lines)
      BY SourceOfLine
    <3> QED BY <3>1, ParseOfLine DEF Kinds
  <2> QED BY <2>1
<1>2. {j \in 1 .. n : OfType(j, "Code")} = {j \in 1 .. n : lines[j].type = "Code"}
  BY <1>1
<1> QED BY <1>2 DEF CodeLines, Count, CodeUpTo

(* An instruction takes four bytes and a data directive its data; a source   *)
(* has at most MaxLines lines of either kind.                                *)
LEMMA BytesBound ==
  ASSUME TypeInvariant, AcceptanceInvariant, faults = 0, NEW n \in 0 .. Len(lines)
  PROVE  100 + 4 * Count(lines, n) + DataBytes(n) <= LongMax
<1>1. PICK width \in 0 .. LongMax :
        /\ \A raw \in SourceLines : BytesOf(raw) <= width
        /\ INSTRUCTION_COUNTER_INITIAL_VALUE + MaxLines * (INSTRUCTION_SIZE + width) <= LongMax
  BY AddressAssumption
<1> DEFINE size == 4 + width
           upto(m) == IF m < MaxLines THEN m ELSE MaxLines
           bytes(m) == Cardinality(BytesBefore(source, m))
           T == {m \in Nat : m <= Len(lines) =>
                   4 * Count(lines, m) + bytes(m) <= upto(m) * size}
<1>2. /\ MaxLines \in Nat /\ LongMax \in Int /\ width \in Nat /\ size \in Nat
      /\ 100 + MaxLines * size <= LongMax
  <2>1. LongMax \in Int
    BY Widths DEF LongMax
  <2> QED BY <1>1, <2>1, SourceAssumption DEF INSTRUCTION_COUNTER_INITIAL_VALUE, INSTRUCTION_SIZE
<1>3. ASSUME NEW m \in Nat, m <= Len(lines)
      PROVE  bytes(m) \in Nat /\ Count(lines, m) \in Nat
  <2>1. \A j \in 1 .. m : BytesOf(source[j]) \in Nat
    BY <1>3, SourceOfLine
  <2> QED BY <2>1, BytesFinite, CountType
<1>4. 0 \in T
  <2>1. upto(0) * size \in Nat
    BY <1>2
  <2>2. Count(lines, 0) = 0 /\ bytes(0) = 0
    BY BytesZero, CountZero
  <2> HIDE DEF upto, size, bytes
  <2>3. 4 * Count(lines, 0) + bytes(0) <= upto(0) * size
    BY <2>1, <2>2
  <2> QED BY <2>3
<1>5. ASSUME NEW m \in Nat, m \in T PROVE m + 1 \in T
  <2>1. SUFFICES ASSUME m + 1 <= Len(lines)
                 PROVE  4 * Count(lines, m + 1) + bytes(m + 1) <= upto(m + 1) * size
    OBVIOUS
  <2>2. m + 1 \in 1 .. Len(lines) /\ m <= Len(lines)
    BY <2>1, SourceOfLine
  <2>3. 4 * Count(lines, m) + bytes(m) <= upto(m) * size
    BY <1>5, <2>2
  <2>4. \A j \in 1 .. m + 1 : BytesOf(source[j]) \in Nat
    BY <2>2, SourceOfLine
  <2>5. bytes(m + 1) = bytes(m) + BytesOf(source[m + 1])
    BY <2>4, BytesStep
  <2>6. /\ lines[m + 1].type = "Code" => Count(lines, m + 1) = Count(lines, m) + 1
        /\ lines[m + 1].type # "Code" => Count(lines, m + 1) = Count(lines, m)
    BY CountStep
  <2>7. /\ lines[m + 1].type = "Code" <=> TypeOf(source[m + 1]) = "Code"
        /\ source[m + 1] = Eof \/ (m + 1 <= MaxLines /\ source[m + 1] \in SourceLines)
    BY <2>2, ParseOfLine, SourceOfLine DEF Kinds, OfType, AcceptanceInvariant, SourceEnds
  <2>8. bytes(m) \in Nat /\ Count(lines, m) \in Nat
    BY <1>3, <2>2
  <2> HIDE DEF bytes, T
  <2>9. CASE source[m + 1] = Eof
    <3>1. TypeOf(source[m + 1]) = "None" /\ BytesOf(source[m + 1]) = 0
      BY <2>9 DEF Eof, Unread, TypeOf, BytesOf
    <3>2. 4 * Count(lines, m + 1) + bytes(m + 1) = 4 * Count(lines, m) + bytes(m)
      BY <2>5, <2>6, <2>7, <2>8, <3>1
    <3>3. upto(m) * size <= upto(m + 1) * size
      <4>1. CASE m < MaxLines
        <5>1. upto(m + 1) = m + 1 /\ upto(m) = m
          BY <1>2, <4>1
        <5>2. (m + 1) * size = m * size + size /\ m * size \in Nat
          BY <1>2
        <5> QED BY <1>2, <5>1, <5>2
      <4>2. CASE ~ (m < MaxLines)
        BY <1>2, <4>2
      <4> QED BY <4>1, <4>2
    <3> HIDE DEF upto, size
    <3>4. upto(m) * size \in Int /\ upto(m + 1) * size \in Int
      BY <1>2 DEF upto, size
    <3> QED BY <2>3, <2>8, <3>2, <3>3, <3>4
  <2>10. CASE m + 1 <= MaxLines /\ source[m + 1] \in SourceLines
    <3>1. BytesOf(source[m + 1]) <= width /\ BytesOf(source[m + 1]) \in Nat
      BY <1>1, <2>4, <2>10
    <3>2. TypeOf(source[m + 1]) = "Code" => BytesOf(source[m + 1]) = 0
      BY DEF BytesOf
    <3>3. upto(m + 1) = m + 1 /\ upto(m) = m
      BY <1>2, <2>10
    <3>4. (m + 1) * size = m * size + size /\ m * size \in Nat
      BY <1>2
    <3>5. 4 * Count(lines, m + 1) + bytes(m + 1) <= 4 * Count(lines, m) + bytes(m) + size
      BY <1>2, <2>5, <2>6, <2>7, <2>8, <3>1, <3>2
    <3>6. 4 * Count(lines, m + 1) + bytes(m + 1) \in Int
      BY <2>5, <2>6, <2>8, <3>1
    <3>7. size \in Nat
      BY <1>2
    <3> HIDE DEF size, upto
    <3> QED BY <2>3, <2>8, <3>3, <3>4, <3>5, <3>6, <3>7
  <2> QED BY <2>7, <2>9, <2>10
<1> HIDE DEF T
<1>6. \A m \in Nat : m \in T
  BY <1>4, <1>5, EveryNatural
<1>7. n \in Nat /\ n <= Len(lines)
  BY SourceOfLine
<1>8. 4 * Count(lines, n) + bytes(n) <= upto(n) * size
  BY <1>6, <1>7 DEF T
<1>9. bytes(n) \in Nat /\ Count(lines, n) \in Nat /\ DataBytes(n) = bytes(n)
  BY <1>3, <1>7, BytesNow
<1>10. upto(n) * size <= MaxLines * size /\ upto(n) * size \in Int /\ MaxLines * size \in Int
  <2>1. upto(n) \in Nat /\ upto(n) <= MaxLines
    BY <1>2, <1>7
  <2> HIDE DEF upto, size
  <2>2. PICK d \in Nat : MaxLines = upto(n) + d
    <3>1. MaxLines - upto(n) \in Nat /\ MaxLines = upto(n) + (MaxLines - upto(n))
      BY <1>2, <2>1
    <3> QED BY <3>1
  <2>3. (upto(n) + d) * size = upto(n) * size + d * size /\ d * size \in Nat
        /\ upto(n) * size \in Nat
    BY <1>2, <2>1
  <2> QED BY <2>2, <2>3
<1> HIDE DEF upto, size, bytes
<1> QED BY <1>2, <1>8, <1>9, <1>10

LEMMA BytesInFront ==
  ASSUME TypeInvariant, NEW n \in 0 .. Len(lines), NEW m \in 0 .. n
  PROVE  DataBytes(m) \in Nat /\ DataBytes(n) \in Nat /\ DataBytes(m) <= DataBytes(n)
<1>1. n \in Nat /\ m \in Nat /\ \A j \in 1 .. n : BytesOf(source[j]) \in Nat
  BY SourceOfLine
<1>2. \A j \in 1 .. m : BytesOf(source[j]) \in Nat
  BY <1>1
<1> QED BY <1>1, <1>2, BytesFinite, BytesMonotone, BytesNow

LEMMA CountMonotone ==
  ASSUME NEW ls, NEW n \in Nat, NEW m \in 0 .. n
  PROVE  Count(ls, m) <= Count(ls, n)
<1>1. CodeUpTo(ls, m) \subseteq CodeUpTo(ls, n)
  BY DEF CodeUpTo
<1>2. IsFiniteSet(CodeUpTo(ls, n))
  BY CountType
<1> QED BY <1>1, <1>2, FS_Subset DEF Count

LEMMA AddressRange ==
  ASSUME TypeInvariant, AcceptanceInvariant, faults = 0, NEW i \in 1 .. Len(lines)
  PROVE  SourceAddress(i) \in 100 .. LongMax
<1>1. Len(lines) \in Nat /\ Len(source) = Len(lines) /\ i \in Nat /\ i - 1 \in 0 .. Len(lines)
      /\ Len(lines) \in 0 .. Len(lines)
  BY SourceOfLine
<1>2. /\ CodeLines(i - 1) = Count(lines, i - 1) /\ CodeLines(Len(source)) = Count(lines, Len(lines))
  BY <1>1, CodeLinesCount
<1>3. /\ Count(lines, i - 1) \in Nat /\ Count(lines, Len(lines)) \in Nat
      /\ Count(lines, i - 1) <= Count(lines, Len(lines))
  <2>1. i - 1 \in Nat
    BY <1>1
  <2> QED BY <1>1, <2>1, CountType, CountMonotone
<1>4. /\ DataBytes(i - 1) \in Nat /\ DataBytes(Len(lines)) \in Nat
      /\ DataBytes(i - 1) <= DataBytes(Len(lines))
  BY <1>1, BytesInFront
<1>5. 100 + 4 * Count(lines, Len(lines)) + DataBytes(Len(lines)) <= LongMax
  BY <1>1, BytesBound
<1>6. LongMax \in Int
  BY Widths DEF LongMax
<1>7. SourceAddress(i) = 100 + IF OfType(i, "Code") THEN 4 * Count(lines, i - 1)
                               ELSE 4 * Count(lines, Len(lines)) + DataBytes(i - 1)
  BY <1>2 DEF SourceAddress
<1>8. CASE OfType(i, "Code")
  BY <1>3, <1>4, <1>5, <1>6, <1>7, <1>8
<1>9. CASE ~ OfType(i, "Code")
  BY <1>3, <1>4, <1>5, <1>6, <1>7, <1>9
<1> QED BY <1>8, <1>9

(* The bytes of a line begin behind those of the lines in front of it. *)
LEMMA DataPlace ==
  ASSUME Invariants, Sound, NEW i \in 1 .. LastHandled, NEW v, DataBegins(data, i, v)
  PROVE  v = DataBytes(i - 1)
<1>1. /\ BytesAreCounted /\ DataIsInOrder /\ TypeInvariant
  BY SoundParts DEF SoFarClean, References, Invariants
<1>2. data \in Seq(Nat) /\ Len(data) \in Nat /\ DOMAIN data = 1 .. Len(data)
  BY <1>1 DEF TypeInvariant, TypeOK, MemoryTypeOK
<1>3. v \in 0 .. Len(data) - 1 /\ data[v + 1] = i /\ (v > 0 => data[v] # i)
  BY DEF DataBegins
<1>4. LastHandled \in 0 .. Len(lines) /\ Len(lines) \in Nat
  BY <1>1, HandledRange, SourceOfLine
<1>5. i \in Nat /\ i - 1 \in 0 .. Len(lines)
  BY <1>4
<1>6. DataBytes(i - 1) \in Nat /\ DataBytes(i - 1) <= v
  BY <1>1, <1>3, <1>5, BytesInFront DEF BytesAreCounted
<1>7. ASSUME DataBytes(i - 1) < v PROVE FALSE
  <2>1. v - 1 \in 0 .. Len(data) - 1 /\ v \in DOMAIN data /\ v + 1 \in DOMAIN data /\ v > 0
        /\ v <= v + 1 /\ (v - 1) + 1 = v
    BY <1>2, <1>3, <1>6, <1>7
  <2>2. data[v] <= i /\ data[v] \in Nat /\ data[v] # i
    BY <1>1, <1>2, <1>3, <2>1 DEF DataIsInOrder
  <2>3. v - 1 < DataBytes(data[v])
    BY <1>1, <2>1 DEF BytesAreCounted
  <2>4. data[v] \in 0 .. i - 1
    BY <1>5, <2>2
  <2>5. DataBytes(data[v]) <= DataBytes(i - 1) /\ DataBytes(data[v]) \in Nat
    BY <1>1, <1>5, <2>4, BytesInFront
  <2> QED BY <1>3, <1>6, <1>7, <2>3, <2>5
<1> QED BY <1>3, <1>6, <1>7

-----------------------------------------------------------------------------
(***************************************************************************)
(* The symbol that the second pass finds under a name, and the lines that  *)
(* declare the name.                                                       *)
(***************************************************************************)
SecondPassSound == Invariants /\ Sound /\ pc \in {"second", "assembled"}

LEMMA SecondPassRange ==
  ASSUME SecondPassSound
  PROVE  /\ TypeInvariant /\ AcceptanceInvariant /\ faults = 0
         /\ LastHandled = Len(lines) /\ Len(lines) \in Nat /\ ~ InFirstPass
         /\ DOMAIN source = 1 .. Len(lines) /\ Len(source) = Len(lines)
         /\ symtab \in Seq(Symbol)
BY SoundParts, HandledRange, SourceOfLine
   DEF SecondPassSound, Invariants, InFirstPass, TypeInvariant, TypeOK, SymbolManagerTypeOK

LEMMA OneLineNamesIt ==
  ASSUME SecondPassSound, NEW name, NEW i \in 1 .. Len(lines), name \in Names(source[i])
  PROVE  /\ OfType(i, "Extern") => ExternsOf(name) = {i} /\ LabelsOf(name) = {}
         /\ ~ OfType(i, "Extern") => LabelsOf(name) = {i} /\ ExternsOf(name) = {}
<1>1. DOMAIN source = 1 .. Len(lines) /\ LastHandled = Len(lines)
  BY SecondPassRange
<1>2. NamedOnce(Len(lines))
  BY <1>1, SoundParts DEF SecondPassSound, FirstPassClean
<1>3. \A j \in 1 .. Len(lines) : name \in Names(source[j]) => j = i
  BY <1>2 DEF NamedOnce
<1> QED BY <1>1, <1>3 DEF ExternsOf, LabelsOf

LEMMA SymbolOfName ==
  ASSUME SecondPassSound, NEW name, exists(name)
  PROVE  LET sym == symtab[find(name)]
         IN  /\ sym.is_external => ExternsOf(name) # {} /\ LabelsOf(name) = {}
             /\ ~ sym.is_external =>
                  /\ ExternsOf(name) = {}
                  /\ \E j \in 1 .. Len(lines) :
                       LabelsOf(name) = {j} /\ sym.value = SourceAddress(j)
<1>1. /\ TypeInvariant /\ AcceptanceInvariant /\ faults = 0 /\ Invariants /\ Sound
      /\ LastHandled = Len(lines) /\ Len(lines) \in Nat /\ ~ InFirstPass /\ symtab \in Seq(Symbol)
      /\ Len(source) = Len(lines)
  BY SecondPassRange DEF SecondPassSound
<1>2. /\ SymbolsComeFromLines /\ LabelsAreDeclared /\ CountersAgree /\ UniqueSymbols
      /\ \A i \in 1 .. LastHandled : DirectiveFits(source[i])
  BY <1>1, SoundParts DEF References, Progress, FirstPassClean
<1>3. PICK s \in DOMAIN symtab : s = find(name) /\ symtab[s].symbol = name
  BY <1>1, FindType
<1>4. PICK i \in 1 .. Len(lines) : ComesFrom(symtab[s], i)
  BY <1>1, <1>2 DEF SymbolsComeFromLines
<1>5. /\ source[i] \in RawLine /\ IsParseOf(lines[i], source[i])
      /\ \A kind \in Kinds : lines[i].type = kind <=> OfType(i, kind)
  BY <1>1, ParseOfLine
<1>6. CASE symtab[s].is_external
  <2>1. lines[i].type = "Extern" /\ lines[i].args[1] = name /\ OfType(i, "Extern")
    BY <1>3, <1>4, <1>5, <1>6 DEF ComesFrom, Kinds
  <2>2. Len(source[i].args) = 1 /\ lines[i].args = source[i].args
    <3>1. TypeOf(source[i]) = "Extern" /\ DirectiveFits(source[i])
      BY <1>1, <1>2, <2>1 DEF OfType
    <3>2. Len(source[i].args) = 1
      BY <3>1 DEF DirectiveFits
    <3> QED BY <1>5, <3>1, <3>2, ParsedLine DEF Kinds
  <2>3. name \in Names(source[i])
    BY <1>5, <2>1, <2>2, NamesOfLine
  <2> QED BY <1>3, <1>6, <2>1, <2>3, OneLineNamesIt
<1>7. CASE ~ symtab[s].is_external
  <2>1. Labelled(i) /\ lines[i].label = name
    BY <1>3, <1>4, <1>7 DEF ComesFrom, Declares
  <2>2. lines[i].type \in {"Code", "Data"} /\ ~ OfType(i, "Extern")
        /\ (lines[i].type = "Code" <=> OfType(i, "Code"))
    BY <1>5, <2>1 DEF Labelled, Kinds
  <2>3. name \in Names(source[i])
    BY <1>5, <2>1, NamesOfLine DEF Labelled
  <2>4. PICK t \in DOMAIN symtab : DeclaredBy(symtab[t], lines[i], i, data, DataBase)
    BY <1>1, <1>2, <2>1 DEF LabelsAreDeclared
  <2>5. t = s
    BY <1>2, <1>3, <2>1, <2>4 DEF DeclaredBy, UniqueSymbols
  <2>6. symtab[s].value = SourceAddress(i)
    <3>1. i - 1 \in 0 .. Len(lines) /\ Len(lines) \in 0 .. Len(lines) /\ symtab[s].value \in Int
      <4>1. symtab[s] \in Symbol
        BY <1>1
      <4> QED BY <1>1, <4>1 DEF Symbol
    <3>2. CodeLines(i - 1) = Count(lines, i - 1) /\ CodeLines(Len(source)) = Count(lines, Len(lines))
      BY <1>1, <3>1, CodeLinesCount
    <3>3. CASE lines[i].type = "Code"
      <4>1. symtab[s].value = lines[i].code_position
        BY <2>4, <2>5, <3>3 DEF DeclaredBy
      <4>2. lines[i].code_position = 100 + 4 * Count(lines, i - 1)
        <5>1. i \in CodeUpTo(lines, LastHandled)
          BY <1>1, <3>3 DEF CodeUpTo
        <5> QED BY <1>2, <5>1
                DEF CountersAgree, INSTRUCTION_COUNTER_INITIAL_VALUE, INSTRUCTION_SIZE
      <4> QED BY <2>2, <3>2, <3>3, <4>1, <4>2 DEF SourceAddress
    <3>4. CASE lines[i].type # "Code"
      <4>1. DataBegins(data, i, symtab[s].value - DataBase)
        BY <2>2, <2>4, <2>5, <3>4 DEF DeclaredBy
      <4>2. symtab[s].value - DataBase = DataBytes(i - 1)
        BY <1>1, <4>1, DataPlace
      <4>3. DataBase = 100 + 4 * Count(lines, Len(lines))
        BY <1>1, <1>2
           DEF DataBase, CountersAgree, INSTRUCTION_COUNTER_INITIAL_VALUE, INSTRUCTION_SIZE
      <4>4. Count(lines, Len(lines)) \in Nat /\ DataBytes(i - 1) \in Nat
        BY <1>1, <3>1, CountType, BytesInFront
      <4>5. symtab[s].value = 100 + (4 * Count(lines, Len(lines)) + DataBytes(i - 1))
        BY <3>1, <4>2, <4>3, <4>4
      <4> QED BY <2>2, <3>2, <3>4, <4>5 DEF SourceAddress
    <3> QED BY <3>3, <3>4
  <2>7. LabelsOf(name) = {i} /\ ExternsOf(name) = {}
    BY <2>2, <2>3, OneLineNamesIt
  <2> QED BY <1>3, <1>7, <2>6, <2>7
<1> QED BY <1>6, <1>7

LEMMA NamesDeclared ==
  ASSUME SecondPassSound, NEW name
  PROVE  exists(name) <=> LabelsOf(name) \cup ExternsOf(name) # {}
<1>1. exists(name) <=> \E i \in DOMAIN source : name \in Names(source[i])
  BY SecondPassRange, NamesKnown DEF SecondPassSound
<1> QED BY <1>1 DEF LabelsOf, ExternsOf

(* useSymbol and the check of the distance accept what LabelFits describes. *)
LEMMA ReferenceExactly ==
  ASSUME SecondPassSound, NEW i \in 1 .. Len(lines), OfType(i, "Code"),
         LabelOperand(lines[i]) # 0, Len(source[i].args) = LabelOperand(lines[i])
  PROVE  ReferenceError(lines[i], {}) = "SUCCESS" <=> LabelFits(source[i], i)
<1>1. /\ TypeInvariant /\ AcceptanceInvariant /\ faults = 0 /\ Invariants /\ Sound
      /\ LastHandled = Len(lines) /\ Len(lines) \in Nat /\ symtab \in Seq(Symbol)
  BY SecondPassRange DEF SecondPassSound
<1>2. PICK line, name, raw : line = lines[i] /\ name = UsedSymbol(line) /\ raw = source[i]
  OBVIOUS
<1>3. /\ line.opcode_name = raw.command.name /\ name = raw.args[Len(raw.args)]
      /\ line.type = "Code"
  <2>1. source[i] \in RawLine /\ IsParseOf(lines[i], source[i]) /\ TypeOf(source[i]) = "Code"
    BY <1>1, ParseOfLine DEF OfType
  <2> QED BY <1>2, <2>1, ParsedLine DEF Kinds, UsedSymbol
<1>4. exists(name) <=> LabelsOf(name) \cup ExternsOf(name) # {}
  BY NamesDeclared
<1>5. CASE ~ exists(name)
  <2>1. ReferenceError(line, {}) # "SUCCESS"
    BY <1>2, <1>5 DEF ReferenceError
  <2>2. LabelsOf(name) = {} /\ ExternsOf(name) = {}
    BY <1>4, <1>5
  <2> QED BY <1>2, <1>3, <2>1, <2>2 DEF LabelFits
<1>6. CASE exists(name) /\ ~ is_i_command(line.opcode_name)
  <2>1. ReferenceError(line, {}) = "SUCCESS"
    BY <1>2, <1>6 DEF ReferenceError
  <2> QED BY <1>2, <1>3, <1>4, <1>6, <2>1 DEF LabelFits
<1>7. CASE exists(name) /\ is_i_command(line.opcode_name)
  <2> DEFINE sym == symtab[find(name)]
  <2>1. /\ sym.is_external => ExternsOf(name) # {} /\ LabelsOf(name) = {}
        /\ ~ sym.is_external =>
             /\ ExternsOf(name) = {}
             /\ \E j \in 1 .. Len(lines) : LabelsOf(name) = {j} /\ sym.value = SourceAddress(j)
    BY <1>7, SymbolOfName
  <2>2. ReferenceError(line, {}) = "SUCCESS" <=>
          ~ sym.is_external /\ number_fits_in_bits(Distance(line), ImmedBits)
    BY <1>2, <1>7 DEF ReferenceError
  <2>3. LabelFits(raw, i) <=>
          /\ ExternsOf(name) = {}
          /\ \E j \in LabelsOf(name) :
               LET distance == SourceAddress(j) - SourceAddress(i)
               IN  1 - TwoTo[ImmedBits] < distance /\ distance < TwoTo[ImmedBits]
    BY <1>3, <1>7 DEF LabelFits
  <2>4. Distance(line) = sym.value - line.code_position
    BY <1>2 DEF Distance
  <2> HIDE DEF sym
  <2>5. CASE sym.is_external
    BY <1>2, <2>1, <2>2, <2>3, <2>5
  <2>6. CASE ~ sym.is_external
    <3>1. PICK j \in 1 .. Len(lines) : LabelsOf(name) = {j} /\ sym.value = SourceAddress(j)
      BY <2>1, <2>6
    <3>2. line.code_position = SourceAddress(i)
      <4>1. i \in CodeUpTo(lines, LastHandled) /\ CountersAgree
        BY <1>1, <1>2, <1>3, SoundParts DEF CodeUpTo, Progress
      <4>2. line.code_position = 100 + 4 * Count(lines, i - 1)
        BY <1>2, <4>1 DEF CountersAgree, INSTRUCTION_COUNTER_INITIAL_VALUE, INSTRUCTION_SIZE
      <4>3. CodeLines(i - 1) = Count(lines, i - 1)
        <5>1. i - 1 \in 0 .. Len(lines)
          BY <1>1
        <5> QED BY <1>1, <5>1, CodeLinesCount
      <4> QED BY <4>2, <4>3 DEF SourceAddress
    <3> DEFINE distance == SourceAddress(j) - SourceAddress(i)
    <3>3. distance \in LongMin .. LongMax
      <4>1. SourceAddress(j) \in 100 .. LongMax /\ SourceAddress(i) \in 100 .. LongMax
        BY <1>1, AddressRange
      <4>2. LongMax \in Int /\ LongMin = -LongMax - 1
        BY Widths DEF LongMax, LongMin
      <4> QED BY <4>1, <4>2
    <3>4. ImmedBits + 1 \in Nat \ {0} /\ ImmedBits + 1 <= LongBits /\ (ImmedBits + 1) - 1 = ImmedBits
      BY Widths DEF ImmedBits, LongBits
    <3>5. distance \in Int
      BY <3>3, Widths DEF LongMin, LongMax
    <3> HIDE DEF distance
    <3>6. number_fits_in_bits(distance, ImmedBits) <=> distance \in AcceptedNumbers(ImmedBits + 1)
      BY <3>3, <3>4, FitsExactly
    <3>7. distance \in AcceptedNumbers(ImmedBits + 1) <=>
            1 - TwoTo[ImmedBits] < distance /\ distance < TwoTo[ImmedBits]
      <4>1. TwoTo[ImmedBits] \in Nat /\ 2 <= TwoTo[ImmedBits]
        <5>1. ImmedBits \in Nat /\ 0 < ImmedBits /\ TwoTo[0] = 1 /\ TwoTo[ImmedBits] \in Nat
          BY Widths, TwoToDefined
        <5>2. 2 * TwoTo[0] <= TwoTo[ImmedBits]
          BY <5>1, TwoToGrows
        <5> QED BY <5>1, <5>2
      <4>2. AcceptedNumbers(ImmedBits + 1) = {0} \cup (2 - TwoTo[ImmedBits] .. TwoTo[ImmedBits] - 1)
        BY <3>4 DEF AcceptedNumbers
      <4> QED BY <3>5, <4>1, <4>2
    <3>8. Distance(line) = distance
      BY <2>4, <3>1, <3>2 DEF distance
    <3>9. LabelFits(raw, i) <=>
            1 - TwoTo[ImmedBits] < distance /\ distance < TwoTo[ImmedBits]
      BY <2>1, <2>3, <2>6, <3>1 DEF distance
    <3> QED BY <1>2, <2>2, <2>6, <3>6, <3>7, <3>8, <3>9
  <2> QED BY <2>5, <2>6
<1> QED BY <1>5, <1>6, <1>7

(* markSymEntry accepts the name of a label. *)
LEMMA EntryExactly ==
  ASSUME SecondPassSound, NEW name
  PROVE  EntryError(name) = "SUCCESS" <=> LabelsOf(name) # {} /\ ExternsOf(name) = {}
<1>1. exists(name) <=> LabelsOf(name) \cup ExternsOf(name) # {}
  BY NamesDeclared
<1>2. CASE ~ exists(name)
  BY <1>1, <1>2 DEF EntryError
<1>3. CASE exists(name)
  <2>1. EntryError(name) = "SUCCESS" <=> ~ symtab[find(name)].is_external
    BY <1>3 DEF EntryError
  <2>2. /\ symtab[find(name)].is_external => ExternsOf(name) # {}
        /\ ~ symtab[find(name)].is_external => LabelsOf(name) # {} /\ ExternsOf(name) = {}
    BY <1>3, SymbolOfName
  <2> QED BY <2>1, <2>2
<1> QED BY <1>2, <1>3

-----------------------------------------------------------------------------
(***************************************************************************)
(* What is clean, and what is at fault, stays so while the passes go on.   *)
(***************************************************************************)
SourceGrows ==
  Len(source) <= Len(source') /\ \A i \in 1 .. Len(source) : source'[i] = source[i]

LEMMA SourceRange ==
  ASSUME TypeInvariant
  PROVE  Len(source) \in Nat /\ DOMAIN source = 1 .. Len(source) /\ Len(source) = Len(lines)
BY SourceOfLine

LEMMA LargestStays ==
  ASSUME TypeInvariant, TypeInvariant', SourceGrows, HasLargestNumber
  PROVE  HasLargestNumber'
<1>1. PICK i \in DOMAIN source : \E k \in DOMAIN source[i].args :
        source[i].args[k].k = "num" /\ source[i].args[k].n = LongMax
  BY DEF HasLargestNumber
<1>2. i \in DOMAIN source' /\ source'[i] = source[i]
  <2>1. Len(source') \in Nat /\ DOMAIN source' = 1 .. Len(source')
    BY DEF TypeInvariant, TypeOK
  <2> QED BY <2>1, SourceRange DEF SourceGrows
<1> QED BY <1>1, <1>2 DEF HasLargestNumber

LEMMA SameClean ==
  ASSUME source' = source
  PROVE  /\ (Clean' <=> Clean) /\ (HasLargestNumber' <=> HasLargestNumber)
         /\ \A i \in DOMAIN source : LineFits(i)' <=> LineFits(i)
<1>1. ASSUME NEW name
      PROVE  LabelsOf(name)' = LabelsOf(name) /\ ExternsOf(name)' = ExternsOf(name)
  BY DEF LabelsOf, ExternsOf, OfType
<1>2. ASSUME NEW i PROVE SourceAddress(i)' = SourceAddress(i)
  BY DEF SourceAddress, CodeLines, DataBytes, OfType
<1>3. ASSUME NEW raw, NEW i PROVE LabelFits(raw, i)' <=> LabelFits(raw, i)
  BY <1>1, <1>2 DEF LabelFits
<1>4. ASSUME NEW raw, NEW i PROVE CodeOperandsFit(raw, i)' <=> CodeOperandsFit(raw, i)
  BY <1>3 DEF CodeOperandsFit
<1>5. ASSUME NEW i PROVE LineFits(i)' <=> LineFits(i)
  <2>1. PICK raw : raw = source[i]
    OBVIOUS
  <2>2. LineFits(i) <=> /\ DirectiveFits(raw)
                        /\ TypeOf(raw) = "Code"  => CodeOperandsFit(raw, i)
                        /\ TypeOf(raw) = "Entry" =>
                             LabelsOf(raw.args[1]) # {} /\ ExternsOf(raw.args[1]) = {}
    BY <2>1 DEF LineFits
  <2>3. LineFits(i)' <=> /\ DirectiveFits(raw)
                         /\ TypeOf(raw) = "Code"  => CodeOperandsFit(raw, i)'
                         /\ TypeOf(raw) = "Entry" =>
                              LabelsOf(raw.args[1])' # {} /\ ExternsOf(raw.args[1])' = {}
    BY <2>1 DEF LineFits
  <2> QED BY <1>1, <1>4, <2>2, <2>3
<1>6. HasLargestNumber' <=> HasLargestNumber
  BY DEF HasLargestNumber
<1>7. Clean' <=> Clean
  BY <1>5 DEF Clean, AllParse, NamedOnce
<1> QED BY <1>5, <1>6, <1>7

LEMMA CleanFirstPass ==
  ASSUME TypeInvariant, Clean
  PROVE  FirstPassClean
<1>1. LastHandled \in 0 .. Len(source) /\ DOMAIN source = 1 .. Len(source) /\ Len(source) \in Nat
  BY HandledRange, SourceRange
<1>2. \A i \in 1 .. LastHandled : DirectiveFits(source[i])
  BY <1>1 DEF Clean, LineFits
<1>3. NamedOnce(LastHandled)
  BY <1>1 DEF Clean, NamedOnce
<1> QED BY <1>2, <1>3 DEF Clean, FirstPassClean

LEMMA FirstPassFaultStays ==
  ASSUME TypeInvariant, TypeInvariant', SourceGrows, LastHandled <= LastHandled', FirstPassClean'
  PROVE  FirstPassClean
<1>1. /\ LastHandled \in 0 .. Len(source) /\ LastHandled' \in Nat
      /\ Len(source) \in Nat /\ Len(source') \in Nat
  <2>1. LastHandled' \in Nat
    <3>1. Len(lines') \in Nat /\ (pc' = "handle" => Len(lines') # 0)
      BY DEF TypeInvariant, TypeOK, LinesAreKept
    <3> QED BY <3>1 DEF LastHandled
  <2>2. Len(source') \in Nat
    BY DEF TypeInvariant, TypeOK
  <2> QED BY <2>1, <2>2, HandledRange, SourceRange
<1>2. AllParse
  BY <1>1 DEF FirstPassClean, AllParse, SourceGrows
<1>3. NamedOnce(LastHandled)
  <2>1. \A i, j \in 1 .. LastHandled' : i # j => Names(source'[i]) \cap Names(source'[j]) = {}
    BY DEF FirstPassClean, NamedOnce
  <2>2. ASSUME NEW i \in 1 .. LastHandled, NEW j \in 1 .. LastHandled, i # j
        PROVE  Names(source[i]) \cap Names(source[j]) = {}
    <3>1. i \in 1 .. LastHandled' /\ j \in 1 .. LastHandled'
      BY <1>1
    <3>2. source'[i] = source[i] /\ source'[j] = source[j]
      BY <1>1 DEF SourceGrows
    <3> QED BY <2>1, <2>2, <3>1, <3>2
  <2> QED BY <2>2 DEF NamedOnce
<1>4. \A i \in 1 .. LastHandled : DirectiveFits(source[i])
  BY <1>1 DEF FirstPassClean, SourceGrows
<1> QED BY <1>2, <1>3, <1>4 DEF FirstPassClean

LEMMA FaultStays ==
  ASSUME TypeInvariant, TypeInvariant', FaultFound, SourceGrows, LastHandled <= LastHandled',
         InFirstPass' => InFirstPass, ~ InFirstPass' => source' = source
  PROVE  FaultFound'
<1>1. CASE HasLargestNumber
  BY <1>1, LargestStays DEF FaultFound
<1>2. CASE InFirstPass /\ InFirstPass' /\ ~ FirstPassClean
  BY <1>2, FirstPassFaultStays DEF FaultFound
<1>3. CASE InFirstPass /\ ~ InFirstPass' /\ ~ FirstPassClean
  <2>1. ~ Clean'
    BY <1>3, CleanFirstPass, SameClean
  <2> QED BY <1>3, <2>1 DEF FaultFound
<1>4. CASE ~ InFirstPass /\ ~ Clean
  BY <1>4, SameClean DEF FaultFound
<1> QED BY <1>1, <1>2, <1>3, <1>4 DEF FaultFound

-----------------------------------------------------------------------------
(***************************************************************************)
(* A line is read.                                                         *)
(***************************************************************************)
LEMMA NothingOfEof ==
  ASSUME NEW raw \in RawLine, ParseError(raw, Len(raw.args)) = "ERR_EOF"
  PROVE  TypeOf(raw) = "None" /\ Names(raw) = {} /\ DirectiveFits(raw) /\ BytesOf(raw) = 0
<1>1. TypeOf(raw) = "None"
  BY DEF TypeOf, ParsesCleanly
<1> QED BY <1>1 DEF Names, DirectiveFits, BytesOf

LEMMA FreshBytes ==
  ASSUME TypeInvariant, Progress, BytesAreCounted, LastHandled = Len(lines),
         NEW raw, BytesOf(raw) \in Nat, source' = Append(source, raw), data' = data,
         \/ LastHandled' = Len(lines)
         \/ LastHandled' = Len(lines) + 1 /\ BytesOf(raw) = 0
  PROVE  BytesAreCounted'
<1>1. /\ source \in Seq(RawLine) /\ Len(source) = Len(lines) /\ Len(lines) \in Nat
      /\ \A j \in 1 .. Len(lines) : BytesOf(source[j]) \in Nat
  BY SourceOfLine DEF TypeInvariant, TypeOK
<1>2. /\ \A j \in 1 .. Len(lines) : source'[j] = source[j]
      /\ source'[Len(lines) + 1] = raw
  BY <1>1, AppendAnything
<1>3. ASSUME NEW m \in 0 .. Len(lines)
      PROVE  /\ BytesBefore(source', m) = BytesBefore(source, m)
             /\ DataBytes(m)' = DataBytes(m)
  <2>1. BytesBefore(source', m) = BytesBefore(source, m)
    BY <1>1, <1>2, BytesSame
  <2> QED BY <2>1, BytesNow, BytesNext
<1>4. DataBytes(LastHandled)' = DataBytes(LastHandled)
  <2>1. CASE LastHandled' = Len(lines)
    <3>1. DataBytes(LastHandled)' = Cardinality(BytesBefore(source', LastHandled'))
      BY DEF DataBytes, BytesBefore, BytesOfLine
    <3>2. BytesBefore(source', Len(lines)) = BytesBefore(source, Len(lines))
      <4>1. Len(lines) \in 0 .. Len(lines)
        BY <1>1
      <4> QED BY <1>3, <4>1
    <3> QED BY <2>1, <3>1, <3>2, BytesNow
  <2>2. CASE LastHandled' = Len(lines) + 1 /\ BytesOf(raw) = 0
    <3>1. DataBytes(LastHandled)' = Cardinality(BytesBefore(source', LastHandled'))
      BY DEF DataBytes, BytesBefore, BytesOfLine
    <3>2. BytesBefore(source', Len(lines)) = BytesBefore(source, Len(lines))
      <4>1. Len(lines) \in 0 .. Len(lines)
        BY <1>1
      <4> QED BY <1>3, <4>1
    <3>3. \A j \in 1 .. Len(lines) + 1 : BytesOf(source'[j]) \in Nat
      BY <1>1, <1>2
    <3>4. Cardinality(BytesBefore(source', Len(lines) + 1)) =
            Cardinality(BytesBefore(source', Len(lines))) + 0
      BY <1>1, <1>2, <2>2, <3>3, BytesStep
    <3>5. Cardinality(BytesBefore(source, Len(lines))) \in Nat
      BY <1>1, BytesFinite
    <3> QED BY <2>2, <3>1, <3>2, <3>4, <3>5, BytesNow
  <2> QED BY <2>1, <2>2
<1>5. data \in Seq(Nat) /\ Len(data) \in Nat /\ \A k \in DOMAIN data : data[k] \in 1 .. Len(lines)
  BY DEF TypeInvariant, TypeOK, MemoryTypeOK, Progress, CountersAgree
<1>6. ASSUME NEW v \in 0 .. Len(data) - 1
      PROVE  /\ DataBytes(data[v + 1] - 1)' <= v /\ v < DataBytes(data[v + 1])'
  <2>1. PICK i \in 1 .. Len(lines) : i = data[v + 1]
    BY <1>5
  <2>2. DataBytes(i - 1) <= v /\ v < DataBytes(i)
    BY <2>1 DEF BytesAreCounted
  <2>3. DataBytes(i - 1)' <= v /\ v < DataBytes(i)'
    <3>1. i - 1 \in 0 .. Len(lines) /\ i \in 0 .. Len(lines)
      BY <1>1
    <3> QED BY <1>3, <2>2, <3>1
  <2>4. DataBytes(data[v + 1] - 1)' = DataBytes(i - 1)' /\ DataBytes(data[v + 1])' = DataBytes(i)'
    BY <2>1 DEF DataBytes
  <2> QED BY <2>3, <2>4
<1> QED BY <1>4, <1>6 DEF BytesAreCounted

LEMMA ReadAcceptance ==
  ASSUME Invariants, TypeInvariant', AddressInvariant', FirstLine \/ NextLine
  PROVE  AcceptanceInvariant'
<1>1. PICK raw \in Readable, failed \in Failing({"operand", "queue_node"}) :
        \E kept \in Kept(raw, failed) : Parse(raw, kept) /\ Fail(failed, erange)
  BY DEF FirstLine, NextLine
<1>2. PICK kept \in Kept(raw, failed) : Parse(raw, kept) /\ Fail(failed, erange)
  BY <1>1
<1>3. /\ TypeInvariant /\ AddressInvariant /\ AcceptanceInvariant
      /\ source \in Seq(RawLine) /\ lines \in Seq(AssemblyLine) /\ Len(source) = Len(lines)
      /\ Len(lines) \in Nat /\ faults \in Nat /\ erange \in BOOLEAN
  BY SourceOfLine DEF Invariants, TypeInvariant, TypeOK
<1>4. /\ source' = Append(source, raw) /\ lines' = Append(lines, parseLine(raw, kept))
      /\ err' = ParseError(raw, kept) /\ raw \in RawLine
  BY <1>2, ReadableType DEF Parse
<1>5. /\ Len(source') = Len(lines) + 1 /\ Len(lines') = Len(lines) + 1
      /\ DOMAIN source' = 1 .. Len(lines) + 1 /\ DOMAIN lines' = 1 .. Len(lines) + 1
      /\ source'[Len(lines) + 1] = raw
      /\ lines'[Len(lines) + 1] = parseLine(raw, kept)
      /\ \A k \in 1 .. Len(lines) : source'[k] = source[k] /\ lines'[k] = lines[k]
  <2>1. /\ Len(source') = Len(source) + 1 /\ DOMAIN source' = 1 .. Len(source) + 1
        /\ source'[Len(source) + 1] = raw /\ \A k \in 1 .. Len(source) : source'[k] = source[k]
    BY <1>3, <1>4, AppendAnything
  <2>2. /\ Len(lines') = Len(lines) + 1 /\ DOMAIN lines' = 1 .. Len(lines) + 1
        /\ lines'[Len(lines) + 1] = parseLine(raw, kept)
        /\ \A k \in 1 .. Len(lines) : lines'[k] = lines[k]
    BY <1>3, <1>4, AppendAnything
  <2> QED BY <1>3, <2>1, <2>2
<1>6. SourceGrows
  BY <1>3, <1>5 DEF SourceGrows
<1>7. /\ pc \in {"open", "read"} /\ pc' \in {"handle", "fix"} /\ UNCHANGED <<symbolVars, memoryVars>>
      /\ pc = "open" => errored' = errored
      /\ pc = "read" => errored' = (errored \/ err' \notin {"SUCCESS", "ERR_EOF"})
  <2>1. CASE FirstLine
    BY <2>1 DEF FirstLine
  <2>2. CASE NextLine
    BY <2>2 DEF NextLine
  <2> QED BY <2>1, <2>2
<1>8. /\ InFirstPass /\ InFirstPass' /\ LastHandled = Len(lines)
      /\ \/ pc' = "handle" /\ LastHandled' = Len(lines)
         \/ pc' = "fix" /\ LastHandled' = Len(lines) + 1
  BY <1>3, <1>5, <1>7 DEF InFirstPass, LastHandled
<1>9. ASSUME faults' = 0
      PROVE  faults = 0 /\ failed = {} /\ kept = Len(raw.args)
  <2>1. faults = 0 /\ failed = {}
    BY <1>2, <1>3, <1>9, FailType, FourElements
  <2> QED BY <2>1 DEF Kept
<1>10. SourceEnds'
  <2>1. ASSUME NEW i \in DOMAIN source'
        PROVE  source'[i] = Eof \/ (i <= MaxLines /\ source'[i] \in SourceLines)
    <3>1. CASE i = Len(lines) + 1
      <4>1. raw = Eof \/ (Len(source) < MaxLines /\ raw \in SourceLines)
        BY DEF Readable
      <4>2. MaxLines \in Nat
        BY SourceAssumption
      <4> QED BY <1>3, <1>5, <3>1, <4>1, <4>2
    <3>2. CASE i # Len(lines) + 1
      <4>1. i \in 1 .. Len(lines) /\ i \in DOMAIN source
        BY <1>3, <1>5, <3>2
      <4> QED BY <1>3, <1>5, <4>1 DEF AcceptanceInvariant, SourceEnds
    <3> QED BY <3>1, <3>2
  <2> QED BY <1>7, <2>1 DEF SourceEnds
<1>11. ASSUME faults' = 0 PROVE LinesAreParses'
  <2>1. ASSUME NEW i \in DOMAIN lines' PROVE IsParseOf(lines'[i], source'[i])
    <3>1. CASE i = Len(lines) + 1
      BY <1>5, <1>9, <1>11, <3>1, WholeParseIsParse
    <3>2. CASE i # Len(lines) + 1
      <4>1. i \in 1 .. Len(lines)
        BY <1>3, <1>5, <3>2
      <4>2. IsParseOf(lines[i], source[i])
        BY <1>3, <1>9, <1>11, <4>1, ParseOfLine
      <4> QED BY <1>5, <4>1, <4>2
    <3> QED BY <3>1, <3>2
  <2> QED BY <2>1 DEF LinesAreParses
<1>12. ASSUME Sound' PROVE SoFarClean'
  <2>1. /\ faults' = 0 /\ Sound /\ Progress /\ SoFarClean /\ FirstPassClean /\ BytesAreCounted
        /\ Progress'
    BY <1>3, <1>12, ReadSound
       DEF Sound, AcceptanceInvariant, SoFarClean, AddressInvariant
  <2>2. err' = ParseError(raw, Len(raw.args))
    BY <1>4, <1>9, <2>1
  <2>3. AllParse'
    <3>1. ASSUME NEW i \in 2 .. Len(source')
          PROVE  ParseError(source'[i], Len(source'[i].args)) \in {"SUCCESS", "ERR_EOF"}
      <4>1. CASE i = Len(lines) + 1
        <5>1. pc = "read"
          <6>1. CASE pc = "open"
            <7>1. lines = <<>>
              BY <2>1, <6>1 DEF Progress, QueueIsTheRest
            <7> QED BY <1>5, <3>1, <4>1, <7>1
          <6> QED BY <1>7, <6>1
        <5>2. err' \in {"SUCCESS", "ERR_EOF"}
          BY <1>7, <1>12, <5>1 DEF Sound
        <5> QED BY <1>5, <2>2, <4>1, <5>2
      <4>2. CASE i # Len(lines) + 1
        <5>1. i \in 2 .. Len(source) /\ source'[i] = source[i]
          BY <1>3, <1>5, <3>1, <4>2
        <5> QED BY <2>1, <5>1 DEF FirstPassClean, AllParse
      <4> QED BY <4>1, <4>2
    <3> QED BY <3>1 DEF AllParse
  <2>4. pc' = "fix" => Names(raw) = {} /\ DirectiveFits(raw) /\ BytesOf(raw) = 0
    <3>1. pc' = "fix" => err' \in {"ERR_EOF", "ERR_OUT_OF_MEMEORY"}
      BY DEF FirstLine, NextLine
    <3>2. pc' = "fix" => err' = "ERR_EOF"
      BY <1>4, <2>2, <3>1, WholeParse
    <3> QED BY <1>4, <2>2, <3>2, NothingOfEof
  <2>5. NamedOnce(LastHandled)'
    <3>1. ASSUME NEW i \in 1 .. LastHandled', NEW j \in 1 .. LastHandled', i # j
          PROVE  Names(source'[i]) \cap Names(source'[j]) = {}
      <4>1. CASE i \in 1 .. Len(lines) /\ j \in 1 .. Len(lines)
        BY <1>5, <1>8, <2>1, <3>1, <4>1 DEF FirstPassClean, NamedOnce
      <4>2. CASE pc' = "fix" /\ (i = Len(lines) + 1 \/ j = Len(lines) + 1)
        BY <1>5, <2>4, <4>2
      <4> QED BY <1>3, <1>8, <4>1, <4>2
    <3> QED BY <3>1 DEF NamedOnce
  <2>6. ASSUME NEW i \in 1 .. LastHandled' PROVE DirectiveFits(source'[i])
    <3>1. CASE i \in 1 .. Len(lines)
      BY <1>5, <1>8, <2>1, <3>1 DEF FirstPassClean
    <3>2. CASE pc' = "fix" /\ i = Len(lines) + 1
      BY <1>5, <2>4, <3>2
    <3> QED BY <1>3, <1>8, <3>1, <3>2
  <2>7. BytesAreCounted'
    <3>1. BytesOf(raw) \in Nat /\ data' = data
      BY <1>4, <1>7, BytesType DEF memoryVars
    <3> QED BY <1>3, <1>4, <1>8, <2>1, <2>4, <3>1, FreshBytes
  <2>8. LastPopped' = 0
    BY <1>8, <2>1 DEF Progress, QueueIsTheRest
  <2>9. \A i \in 1 .. LastPopped' : LineFits(i)'
    BY <2>8
  <2>10. FirstPassClean'
    BY <2>3, <2>5, <2>6 DEF FirstPassClean
  <2> QED BY <2>7, <2>9, <2>10 DEF SoFarClean
<1>13. ASSUME faults' = 0, errored' PROVE FaultFound'
  <2>1. CASE errored
    <3>1. FaultFound
      BY <1>3, <1>9, <1>13, <2>1 DEF AcceptanceInvariant
    <3>2. LastHandled <= LastHandled'
      BY <1>3, <1>8
    <3> QED BY <1>3, <1>6, <1>8, <3>1, <3>2, FaultStays
  <2>2. CASE ~ errored
    <3>1. pc = "read" /\ err' \notin {"SUCCESS", "ERR_EOF"}
      BY <1>7, <1>13, <2>2 DEF TypeInvariant, TypeOK
    <3>2. source # <<>>
      BY <1>3, <3>1 DEF AcceptanceInvariant, SourceEnds
    <3>3. Len(lines) + 1 \in 2 .. Len(source')
      BY <1>3, <1>5, <3>2
    <3>4. ParseError(source'[Len(lines) + 1], Len(source'[Len(lines) + 1].args))
            \notin {"SUCCESS", "ERR_EOF"}
      BY <1>4, <1>5, <1>9, <1>13, <3>1
    <3>5. ~ AllParse'
      BY <3>3, <3>4 DEF AllParse
    <3> QED BY <1>8, <3>5 DEF FaultFound, FirstPassClean
  <2> QED BY <2>1, <2>2
<1> QED BY <1>10, <1>11, <1>12, <1>13 DEF AcceptanceInvariant

-----------------------------------------------------------------------------
(***************************************************************************)
(* A line is handled.                                                      *)
(***************************************************************************)
LEMMA HandledBytes ==
  ASSUME TypeInvariant, BytesAreCounted, pc = "handle", source' = source,
         LastHandled' = Len(lines),
         NEW size, size = BytesOf(source[Len(lines)]),
         data' = data \o [k \in 1 .. size |-> Len(lines)]
  PROVE  BytesAreCounted'
<1>1. /\ Len(lines) \in Nat \ {0} /\ LastHandled = Len(lines) - 1
      /\ \A j \in 1 .. Len(lines) : BytesOf(source[j]) \in Nat
  BY SourceOfLine DEF TypeInvariant, LinesAreKept, LastHandled
<1>2. size \in Nat
  BY <1>1
<1>3. data \in Seq(Nat) /\ Len(data) \in Nat
  BY DEF TypeInvariant, TypeOK, MemoryTypeOK
<1>4. /\ Len(data') = Len(data) + size
      /\ \A v \in 0 .. Len(data) - 1 : data'[v + 1] = data[v + 1]
      /\ \A v \in Len(data) .. Len(data) + size - 1 : data'[v + 1] = Len(lines)
  BY <1>1, <1>2, <1>3
<1>5. \A m : DataBytes(m)' = DataBytes(m)
  BY DEF DataBytes
<1>6. /\ DataBytes(Len(lines)) = DataBytes(Len(lines) - 1) + size
      /\ DataBytes(Len(lines) - 1) = Len(data)
  <2>1. PICK n \in Nat : Len(lines) = n + 1
    BY <1>1
  <2>2. Cardinality(BytesBefore(source, n + 1)) = Cardinality(BytesBefore(source, n)) + size
    BY <1>1, <2>1, BytesStep
  <2>3. Len(lines) - 1 = n
    BY <2>1
  <2> QED BY <1>1, <2>1, <2>2, <2>3, BytesNow DEF BytesAreCounted
<1>7. Len(data') = DataBytes(LastHandled)'
  <2>1. DataBytes(LastHandled)' = DataBytes(Len(lines))
    BY DEF DataBytes
  <2> QED BY <1>2, <1>3, <1>4, <1>6, <2>1
<1>8. ASSUME NEW v \in 0 .. (Len(data) + size) - 1
      PROVE  DataBytes(data[v + 1] - 1)' <= v /\ v < DataBytes(data[v + 1])'
  <2>1. CASE v \in 0 .. Len(data) - 1
    <3>1. PICK i : i = data[v + 1] /\ i = data'[v + 1]
      BY <1>4, <2>1
    <3>2. DataBytes(i - 1) <= v /\ v < DataBytes(i)
      BY <2>1, <3>1 DEF BytesAreCounted
    <3>3. DataBytes(data[v + 1] - 1)' = DataBytes(i - 1) /\ DataBytes(data[v + 1])' = DataBytes(i)
      BY <3>1 DEF DataBytes
    <3> QED BY <3>2, <3>3
  <2>2. CASE v \in Len(data) .. Len(data) + size - 1
    <3>1. PICK i : i = Len(lines) /\ i = data'[v + 1]
      BY <1>4, <2>2
    <3>2. DataBytes(i - 1) <= v /\ v < DataBytes(i)
      <4>1. PICK front, end : front = Len(data) /\ end = front + size
        OBVIOUS
      <4>2. front \in Nat /\ v \in front .. end - 1 /\ end \in Nat
        BY <1>2, <1>3, <2>2, <4>1
      <4>3. DataBytes(i - 1) = front /\ DataBytes(i) = end
        BY <1>6, <3>1, <4>1
      <4> QED BY <4>2, <4>3
    <3>3. DataBytes(data[v + 1] - 1)' = DataBytes(i - 1) /\ DataBytes(data[v + 1])' = DataBytes(i)
      BY <3>1 DEF DataBytes
    <3> QED BY <3>2, <3>3
  <2>3. v \in 0 .. Len(data) - 1 \/ v \in Len(data) .. Len(data) + size - 1
    <3>1. PICK front : front = Len(data)
      OBVIOUS
    <3>2. front \in Nat /\ v \in 0 .. (front + size) - 1
      BY <1>3, <3>1
    <3> QED BY <1>2, <3>1, <3>2
  <2> QED BY <2>1, <2>2, <2>3
<1>9. 0 .. Len(data') - 1 = 0 .. (Len(data) + size) - 1
  BY <1>4, Zenon
<1> QED BY <1>7, <1>8, <1>9 DEF BytesAreCounted

(* What the first pass asks of the line it handles. *)
HandledClean ==
  /\ DirectiveFits(source[Len(lines)])
  /\ \A i \in 1 .. LastHandled : Names(source[i]) \cap Names(source[Len(lines)]) = {}

LEMMA HandledAcceptance ==
  ASSUME Invariants, TypeInvariant', AddressInvariant', pc = "handle", NEW error, Handled(error),
         Len(lines') = Len(lines),
         \A i \in 1 .. Len(lines) :
           /\ lines'[i].type = lines[i].type /\ lines'[i].label = lines[i].label
           /\ lines'[i].opcode_name = lines[i].opcode_name /\ lines'[i].args = lines[i].args,
         faults' = 0 => faults = 0,
         Sound /\ faults' = 0 =>
           IF error = "SUCCESS"
           THEN /\ HandledClean
                /\ data' = data \o [k \in 1 .. BytesOf(source[Len(lines)]) |-> Len(lines)]
           ELSE ~ HandledClean \/ HasLargestNumber
  PROVE  AcceptanceInvariant'
<1>1. /\ TypeInvariant /\ AddressInvariant /\ AcceptanceInvariant
      /\ Len(source) = Len(lines) /\ Len(lines) \in Nat \ {0}
      /\ DOMAIN lines = 1 .. Len(lines) /\ DOMAIN source = 1 .. Len(lines)
  <2>1. lines # <<>>
    BY DEF Invariants, TypeInvariant, LinesAreKept
  <2> QED BY <2>1, SourceOfLine DEF Invariants
<1>2. /\ source' = source /\ errored' = (errored \/ error # "SUCCESS") /\ pc' \in {"fix", "read"}
      /\ InFirstPass /\ InFirstPass' /\ LastHandled = Len(lines) - 1 /\ LastHandled' = Len(lines)
  BY <1>1 DEF Handled, InFirstPass, LastHandled
<1>3. SourceEnds'
  BY <1>1, <1>2 DEF AcceptanceInvariant, SourceEnds
<1>4. ASSUME faults' = 0 PROVE LinesAreParses'
  <2>1. DOMAIN lines' = 1 .. Len(lines)
    BY <1>1 DEF TypeInvariant, TypeOK
  <2>2. ASSUME NEW i \in 1 .. Len(lines) PROVE IsParseOf(lines'[i], source[i])
    <3>1. IsParseOf(lines[i], source[i])
      BY <1>1, <1>4, ParseOfLine
    <3> QED BY <3>1 DEF IsParseOf
  <2> QED BY <1>2, <2>1, <2>2 DEF LinesAreParses
<1>5. FirstPassClean' <=> FirstPassClean /\ HandledClean
  <2>1. 1 .. LastHandled' = (1 .. LastHandled) \cup {Len(lines)} /\ Len(lines) \notin 1 .. LastHandled
    BY <1>1, <1>2
  <2>2. AllParse' <=> AllParse
    BY <1>2 DEF AllParse
  <2>3. (\A i \in 1 .. LastHandled' : DirectiveFits(source'[i])) <=>
          (\A i \in 1 .. LastHandled : DirectiveFits(source[i]))
            /\ DirectiveFits(source[Len(lines)])
    BY <1>2, <2>1
  <2>4. NamedOnce(LastHandled)' <=>
          NamedOnce(LastHandled)
            /\ \A i \in 1 .. LastHandled : Names(source[i]) \cap Names(source[Len(lines)]) = {}
    <3> DEFINE Apart(i, j) == Names(source[i]) \cap Names(source[j]) = {}
    <3>1. NamedOnce(LastHandled)' <=>
            \A i, j \in (1 .. LastHandled) \cup {Len(lines)} : i # j => Apart(i, j)
      BY <1>2, <2>1 DEF NamedOnce
    <3>2. NamedOnce(LastHandled) <=> \A i, j \in 1 .. LastHandled : i # j => Apart(i, j)
      BY DEF NamedOnce
    <3>3. \A i, j : Apart(i, j) <=> Apart(j, i)
      OBVIOUS
    <3> HIDE DEF Apart
    <3>4. NamedOnce(LastHandled)' <=>
            NamedOnce(LastHandled) /\ \A i \in 1 .. LastHandled : Apart(i, Len(lines))
      BY <2>1, <3>1, <3>2, <3>3
    <3> QED BY <3>4 DEF Apart
  <2> QED BY <2>2, <2>3, <2>4 DEF FirstPassClean, HandledClean
<1>6. ASSUME Sound' PROVE SoFarClean'
  <2>1. /\ faults' = 0 /\ faults = 0 /\ error = "SUCCESS" /\ pc' = "read" /\ Sound
    BY <1>6, HandledSound, <1>1, <1>2 DEF Sound
  <2>2. FirstPassClean /\ BytesAreCounted /\ HandledClean
        /\ data' = data \o [k \in 1 .. BytesOf(source[Len(lines)]) |-> Len(lines)]
    BY <2>1, SoundParts DEF SoFarClean
  <2>3. BytesAreCounted'
    BY <1>1, <1>2, <2>2, HandledBytes
  <2>4. LastPopped' = 0
    BY <1>2, <1>6 DEF AddressInvariant, Progress, QueueIsTheRest
  <2>5. \A i \in 1 .. LastPopped' : LineFits(i)'
    BY <2>4
  <2> QED BY <1>5, <2>2, <2>3, <2>5 DEF SoFarClean
<1>7. ASSUME faults' = 0, errored' PROVE FaultFound'
  <2>1. CASE errored
    <3>1. FaultFound
      BY <1>1, <1>7, <2>1 DEF AcceptanceInvariant
    <3>2. LastHandled <= LastHandled' /\ SourceGrows
      BY <1>1, <1>2 DEF SourceGrows
    <3> QED BY <1>1, <1>2, <3>1, <3>2, FaultStays
  <2>2. CASE ~ errored
    <3>1. Sound /\ error # "SUCCESS"
      BY <1>2, <1>7, <2>2 DEF Sound
    <3>2. ~ HandledClean \/ HasLargestNumber
      BY <1>7, <3>1
    <3>3. HasLargestNumber' <=> HasLargestNumber
      BY <1>2, SameClean
    <3> QED BY <1>2, <1>5, <3>2, <3>3 DEF FaultFound
  <2> QED BY <2>1, <2>2
<1> QED BY <1>3, <1>4, <1>6, <1>7 DEF AcceptanceInvariant

LEMMA CurrentLine ==
  ASSUME Invariants, Sound, pc = "handle", NEW raw, raw = source[Len(lines)]
  PROVE  /\ raw \in RawLine /\ Current \in AssemblyLine /\ IsParseOf(Current, raw)
         /\ \A kind \in Kinds : Current.type = kind <=> TypeOf(raw) = kind
         /\ HandledClean <=> DirectiveFits(raw) /\ \A name \in Names(raw) : ~ exists(name)
<1>1. TypeInvariant /\ AcceptanceInvariant /\ faults = 0 /\ Len(lines) \in 1 .. Len(lines)
  BY CurrentType, SourceOfLine DEF Invariants, Sound
<1>2. /\ raw \in RawLine /\ Current \in AssemblyLine /\ IsParseOf(Current, raw)
      /\ \A kind \in Kinds : Current.type = kind <=> TypeOf(raw) = kind
  BY <1>1, ParseOfLine DEF Current, OfType
<1>3. HandledClean <=>
        DirectiveFits(raw) /\ \A i \in 1 .. LastHandled : Names(source[i]) \cap Names(raw) = {}
  BY DEF HandledClean
<1>4. \A name : exists(name) <=> \E i \in 1 .. LastHandled : name \in Names(source[i])
  BY NamesKnown
<1>5. (\A i \in 1 .. LastHandled : Names(source[i]) \cap Names(raw) = {}) <=>
        \A name \in Names(raw) : ~ exists(name)
  BY <1>4
<1> QED BY <1>2, <1>3, <1>5

LEMMA NoBytes ==
  ASSUME TypeInvariant, NEW n
  PROVE  data = data \o [k \in 1 .. 0 |-> n]
<1>1. data \in Seq(Nat)
  BY DEF TypeInvariant, TypeOK, MemoryTypeOK
<1>2. [k \in 1 .. 0 |-> n] = <<>>
  OBVIOUS
<1> QED BY <1>1, <1>2

LEMMA SkippedAcceptance ==
  ASSUME Invariants, TypeInvariant', AddressInvariant', HandleIgnored \/ HandleEntry
  PROVE  AcceptanceInvariant'
<1>1. pc = "handle" /\ UNCHANGED <<lines, faults, data>>
  BY DEF HandleIgnored, HandleEntry, Handling, memoryVars
<1>2. PICK error :
        /\ Handled(error)
        /\ \/ error = "SUCCESS" /\ Current.type \in {"None", "Empty"}
           \/ /\ error = IF Len(Current.args) # 1 THEN "ERR_INVALID_SYNTAX_ENTRY_DECLERATION"
                         ELSE "SUCCESS"
              /\ Current.type = "Entry"
  BY DEF HandleIgnored, HandleEntry, Handling
<1>3. ASSUME Sound
      PROVE  /\ error = "SUCCESS" <=> HandledClean
             /\ BytesOf(source[Len(lines)]) = 0
  <2>1. PICK raw : raw = source[Len(lines)]
    OBVIOUS
  <2>2. /\ raw \in RawLine /\ IsParseOf(Current, raw)
        /\ \A kind \in Kinds : Current.type = kind <=> TypeOf(raw) = kind
        /\ HandledClean <=> DirectiveFits(raw) /\ \A name \in Names(raw) : ~ exists(name)
    BY <1>1, <1>3, <2>1, CurrentLine
  <2>3. TypeOf(raw) \notin {"Code", "Data", "Extern"}
        /\ (Current.type = "Entry" <=> TypeOf(raw) = "Entry")
    BY <1>2, <2>2 DEF Kinds
  <2>4. Names(raw) = {} /\ BytesOf(raw) = 0
    BY <2>3 DEF Names, BytesOf
  <2>5. DirectiveFits(raw) <=> (Current.type = "Entry" => Len(raw.args) = 1)
    BY <2>3 DEF DirectiveFits
  <2>6. Current.type = "Entry" => Current.args = raw.args
    BY <2>2, <2>3, ParsedLine DEF Kinds
  <2> QED BY <1>2, <2>1, <2>2, <2>4, <2>5, <2>6
<1>4. data' = data \o [k \in 1 .. 0 |-> Len(lines)]
  BY <1>1, NoBytes DEF Invariants
<1>5. Sound /\ faults' = 0 =>
        IF error = "SUCCESS"
        THEN /\ HandledClean
             /\ data' = data \o [k \in 1 .. BytesOf(source[Len(lines)]) |-> Len(lines)]
        ELSE ~ HandledClean \/ HasLargestNumber
  BY <1>3, <1>4, Zenon
<1> QED BY <1>1, <1>2, <1>5, HandledAcceptance

LEMMA HandleExternAcceptance ==
  ASSUME Invariants, TypeInvariant', AddressInvariant', HandleExtern
  PROVE  AcceptanceInvariant'
<1>1. pc = "handle" /\ Current.type = "Extern" /\ UNCHANGED <<lines, data>>
  BY DEF HandleExtern, Handling, memoryVars
<1>2. PICK error, failed :
        /\ Handled(error)
        /\ \/ /\ Len(Current.args) # 1 /\ error = "ERR_INVALID_SYNTAX_EXTERN_DECLERATION"
              /\ faults' = faults
           \/ /\ Len(Current.args) = 1 /\ error = InsertError(Current.args[1], failed)
              /\ failed \in Failing({"symbol", "node"}) /\ Fail(failed, erange)
  BY DEF HandleExtern
<1>3. /\ faults' = 0 => faults = 0
      /\ faults' = 0 /\ Len(Current.args) = 1 => failed = {}
  BY <1>2, FailType, FourElements DEF Invariants, TypeInvariant, TypeOK
<1>4. ASSUME Sound, faults' = 0
      PROVE  /\ error = "SUCCESS" <=> HandledClean
             /\ BytesOf(source[Len(lines)]) = 0
  <2>1. PICK raw : raw = source[Len(lines)]
    OBVIOUS
  <2>2. /\ raw \in RawLine /\ IsParseOf(Current, raw)
        /\ \A kind \in Kinds : Current.type = kind <=> TypeOf(raw) = kind
        /\ HandledClean <=> DirectiveFits(raw) /\ \A name \in Names(raw) : ~ exists(name)
    BY <1>1, <1>4, <2>1, CurrentLine
  <2>3. TypeOf(raw) = "Extern"
    BY <1>1, <2>2 DEF Kinds
  <2>4. Current.args = raw.args
    BY <2>2, <2>3, ParsedLine DEF Kinds
  <2>5. /\ BytesOf(raw) = 0 /\ (DirectiveFits(raw) <=> Len(raw.args) = 1)
        /\ Names(raw) = IF Len(raw.args) = 1 THEN {raw.args[1]} ELSE {}
    BY <2>3 DEF Names, BytesOf, DirectiveFits
  <2>6. Len(Current.args) = 1 => (error = "SUCCESS" <=> ~ exists(Current.args[1]))
    BY <1>2, <1>3, <1>4 DEF InsertError
  <2> QED BY <1>2, <2>1, <2>2, <2>4, <2>5, <2>6
<1>5. data' = data \o [k \in 1 .. 0 |-> Len(lines)]
  BY <1>1, NoBytes DEF Invariants
<1>6. Sound /\ faults' = 0 =>
        IF error = "SUCCESS"
        THEN /\ HandledClean
             /\ data' = data \o [k \in 1 .. BytesOf(source[Len(lines)]) |-> Len(lines)]
        ELSE ~ HandledClean \/ HasLargestNumber
  BY <1>4, <1>5, Zenon
<1> QED BY <1>1, <1>2, <1>3, <1>6, HandledAcceptance

(* A label is declared exactly if no line before has put it into the table. *)
LEMMA DeclareExactly ==
  ASSUME NEW raw \in RawLine, IsParseOf(Current, raw), Current.type \in {"Code", "Data"}
  PROVE  DeclareError({}) = "SUCCESS" <=> \A name \in Names(raw) : ~ exists(name)
<1>1. \A name : name \in Names(raw) <=> Current.label # Empty /\ Current.label = name
  BY NamesOfLine
<1>2. DeclareError({}) = "SUCCESS" <=> Current.label = Empty \/ ~ exists(Current.label)
  BY DEF DeclareError, InsertError
<1> QED BY <1>1, <1>2

LEMMA HandleCodeAcceptance ==
  ASSUME Invariants, TypeInvariant', AddressInvariant', HandleCode
  PROVE  AcceptanceInvariant'
<1>1. PICK failed \in Failing({"symbol", "node"}) :
        Handled(DeclareError(failed)) /\ Fail(failed, erange)
  BY DEF HandleCode
<1>2. /\ pc = "handle" /\ Current.type = "Code" /\ data' = data
      /\ lines' = [lines EXCEPT ![Len(lines)].code_position = instruction_counter]
  BY DEF HandleCode, Handling, memoryVars
<1>3. faults' = 0 => faults = 0 /\ failed = {}
  BY <1>1, FailType, FourElements DEF Invariants, TypeInvariant, TypeOK
<1>4. ASSUME Sound, faults' = 0
      PROVE  /\ DeclareError(failed) = "SUCCESS" <=> HandledClean
             /\ BytesOf(source[Len(lines)]) = 0
  <2>1. PICK raw : raw = source[Len(lines)]
    OBVIOUS
  <2>2. /\ raw \in RawLine /\ IsParseOf(Current, raw)
        /\ \A kind \in Kinds : Current.type = kind <=> TypeOf(raw) = kind
        /\ HandledClean <=> DirectiveFits(raw) /\ \A name \in Names(raw) : ~ exists(name)
    BY <1>2, <1>4, <2>1, CurrentLine
  <2>3. TypeOf(raw) = "Code"
    BY <1>2, <2>2 DEF Kinds
  <2>4. BytesOf(raw) = 0 /\ DirectiveFits(raw)
    BY <2>3 DEF BytesOf, DirectiveFits
  <2>5. DeclareError(failed) = "SUCCESS" <=> \A name \in Names(raw) : ~ exists(name)
    BY <1>2, <1>3, <1>4, <2>2, DeclareExactly
  <2> QED BY <2>1, <2>2, <2>4, <2>5
<1>5. data' = data \o [k \in 1 .. 0 |-> Len(lines)]
  BY <1>2, NoBytes DEF Invariants
<1>6. Sound /\ faults' = 0 =>
        IF DeclareError(failed) = "SUCCESS"
        THEN /\ HandledClean
             /\ data' = data \o [k \in 1 .. BytesOf(source[Len(lines)]) |-> Len(lines)]
        ELSE ~ HandledClean \/ HasLargestNumber
  BY <1>4, <1>5, Zenon
<1>7. /\ Len(lines') = Len(lines)
      /\ \A i \in 1 .. Len(lines) :
           /\ lines'[i].type = lines[i].type /\ lines'[i].label = lines[i].label
           /\ lines'[i].opcode_name = lines[i].opcode_name /\ lines'[i].args = lines[i].args
  <2>1. lines \in Seq(AssemblyLine) /\ Len(lines) \in Nat
    BY DEF Invariants, TypeInvariant, TypeOK
  <2>2. ASSUME NEW i \in 1 .. Len(lines)
        PROVE  /\ lines'[i].type = lines[i].type /\ lines'[i].label = lines[i].label
               /\ lines'[i].opcode_name = lines[i].opcode_name /\ lines'[i].args = lines[i].args
    <3>1. lines[i] \in AssemblyLine
      BY <2>1
    <3>2. lines'[i] = lines[i] \/ lines'[i] = [lines[i] EXCEPT !.code_position = instruction_counter]
      BY <1>2, <2>1
    <3> QED BY <3>1, <3>2 DEF AssemblyLine
  <2>3. ASSUME NEW l PROVE Len([lines EXCEPT ![Len(lines)] = l]) = Len(lines)
    BY <2>1
  <2> QED BY <1>2, <2>2, <2>3
<1> QED BY <1>1, <1>2, <1>3, <1>6, <1>7, HandledAcceptance

LEMMA HandleDataAcceptance ==
  ASSUME Invariants, TypeInvariant', AddressInvariant', HandleData
  PROVE  AcceptanceInvariant'
<1>1. PICK failed \in Failing({"symbol", "node", "buffer", "grow"}) :
        LET declared == DeclareError(failed)
            stale    == erange /\ "node" \notin failed
            decoded  == DataError(Current, stale, failed)
        IN  /\ DeclareLabel(data_counter, "Data", failed)
            /\ IF declared # "SUCCESS"
               THEN Handled(declared) /\ UNCHANGED memoryVars
               ELSE IF decoded # "SUCCESS"
               THEN Handled(decoded) /\ UNCHANGED memoryVars
               ELSE /\ writeData(Len(lines), DataSize(Current), failed)
                    /\ Handled(WriteDataError(DataSize(Current), failed))
            /\ Fail(failed, IF declared = "SUCCESS" THEN ErangeAfterData(Current, stale)
                            ELSE erange)
  BY DEF HandleData
<1>2. PICK declared, stale, decoded, size :
        /\ declared = DeclareError(failed) /\ stale = (erange /\ "node" \notin failed)
        /\ decoded = DataError(Current, stale, failed) /\ size = DataSize(Current)
  OBVIOUS
<1>3. PICK error :
        /\ Handled(error)
        /\ \/ declared # "SUCCESS" /\ error = declared
           \/ declared = "SUCCESS" /\ decoded # "SUCCESS" /\ error = decoded
           \/ /\ declared = "SUCCESS" /\ decoded = "SUCCESS"
              /\ error = WriteDataError(size, failed) /\ writeData(Len(lines), size, failed)
  BY <1>1, <1>2
<1>4. /\ pc = "handle" /\ Current.type = "Data" /\ UNCHANGED lines /\ stale \in BOOLEAN
  BY <1>2 DEF HandleData, Handling
<1>5. faults' = 0 => faults = 0 /\ failed = {}
  <2>1. PICK flag \in BOOLEAN : Fail(failed, flag)
    <3>1. erange \in BOOLEAN /\ ErangeAfterData(Current, stale) \in BOOLEAN
      BY <1>4 DEF Invariants, TypeInvariant, TypeOK, ErangeAfterData
    <3> QED BY <1>1, <1>2, <3>1
  <2>2. IsFiniteSet({"symbol", "node", "buffer", "grow"}) /\ faults \in Nat
    BY FourElements DEF Invariants, TypeInvariant, TypeOK
  <2> QED BY <2>1, <2>2, FailType
<1>6. ASSUME Sound, faults' = 0
      PROVE  IF error = "SUCCESS"
             THEN /\ HandledClean
                  /\ data' = data \o [k \in 1 .. BytesOf(source[Len(lines)]) |-> Len(lines)]
             ELSE ~ HandledClean \/ HasLargestNumber
  <2>1. PICK raw : raw = source[Len(lines)]
    OBVIOUS
  <2>2. /\ raw \in RawLine /\ IsParseOf(Current, raw)
        /\ \A kind \in Kinds : Current.type = kind <=> TypeOf(raw) = kind
        /\ HandledClean <=> DirectiveFits(raw) /\ \A name \in Names(raw) : ~ exists(name)
    BY <1>4, <1>6, <2>1, CurrentLine
  <2>3. TypeOf(raw) = "Data"
    BY <1>4, <2>2 DEF Kinds
  <2>4. /\ Current.opcode_name = raw.command.name /\ Current.args = raw.args
        /\ (DirectiveFits(raw) <=> DataOperandsFit(raw))
    BY <2>2, <2>3, ParsedLine DEF Kinds, DirectiveFits
  <2>5. declared = "SUCCESS" <=> \A name \in Names(raw) : ~ exists(name)
    BY <1>2, <1>4, <1>5, <1>6, <2>2, DeclareExactly
  <2>6. /\ decoded = "SUCCESS" => DirectiveFits(raw)
        /\ DirectiveFits(raw) /\ ~ LargestIn(raw) => decoded = "SUCCESS"
    BY <1>2, <1>4, <1>5, <1>6, <2>2, <2>4, DataExactly
  <2>7. LargestIn(raw) => HasLargestNumber
    <3>1. Len(lines) \in DOMAIN source
      BY <1>4, SourceOfLine, CurrentType DEF Invariants
    <3> QED BY <2>1, <3>1 DEF LargestIn, HasLargestNumber
  <2>8. CASE declared = "SUCCESS" /\ decoded = "SUCCESS"
    <3>1. error = "SUCCESS" /\ data' = data \o [k \in 1 .. size |-> Len(lines)]
      BY <1>3, <1>5, <1>6, <2>8 DEF writeData, WriteDataError, AppendError
    <3>2. HandledClean /\ size = BytesOf(source[Len(lines)])
      BY <1>2, <1>4, <2>1, <2>2, <2>5, <2>6, <2>8, SizeIsBytes
    <3> QED BY <3>1, <3>2, Zenon
  <2>9. CASE ~ (declared = "SUCCESS" /\ decoded = "SUCCESS")
    BY <1>3, <2>2, <2>5, <2>6, <2>7, <2>9
  <2> QED BY <2>8, <2>9
<1>7. Len(lines') = Len(lines) /\ \A i \in 1 .. Len(lines) : lines'[i] = lines[i]
  BY <1>4
<1> QED BY <1>3, <1>4, <1>5, <1>6, <1>7, HandledAcceptance

-----------------------------------------------------------------------------
(***************************************************************************)
(* The steps that read no line and handle none.                            *)
(***************************************************************************)
LEMMA LaterAcceptance ==
  ASSUME Invariants, TypeInvariant', UNCHANGED <<source, lines, data>>,
         LastHandled' = LastHandled, InFirstPass' => InFirstPass,
         pc' = "read" => pc = "read", pc' = "rejected" => errored', faults' = 0 => faults = 0,
         Sound' => Sound /\ \A i \in 1 .. LastPopped' : LineFits(i),
         faults' = 0 /\ errored' => errored \/ (~ InFirstPass' /\ (HasLargestNumber \/ ~ Clean))
  PROVE  AcceptanceInvariant'
<1>1. TypeInvariant /\ AcceptanceInvariant
  BY DEF Invariants
<1>2. SourceEnds'
  BY <1>1 DEF AcceptanceInvariant, SourceEnds
<1>3. ASSUME faults' = 0 PROVE LinesAreParses'
  BY <1>1, <1>3 DEF AcceptanceInvariant, LinesAreParses
<1>4. /\ (Clean' <=> Clean) /\ (HasLargestNumber' <=> HasLargestNumber)
      /\ \A i \in DOMAIN source : LineFits(i)' <=> LineFits(i)
  BY SameClean
<1>5. ASSUME Sound' PROVE SoFarClean'
  <2>1. FirstPassClean /\ BytesAreCounted /\ \A i \in 1 .. LastPopped' : LineFits(i)
    BY <1>5, SoundParts DEF SoFarClean
  <2>2. FirstPassClean'
    BY <2>1 DEF FirstPassClean, AllParse, NamedOnce
  <2>3. BytesAreCounted'
    <3>1. \A m : DataBytes(m)' = DataBytes(m)
      BY DEF DataBytes
    <3>2. \A v : DataBytes(data[v + 1] - 1)' = DataBytes(data[v + 1] - 1)
                 /\ DataBytes(data[v + 1])' = DataBytes(data[v + 1])
      BY DEF DataBytes
    <3> QED BY <2>1, <3>1, <3>2 DEF BytesAreCounted
  <2>4. 1 .. LastPopped' \subseteq DOMAIN source
    <3>1. Len(queue') \in Nat /\ Len(lines') = Len(lines)
      BY DEF TypeInvariant, TypeOK
    <3> QED BY <1>1, <3>1, SourceOfLine DEF LastPopped
  <2>5. \A i \in 1 .. LastPopped' : LineFits(i)'
    BY <1>4, <2>1, <2>4
  <2> QED BY <2>2, <2>3, <2>5 DEF SoFarClean
<1>6. ASSUME faults' = 0, errored' PROVE FaultFound'
  <2>1. CASE errored
    <3>1. FaultFound
      BY <1>1, <1>6, <2>1 DEF AcceptanceInvariant
    <3>2. SourceGrows /\ LastHandled <= LastHandled'
      BY <1>1, HandledRange, SourceRange DEF SourceGrows
    <3> QED BY <1>1, <3>1, <3>2, FaultStays
  <2>2. CASE ~ errored
    BY <1>4, <1>6, <2>2 DEF FaultFound
  <2> QED BY <2>1, <2>2
<1> QED BY <1>2, <1>3, <1>5, <1>6 DEF AcceptanceInvariant

LEMMA FinishFirstPassAcceptance ==
  ASSUME Invariants, TypeInvariant', AddressInvariant', FinishFirstPass
  PROVE  AcceptanceInvariant'
<1>1. /\ pc = "fix" /\ pc' = IF errored THEN "rejected" ELSE "second"
      /\ UNCHANGED <<source, lines, data, queue, errored, faults>>
  BY DEF FinishFirstPass, queueVars, memoryVars
<1>2. LastHandled' = LastHandled /\ InFirstPass
  BY <1>1 DEF LastHandled, InFirstPass
<1>3. ASSUME Sound' PROVE Sound /\ \A i \in 1 .. LastPopped' : LineFits(i)
  <2>1. Sound
    BY <1>1, <1>3 DEF Sound
  <2>2. LastPopped' = LastPopped /\ SoFarClean
    BY <1>1, <2>1, SoundParts DEF LastPopped
  <2> QED BY <2>1, <2>2 DEF SoFarClean
<1> QED BY <1>1, <1>2, <1>3, LaterAcceptance

LEMMA QuietAcceptance ==
  ASSUME Invariants, TypeInvariant', FinishSecondPass \/ UNCHANGED vars
  PROVE  AcceptanceInvariant'
<1>1. /\ UNCHANGED <<source, lines, data, queue, errored, faults>>
      /\ \/ UNCHANGED pc
         \/ pc = "second" /\ pc' = IF errored THEN "rejected" ELSE "assembled"
  BY DEF FinishSecondPass, vars, passVars, queueVars, memoryVars
<1>2. /\ LastHandled' = LastHandled /\ LastPopped' = LastPopped /\ (Sound' => Sound)
      /\ (InFirstPass' => InFirstPass) /\ (pc' = "read" => pc = "read")
  BY <1>1 DEF LastHandled, LastPopped, Sound, InFirstPass
<1>3. pc' = "rejected" => errored'
  BY <1>1 DEF Invariants, AcceptanceInvariant, SourceEnds
<1>4. ASSUME Sound' PROVE Sound /\ \A i \in 1 .. LastPopped' : LineFits(i)
  <2>1. Sound /\ SoFarClean
    BY <1>2, <1>4, SoundParts
  <2> QED BY <1>2, <2>1 DEF SoFarClean
<1> QED BY <1>1, <1>2, <1>3, <1>4, LaterAcceptance

(* The steps with an allocation that fails. *)
LEMMA FailedAcceptance ==
  ASSUME Invariants, NoNextLine \/ Crash
  PROVE  AcceptanceInvariant'
<1>1. faults' # 0 /\ source' = source /\ pc' \in {"fix", "crashed"}
  BY DEF NoNextLine, Crash, Invariants, TypeInvariant, TypeOK
<1>2. SourceEnds'
  BY <1>1 DEF Invariants, AcceptanceInvariant, SourceEnds
<1> QED BY <1>1, <1>2 DEF AcceptanceInvariant, Sound

-----------------------------------------------------------------------------
(***************************************************************************)
(* A line is popped in the second pass.                                    *)
(***************************************************************************)
LEMMA PoppedAcceptance ==
  ASSUME Invariants, TypeInvariant', AddressInvariant', pc = "second", queue # <<>>,
         NEW error, Popped(error), data' = data, faults' = 0 => faults = 0,
         Sound /\ faults' = 0 =>
           IF error = "SUCCESS" THEN LineFits(Head(queue))
           ELSE ~ LineFits(Head(queue)) \/ HasLargestNumber
  PROVE  AcceptanceInvariant'
<1>1. /\ UNCHANGED <<source, lines>> /\ errored' = (errored \/ error # "SUCCESS")
      /\ pc' = IF error = "ERR_OUT_OF_MEMEORY" THEN "rejected" ELSE "second"
  BY DEF Popped
<1>2. LastHandled' = LastHandled /\ ~ InFirstPass /\ ~ InFirstPass'
      /\ pc' # "read" /\ (pc' = "rejected" => errored')
  BY <1>1 DEF LastHandled, InFirstPass
<1>3. TypeInvariant /\ AddressInvariant /\ Head(queue) \in DOMAIN source
  BY FirstType, SourceOfLine DEF Invariants
<1>4. ASSUME Sound' PROVE Sound /\ \A i \in 1 .. LastPopped' : LineFits(i)
  <2>1. faults' = 0 /\ faults = 0 /\ Sound
    BY <1>1, <1>4 DEF Sound
  <2>2. error = "SUCCESS" /\ pc' = "second" /\ Progress /\ queue' = Tail(queue)
    BY <1>3, <1>4, <2>1, PoppedSound
  <2>3. LastPopped \in Nat /\ LastPopped' = LastPopped + 1 /\ Head(queue) = LastPopped'
    BY <1>1, <1>3, <2>2, NextPopped
  <2>4. \A i \in 1 .. LastPopped : LineFits(i)
    BY <2>1, SoundParts DEF SoFarClean
  <2>5. LineFits(LastPopped')
    BY <2>1, <2>2, <2>3, Zenon
  <2> QED BY <2>1, <2>3, <2>4, <2>5
<1>5. ASSUME faults' = 0, errored', ~ errored PROVE HasLargestNumber \/ ~ Clean
  <2>1. Sound /\ error # "SUCCESS"
    BY <1>1, <1>5 DEF Sound
  <2>2. ~ LineFits(Head(queue)) \/ HasLargestNumber
    BY <1>5, <2>1
  <2> QED BY <1>3, <2>2 DEF Clean
<1> QED BY <1>1, <1>2, <1>4, <1>5, LaterAcceptance

(* The line that is popped while nothing has gone wrong. *)
LEMMA PoppedLine ==
  ASSUME Invariants, Sound, pc = "second", queue # <<>>
  PROVE  /\ SecondPassSound /\ Head(queue) \in 1 .. Len(lines) /\ First = lines[Head(queue)]
         /\ First \in AssemblyLine /\ source[Head(queue)] \in RawLine
         /\ IsParseOf(First, source[Head(queue)]) /\ DirectiveFits(source[Head(queue)])
         /\ \A kind \in Kinds : First.type = kind <=> OfType(Head(queue), kind)
<1>1. TypeInvariant /\ AcceptanceInvariant /\ faults = 0 /\ FirstPassClean
      /\ DOMAIN lines = 1 .. Len(lines) /\ LastHandled = Len(lines)
  BY SoundParts, HandledRange, SourceOfLine DEF Invariants
<1>2. Head(queue) \in 1 .. Len(lines) /\ First \in AssemblyLine /\ First = lines[Head(queue)]
  BY <1>1, FirstType DEF First
<1>3. DirectiveFits(source[Head(queue)])
  BY <1>1, <1>2 DEF FirstPassClean
<1> QED BY <1>1, <1>2, <1>3, ParseOfLine DEF SecondPassSound

LEMMA PopIgnoredAcceptance ==
  ASSUME Invariants, TypeInvariant', AddressInvariant', PopIgnored
  PROVE  AcceptanceInvariant'
<1>1. /\ pc = "second" /\ queue # <<>> /\ Popped("SUCCESS") /\ UNCHANGED <<faults, data>>
      /\ First.type \in {"None", "Empty", "Data", "Extern"}
  BY DEF PopIgnored, Popping, memoryVars
<1>2. ASSUME Sound PROVE LineFits(Head(queue))
  <2>1. /\ DirectiveFits(source[Head(queue)])
        /\ \A kind \in Kinds : First.type = kind <=> OfType(Head(queue), kind)
    BY <1>1, <1>2, PoppedLine
  <2>2. TypeOf(source[Head(queue)]) \notin {"Code", "Entry"}
    BY <1>1, <2>1 DEF Kinds, OfType
  <2> QED BY <2>1, <2>2 DEF LineFits
<1> QED BY <1>1, <1>2, PoppedAcceptance

LEMMA PopEntryAcceptance ==
  ASSUME Invariants, TypeInvariant', AddressInvariant', PopEntry
  PROVE  AcceptanceInvariant'
<1>1. /\ pc = "second" /\ queue # <<>> /\ First.type = "Entry" /\ UNCHANGED <<faults, data>>
  BY DEF PopEntry, Popping, memoryVars
<1>2. PICK error :
        /\ Popped(error)
        /\ error = IF Len(First.args) < 1 THEN "ERR_INVALID_SYNTAX_ENTRY_DECLERATION"
                   ELSE EntryError(First.args[1])
  BY DEF PopEntry
<1>3. ASSUME Sound PROVE error = "SUCCESS" <=> LineFits(Head(queue))
  <2>1. PICK i, raw, line : i = Head(queue) /\ raw = source[i] /\ line = First
    OBVIOUS
  <2>2. /\ SecondPassSound /\ IsParseOf(line, raw) /\ raw \in RawLine /\ DirectiveFits(raw)
        /\ TypeOf(raw) = "Entry"
    BY <1>1, <1>3, <2>1, PoppedLine DEF Kinds, OfType
  <2>3. line.args = raw.args /\ Len(raw.args) = 1
    BY <2>2, ParsedLine DEF Kinds, DirectiveFits
  <2>4. error = EntryError(raw.args[1])
    BY <1>2, <2>1, <2>3
  <2>5. error = "SUCCESS" <=> LabelsOf(raw.args[1]) # {} /\ ExternsOf(raw.args[1]) = {}
    BY <2>2, <2>4, EntryExactly
  <2>6. LineFits(i) <=> LabelsOf(raw.args[1]) # {} /\ ExternsOf(raw.args[1]) = {}
    BY <2>1, <2>2 DEF LineFits
  <2> QED BY <2>1, <2>5, <2>6
<1> QED BY <1>1, <1>2, <1>3, PoppedAcceptance

LEMMA PopCodeAcceptance ==
  ASSUME Invariants, TypeInvariant', AddressInvariant', PopCode
  PROVE  AcceptanceInvariant'
<1>1. PICK failed \in Failing({"offsets", "grow"}) :
        LET decoded == InstructionError(First, erange, failed)
        IN  /\ IF UsesSymbol(First, erange)
               THEN useSymbol(UsedSymbol(First), First.code_position, failed)
               ELSE UNCHANGED symbolVars
            /\ IF decoded = "SUCCESS"
               THEN /\ writeCode(Head(queue), decodeInstructionLine(First), failed)
                    /\ Popped(WriteCodeError(failed))
               ELSE Popped(decoded) /\ UNCHANGED memoryVars
            /\ Fail(failed, ErangeAfterCode(First, erange))
  BY DEF PopCode
<1>2. pc = "second" /\ queue # <<>> /\ First.type = "Code" /\ erange \in BOOLEAN
  BY DEF PopCode, Popping, Invariants, TypeInvariant, TypeOK
<1>3. faults' = 0 => faults = 0 /\ failed = {}
  <2>1. ErangeAfterCode(First, erange) \in BOOLEAN /\ faults \in Nat
    BY DEF Invariants, TypeInvariant, TypeOK, ErangeAfterCode
  <2>2. Fail(failed, ErangeAfterCode(First, erange)) /\ IsFiniteSet({"offsets", "grow"})
    BY <1>1, FourElements
  <2> QED BY <2>1, <2>2, FailType
<1>4. PICK decoded, error :
        /\ decoded = InstructionError(First, erange, failed) /\ Popped(error)
        /\ error = IF decoded = "SUCCESS" THEN WriteCodeError(failed) ELSE decoded
  BY <1>1
<1>5. data' = data
  BY <1>1 DEF writeCode, memoryVars
<1>6. ASSUME Sound, faults' = 0
      PROVE  IF error = "SUCCESS" THEN LineFits(Head(queue))
             ELSE ~ LineFits(Head(queue)) \/ HasLargestNumber
  <2>1. PICK i, raw, line : i = Head(queue) /\ raw = source[i] /\ line = First
    OBVIOUS
  <2>2. /\ SecondPassSound /\ i \in 1 .. Len(lines) /\ line = lines[i] /\ line \in AssemblyLine
        /\ IsParseOf(line, raw) /\ raw \in RawLine /\ DirectiveFits(raw)
        /\ TypeOf(raw) = "Code" /\ OfType(i, "Code")
    BY <1>2, <1>6, <2>1, PoppedLine DEF Kinds, OfType
  <2>3. error = "SUCCESS" <=> InstructionError(line, erange, {}) = "SUCCESS"
    BY <1>3, <1>4, <1>6, <2>1 DEF WriteCodeError, AppendError
  <2>4. LabelOperand(line) # 0 /\ Len(raw.args) = LabelOperand(line) =>
          (ReferenceError(line, {}) = "SUCCESS" <=> LabelFits(raw, i))
    BY <2>1, <2>2, ReferenceExactly
  <2>5. /\ error = "SUCCESS" => CodeOperandsFit(raw, i)
        /\ CodeOperandsFit(raw, i) /\ ~ LargestIn(raw) => error = "SUCCESS"
    BY <1>2, <2>2, <2>3, <2>4, CodeExactly
  <2>6. LineFits(i) <=> CodeOperandsFit(raw, i)
    BY <2>1, <2>2 DEF LineFits
  <2>7. LargestIn(raw) => HasLargestNumber
    <3>1. i \in DOMAIN source
      BY <2>2, SecondPassRange
    <3> QED BY <2>1, <3>1 DEF LargestIn, HasLargestNumber
  <2> QED BY <2>1, <2>5, <2>6, <2>7
<1> QED BY <1>2, <1>3, <1>4, <1>5, <1>6, PoppedAcceptance

-----------------------------------------------------------------------------
LEMMA AcceptanceStep ==
  ASSUME Invariants, TypeInvariant', AddressInvariant', [Next]_vars
  PROVE  AcceptanceInvariant'
<1>1. CASE FirstLine \/ NextLine
  BY <1>1, ReadAcceptance
<1>2. CASE NoNextLine \/ Crash
  BY <1>2, FailedAcceptance
<1>3. CASE HandleIgnored \/ HandleEntry
  BY <1>3, SkippedAcceptance
<1>4. CASE HandleExtern \/ HandleData \/ HandleCode
  BY <1>4, HandleExternAcceptance, HandleDataAcceptance, HandleCodeAcceptance
<1>5. CASE FinishFirstPass
  BY <1>5, FinishFirstPassAcceptance
<1>6. CASE PopIgnored \/ PopEntry \/ PopCode
  BY <1>6, PopIgnoredAcceptance, PopEntryAcceptance, PopCodeAcceptance
<1>7. CASE FinishSecondPass \/ UNCHANGED vars
  BY <1>7, QuietAcceptance
<1> QED
  BY <1>1, <1>2, <1>3, <1>4, <1>5, <1>6, <1>7 DEF Next, FirstPass, SecondPass, Terminated

LEMMA AcceptanceInit == Init => AcceptanceInvariant
<1> SUFFICES ASSUME Init PROVE AcceptanceInvariant
  OBVIOUS
<1>1. source = <<>> /\ lines = <<>> /\ queue = <<>> /\ data = <<>> /\ pc = "open" /\ ~ errored
  BY DEF Init, newLineQueue, newMemory
<1>2. LastHandled = 0 /\ LastPopped = 0
  BY <1>1 DEF LastHandled, LastPopped
<1>3. SourceEnds /\ LinesAreParses
  BY <1>1 DEF SourceEnds, LinesAreParses
<1>4. FirstPassClean
  BY <1>1, <1>2 DEF FirstPassClean, AllParse, NamedOnce
<1>5. BytesAreCounted
  <2>1. DataBytes(0) = 0
    BY BytesNow, BytesZero
  <2> QED BY <1>1, <1>2, <2>1 DEF BytesAreCounted
<1> QED BY <1>1, <1>2, <1>3, <1>4, <1>5 DEF AcceptanceInvariant, SoFarClean

LEMMA AcceptanceInductive == Spec => [](Invariants /\ NoErrorIsForgotten)
<1>1. Init => Invariants /\ NoErrorIsForgotten
  <2>1. Init => NoErrorIsForgotten
    BY DEF Init, NoErrorIsForgotten
  <2> QED BY <2>1, TypeInit, AddressInit, ReferenceInit, AcceptanceInit DEF Invariants
<1>2. Invariants /\ NoErrorIsForgotten /\ [Next]_vars => (Invariants /\ NoErrorIsForgotten)'
  <2> SUFFICES ASSUME Invariants, NoErrorIsForgotten, [Next]_vars
               PROVE  Invariants' /\ NoErrorIsForgotten'
    OBVIOUS
  <2>1. TypeInvariant' /\ NoErrorIsForgotten'
    BY TypeStep, ErrorStep DEF Invariants
  <2>2. AddressInvariant'
    BY AddressStep DEF Invariants
  <2>3. ReferenceInvariant' /\ AcceptanceInvariant'
    BY <2>1, <2>2, ReferenceStep, AcceptanceStep DEF Invariants
  <2> QED BY <2>1, <2>2, <2>3 DEF Invariants
<1> QED BY <1>1, <1>2, PTL DEF Spec

(* At the end every line was handled and popped. *)
LEMMA AcceptanceDerived == Invariants /\ NoErrorIsForgotten => AcceptsExactlyCleanSource
<1> SUFFICES ASSUME Invariants, NoErrorIsForgotten, faults = 0
             PROVE  /\ pc = "assembled" => Clean
                    /\ pc = "rejected" => ~ Clean \/ HasLargestNumber
  BY DEF AcceptsExactlyCleanSource
<1>1. CASE pc = "assembled"
  <2>1. Sound
    BY <1>1 DEF NoErrorIsForgotten, Sound
  <2>2. SoFarClean /\ FirstPassClean /\ queue = <<>>
    BY <1>1, <2>1, SoundParts DEF Progress, QueueIsTheRest
  <2>3. /\ LastHandled = Len(source) /\ LastPopped = Len(source)
        /\ DOMAIN source = 1 .. Len(source)
    BY <1>1, <2>2, HandledRange, SourceOfLine DEF Invariants, LastPopped
  <2> QED BY <1>1, <2>2, <2>3 DEF SoFarClean, FirstPassClean, Clean
<1>2. CASE pc = "rejected"
  <2>1. FaultFound /\ ~ InFirstPass
    BY <1>2 DEF Invariants, AcceptanceInvariant, SourceEnds, InFirstPass
  <2> QED BY <1>2, <2>1 DEF FaultFound
<1> QED BY <1>1, <1>2

(* While the passes go on, the lines they have looked at are clean as long as *)
(* no error was found, and the bytes of each line lie behind those of the     *)
(* lines before it; once an error was found, some line is at fault or holds   *)
(* the largest number.                                                        *)
THEOREM AcceptanceKeepsStep == Spec => []AcceptanceInvariant
<1>1. Invariants => AcceptanceInvariant
  BY DEF Invariants
<1> QED BY <1>1, AcceptanceInductive, PTL

(* Whether firstPass and secondPass assemble a source is decided by its text  *)
(* alone: one of which some line is at fault is never assembled, and one is   *)
(* rejected only if some line is at fault, or holds the largest number, which *)
(* is refused when errno is stale.                                            *)
THEOREM AcceptanceIsRight == Spec => []AcceptsExactlyCleanSource
BY AcceptanceInductive, AcceptanceDerived, PTL

-----------------------------------------------------------------------------
(***************************************************************************)
(* The word of a line of code, read off its text.                          *)
(***************************************************************************)
Encoded(i) ==
  /\ SecondPassSound /\ i \in 1 .. Len(lines) /\ OfType(i, "Code")
  /\ \E stale \in BOOLEAN : InstructionError(lines[i], stale, {}) = "SUCCESS"

(* The operands of an encoded line, as its text has them. *)
LEMMA EncodedLine ==
  ASSUME NEW i, Encoded(i)
  PROVE  /\ lines[i] \in AssemblyLine /\ lines[i].type = "Code"
         /\ lines[i].opcode_name = source[i].command.name /\ lines[i].args = source[i].args
         /\ CodeOperands(source[i]) = OperandFormat(lines[i])
         /\ lines[i].code_position = SourceAddress(i)
         /\ Len(lines[i].args) = Len(OperandFormat(lines[i]))
         /\ \A k \in 1 .. Len(OperandFormat(lines[i])) :
              /\ lines[i].args[k] \in Token
              /\ OperandFits(lines[i].args[k], OperandFormat(lines[i])[k])
         /\ LabelOperand(lines[i]) # 0 => ReferenceError(lines[i], {}) = "SUCCESS"
<1>1. /\ TypeInvariant /\ AcceptanceInvariant /\ faults = 0 /\ Invariants /\ Sound
      /\ LastHandled = Len(lines) /\ Len(lines) \in Nat /\ i \in 1 .. Len(lines)
  BY SecondPassRange DEF Encoded, SecondPassSound
<1>2. PICK line, raw : line = lines[i] /\ raw = source[i]
  OBVIOUS
<1>3. PICK stale \in BOOLEAN : InstructionError(line, stale, {}) = "SUCCESS"
  BY <1>2 DEF Encoded
<1>4. line \in AssemblyLine /\ raw \in RawLine /\ IsParseOf(line, raw) /\ TypeOf(raw) = "Code"
  BY <1>1, <1>2, ParseOfLine DEF Encoded, OfType
<1>5. line.type = "Code" /\ line.opcode_name = raw.command.name /\ line.args = raw.args
  BY <1>4, ParsedLine DEF Kinds
<1>6. CodeOperands(raw) = OperandFormat(line)
  <2>1. OperandFormat(line) = OperandFormat(parseLine(raw, Len(raw.args)))
    BY <1>4 DEF OperandFormat, IsParseOf
  <2> QED BY <2>1 DEF CodeOperands
<1>7. line.code_position = SourceAddress(i)
  <2>1. i \in CodeUpTo(lines, LastHandled) /\ CountersAgree
    BY <1>1, <1>2, <1>5, SoundParts DEF CodeUpTo, Progress
  <2>2. line.code_position = 100 + 4 * Count(lines, i - 1)
    BY <1>2, <2>1 DEF CountersAgree, INSTRUCTION_COUNTER_INITIAL_VALUE, INSTRUCTION_SIZE
  <2>3. CodeLines(i - 1) = Count(lines, i - 1)
    <3>1. i - 1 \in 0 .. Len(lines)
      BY <1>1
    <3> QED BY <1>1, <3>1, CodeLinesCount
  <2> QED BY <2>2, <2>3 DEF SourceAddress, Encoded
<1>8. /\ OperandsError(line, stale) = "SUCCESS"
      /\ LabelOperand(line) # 0 => ReferenceError(line, {}) = "SUCCESS"
  BY <1>3 DEF InstructionError, UsesSymbol
<1>9. /\ Len(line.args) = Len(OperandFormat(line))
      /\ \A k \in 1 .. Len(OperandFormat(line)) : OperandFits(line.args[k], OperandFormat(line)[k])
  BY <1>4, <1>8, OperandsExactly
<1>10. \A k \in 1 .. Len(OperandFormat(line)) : line.args[k] \in Token
  <2>1. line.args \in Seq(Token)
    BY <1>4 DEF AssemblyLine
  <2> QED BY <1>9, <2>1
<1> QED BY <1>2, <1>4, <1>5, <1>6, <1>7, <1>8, <1>9, <1>10

(* An accepted number is what strtol returned for it. *)
LEMMA AcceptedNumber ==
  ASSUME NEW tok \in Token, OperandFits(tok, "number")
  PROVE  NumberOf(tok) = tok.n
<1>1. ImmedBits \in Nat \ {0} /\ ImmedBits <= LongBits
  BY Widths DEF ImmedBits, LongBits
<1> DEFINE big == TwoTo[LongBits - 1]
           small == TwoTo[ImmedBits - 1]
<1>2. /\ small \in Nat /\ 1 <= small /\ small <= big /\ big \in Nat /\ 4 <= big
      /\ LongMax = big - 1 /\ LongMin = -big
  BY <1>1, LongBounds
<1>3. tok.k = "num" /\ tok.n \in {0} \cup (2 - small .. small - 1) /\ tok.n \in Int
  BY DEF OperandFits, AcceptedNumbers, Token
<1> HIDE DEF big, small
<1>4. LongMin <= tok.n /\ tok.n <= LongMax
  BY <1>2, <1>3
<1> QED BY <1>2, <1>3, <1>4 DEF NumberOf, Clamped

LEMMA OneMember == \A member : TheOnly({member}) = member
BY DEF TheOnly

(* The value of an operand is what the decoder makes of it. *)
LEMMA ValueOfOperand ==
  ASSUME NEW i, Encoded(i), NEW k \in 1 .. Len(OperandFormat(lines[i]))
  PROVE  LET line == lines[i]
             sym  == symtab[find(UsedSymbol(line))]
         IN  /\ OperandFormat(line)[k] = "register" =>
                  OperandValue(i, k) = registerFromString(line.args[k])
             /\ OperandFormat(line)[k] = "number" => OperandValue(i, k) = NumberOf(line.args[k])
             /\ OperandFormat(line)[k] = "label" =>
                  OperandValue(i, k) = IF is_i_command(line.opcode_name) THEN Distance(line)
                                       ELSE IF sym.is_external THEN 0 ELSE sym.value
<1>1. PICK line, raw : line = lines[i] /\ raw = source[i]
  OBVIOUS
<1>2. /\ line \in AssemblyLine /\ line.opcode_name = raw.command.name /\ line.args = raw.args
      /\ CodeOperands(raw) = OperandFormat(line) /\ line.code_position = SourceAddress(i)
      /\ line.args[k] \in Token /\ OperandFits(line.args[k], OperandFormat(line)[k])
      /\ LabelOperand(line) # 0 => ReferenceError(line, {}) = "SUCCESS"
  BY <1>1, EncodedLine
<1>3. CASE OperandFormat(line)[k] = "register"
  BY <1>1, <1>2, <1>3 DEF OperandValue
<1>4. CASE OperandFormat(line)[k] = "number"
  <2>1. OperandValue(i, k) = line.args[k].n
    BY <1>1, <1>2, <1>4 DEF OperandValue
  <2> QED BY <1>1, <1>2, <1>4, <2>1, AcceptedNumber
<1>5. CASE OperandFormat(line)[k] = "label"
  <2>1. LabelOperand(line) = k /\ k # 0
    BY <1>1, <1>2, <1>5, LabelIsLast
  <2>2. PICK name, sym : name = UsedSymbol(line) /\ sym = symtab[find(name)]
    OBVIOUS
  <2>3. /\ ReferenceError(line, {}) = "SUCCESS" /\ name = raw.args[k] /\ exists(name)
        /\ is_i_command(line.opcode_name) => ~ sym.is_external
    BY <1>2, <2>1, <2>2 DEF ReferenceError, UsedSymbol
  <2>4. OperandValue(i, k) =
          AddressOfName(name) - IF is_i_command(line.opcode_name) THEN line.code_position ELSE 0
    BY <1>1, <1>2, <1>5, <2>3 DEF OperandValue
  <2>5. AddressOfName(name) = IF sym.is_external THEN 0 ELSE sym.value
    BY <2>2, <2>3, SymbolOfName, OneMember DEF AddressOfName, Encoded
  <2>6. sym.value \in Int
    <3>1. symtab \in Seq(Symbol) /\ find(name) \in DOMAIN symtab
      BY <2>3, SecondPassRange, FindType DEF Encoded
    <3>2. sym \in Symbol
      BY <2>2, <3>1
    <3> QED BY <3>2 DEF Symbol
  <2>7. Distance(line) = sym.value - line.code_position
    BY <2>2 DEF Distance
  <2>8. CASE is_i_command(line.opcode_name)
    <3>1. OperandValue(i, k) = Distance(line)
      BY <2>3, <2>4, <2>5, <2>7, <2>8
    <3> QED BY <1>1, <1>5, <2>8, <3>1
  <2>9. CASE ~ is_i_command(line.opcode_name)
    <3>1. OperandValue(i, k) = IF sym.is_external THEN 0 ELSE sym.value
      BY <2>4, <2>5, <2>6, <2>9
    <3> QED BY <1>1, <1>5, <2>2, <2>9, <3>1
  <2> QED BY <2>8, <2>9
<1>6. OperandFormat(line)[k] \in {"register", "number", "label"}
  BY <1>1, <1>2, LabelIsLast
<1> QED BY <1>1, <1>3, <1>4, <1>5, <1>6

(* A field holds the operand that goes there, and 0 if none does. *)
LEMMA FieldHere ==
  ASSUME NEW i, NEW fields, fields = OperandFields(source[i]), NEW k \in DOMAIN fields,
         \A j \in DOMAIN fields : fields[j] = fields[k] => j = k
  PROVE  FieldOf(i, fields[k]) = BitField(OperandValue(i, k), FieldWidth(fields[k]))
<1>1. {j \in DOMAIN fields : fields[j] = fields[k]} = {k}
  OBVIOUS
<1> QED BY <1>1, OneMember DEF FieldOf, BitField

LEMMA FieldNowhere ==
  ASSUME NEW i, NEW field, \A j \in DOMAIN OperandFields(source[i]) :
                             OperandFields(source[i])[j] # field
  PROVE  FieldOf(i, field) = 0
BY DEF FieldOf

(* The instructions whose three operands are two registers and a number or a  *)
(* label.                                                                     *)
LEMMA WordOfI ==
  ASSUME NEW i, Encoded(i), is_i_command(lines[i].opcode_name)
  PROVE  decodeInstructionLine(lines[i]) = SourceWord(i)
<1>1. PICK line, raw : line = lines[i] /\ raw = source[i]
  OBVIOUS
<1>2. /\ line.opcode_name = raw.command.name /\ CodeOperands(raw) = OperandFormat(line)
      /\ is_i_command(line.opcode_name) /\ ~ is_r_command(line.opcode_name)
  BY <1>1, EncodedLine, OneLayout
<1> DEFINE command == line.opcode_name
           cleared == [opcode |-> command_to_opcode(command), rs |-> 0, rt |-> 0,
                       rd |-> 0, funct |-> 0, immed |-> 0, address |-> 0, reg |-> 0]
           branch == i_command_to_subtype(command) = "IBranch"
           fields == OperandFields(raw)
<1>3. decodeInstructionLine(line) = EncodeI(line, cleared)
  BY <1>2 DEF decodeInstructionLine
<1>4. CodeOperands(raw) # <<"register">>
  <2>1. OperandFormat(line) \in {<<"register", "register", "label">>, <<"register", "number", "register">>}
    BY <1>2, OneLayout DEF OperandFormat
  <2>2. Len(OperandFormat(line)) = 3
    BY <2>1
  <2> QED BY <1>2, <2>2
<1>5. FieldOf(i, "rd") = 0 /\ FieldOf(i, "address") = 0
  <2>1. fields \in {<<"rs", "rt", "immed">>, <<"rs", "immed", "rt">>}
    BY <1>2, OneLayout DEF OperandFields
  <2>2. \A j \in DOMAIN fields : fields[j] # "rd" /\ fields[j] # "address"
    <3>1. CASE fields = <<"rs", "rt", "immed">>
      BY <3>1
    <3>2. CASE fields = <<"rs", "immed", "rt">>
      BY <3>2
    <3> QED BY <2>1, <3>1, <3>2
  <2> QED BY <1>1, <2>2, FieldNowhere
<1>6. /\ FieldOf(i, "rs") = RegisterField(line, 1)
      /\ FieldOf(i, "rt") = RegisterField(line, IF branch THEN 2 ELSE 3)
      /\ FieldOf(i, "immed") = BitField(IF branch THEN Distance(line) ELSE NumberOf(line.args[2]),
                                        ImmedBits)
  <2>1. CASE branch
    <3>1. OperandFormat(line) = <<"register", "register", "label">> /\ fields = <<"rs", "rt", "immed">>
      BY <1>2, <2>1, OneLayout DEF OperandFormat, OperandFields
    <3>2. /\ OperandValue(i, 1) = registerFromString(line.args[1])
          /\ OperandValue(i, 2) = registerFromString(line.args[2])
          /\ OperandValue(i, 3) = Distance(line)
      BY <1>1, <1>2, <3>1, ValueOfOperand
    <3>3. /\ FieldOf(i, "rs") = BitField(OperandValue(i, 1), RegBits)
          /\ FieldOf(i, "rt") = BitField(OperandValue(i, 2), RegBits)
          /\ FieldOf(i, "immed") = BitField(OperandValue(i, 3), ImmedBits)
      <4> HIDE DEF fields
      <4>1. DOMAIN fields = 1 .. 3 /\ fields[1] = "rs" /\ fields[2] = "rt" /\ fields[3] = "immed"
        BY <3>1
      <4>2. ASSUME NEW k \in 1 .. 3
            PROVE  FieldOf(i, fields[k]) = BitField(OperandValue(i, k), FieldWidth(fields[k]))
        BY <1>1, <4>1, FieldHere DEF fields
      <4> QED BY <4>1, <4>2 DEF FieldWidth
    <3> QED BY <2>1, <3>2, <3>3 DEF RegisterField
  <2>2. CASE ~ branch
    <3>1. OperandFormat(line) = <<"register", "number", "register">> /\ fields = <<"rs", "immed", "rt">>
      BY <1>2, <2>2, OneLayout DEF OperandFormat, OperandFields
    <3>2. /\ OperandValue(i, 1) = registerFromString(line.args[1])
          /\ OperandValue(i, 2) = NumberOf(line.args[2])
          /\ OperandValue(i, 3) = registerFromString(line.args[3])
      BY <1>1, <1>2, <3>1, ValueOfOperand
    <3>3. /\ FieldOf(i, "rs") = BitField(OperandValue(i, 1), RegBits)
          /\ FieldOf(i, "immed") = BitField(OperandValue(i, 2), ImmedBits)
          /\ FieldOf(i, "rt") = BitField(OperandValue(i, 3), RegBits)
      <4> HIDE DEF fields
      <4>1. DOMAIN fields = 1 .. 3 /\ fields[1] = "rs" /\ fields[2] = "immed" /\ fields[3] = "rt"
        BY <3>1
      <4>2. ASSUME NEW k \in 1 .. 3
            PROVE  FieldOf(i, fields[k]) = BitField(OperandValue(i, k), FieldWidth(fields[k]))
        BY <1>1, <4>1, FieldHere DEF fields
      <4> QED BY <4>1, <4>2 DEF FieldWidth
    <3> QED BY <2>2, <3>2, <3>3 DEF RegisterField
  <2> QED BY <2>1, <2>2
<1>7. EncodeI(line, cleared) =
        [opcode |-> command_to_opcode(command), rs |-> FieldOf(i, "rs"), rt |-> FieldOf(i, "rt"),
         rd |-> 0, funct |-> 0, immed |-> FieldOf(i, "immed"), address |-> 0, reg |-> 0]
  <2>1. PICK rs, rt, immed : rs = FieldOf(i, "rs") /\ rt = FieldOf(i, "rt") /\ immed = FieldOf(i, "immed")
    OBVIOUS
  <2>2. EncodeI(line, cleared) = [cleared EXCEPT !.rs = rs, !.rt = rt, !.immed = immed]
    <3> HIDE DEF cleared
    <3> QED BY <1>6, <2>1 DEF EncodeI
  <2> QED BY <2>1, <2>2
<1> QED BY <1>1, <1>2, <1>3, <1>4, <1>5, <1>7 DEF SourceWord

LEMMA WordOfR ==
  ASSUME NEW i, Encoded(i), is_r_command(lines[i].opcode_name)
  PROVE  decodeInstructionLine(lines[i]) = SourceWord(i)
<1>1. PICK line, raw : line = lines[i] /\ raw = source[i]
  OBVIOUS
<1>2. /\ line.opcode_name = raw.command.name /\ CodeOperands(raw) = OperandFormat(line)
      /\ is_r_command(line.opcode_name) /\ ~ is_i_command(line.opcode_name)
  BY <1>1, EncodedLine, OneLayout
<1> DEFINE command == line.opcode_name
           cleared == [opcode |-> command_to_opcode(command), rs |-> 0, rt |-> 0,
                       rd |-> 0, funct |-> 0, immed |-> 0, address |-> 0, reg |-> 0]
           arithmetic == r_command_to_subtype(command) = "RArithmetic"
           number == IF arithmetic THEN 3 ELSE 2
           fields == OperandFields(raw)
<1>3. decodeInstructionLine(line) = EncodeR(line, cleared)
  BY <1>2 DEF decodeInstructionLine
<1>4. /\ DOMAIN OperandFormat(line) = 1 .. number /\ Len(OperandFormat(line)) = number
      /\ \A k \in 1 .. number : OperandFormat(line)[k] = "register"
  <2>1. OperandFormat(line) = Registers(number)
    BY <1>2, OneLayout DEF OperandFormat
  <2> QED BY <2>1 DEF Registers
<1>5. CodeOperands(raw) # <<"register">>
  BY <1>2, <1>4
<1>6. fields = IF arithmetic THEN <<"rs", "rt", "rd">> ELSE <<"rs", "rd">>
  BY <1>2, OneLayout DEF OperandFields
<1>7. ASSUME NEW k \in 1 .. number
      PROVE  FieldOf(i, fields[k]) = RegisterField(line, k)
  <2> HIDE DEF fields
  <2>1. k \in DOMAIN fields /\ fields[k] \in {"rs", "rt", "rd"}
        /\ \A j \in DOMAIN fields : fields[j] = fields[k] => j = k
    BY <1>6
  <2>2. FieldOf(i, fields[k]) = BitField(OperandValue(i, k), RegBits)
    BY <1>1, <2>1, FieldHere DEF fields, FieldWidth
  <2>3. OperandValue(i, k) = registerFromString(line.args[k])
    BY <1>1, <1>4, ValueOfOperand
  <2> QED BY <2>2, <2>3 DEF RegisterField
<1>8. FieldOf(i, "immed") = 0 /\ FieldOf(i, "address") = 0 /\ (~ arithmetic => FieldOf(i, "rt") = 0)
  <2> HIDE DEF fields
  <2>1. /\ \A j \in DOMAIN fields : fields[j] # "immed" /\ fields[j] # "address"
        /\ ~ arithmetic => \A j \in DOMAIN fields : fields[j] # "rt"
    BY <1>6
  <2> QED BY <1>1, <2>1, FieldNowhere DEF fields
<1>9. /\ FieldOf(i, "rs") = RegisterField(line, 1)
      /\ FieldOf(i, "rt") = IF arithmetic THEN RegisterField(line, 2) ELSE 0
      /\ FieldOf(i, "rd") = RegisterField(line, number)
  <2>1. /\ fields[1] = "rs" /\ fields[number] = "rd" /\ (arithmetic => fields[2] = "rt")
        /\ 1 \in 1 .. number /\ 2 \in 1 .. number /\ number \in 1 .. number
    BY <1>6
  <2> HIDE DEF fields, number
  <2> QED BY <1>7, <1>8, <2>1
<1>10. EncodeR(line, cleared) =
        [opcode |-> command_to_opcode(command), rs |-> FieldOf(i, "rs"), rt |-> FieldOf(i, "rt"),
         rd |-> FieldOf(i, "rd"), funct |-> r_command_to_func(command), immed |-> 0,
         address |-> 0, reg |-> 0]
  <2>1. PICK rs, rt, rd, funct :
          /\ rs = FieldOf(i, "rs") /\ rt = FieldOf(i, "rt") /\ rd = FieldOf(i, "rd")
          /\ funct = r_command_to_func(command)
    OBVIOUS
  <2>2. EncodeR(line, cleared) =
          [cleared EXCEPT !.funct = funct, !.rs = rs, !.rt = rt, !.rd = rd]
    <3> HIDE DEF cleared
    <3> QED BY <1>9, <2>1 DEF EncodeR
  <2> QED BY <2>1, <2>2
<1> QED BY <1>1, <1>2, <1>3, <1>5, <1>8, <1>10 DEF SourceWord

LEMMA WordOfJ ==
  ASSUME NEW i, Encoded(i), ~ is_i_command(lines[i].opcode_name), ~ is_r_command(lines[i].opcode_name)
  PROVE  decodeInstructionLine(lines[i]) = SourceWord(i)
<1>1. PICK line, raw : line = lines[i] /\ raw = source[i]
  OBVIOUS
<1>2. /\ line.opcode_name = raw.command.name /\ CodeOperands(raw) = OperandFormat(line)
      /\ ~ is_i_command(line.opcode_name) /\ ~ is_r_command(line.opcode_name)
      /\ Len(line.args) = Len(OperandFormat(line)) /\ line \in AssemblyLine
  BY <1>1, EncodedLine
<1> DEFINE command == line.opcode_name
           cleared == [opcode |-> command_to_opcode(command), rs |-> 0, rt |-> 0,
                       rd |-> 0, funct |-> 0, immed |-> 0, address |-> 0, reg |-> 0]
           sym == symtab[find(UsedSymbol(line))]
           fields == OperandFields(raw)
<1>3. decodeInstructionLine(line) = EncodeJ(line, cleared)
  BY <1>2 DEF decodeInstructionLine
<1>4. OperandFormat(line) = <<>> \/ OperandFormat(line) = <<"register">> \/ OperandFormat(line) = <<"label">>
  BY <1>2 DEF OperandFormat, Registers
<1>5. fields = IF command = "stop" THEN <<>> ELSE <<"address">>
  BY <1>2 DEF OperandFields
<1>6. /\ FieldOf(i, "rs") = 0 /\ FieldOf(i, "rt") = 0 /\ FieldOf(i, "rd") = 0
      /\ FieldOf(i, "immed") = 0
  <2> HIDE DEF fields
  <2>1. \A j \in DOMAIN fields : fields[j] \notin {"rs", "rt", "rd", "immed"}
    BY <1>5
  <2> QED BY <1>1, <2>1, FieldNowhere DEF fields
<1>7. /\ OperandFormat(line) = <<>> <=> command = "stop"
      /\ line.args = <<>> <=> OperandFormat(line) = <<>>
      /\ LabelOperand(line) = IF OperandFormat(line) = <<"label">> THEN 1 ELSE 0
  <2>1. OperandFormat(line) = <<>> <=> command = "stop"
    BY <1>2 DEF OperandFormat, Registers
  <2>2. line.args \in Seq(Token)
    BY <1>2 DEF AssemblyLine
  <2>3. line.args = <<>> <=> Len(line.args) = 0
    BY <2>2
  <2>4. OperandFormat(line) = <<>> <=> Len(OperandFormat(line)) = 0
    BY <1>4
  <2>5. LabelOperand(line) = IF OperandFormat(line) = <<"label">> THEN 1 ELSE 0
    BY <1>4 DEF LabelOperand
  <2> QED BY <1>2, <2>1, <2>3, <2>4, <2>5
<1>8. FieldOf(i, "address") =
        IF OperandFormat(line) = <<>> THEN 0
        ELSE IF OperandFormat(line) = <<"register">>
        THEN BitField(registerFromString(line.args[1]), AddressBits)
        ELSE IF sym.is_external THEN 0 ELSE BitField(sym.value, AddressBits)
  <2>1. CASE OperandFormat(line) = <<>>
    <3>1. fields = <<>>
      BY <1>5, <1>7, <2>1
    <3> QED BY <1>1, <2>1, <3>1, FieldNowhere
  <2>2. CASE OperandFormat(line) # <<>>
    <3>1. fields = <<"address">>
      BY <1>5, <1>7, <2>2
    <3>2. FieldOf(i, "address") = BitField(OperandValue(i, 1), AddressBits)
      <4>1. DOMAIN fields = {1} /\ fields[1] = "address"
        BY <3>1
      <4> HIDE DEF fields
      <4> QED BY <1>1, <4>1, FieldHere DEF fields, FieldWidth
    <3>3. CASE OperandFormat(line) = <<"register">>
      <4>1. OperandValue(i, 1) = registerFromString(line.args[1])
        <5>1. 1 \in 1 .. Len(OperandFormat(line)) /\ OperandFormat(line)[1] = "register"
          BY <3>3
        <5> QED BY <1>1, <5>1, ValueOfOperand
      <4> QED BY <2>2, <3>2, <3>3, <4>1
    <3>4. CASE OperandFormat(line) = <<"label">>
      <4>1. OperandValue(i, 1) = IF sym.is_external THEN 0 ELSE sym.value
        BY <1>1, <1>2, <3>4, ValueOfOperand
      <4>2. BitField(0, AddressBits) = 0
        <5>1. TwoTo[AddressBits] \in Nat /\ TwoTo[AddressBits] >= 1
          BY Widths, TwoToPositive
        <5> QED BY <5>1 DEF BitField
      <4>3. OperandFormat(line) # <<"register">>
        BY <3>4
      <4> QED BY <2>2, <3>2, <4>1, <4>2, <4>3
    <3> QED BY <1>4, <2>2, <3>3, <3>4
  <2> QED BY <2>1, <2>2
<1>9. PICK reg, address :
        /\ reg = IF OperandFormat(line) = <<"register">> THEN 1 ELSE 0
        /\ address = FieldOf(i, "address")
  OBVIOUS
<1> DEFINE word == [opcode |-> command_to_opcode(command), rs |-> 0, rt |-> 0, rd |-> 0,
                    funct |-> 0, immed |-> 0, address |-> address, reg |-> reg]
<1>10. EncodeJ(line, cleared) = word
  <2>1. CASE OperandFormat(line) = <<>>
    <3>1. EncodeJ(line, cleared) = cleared
      BY <1>7, <2>1 DEF EncodeJ
    <3>2. reg = 0 /\ address = 0
      BY <1>8, <1>9, <2>1
    <3> QED BY <3>1, <3>2
  <2>2. CASE OperandFormat(line) = <<"register">>
    <3>1. line.args # <<>> /\ LabelOperand(line) = 0 /\ OperandFormat(line) # <<>>
      BY <1>7, <2>2
    <3> HIDE DEF cleared
    <3>2. EncodeJ(line, cleared) =
            [cleared EXCEPT !.reg = 1,
                            !.address = BitField(registerFromString(line.args[1]), AddressBits)]
      BY <3>1 DEF EncodeJ
    <3>3. EncodeJ(line, cleared) = [cleared EXCEPT !.reg = reg, !.address = address]
      BY <1>8, <1>9, <2>2, <3>1, <3>2
    <3> QED BY <3>3 DEF cleared
  <2>3. CASE OperandFormat(line) = <<"label">>
    <3>1. line.args # <<>> /\ LabelOperand(line) # 0 /\ OperandFormat(line) # <<>>
          /\ OperandFormat(line) # <<"register">>
      BY <1>7, <2>3
    <3>2. EncodeJ(line, cleared) = [cleared EXCEPT !.address = address]
      <4> HIDE DEF cleared
      <4> QED BY <1>8, <1>9, <3>1 DEF EncodeJ
    <3>3. reg = 0
      BY <1>9, <3>1
    <3> QED BY <3>2, <3>3 DEF cleared
  <2> QED BY <1>4, <2>1, <2>2, <2>3
<1> QED BY <1>1, <1>2, <1>3, <1>6, <1>9, <1>10 DEF SourceWord

LEMMA WordOfLine ==
  ASSUME NEW i, Encoded(i)
  PROVE  decodeInstructionLine(lines[i]) = SourceWord(i)
BY WordOfI, WordOfR, WordOfJ

-----------------------------------------------------------------------------
(***************************************************************************)
(* The output files of an assembled source, read off its text.             *)
(***************************************************************************)
Finished == Invariants /\ NoErrorIsForgotten /\ Assembled

LEMMA FinishedState ==
  ASSUME Finished
  PROVE  /\ AtTheEndOfIt /\ SecondPassSound /\ Progress /\ References /\ BytesAreCounted
         /\ TypeInvariant /\ AcceptanceInvariant /\ faults = 0
         /\ Len(lines) \in Nat /\ LastHandled = Len(lines) /\ LastPopped = Len(lines)
         /\ DOMAIN lines = 1 .. Len(lines) /\ DOMAIN source = 1 .. Len(lines)
         /\ Len(source) = Len(lines)
         /\ \A i \in 1 .. Len(lines) :
              /\ source[i] \in RawLine /\ IsParseOf(lines[i], source[i])
              /\ DirectiveFits(source[i])
              /\ \A kind \in Kinds : lines[i].type = kind <=> OfType(i, kind)
<1>1. /\ TypeInvariant /\ AddressInvariant /\ NoErrorIsForgotten /\ ReferenceInvariant
      /\ AcceptanceInvariant /\ Assembled /\ faults = 0 /\ pc = "assembled"
  BY DEF Finished, Invariants, Assembled
<1>2. Invariants /\ Sound
  BY <1>1 DEF Finished, Sound, NoErrorIsForgotten
<1>3. AtTheEndOfIt /\ SecondPassSound
  BY <1>1, <1>2 DEF AtTheEndOfIt, SecondPassSound
<1>4. /\ Progress /\ References /\ BytesAreCounted
      /\ \A i \in 1 .. LastHandled : DirectiveFits(source[i])
  BY <1>2, SoundParts DEF SoFarClean, FirstPassClean
<1>5. LastHandled = Len(lines) /\ LastPopped = Len(lines)
  BY <1>3, WordsAtTheEnd
<1>6. /\ Len(lines) \in Nat /\ DOMAIN lines = 1 .. Len(lines) /\ DOMAIN source = 1 .. Len(lines)
      /\ Len(source) = Len(lines)
  BY <1>1, SourceOfLine
<1>7. ASSUME NEW i \in 1 .. Len(lines)
      PROVE  /\ source[i] \in RawLine /\ IsParseOf(lines[i], source[i])
             /\ DirectiveFits(source[i])
             /\ \A kind \in Kinds : lines[i].type = kind <=> OfType(i, kind)
  BY <1>1, <1>4, <1>5, ParseOfLine
<1> QED BY <1>1, <1>3, <1>4, <1>5, <1>6, <1>7

(* The n-th word is that of the n-th line of code. *)
LEMMA CodeOfSource ==
  ASSUME Finished
  PROVE  [k \in DOMAIN code |-> code[k].word] = SourceCode
<1>1. /\ AtTheEndOfIt /\ SecondPassSound /\ CodeIsInOrder /\ TypeInvariant
      /\ LastPopped = Len(lines) /\ Len(lines) \in Nat
      /\ DOMAIN source = 1 .. Len(lines) /\ Len(source) = Len(lines)
      /\ \A i \in 1 .. Len(lines) : lines[i].type = "Code" <=> OfType(i, "Code")
  BY FinishedState DEF Progress, Kinds
<1>2. \A i \in 0 .. Len(lines) : CodeLines(i) = Count(lines, i)
  BY FinishedState, CodeLinesCount
<1>3. DOMAIN code = 1 .. CodeLines(Len(source))
  <2>1. DOMAIN code = 1 .. Len(code) /\ Len(code) = Count(lines, Len(lines))
    BY <1>1 DEF CodeIsInOrder, TypeInvariant, TypeOK, MemoryTypeOK
  <2>2. Len(lines) \in 0 .. Len(lines)
    BY <1>1
  <2> QED BY <1>1, <1>2, <2>1, <2>2
<1>4. ASSUME NEW k \in DOMAIN code
      PROVE  code[k].word =
               SourceWord(TheOnly({i \in DOMAIN source : OfType(i, "Code") /\ CodeLines(i) = k}))
  <2>1. PICK i : i = code[k].line
    OBVIOUS
  <2>2. i \in CodeUpTo(lines, Len(lines)) /\ Count(lines, i) = k
    BY <1>1, <2>1 DEF CodeIsInOrder
  <2>3. i \in 1 .. Len(lines) /\ OfType(i, "Code") /\ CodeLines(i) = k
    <3>1. i \in 1 .. Len(lines) /\ lines[i].type = "Code"
      BY <2>2 DEF CodeUpTo
    <3> QED BY <1>1, <1>2, <2>2, <3>1
  <2>4. ASSUME NEW j \in DOMAIN source, OfType(j, "Code"), CodeLines(j) = k
        PROVE  j = i
    <3>1. j \in CodeUpTo(lines, Len(lines)) /\ Count(lines, j) = k
      BY <1>1, <1>2, <2>4 DEF CodeUpTo
    <3> QED BY <1>1, <2>1, <3>1 DEF CodeIsInOrder
  <2>5. {j \in DOMAIN source : OfType(j, "Code") /\ CodeLines(j) = k} = {i}
    BY <1>1, <2>3, <2>4
  <2>6. code[k].word = decodeInstructionLine(lines[i])
        /\ \E stale \in BOOLEAN : InstructionError(lines[i], stale, {}) = "SUCCESS"
    BY <1>1, <2>1, WordOf DEF CodeLine
  <2>7. Encoded(i)
    BY <1>1, <2>3, <2>6 DEF Encoded
  <2> QED BY <2>5, <2>6, <2>7, OneMember, WordOfLine
<1> QED BY <1>3, <1>4 DEF SourceCode

(* Each byte is one of the line whose bytes lie there. *)
LEMMA DataOfSource ==
  ASSUME Finished
  PROVE  data = SourceData
<1>1. /\ BytesAreCounted /\ CountersAgree /\ TypeInvariant /\ LastHandled = Len(lines)
      /\ Len(lines) \in Nat /\ DOMAIN source = 1 .. Len(lines) /\ Len(source) = Len(lines)
  BY FinishedState DEF Progress
<1>2. data \in Seq(Nat) /\ Len(data) \in Nat /\ DOMAIN data = 1 .. Len(data)
      /\ Len(data) = DataBytes(Len(source))
  BY <1>1 DEF TypeInvariant, TypeOK, MemoryTypeOK, BytesAreCounted
<1>3. ASSUME NEW n \in DOMAIN data
      PROVE  data[n] = TheOnly({i \in DOMAIN source : DataBytes(i - 1) < n /\ n <= DataBytes(i)})
  <2>1. PICK i : i = data[n]
    OBVIOUS
  <2>2. i \in 1 .. Len(lines)
    BY <1>1, <2>1 DEF CountersAgree
  <2>3. DataBytes(i - 1) < n /\ n <= DataBytes(i)
    <3>1. n - 1 \in 0 .. Len(data) - 1 /\ (n - 1) + 1 = n /\ n \in Nat
      BY <1>2
    <3>2. DataBytes(i - 1) <= n - 1 /\ n - 1 < DataBytes(i)
      BY <1>1, <2>1, <3>1 DEF BytesAreCounted
    <3>3. i - 1 \in 0 .. i /\ i \in 0 .. Len(lines)
      BY <1>1, <2>2
    <3>4. DataBytes(i - 1) \in Nat /\ DataBytes(i) \in Nat
      BY <1>1, <3>3, BytesInFront
    <3> QED BY <3>1, <3>2, <3>4
  <2>4. ASSUME NEW j \in DOMAIN source, DataBytes(j - 1) < n, n <= DataBytes(j)
        PROVE  j = i
    <3>1. j \in 1 .. Len(lines)
      BY <1>1
    <3>2. ASSUME NEW a \in 1 .. Len(lines), NEW b \in 1 .. Len(lines), a < b,
                 DataBytes(b - 1) < n, n <= DataBytes(a)
          PROVE  FALSE
      <4>1. a \in 0 .. b - 1 /\ b - 1 \in 0 .. Len(lines)
        BY <1>1, <3>2
      <4>2. DataBytes(a) <= DataBytes(b - 1) /\ DataBytes(a) \in Nat /\ DataBytes(b - 1) \in Nat
        BY <1>1, <4>1, BytesInFront
      <4>3. n \in Nat
        BY <1>2
      <4> QED BY <3>2, <4>2, <4>3
    <3>3. ~ (i < j) /\ ~ (j < i)
      BY <2>2, <2>3, <2>4, <3>1, <3>2
    <3> QED BY <2>2, <3>1, <3>3
  <2>5. {j \in DOMAIN source : DataBytes(j - 1) < n /\ n <= DataBytes(j)} = {i}
    BY <1>1, <2>2, <2>3, <2>4
  <2> QED BY <2>1, <2>5, OneMember
<1>4. data = [n \in 1 .. Len(data) |-> data[n]]
  BY <1>2
<1> QED BY <1>2, <1>3, <1>4 DEF SourceData

(* The lines that name an external symbol. *)
LEMMA ExternLines ==
  ASSUME Finished, NEW name
  PROVE  ExternsOf(name) = {j \in 1 .. Len(lines) : lines[j].type = "Extern" /\ lines[j].args[1] = name}
<1>1. DOMAIN source = 1 .. Len(lines)
  BY FinishedState
<1>2. ASSUME NEW j \in 1 .. Len(lines)
      PROVE  OfType(j, "Extern") /\ name \in Names(source[j])
               <=> lines[j].type = "Extern" /\ lines[j].args[1] = name
  <2>1. /\ source[j] \in RawLine /\ IsParseOf(lines[j], source[j]) /\ DirectiveFits(source[j])
        /\ lines[j].type = "Extern" <=> TypeOf(source[j]) = "Extern"
        /\ OfType(j, "Extern") <=> TypeOf(source[j]) = "Extern"
    BY FinishedState DEF Kinds, OfType
  <2>2. TypeOf(source[j]) = "Extern" =>
          Len(source[j].args) = 1 /\ lines[j].args = source[j].args
    BY <2>1, ParsedLine DEF Kinds, DirectiveFits
  <2> QED BY <2>1, <2>2, NamesOfLine
<1> QED BY <1>1, <1>2 DEF ExternsOf

LEMMA ExternalsOfSource ==
  ASSUME Finished
  PROVE  writeExtFile = SourceExternals
<1> DEFINE uses == {k \in DOMAIN code :
                     \E i \in DOMAIN lines : lines[i].type = "Extern" /\ RefersTo(k, lines[i].args[1])}
           users == {i \in DOMAIN source :
                     /\ OfType(i, "Code")
                     /\ \E k \in DOMAIN CodeOperands(source[i]) :
                          CodeOperands(source[i])[k] = "label" /\ ExternsOf(source[i].args[k]) # {}}
           last(i) == source[i].args[Len(source[i].args)]
<1>1. /\ AtTheEndOfIt /\ SecondPassSound /\ CodeIsInOrder /\ LastPopped = Len(lines)
      /\ DOMAIN lines = 1 .. Len(lines) /\ DOMAIN source = 1 .. Len(lines)
      /\ \A i \in 1 .. Len(lines) : lines[i].type = "Code" <=> OfType(i, "Code")
  BY FinishedState DEF Progress, Kinds
<1>2. writeExtFile = {<<UsedSymbol(CodeLine(k)), CodeAddress(k)>> : k \in uses}
  <2>1. Assembled /\ ExternalUsesAreListed
    BY <1>1, ExternalUsesDerived DEF AtTheEndOfIt
  <2>2. uses = {k \in DOMAIN code :
                 \E i \in {i \in DOMAIN lines : lines[i].type = "Extern"} :
                   RefersTo(k, lines[i].args[1])}
    OBVIOUS
  <2> HIDE DEF uses
  <2> QED BY <2>1, <2>2 DEF ExternalUsesAreListed
<1>3. ASSUME NEW k \in DOMAIN code, NEW i, i = code[k].line
      PROVE  /\ i \in 1 .. Len(lines) /\ OfType(i, "Code") /\ CodeAddress(k) = SourceAddress(i)
             /\ k \in uses <=> i \in users
             /\ k \in uses => UsedSymbol(CodeLine(k)) = last(i)
  <2>1. i \in 1 .. Len(lines) /\ OfType(i, "Code") /\ CodeLine(k) = lines[i]
        /\ lines[i].code_position = CodeAddress(k)
    BY <1>1, <1>3, WordsAtTheEnd DEF CodeLine
  <2>2. Encoded(i)
    BY <1>1, <2>1, WordOf DEF Encoded
  <2>3. PICK line, raw : line = lines[i] /\ raw = source[i]
    OBVIOUS
  <2>4. /\ line \in AssemblyLine /\ line.args = raw.args /\ CodeOperands(raw) = OperandFormat(line)
        /\ line.code_position = SourceAddress(i) /\ Len(line.args) = Len(OperandFormat(line))
    BY <2>2, <2>3, EncodedLine
  <2>5. /\ DOMAIN OperandFormat(line) = 1 .. Len(OperandFormat(line))
        /\ LabelOperand(line) # 0 => LabelOperand(line) = Len(raw.args)
        /\ \A j \in 1 .. Len(OperandFormat(line)) :
             OperandFormat(line)[j] = "label" <=> LabelOperand(line) = j
        /\ LabelOperand(line) # 0 => LabelOperand(line) \in 1 .. Len(OperandFormat(line))
        /\ 0 \notin 1 .. Len(OperandFormat(line))
    BY <2>4, LabelIsLast
  <2>6. k \in uses <=> LabelOperand(line) # 0 /\ ExternsOf(UsedSymbol(line)) # {}
    <3>1. PICK name : name = UsedSymbol(line)
      OBVIOUS
    <3>2. k \in uses <=>
            LabelOperand(line) # 0
            /\ \E j \in DOMAIN lines : lines[j].type = "Extern" /\ lines[j].args[1] = name
      BY <2>1, <2>3, <3>1 DEF RefersTo
    <3>3. ExternsOf(name) =
            {j \in 1 .. Len(lines) : lines[j].type = "Extern" /\ lines[j].args[1] = name}
      BY ExternLines
    <3> HIDE DEF uses
    <3> QED BY <1>1, <3>1, <3>2, <3>3
  <2>7. LabelOperand(line) # 0 => UsedSymbol(line) = last(i)
    BY <2>3, <2>4, <2>5 DEF UsedSymbol
  <2>8. i \in users <=> LabelOperand(line) # 0 /\ ExternsOf(UsedSymbol(line)) # {}
    <3>1. i \in users <=> \E j \in DOMAIN OperandFormat(line) :
                            OperandFormat(line)[j] = "label" /\ ExternsOf(raw.args[j]) # {}
      BY <1>1, <2>1, <2>3, <2>4
    <3>2. i \in users <=> LabelOperand(line) # 0 /\ ExternsOf(raw.args[LabelOperand(line)]) # {}
      <4> HIDE DEF users
      <4> QED BY <2>5, <3>1
    <3> QED BY <2>4, <3>2 DEF UsedSymbol
  <2> HIDE DEF uses, users, last
  <2> QED BY <2>1, <2>3, <2>4, <2>6, <2>7, <2>8
<1>4. ASSUME NEW i \in users PROVE \E k \in DOMAIN code : code[k].line = i
  <2>1. i \in CodeUpTo(lines, Len(lines))
    BY <1>1 DEF CodeUpTo
  <2> QED BY <1>1, <2>1 DEF CodeIsInOrder
<1>5. SourceExternals = {<<last(i), SourceAddress(i)>> : i \in users}
  BY DEF SourceExternals
<1>6. uses \subseteq DOMAIN code
  OBVIOUS
<1> HIDE DEF uses, users, last
<1>7. ASSUME NEW k \in uses
      PROVE  \E i \in users :
               <<UsedSymbol(CodeLine(k)), CodeAddress(k)>> = <<last(i), SourceAddress(i)>>
  BY <1>3, <1>6
<1>8. ASSUME NEW i \in users
      PROVE  \E k \in uses :
               <<UsedSymbol(CodeLine(k)), CodeAddress(k)>> = <<last(i), SourceAddress(i)>>
  <2>1. PICK k \in DOMAIN code : code[k].line = i
    BY <1>4
  <2> QED BY <1>3, <2>1
<1> QED BY <1>2, <1>5, <1>7, <1>8

LEMMA EntriesOfSource ==
  ASSUME Finished
  PROVE  writeEntFile = SourceEntries
<1> DEFINE entries == {i \in DOMAIN source : OfType(i, "Entry")}
           row(i) == <<source[i].args[1], AddressOfName(source[i].args[1])>>
<1>1. /\ AtTheEndOfIt /\ SecondPassSound /\ EntriesAreMarked /\ LastPopped = Len(lines)
      /\ DOMAIN source = 1 .. Len(lines) /\ symtab \in Seq(Symbol) /\ UniqueSymbols
  BY FinishedState, WordsAtTheEnd DEF References
<1>2. ASSUME NEW i \in 1 .. Len(lines)
      PROVE  /\ lines[i].type = "Entry" <=> i \in entries
             /\ i \in entries => lines[i].args[1] = source[i].args[1]
  <2>1. /\ source[i] \in RawLine /\ IsParseOf(lines[i], source[i])
        /\ lines[i].type = "Entry" <=> OfType(i, "Entry")
    BY FinishedState DEF Kinds
  <2> QED BY <1>1, <2>1, ParsedLine DEF Kinds, OfType
<1>3. entries \subseteq 1 .. Len(lines)
  BY <1>1
<1>4. SourceEntries = {row(i) : i \in entries}
  BY DEF SourceEntries
<1> HIDE DEF entries
<1>5. ASSUME NEW i \in entries, NEW s \in DOMAIN symtab, MarkedBy(symtab[s], lines[i])
      PROVE  <<symtab[s].symbol, symtab[s].value>> = row(i)
  <2>1. PICK name : name = symtab[s].symbol
    OBVIOUS
  <2>2. name = source[i].args[1] /\ ~ symtab[s].is_external
    BY <1>2, <1>3, <1>5, <2>1 DEF MarkedBy
  <2>3. exists(name) /\ find(name) = s
    BY <1>1, <2>1, Found DEF FoundAtItsPlace
  <2>4. PICK j : LabelsOf(name) = {j} /\ symtab[s].value = SourceAddress(j)
    BY <1>1, <2>2, <2>3, SymbolOfName
  <2>5. AddressOfName(name) = symtab[s].value
    BY <2>4, OneMember DEF AddressOfName
  <2> QED BY <2>1, <2>2, <2>5
<1> HIDE DEF row
<1>6. ASSUME NEW s \in DOMAIN symtab, symtab[s].is_entry
      PROVE  \E i \in entries : <<symtab[s].symbol, symtab[s].value>> = row(i)
  <2>1. PICK i \in 1 .. LastPopped : lines[i].type = "Entry" /\ MarkedBy(symtab[s], lines[i])
    BY <1>1, <1>6 DEF EntriesAreMarked
  <2> QED BY <1>1, <1>2, <1>5, <2>1
<1>7. ASSUME NEW i \in entries
      PROVE  \E s \in DOMAIN symtab :
               symtab[s].is_entry /\ <<symtab[s].symbol, symtab[s].value>> = row(i)
  <2>1. PICK s \in DOMAIN symtab : MarkedBy(symtab[s], lines[i])
    BY <1>1, <1>2, <1>3 DEF EntriesAreMarked
  <2> QED BY <1>5, <2>1 DEF MarkedBy
<1> QED BY <1>4, <1>6, <1>7 DEF writeEntFile

(* A listing is written if the source has a directive that asks for it. *)
LEMMA ListingsOfSource ==
  ASSUME Finished, NEW listing
  PROVE  /\ ListingFor("Extern", listing) = IF has_external THEN {listing} ELSE {}
         /\ ListingFor("Entry", listing) = IF has_entry THEN {listing} ELSE {}
<1>1. /\ ExternsAreDeclared /\ EntriesAreMarked
      /\ LastHandled = Len(lines) /\ LastPopped = Len(lines) /\ DOMAIN source = 1 .. Len(lines)
      /\ \A i \in 1 .. Len(lines) : /\ lines[i].type = "Extern" <=> OfType(i, "Extern")
                                    /\ lines[i].type = "Entry" <=> OfType(i, "Entry")
  BY FinishedState DEF References, Kinds
<1>2. has_external <=> \E i \in DOMAIN source : OfType(i, "Extern")
  BY <1>1 DEF ExternsAreDeclared
<1>3. has_entry <=> \E i \in DOMAIN source : OfType(i, "Entry")
  BY <1>1 DEF EntriesAreMarked
<1> QED BY <1>2, <1>3 DEF ListingFor

LEMMA OutputOfSource == Finished => OutputFiles = SourceOutputs
<1> SUFFICES ASSUME Finished PROVE OutputFiles = SourceOutputs
  OBVIOUS
<1>1. Verdict = "assembled"
  BY DEF Finished, Assembled, Verdict
<1>2. OutputFiles =
        [code |-> [k \in DOMAIN code |-> code[k].word], data |-> data,
         ext |-> IF has_external THEN {writeExtFile} ELSE {},
         ent |-> IF has_entry THEN {writeEntFile} ELSE {}]
  BY <1>1 DEF OutputFiles
<1> QED BY <1>2, CodeOfSource, DataOfSource, ExternalsOfSource, EntriesOfSource, ListingsOfSource
       DEF SourceOutputs

-----------------------------------------------------------------------------
(*****************************************************************************)
(* The definitions that the instance Abstract makes are those of SourceText*)
(* themselves.                                                             *)
(*****************************************************************************)
LEMMA AbstractCommands ==
  /\ \A command : Abstract!is_i_command(command) = is_i_command(command)
  /\ \A command : Abstract!is_r_command(command) = is_r_command(command)
  /\ \A command : Abstract!is_valid_command_name(command) = is_valid_command_name(command)
  /\ \A command : Abstract!command_to_opcode(command) = command_to_opcode(command)
  /\ \A raw : Abstract!OperandFields(raw) = OperandFields(raw)
  /\ Abstract!TwoTo = TwoTo
  /\ \A tok : Abstract!registerFromString(tok) = registerFromString(tok)
  /\ \A set : Abstract!TheOnly(set) = TheOnly(set)
<1>1. \A command : Abstract!is_i_command(command) = is_i_command(command)
  BY DEF is_i_command, strArrayIncludes, i_commands, Abstract!is_i_command,
     Abstract!strArrayIncludes, Abstract!i_commands
<1>2. \A command : Abstract!is_r_command(command) = is_r_command(command)
  BY DEF is_r_command, strArrayIncludes, r_commands, Abstract!is_r_command,
     Abstract!strArrayIncludes, Abstract!r_commands
<1>3. \A command : Abstract!is_valid_command_name(command) = is_valid_command_name(command)
  BY <1>1, <1>2 DEF is_valid_command_name, is_j_command, strArrayIncludes, j_commands,
     Abstract!is_valid_command_name, Abstract!is_j_command, Abstract!strArrayIncludes,
     Abstract!j_commands
<1>4. \A command : Abstract!command_to_opcode(command) = command_to_opcode(command)
  BY <1>1, <1>2 DEF command_to_opcode, command_to_mapped_value, findInArray, i_commands,
     i_commands_opcode, r_commands, r_commands_opcode, j_commands, j_commands_opcode,
     Abstract!command_to_opcode, Abstract!command_to_mapped_value, Abstract!findInArray,
     Abstract!i_commands, Abstract!i_commands_opcode, Abstract!r_commands,
     Abstract!r_commands_opcode, Abstract!j_commands, Abstract!j_commands_opcode
<1>5. \A raw : Abstract!OperandFields(raw) = OperandFields(raw)
  BY <1>1, <1>2 DEF OperandFields, i_command_to_subtype, command_to_mapped_value, findInArray,
     i_commands, i_commands_subtype, r_command_to_subtype, r_commands, r_commands_subtype,
     Abstract!OperandFields, Abstract!i_command_to_subtype, Abstract!command_to_mapped_value,
     Abstract!findInArray, Abstract!i_commands, Abstract!i_commands_subtype,
     Abstract!r_command_to_subtype, Abstract!r_commands, Abstract!r_commands_subtype
<1>6. Abstract!TwoTo = TwoTo
  BY DEF TwoTo, Abstract!TwoTo
<1>7. \A tok : Abstract!registerFromString(tok) = registerFromString(tok)
  BY DEF registerFromString, Abstract!registerFromString
<1>8. \A set : Abstract!TheOnly(set) = TheOnly(set)
  BY DEF TheOnly, Abstract!TheOnly
<1> QED BY <1>1, <1>2, <1>3, <1>4, <1>5, <1>6, <1>7, <1>8

LEMMA AbstractParses ==
  /\ \A label : Abstract!LabelError(label) = LabelError(label)
  /\ \A command : Abstract!CommandType(command) = CommandType(command)
  /\ \A raw, kept : Abstract!ParseError(raw, kept) = ParseError(raw, kept)
  /\ \A raw : Abstract!TypeOf(raw) = TypeOf(raw)
  /\ \A raw, kept : Abstract!parseLine(raw, kept) = parseLine(raw, kept)
  /\ \A raw : Abstract!Names(raw) = Names(raw)
  /\ \A line : Abstract!OperandFormat(line) = OperandFormat(line)
  /\ \A raw : Abstract!CodeOperands(raw) = CodeOperands(raw)
  /\ \A raw : Abstract!DirectiveFits(raw) = DirectiveFits(raw)
  /\ \A raw : Abstract!BytesOf(raw) = BytesOf(raw)
<1>1. \A label : Abstract!LabelError(label) = LabelError(label)
  BY AbstractCommands DEF LabelError, is_reserved_keyword, strArrayIncludes,
     data_directive_commands, entry_directive_commands, extern_directive_commands,
     Abstract!LabelError, Abstract!is_reserved_keyword, Abstract!strArrayIncludes,
     Abstract!data_directive_commands, Abstract!entry_directive_commands,
     Abstract!extern_directive_commands
<1>2. \A command : Abstract!CommandType(command) = CommandType(command)
  BY AbstractCommands DEF CommandType, strArrayIncludes, data_directive_commands,
     entry_directive_commands, extern_directive_commands, Abstract!CommandType,
     Abstract!strArrayIncludes, Abstract!data_directive_commands,
     Abstract!entry_directive_commands, Abstract!extern_directive_commands
<1>3. \A raw, kept : Abstract!ParseError(raw, kept) = ParseError(raw, kept)
  BY <1>1, <1>2 DEF ParseError, Eof, Unread, NoLabel, NoText, Abstract!ParseError, Abstract!Eof,
     Abstract!Unread, Abstract!NoLabel, Abstract!NoText
<1>4. \A raw : Abstract!TypeOf(raw) = TypeOf(raw)
  BY <1>3, <1>2 DEF TypeOf, ParsesCleanly, Abstract!TypeOf, Abstract!ParsesCleanly
<1>5. \A raw, kept : Abstract!parseLine(raw, kept) = parseLine(raw, kept)
  <2>1. /\ Abstract!newLine = newLine /\ Abstract!Empty = Empty /\ Abstract!NoText = NoText
        /\ \A text : Abstract!Name(text) = Name(text)
    BY DEF newLine, Empty, NoText, Name, Abstract!newLine, Abstract!Empty, Abstract!NoText,
       Abstract!Name
  <2>2. ASSUME NEW raw, NEW kept
        PROVE  Abstract!parseLine(raw, kept) = parseLine(raw, kept)
    <3>1. /\ Abstract!ParseError(raw, kept) = ParseError(raw, kept)
          /\ Abstract!LabelError(raw.label) = LabelError(raw.label)
          /\ Abstract!CommandType(raw.command) = CommandType(raw.command)
          /\ Abstract!Name(raw.label.text) = Name(raw.label.text)
          /\ Abstract!newLine = newLine /\ Abstract!Empty = Empty /\ Abstract!NoText = NoText
      BY <1>1, <1>2, <1>3, <2>1
    <3> QED BY ONLY <3>1 DEF parseLine, Abstract!parseLine
  <2> QED BY <2>2
<1>6. \A raw : Abstract!Names(raw) = Names(raw)
  BY <1>4 DEF Names, Name, Abstract!Names, Abstract!Name
<1>7. \A line : Abstract!OperandFormat(line) = OperandFormat(line)
  BY AbstractCommands DEF OperandFormat, i_command_to_subtype, command_to_mapped_value,
     findInArray, i_commands, i_commands_subtype, Registers, r_command_to_subtype, r_commands,
     r_commands_subtype, IsDollar, Abstract!OperandFormat, Abstract!i_command_to_subtype,
     Abstract!command_to_mapped_value, Abstract!findInArray, Abstract!i_commands,
     Abstract!i_commands_subtype, Abstract!Registers, Abstract!r_command_to_subtype,
     Abstract!r_commands, Abstract!r_commands_subtype, Abstract!IsDollar
<1>8. \A raw : Abstract!CodeOperands(raw) = CodeOperands(raw)
  BY <1>7, <1>5 DEF CodeOperands, Abstract!CodeOperands
<1>9. \A raw : Abstract!DirectiveFits(raw) = DirectiveFits(raw)
  BY <1>4, AbstractCommands DEF DirectiveFits, DataOperandsFit, AcceptedNumbers, ChunkSize,
     Abstract!DirectiveFits, Abstract!DataOperandsFit, Abstract!AcceptedNumbers,
     Abstract!ChunkSize
<1>10. \A raw : Abstract!BytesOf(raw) = BytesOf(raw)
  BY <1>4, <1>9, <1>5 DEF BytesOf, DataSize, ChunkSize, Abstract!BytesOf, Abstract!DataSize,
     Abstract!ChunkSize
<1> QED BY <1>1, <1>2, <1>3, <1>4, <1>5, <1>6, <1>7, <1>8, <1>9, <1>10

LEMMA AbstractPlaces ==
  /\ \A i, type : Abstract!OfType(i, type) = OfType(i, type)
  /\ \A name : Abstract!ExternsOf(name) = ExternsOf(name)
  /\ \A name : Abstract!LabelsOf(name) = LabelsOf(name)
  /\ \A last : Abstract!CodeLines(last) = CodeLines(last)
  /\ \A last : Abstract!DataBytes(last) = DataBytes(last)
  /\ \A i : Abstract!SourceAddress(i) = SourceAddress(i)
<1>1. \A i, type : Abstract!OfType(i, type) = OfType(i, type)
  BY AbstractParses DEF OfType, Abstract!OfType
<1>2. \A name : Abstract!ExternsOf(name) = ExternsOf(name)
  BY <1>1, AbstractParses DEF ExternsOf, Abstract!ExternsOf
<1>3. \A name : Abstract!LabelsOf(name) = LabelsOf(name)
  BY <1>1, AbstractParses DEF LabelsOf, Abstract!LabelsOf
<1>4. \A S : Abstract!Cardinality(S) = Cardinality(S)
  BY DEF Cardinality, Abstract!Cardinality
<1>5. \A last : Abstract!CodeLines(last) = CodeLines(last)
  BY <1>1, <1>4 DEF CodeLines, Abstract!CodeLines
<1>6. \A last : Abstract!DataBytes(last) = DataBytes(last)
  BY <1>4, AbstractParses DEF DataBytes, Abstract!DataBytes
<1>7. \A i : Abstract!SourceAddress(i) = SourceAddress(i)
  BY <1>1, <1>5, <1>6 DEF SourceAddress, Abstract!SourceAddress
<1> QED BY <1>1, <1>2, <1>3, <1>5, <1>6, <1>7

LEMMA AbstractFaults ==
  /\ \A raw, i : Abstract!LabelFits(raw, i) = LabelFits(raw, i)
  /\ \A raw, i : Abstract!CodeOperandsFit(raw, i) = CodeOperandsFit(raw, i)
  /\ \A i : Abstract!LineFits(i) = LineFits(i)
  /\ Abstract!Clean = Clean
  /\ Abstract!HasLargestNumber = HasLargestNumber
  /\ Abstract!Readable = Readable
  /\ Abstract!Ended = Ended
<1>1. \A raw, i : Abstract!LabelFits(raw, i) = LabelFits(raw, i)
  BY AbstractCommands, AbstractPlaces DEF LabelFits, ImmedBits, Abstract!LabelFits,
     Abstract!ImmedBits
<1>2. \A raw, i : Abstract!CodeOperandsFit(raw, i) = CodeOperandsFit(raw, i)
  <2>1. /\ Abstract!ImmedBits = ImmedBits
        /\ \A bits : Abstract!AcceptedNumbers(bits) = AcceptedNumbers(bits)
    BY AbstractCommands DEF ImmedBits, AcceptedNumbers, Abstract!ImmedBits, Abstract!AcceptedNumbers
  <2>2. /\ \A line : Abstract!OperandFormat(line) = OperandFormat(line)
        /\ \A line, kept : Abstract!parseLine(line, kept) = parseLine(line, kept)
    BY AbstractParses
  <2>3. \A tok : Abstract!registerFromString(tok) = registerFromString(tok)
    BY AbstractCommands
  <2> QED BY <1>1, <2>1, <2>2, <2>3 DEF CodeOperandsFit, Abstract!CodeOperandsFit
<1>3. \A i : Abstract!LineFits(i) = LineFits(i)
  BY AbstractParses, <1>2, AbstractPlaces DEF LineFits, Abstract!LineFits
<1>4. Abstract!Clean = Clean
  BY AbstractParses, <1>3 DEF Clean, AllParse, NamedOnce, Abstract!Clean, Abstract!AllParse,
     Abstract!NamedOnce
<1>5. Abstract!HasLargestNumber = HasLargestNumber
  BY AbstractCommands DEF HasLargestNumber, LongMax, LongBits, Abstract!HasLargestNumber,
     Abstract!LongMax, Abstract!LongBits
<1>6. Abstract!Readable = Readable
  BY DEF Readable, Eof, Unread, NoLabel, NoText, Abstract!Readable, Abstract!Eof,
     Abstract!Unread, Abstract!NoLabel, Abstract!NoText
<1>7. Abstract!Ended = Ended
  BY DEF Ended, Eof, Unread, NoLabel, NoText, Abstract!Ended, Abstract!Eof, Abstract!Unread,
     Abstract!NoLabel, Abstract!NoText
<1> QED BY <1>1, <1>2, <1>3, <1>4, <1>5, <1>6, <1>7

LEMMA AbstractOutputs ==
  /\ \A name : Abstract!AddressOfName(name) = AddressOfName(name)
  /\ \A i, k : Abstract!OperandValue(i, k) = OperandValue(i, k)
  /\ \A i, field : Abstract!FieldOf(i, field) = FieldOf(i, field)
  /\ \A i : Abstract!SourceWord(i) = SourceWord(i)
  /\ Abstract!SourceCode = SourceCode
  /\ Abstract!SourceData = SourceData
  /\ Abstract!SourceExternals = SourceExternals
  /\ Abstract!SourceEntries = SourceEntries
  /\ Abstract!SourceOutputs = SourceOutputs
<1>1. \A name : Abstract!AddressOfName(name) = AddressOfName(name)
  BY AbstractPlaces, AbstractCommands DEF AddressOfName, Abstract!AddressOfName
<1>2. \A i, k : Abstract!OperandValue(i, k) = OperandValue(i, k)
  BY AbstractParses, AbstractCommands, <1>1, AbstractPlaces DEF OperandValue,
     Abstract!OperandValue
<1>3. \A i, field : Abstract!FieldOf(i, field) = FieldOf(i, field)
  BY AbstractCommands, <1>2 DEF FieldOf, FieldWidth, ImmedBits, RegBits, Abstract!FieldOf,
     Abstract!FieldWidth, Abstract!ImmedBits, Abstract!RegBits
<1>4. \A i : Abstract!SourceWord(i) = SourceWord(i)
  BY AbstractCommands, <1>3, AbstractParses DEF SourceWord, r_command_to_func,
     command_to_mapped_value, findInArray, r_commands, r_commands_funct, Abstract!SourceWord,
     Abstract!r_command_to_func, Abstract!command_to_mapped_value, Abstract!findInArray,
     Abstract!r_commands, Abstract!r_commands_funct
<1>5. Abstract!SourceCode = SourceCode
  BY AbstractPlaces, <1>4, AbstractCommands DEF SourceCode, Abstract!SourceCode
<1>6. Abstract!SourceData = SourceData
  BY AbstractPlaces, AbstractCommands DEF SourceData, Abstract!SourceData
<1>7. Abstract!SourceExternals = SourceExternals
  BY AbstractPlaces, AbstractParses DEF SourceExternals, Abstract!SourceExternals
<1>8. Abstract!SourceEntries = SourceEntries
  BY <1>1, AbstractPlaces DEF SourceEntries, Abstract!SourceEntries
<1>9. Abstract!SourceOutputs = SourceOutputs
  BY <1>5, <1>6, AbstractPlaces, <1>7, <1>8 DEF SourceOutputs, ListingFor,
     Abstract!SourceOutputs, Abstract!ListingFor
<1> QED BY <1>1, <1>2, <1>3, <1>4, <1>5, <1>6, <1>7, <1>8, <1>9

-----------------------------------------------------------------------------
(*****************************************************************************)
(* What a step does to the source, when no allocation fails.               *)
(*****************************************************************************)
Reads ==
  /\ pc \in {"open", "read"}
  /\ \E raw \in Readable :
       source' = Append(source, raw) /\ pc' = IF raw = Eof THEN "fix" ELSE "handle"

Goes ==
  /\ source' = source
  /\ \/ pc = "handle" /\ pc' = "read"
     \/ pc = "fix" /\ pc' \in {"second", "rejected"}
     \/ pc = "second" /\ pc' \in {"second", "assembled", "rejected"}

LEMMA ReadShape ==
  ASSUME Invariants, FirstLine \/ NextLine, faults' = 0
  PROVE  faults = 0 /\ Reads
<1>1. PICK raw \in Readable, failed \in Failing({"operand", "queue_node"}) :
        \E kept \in Kept(raw, failed) : Parse(raw, kept) /\ Fail(failed, erange)
  BY DEF FirstLine, NextLine
<1>2. PICK kept \in Kept(raw, failed) : Parse(raw, kept) /\ Fail(failed, erange)
  BY <1>1
<1>3. faults = 0 /\ failed = {} /\ kept = Len(raw.args)
  <2>1. faults = 0 /\ failed = {}
    BY <1>2, FailType, FourElements DEF Invariants, TypeInvariant, TypeOK
  <2> QED BY <2>1 DEF Kept
<1>4. source' = Append(source, raw) /\ err' = ParseError(raw, Len(raw.args)) /\ raw \in RawLine
  BY <1>2, <1>3, ReadableType DEF Parse, Invariants, TypeInvariant, TypeOK
<1>5. err' = "ERR_EOF" <=> raw = Eof
  <2>1. raw = Eof \/ raw.form # "eof"
    BY SourceAssumption DEF Readable
  <2>2. Eof.form = "eof"
    BY DEF Eof, Unread
  <2> QED BY <1>4, <2>1, <2>2, WholeParse DEF ParseError, RawLine
<1>6. err' # "ERR_OUT_OF_MEMEORY"
  BY <1>4, WholeParse
<1>7. pc \in {"open", "read"} /\ pc' = IF err' = "ERR_EOF" THEN "fix" ELSE "handle"
  <2>1. CASE FirstLine
    BY <2>1 DEF FirstLine
  <2>2. CASE NextLine
    BY <1>6, <2>2 DEF NextLine
  <2> QED BY <2>1, <2>2
<1> QED BY <1>3, <1>4, <1>5, <1>7 DEF Reads

(* Bad numbers are no lack of memory. *)
LEMMA DataErrorInMemory ==
  ASSUME NEW line \in AssemblyLine, NEW flag
  PROVE  DataError(line, flag, {}) # "ERR_OUT_OF_MEMEORY"
<1> DEFINE results == NumberResults(line, flag)
           errors  == {"SUCCESS", "ERR_INVALID_NUMBER_TOKEN", "ERR_INVALID_NUMBER_SIZE"}
<1>1. Len(line.args) \in Nat /\ DOMAIN line.args = 1 .. Len(line.args)
  BY DEF AssemblyLine
<1>2. /\ DOMAIN results = 1 .. Len(line.args)
      /\ \A i \in 1 .. Len(line.args) : results[i] \in errors
  BY <1>1 DEF NumberResults, numberFromString
<1> HIDE DEF results
<1>3. FirstError(results) \in errors
  BY <1>1, <1>2, FirstErrorType
<1> QED BY <1>3 DEF DataError, results

LEMMA HandleShape ==
  ASSUME Invariants, HandleIgnored \/ HandleEntry \/ HandleExtern \/ HandleData \/ HandleCode,
         faults' = 0
  PROVE  faults = 0 /\ Goes
<1>1. pc = "handle" /\ faults \in Nat /\ erange \in BOOLEAN
  BY DEF HandleIgnored, HandleEntry, HandleExtern, HandleData, HandleCode, Handling, Invariants,
         TypeInvariant, TypeOK
<1>2. ASSUME NEW error, Handled(error), error # "ERR_OUT_OF_MEMEORY" PROVE Goes
  BY <1>1, <1>2 DEF Handled, Goes
<1>3. ASSUME NEW name PROVE InsertError(name, {}) # "ERR_OUT_OF_MEMEORY"
  BY DEF InsertError
<1>4. DeclareError({}) # "ERR_OUT_OF_MEMEORY"
  BY <1>3 DEF DeclareError
<1>5. CASE HandleIgnored
  BY <1>2, <1>5 DEF HandleIgnored
<1>6. CASE HandleEntry
  BY <1>2, <1>6 DEF HandleEntry
<1>7. CASE HandleExtern
  <2>1. CASE Len(Current.args) # 1
    BY <1>2, <1>7, <2>1 DEF HandleExtern
  <2>2. CASE Len(Current.args) = 1
    <3>1. PICK failed \in Failing({"symbol", "node"}) :
            Handled(InsertError(Current.args[1], failed)) /\ Fail(failed, erange)
      BY <1>7, <2>2 DEF HandleExtern
    <3>2. faults = 0 /\ failed = {}
      BY <1>1, <3>1, FailType, FourElements
    <3> QED BY <1>2, <1>3, <3>1, <3>2
  <2> QED BY <2>1, <2>2
<1>8. CASE HandleData
  <2>1. PICK failed \in Failing({"symbol", "node", "buffer", "grow"}) :
          \E stale \in BOOLEAN, flag \in BOOLEAN : \E error :
            /\ Handled(error) /\ Fail(failed, flag)
            /\ error \in {DeclareError(failed), DataError(Current, stale, failed),
                          WriteDataError(DataSize(Current), failed)}
    <3>1. PICK failed \in Failing({"symbol", "node", "buffer", "grow"}) :
            LET declared == DeclareError(failed)
                stale    == erange /\ "node" \notin failed
                decoded  == DataError(Current, stale, failed)
            IN  /\ IF declared # "SUCCESS"
                   THEN Handled(declared)
                   ELSE IF decoded # "SUCCESS"
                   THEN Handled(decoded)
                   ELSE Handled(WriteDataError(DataSize(Current), failed))
                /\ Fail(failed, IF declared = "SUCCESS" THEN ErangeAfterData(Current, stale)
                                ELSE erange)
      BY <1>8 DEF HandleData
    <3>2. PICK stale : stale = (erange /\ "node" \notin failed)
      OBVIOUS
    <3>3. stale \in BOOLEAN /\ ErangeAfterData(Current, stale) \in BOOLEAN
      BY <1>1, <3>2 DEF ErangeAfterData
    <3>4. PICK flag \in BOOLEAN : Fail(failed, flag)
      BY <1>1, <3>1, <3>2, <3>3
    <3>5. PICK error :
            /\ Handled(error)
            /\ error \in {DeclareError(failed), DataError(Current, stale, failed),
                          WriteDataError(DataSize(Current), failed)}
      BY <3>1, <3>2
    <3> QED BY <3>3, <3>4, <3>5
  <2>2. PICK stale \in BOOLEAN, flag \in BOOLEAN :
          \E error :
            /\ Handled(error) /\ Fail(failed, flag)
            /\ error \in {DeclareError(failed), DataError(Current, stale, failed),
                          WriteDataError(DataSize(Current), failed)}
    BY <2>1
  <2>3. faults = 0 /\ failed = {}
    BY <1>1, <2>2, FailType, FourElements
  <2>4. /\ DataError(Current, stale, {}) # "ERR_OUT_OF_MEMEORY"
        /\ WriteDataError(DataSize(Current), {}) # "ERR_OUT_OF_MEMEORY"
    <3>1. DataError(Current, stale, {}) # "ERR_OUT_OF_MEMEORY"
      BY <1>1, <1>8, CurrentType, DataErrorInMemory DEF Invariants
    <3>2. WriteDataError(DataSize(Current), {}) # "ERR_OUT_OF_MEMEORY"
      BY DEF WriteDataError, AppendError
    <3> QED BY <3>1, <3>2
  <2> QED BY <1>2, <1>4, <2>2, <2>3, <2>4
<1>9. CASE HandleCode
  <2>1. PICK failed \in Failing({"symbol", "node"}) :
          Handled(DeclareError(failed)) /\ Fail(failed, erange)
    BY <1>9 DEF HandleCode
  <2>2. faults = 0 /\ failed = {}
    BY <1>1, <2>1, FailType, FourElements
  <2> QED BY <1>2, <1>4, <2>1, <2>2
<1>10. faults = 0
  BY <1>5, <1>6, <1>7, <1>8, <1>9
<1>11. Goes
  BY <1>5, <1>6, <1>7, <1>8, <1>9
<1> QED BY <1>10, <1>11

LEMMA OtherShape ==
  ASSUME Invariants, [Next]_vars, faults' = 0,
         ~ (FirstLine \/ NextLine),
         ~ (HandleIgnored \/ HandleEntry \/ HandleExtern \/ HandleData \/ HandleCode)
  PROVE  faults = 0 /\ (Goes \/ UNCHANGED vars)
<1>1. faults \in Nat /\ erange \in BOOLEAN
  BY DEF Invariants, TypeInvariant, TypeOK
<1>2. ASSUME NEW error, Popped(error), pc = "second" PROVE Goes
  BY <1>2 DEF Popped, Goes
<1>3. CASE NoNextLine \/ Crash
  BY <1>1, <1>3 DEF NoNextLine, Crash
<1>4. CASE FinishFirstPass
  BY <1>4 DEF FinishFirstPass, Goes
<1>5. CASE PopIgnored \/ PopEntry
  BY <1>2, <1>5 DEF PopIgnored, PopEntry, Popping
<1>6. CASE PopCode
  <2>1. PICK failed \in Failing({"offsets", "grow"}) :
          /\ \E error : Popped(error)
          /\ Fail(failed, ErangeAfterCode(First, erange))
    BY <1>6 DEF PopCode
  <2>2. ErangeAfterCode(First, erange) \in BOOLEAN
    BY <1>1 DEF ErangeAfterCode
  <2>3. faults = 0
    BY <1>1, <2>1, <2>2, FailType, FourElements
  <2> QED BY <1>2, <1>6, <2>1, <2>3 DEF PopCode, Popping
<1>7. CASE FinishSecondPass
  BY <1>7 DEF FinishSecondPass, Goes
<1>8. CASE UNCHANGED vars
  BY <1>8 DEF vars, passVars
<1> QED BY <1>3, <1>4, <1>5, <1>6, <1>7, <1>8 DEF Next, FirstPass, SecondPass, Terminated

(* With no allocation that fails, a step reads a line or passes from one      *)
(* point of the program to another.                                           *)
LEMMA StepShape ==
  ASSUME Invariants, [Next]_vars, faults' = 0
  PROVE  faults = 0 /\ (Reads \/ Goes \/ UNCHANGED vars)
<1>1. CASE FirstLine \/ NextLine
  BY <1>1, ReadShape
<1>2. CASE HandleIgnored \/ HandleEntry \/ HandleExtern \/ HandleData \/ HandleCode
  BY <1>2, HandleShape
<1> QED BY <1>1, <1>2, OtherShape

(* A source that was decided stays so. *)
LEMMA FinalStays ==
  ASSUME [Next]_vars, pc \in Final
  PROVE  UNCHANGED vars
<1>1. ~ FirstPass
  BY DEF FirstPass, FirstLine, NextLine, NoNextLine, HandleIgnored, HandleEntry, HandleExtern,
         HandleData, HandleCode, Handling, FinishFirstPass, Final
<1>2. ~ SecondPass
  BY DEF SecondPass, PopIgnored, PopEntry, PopCode, Popping, FinishSecondPass, Final
<1>3. ~ Crash
  BY DEF Crash, Unchecked, Final
<1> QED BY <1>1, <1>2, <1>3 DEF Next, Terminated

(* The first pass ends at the end of the source. *)
EndReached ==
  faults = 0 => pc # "crashed" /\ (Ended <=> pc \in {"fix", "second", "assembled", "rejected"})

LEMMA EndInit == Init => EndReached
BY DEF Init, EndReached, Ended

LEMMA EndStep ==
  ASSUME Invariants, EndReached, [Next]_vars
  PROVE  EndReached'
<1> SUFFICES ASSUME faults' = 0
             PROVE  pc' # "crashed" /\ (Ended' <=> pc' \in {"fix", "second", "assembled", "rejected"})
  BY DEF EndReached
<1>1. /\ faults = 0 /\ pc # "crashed"
      /\ Ended <=> pc \in {"fix", "second", "assembled", "rejected"}
  BY StepShape DEF EndReached
<1>2. CASE Reads
  <2>1. PICK raw \in Readable :
          source' = Append(source, raw) /\ pc' = IF raw = Eof THEN "fix" ELSE "handle"
    BY <1>2 DEF Reads
  <2>2. source \in Seq(RawLine)
    BY DEF Invariants, TypeInvariant, TypeOK
  <2>3. Len(source') = Len(source) + 1 /\ source'[Len(source) + 1] = raw /\ Len(source) \in Nat
    BY <2>1, <2>2, AppendAnything
  <2>4. source' # <<>>
    BY <2>3
  <2>5. Ended' <=> raw = Eof
    BY <2>3, <2>4 DEF Ended, Eof
  <2> QED BY <2>1, <2>5
<1>3. CASE Goes
  BY <1>1, <1>3 DEF Goes, Ended
<1>4. CASE UNCHANGED vars
  BY <1>1, <1>4 DEF vars, passVars, Ended
<1> QED BY <1>2, <1>3, <1>4, StepShape

(* The output that is asked for does not change while the source does not. *)
LEMMA SameOutputs ==
  ASSUME source' = source
  PROVE  SourceOutputs' = SourceOutputs
<1>1. /\ \A i, type : OfType(i, type)' = OfType(i, type)
      /\ \A i : CodeOperands(source[i])' = CodeOperands(source[i])
  BY DEF OfType
<1>2. \A name : LabelsOf(name)' = LabelsOf(name) /\ ExternsOf(name)' = ExternsOf(name)
  BY <1>1 DEF LabelsOf, ExternsOf
<1>3. \A last : CodeLines(last)' = CodeLines(last) /\ DataBytes(last)' = DataBytes(last)
  BY <1>1 DEF CodeLines, DataBytes
<1>4. \A i : SourceAddress(i)' = SourceAddress(i)
  BY <1>1, <1>3 DEF SourceAddress
<1>5. \A name : AddressOfName(name)' = AddressOfName(name)
  BY <1>2, <1>4 DEF AddressOfName
<1>6. \A i, k : OperandValue(i, k)' = OperandValue(i, k)
  BY <1>4, <1>5 DEF OperandValue
<1>7. \A i, field : FieldOf(i, field)' = FieldOf(i, field)
  BY <1>6 DEF FieldOf
<1>8. \A i : SourceWord(i)' = SourceWord(i)
  BY <1>7 DEF SourceWord
<1>9. SourceCode' = SourceCode /\ SourceData' = SourceData
  BY <1>1, <1>3, <1>8 DEF SourceCode, SourceData
<1>10. SourceExternals' = SourceExternals
  BY <1>1, <1>2, <1>4 DEF SourceExternals
<1>11. SourceEntries' = SourceEntries
  BY <1>1, <1>5 DEF SourceEntries
<1>12. ASSUME NEW type, NEW listing PROVE ListingFor(type, listing)' = ListingFor(type, listing)
  BY <1>1 DEF ListingFor
<1> QED BY <1>9, <1>10, <1>11, <1>12 DEF SourceOutputs

-----------------------------------------------------------------------------
(*****************************************************************************)
(* The steps of the passes are steps of the assembler, or change nothing   *)
(* of it.                                                                  *)
(*****************************************************************************)
Simulated == Invariants /\ NoErrorIsForgotten /\ EndReached

(* What holds of the states before a step holds of those behind it. *)
LEMMA OutputOfSourceNext == (Finished => OutputFiles = SourceOutputs)'
BY OutputOfSource, PTL

LEMMA CleanNext == (Invariants /\ NoErrorIsForgotten => AcceptsExactlyCleanSource)'
BY AcceptanceDerived, PTL

(* There are no output files unless the source is assembled. *)
LEMMA Undecided ==
  /\ Verdict # "assembled" => OutputFiles = Abstract!Nothing
  /\ (Verdict # "assembled" => OutputFiles = Abstract!Nothing)'
BY DEF OutputFiles, Abstract!Nothing

(* Memory runs out, or has run out. *)
LEMMA LostSimulates ==
  ASSUME Simulated, [Next]_vars, faults' # 0
  PROVE  [Abstract!Next]_(Abstract!vars)
<1>1. Verdict' = "lost" /\ OutputFiles' = Abstract!Nothing
  <2>1. Verdict' = "lost"
    BY DEF Verdict
  <2> QED BY <2>1, Undecided
<1>2. Verdict \in {"none", "lost"}
  <2>1. faults = 0 => pc \notin Final
    BY FinalStays DEF vars, passVars
  <2> QED BY <2>1 DEF Verdict, Final
<1>3. OutputFiles = Abstract!Nothing
  BY <1>2, Undecided
<1>4. Abstract!RunOutOfMemory
  BY <1>1, <1>2, <1>3 DEF Abstract!RunOutOfMemory
<1> QED BY <1>4 DEF Abstract!Next

(* A line is read. *)
LEMMA ReadSimulates ==
  ASSUME Simulated, faults = 0, faults' = 0, Reads
  PROVE  Abstract!Read
<1>1. PICK raw \in Readable :
        source' = Append(source, raw) /\ pc' = IF raw = Eof THEN "fix" ELSE "handle"
  BY DEF Reads
<1>2. Verdict = "none" /\ Verdict' = "none" /\ ~ Ended
  BY <1>1 DEF Reads, Verdict, Simulated, EndReached
<1>3. OutputFiles = Abstract!Nothing /\ OutputFiles' = Abstract!Nothing
  BY <1>2, Undecided
<1>4. raw \in Abstract!Readable /\ ~ Abstract!Ended
  BY <1>2, AbstractFaults
<1> QED BY <1>1, <1>2, <1>3, <1>4 DEF Abstract!Read

(* The source is assembled or rejected, or the passes go on. *)
LEMMA DecisionSimulates ==
  ASSUME Simulated, Invariants', NoErrorIsForgotten', faults = 0, faults' = 0, Goes
  PROVE  Abstract!Assemble \/ Abstract!Reject \/ UNCHANGED Abstract!vars
<1>1. source' = source /\ pc \in {"handle", "fix", "second"}
      /\ pc' \in {"read", "second", "assembled", "rejected"}
      /\ (pc' \in {"assembled", "rejected"} => pc \in {"fix", "second"})
  BY DEF Goes
<1>2. Verdict = "none" /\ OutputFiles = Abstract!Nothing
  <2>1. Verdict = "none"
    BY <1>1 DEF Verdict
  <2> QED BY <2>1, Undecided
<1>3. /\ pc' = "assembled" => Clean
      /\ pc' = "rejected" => ~ Clean \/ HasLargestNumber
  BY <1>1, CleanNext, SameClean DEF AcceptsExactlyCleanSource
<1>4. pc' \in {"assembled", "rejected"} => Ended
  BY <1>1 DEF Simulated, EndReached
<1>5. CASE pc' = "assembled"
  <2>1. Finished'
    BY <1>5 DEF Finished, Assembled
  <2>2. OutputFiles' = SourceOutputs
    BY <1>1, <2>1, OutputOfSourceNext, SameOutputs
  <2>3. Verdict' = "assembled"
    BY <1>5 DEF Verdict
  <2>4. Abstract!Ended /\ Abstract!Clean /\ OutputFiles' = Abstract!SourceOutputs
    BY <1>3, <1>4, <1>5, <2>2, AbstractFaults, AbstractOutputs
  <2>5. Abstract!Assemble
    BY <1>1, <1>2, <2>3, <2>4 DEF Abstract!Assemble
  <2> QED BY <2>5
<1>6. CASE pc' = "rejected"
  <2>1. Verdict' = "rejected" /\ OutputFiles' = Abstract!Nothing
    <3>1. Verdict' = "rejected"
      BY <1>6 DEF Verdict
    <3> QED BY <3>1, Undecided
  <2>2. Abstract!Ended /\ (~ Abstract!Clean \/ Abstract!HasLargestNumber)
    BY <1>3, <1>4, <1>6, AbstractFaults
  <2>3. Abstract!Reject
    BY <1>1, <1>2, <2>1, <2>2 DEF Abstract!Reject
  <2> QED BY <2>3
<1>7. CASE pc' \in {"read", "second"}
  <2>1. Verdict' = "none" /\ OutputFiles' = Abstract!Nothing
    <3>1. Verdict' = "none"
      BY <1>7 DEF Verdict
    <3> QED BY <3>1, Undecided
  <2> QED BY <1>1, <1>2, <2>1 DEF Abstract!vars
<1> QED BY <1>1, <1>5, <1>6, <1>7

LEMMA QuietSimulates ==
  ASSUME UNCHANGED vars
  PROVE  UNCHANGED Abstract!vars
<1>1. /\ UNCHANGED <<source, pc, faults, symtab, has_external, has_entry, code, data>>
  BY DEF vars, passVars, symbolVars, memoryVars
<1>2. Verdict' = Verdict
  BY <1>1 DEF Verdict
<1>3. writeExtFile' = writeExtFile /\ writeEntFile' = writeEntFile
  BY <1>1 DEF writeExtFile, writeEntFile
<1>4. OutputFiles' = OutputFiles
  BY <1>1, <1>2, <1>3 DEF OutputFiles
<1> QED BY <1>1, <1>2, <1>4 DEF Abstract!vars

LEMMA StepSimulates ==
  ASSUME Simulated, Simulated', [Next]_vars
  PROVE  [Abstract!Next]_(Abstract!vars)
<1>1. CASE faults' # 0
  BY <1>1, LostSimulates
<1>2. CASE faults' = 0
  <2>1. faults = 0 /\ (Reads \/ Goes \/ UNCHANGED vars)
    BY <1>2, StepShape DEF Simulated
  <2>2. CASE Reads
    BY <1>2, <2>1, <2>2, ReadSimulates DEF Abstract!Next
  <2>3. CASE Goes
    BY <1>2, <2>1, <2>3, DecisionSimulates DEF Abstract!Next, Simulated
  <2>4. CASE UNCHANGED vars
    BY <2>4, QuietSimulates
  <2> QED BY <2>1, <2>2, <2>3, <2>4
<1> QED BY <1>1, <1>2

LEMMA InitSimulates == Init => Abstract!Init
<1> SUFFICES ASSUME Init PROVE Abstract!Init
  OBVIOUS
<1>1. source = <<>> /\ Verdict = "none"
  BY DEF Init, Verdict
<1>2. OutputFiles = Abstract!Nothing
  BY <1>1, Undecided
<1> QED BY <1>1, <1>2 DEF Abstract!Init

(* firstPass and secondPass implement the assembler that has no passes: each  *)
(* step reads a line, decides the source by its text alone, once, after all   *)
(* of it was read, with the words, bytes and listings that follow from the    *)
(* text, or loses it for lack of memory; every other step changes nothing     *)
(* that can be seen.                                                          *)
THEOREM PassesImplementAssembler == Spec => ImplementsAssembler
<1>1. Spec => []Simulated
  <2>1. Init => EndReached
    BY EndInit
  <2>2. Invariants /\ EndReached /\ [Next]_vars => EndReached'
    BY EndStep
  <2>3. Simulated <=> (Invariants /\ NoErrorIsForgotten) /\ EndReached
    BY DEF Simulated
  <2> QED BY <2>1, <2>2, <2>3, AcceptanceInductive, PTL DEF Spec
<1>2. Init => Abstract!Init
  BY InitSimulates
<1>3. Simulated /\ Simulated' /\ [Next]_vars => [Abstract!Next]_(Abstract!vars)
  BY StepSimulates
<1> QED BY <1>1, <1>2, <1>3, PTL DEF Spec, ImplementsAssembler, Abstract!Spec
=============================================================================
