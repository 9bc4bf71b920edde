---------------------------- MODULE TwoPassProofs ----------------------------
(***************************************************************************)
(* Proofs about TwoPass: type correctness, and that every label and every  *)
(* instruction stands at the address that was computed for it.             *)
(***************************************************************************)
EXTENDS TwoPassProperties, FiniteSetTheorems, SequenceTheorems, NaturalSets, TLAPS

-----------------------------------------------------------------------------
(***************************************************************************)
(* The operators of the lower modules.                                     *)
(***************************************************************************)

(* The widths of the fields and of a long, and what they hold. *)
LEMMA Widths ==
  /\ ByteBits \in Nat \ {0} /\ AddressBits \in Nat \ {0}
  /\ ImmedBits \in Nat /\ LongBits \in Nat /\ ImmedBits >= 2 /\ LongBits >= 4
  /\ {TwoTo[ImmedBits], TwoTo[AddressBits], TwoTo[LongBits - 1]} \subseteq Nat \ {0}
  /\ TwoTo[RegBits] = 32
<1>1. ByteBits \in Nat \ {0} /\ AddressBits \in Nat \ {0}
  BY WidthAssumption
<1>2. ImmedBits \in Nat /\ LongBits - 1 \in Nat /\ LongBits \in Nat /\ ImmedBits >= 2 /\ LongBits >= 4
  BY <1>1 DEF ImmedBits, LongBits
<1>3. {TwoTo[ImmedBits], TwoTo[AddressBits], TwoTo[LongBits - 1]} \subseteq Nat \ {0}
  BY <1>1, <1>2, TwoToPositive
<1>4. TwoTo[3 + 1] = 2 * TwoTo[3] /\ TwoTo[4 + 1] = 2 * TwoTo[4]
  BY TwoToDefined
<1>5. TwoTo[5] = 32
  BY <1>4, TwoToThree
<1> QED BY <1>1, <1>2, <1>3, <1>5 DEF RegBits

(* The first error of a sequence of results is one of them. *)
LEMMA FirstErrorType ==
  ASSUME NEW S, NEW results, NEW n \in Nat, DOMAIN results = 1 .. n, "SUCCESS" \in S,
         \A i \in 1 .. n : results[i] \in S
  PROVE  FirstError(results) \in S
<1> DEFINE bad == {i \in DOMAIN results : results[i] # "SUCCESS"}
<1>1. bad \in SUBSET Nat /\ bad \subseteq DOMAIN results
  OBVIOUS
<1>2. CASE bad = {}
  BY <1>2 DEF FirstError, FirstBad
<1>3. CASE bad # {}
  <2>1. \E i \in bad : \A j \in bad : i <= j
    <3> HIDE DEF bad
    <3> QED BY <1>1, <1>3, LeastNatural
  <2>2. FirstBad(results) \in bad
    BY <1>3, <2>1 DEF FirstBad
  <2> QED BY <2>2 DEF FirstError
<1> QED BY <1>2, <1>3

LEMMA NumberErrorType ==
  ASSUME NEW tok, NEW bits, NEW flag
  PROVE  numberFromString(tok, bits, flag)
           \in {"SUCCESS", "ERR_INVALID_NUMBER_TOKEN", "ERR_INVALID_NUMBER_SIZE"}
BY DEF numberFromString

LEMMA NumberType ==
  ASSUME NEW tok \in Token
  PROVE  NumberOf(tok) \in Int
BY Widths DEF NumberOf, Clamped, LongMax, LongMin, LongBits, Token

LEMMA RegisterType ==
  ASSUME NEW tok
  PROVE  registerFromString(tok) \in -1 .. 32
BY DEF registerFromString

LEMMA RegisterFieldType ==
  ASSUME NEW line, NEW i
  PROVE  RegisterField(line, i) \in 0 .. 31
BY RegisterType, Widths DEF RegisterField, BitField

(* A number cut to the width of a field fits the field. *)
LEMMA BitFieldType ==
  ASSUME NEW v \in Int, NEW w \in Nat
  PROVE  BitField(v, w) \in 0 .. TwoTo[w] - 1
BY TwoToPositive DEF BitField

(* A table of values indexed by the position of a command. *)
LEMMA LookupType ==
  ASSUME NEW n \in Nat, NEW commands, NEW mapping, NEW S, NEW command,
         DOMAIN commands = 1 .. n, \A i \in 1 .. n : mapping[i] \in S,
         strArrayIncludes(command, commands)
  PROVE  command_to_mapped_value(command, commands, mapping) \in S
<1> DEFINE T == {i \in 1 .. n : commands[i] = command}
<1>1. T \in SUBSET Nat /\ T # {}
  BY DEF strArrayIncludes
<1>2. PICK i \in T : \A j \in T : i <= j
  <2> HIDE DEF T
  <2> QED BY <1>1, LeastNatural
<1>3. findInArray(command, commands) \in 1 .. n
  BY <1>2 DEF findInArray
<1> QED BY <1>3 DEF command_to_mapped_value

LEMMA OpcodeType ==
  ASSUME NEW command, is_valid_command_name(command)
  PROVE  command_to_opcode(command) \in 0 .. 63
<1>1. CASE is_i_command(command)
  <2>1. /\ DOMAIN i_commands = 1 .. 15
        /\ \A i \in 1 .. 15 : i_commands_opcode[i] \in 0 .. 63
    BY DEF i_commands, i_commands_opcode
  <2> QED BY <1>1, <2>1, LookupType DEF command_to_opcode, is_i_command
<1>2. CASE ~ is_i_command(command) /\ is_r_command(command)
  <2>1. /\ DOMAIN r_commands = 1 .. 8
        /\ \A i \in 1 .. 8 : r_commands_opcode[i] \in 0 .. 63
    BY DEF r_commands, r_commands_opcode
  <2> QED BY <1>2, <2>1, LookupType DEF command_to_opcode, is_r_command
<1>3. CASE ~ is_i_command(command) /\ ~ is_r_command(command)
  <2>1. /\ DOMAIN j_commands = 1 .. 4
        /\ \A i \in 1 .. 4 : j_commands_opcode[i] \in 0 .. 63
    BY DEF j_commands, j_commands_opcode
  <2> QED BY <1>3, <2>1, LookupType DEF command_to_opcode, is_j_command, is_valid_command_name
<1> QED BY <1>1, <1>2, <1>3

LEMMA FunctType ==
  ASSUME NEW command, is_r_command(command)
  PROVE  r_command_to_func(command) \in 0 .. 31
<1>1. /\ DOMAIN r_commands = 1 .. 8
      /\ \A i \in 1 .. 8 : r_commands_funct[i] \in 0 .. 31
  BY DEF r_commands, r_commands_funct
<1> QED BY <1>1, LookupType DEF r_command_to_func, is_r_command

(* The command tables have no command in common. *)
LEMMA OneLayout ==
  ASSUME NEW command
  PROVE  /\ is_i_command(command) =>
              ~ is_r_command(command) /\ command \notin {"stop", "jmp"}
         /\ is_r_command(command) => command \notin {"stop", "jmp"}
BY DEF is_i_command, is_r_command, strArrayIncludes, i_commands, r_commands

-----------------------------------------------------------------------------
(***************************************************************************)
(* A line of source text, and what is made of it.                          *)
(***************************************************************************)

LEMMA ParseLineType ==
  ASSUME NEW raw \in RawLine, NEW kept \in 0 .. Len(raw.args)
  PROVE  /\ ParseError(raw, kept) \in Errors
         /\ parseLine(raw, kept) \in AssemblyLine
         /\ parseLine(raw, kept).type = "Code" =>
              is_valid_command_name(parseLine(raw, kept).opcode_name)
<1>1. LabelError(raw.label) \in Errors
  BY DEF LabelError, Errors
<1>2. ParseError(raw, kept) \in Errors
  BY <1>1 DEF ParseError, Errors
<1>3. CommandType(raw.command) \in LineTypes
      /\ (CommandType(raw.command) = "Code" => is_valid_command_name(raw.command.name))
  BY DEF CommandType, LineTypes
<1>4. Empty \in Token /\ Name(raw.label.text) \in Token
  BY TextAssumption DEF Empty, Name, Token, TokenKinds, RawLine
<1>5. /\ <<>> \in Seq(Token)
      /\ [i \in 1 .. kept |-> raw.args[i]] \in Seq(Token)
  BY DEF RawLine
<1>6. newLine \in AssemblyLine /\ newLine.type = "None"
  BY <1>4, <1>5, TextAssumption DEF newLine, AssemblyLine, LineTypes
<1>7. CASE raw.form = "blank"
  <2>1. parseLine(raw, kept) = [newLine EXCEPT !.type = "Empty"]
    BY <1>7 DEF parseLine
  <2> QED BY <1>2, <1>6, <2>1 DEF AssemblyLine, LineTypes
<1>8. CASE raw.form # "blank"
  <2> DEFINE filled == ParseError(raw, kept) \in {"SUCCESS", "ERR_OUT_OF_MEMEORY"}
             label  == IF raw.form = "text" /\ raw.label.colon
                          /\ LabelError(raw.label) = "SUCCESS"
                       THEN Name(raw.label.text) ELSE Empty
             type   == IF filled THEN CommandType(raw.command) ELSE "None"
             name   == IF filled THEN raw.command.name ELSE NoText
             args   == IF filled THEN [i \in 1 .. kept |-> raw.args[i]] ELSE <<>>
  <2>1. label \in Token /\ type \in LineTypes /\ name \in STRING /\ args \in Seq(Token)
    BY <1>3, <1>4, <1>5, TextAssumption DEF LineTypes, RawLine
  <2>2. type = "Code" => is_valid_command_name(name)
    BY <1>3
  <2>3. parseLine(raw, kept) = [newLine EXCEPT !.label = label, !.type = type,
                                               !.opcode_name = name, !.args = args]
    BY <1>8 DEF parseLine
  <2> HIDE DEF label, type, name, args
  <2> QED BY <1>2, <1>6, <2>1, <2>2, <2>3 DEF AssemblyLine
<1> QED BY <1>2, <1>7, <1>8

LEMMA DataErrorType ==
  ASSUME NEW line \in AssemblyLine, NEW flag, NEW failed
  PROVE  DataError(line, flag, failed) \in Errors
<1>1. line.args \in Seq(Token)
  BY DEF AssemblyLine
<1>2. /\ Len(line.args) \in Nat
      /\ DOMAIN NumberResults(line, flag) = 1 .. Len(line.args)
  BY <1>1 DEF NumberResults
<1>3. \A i \in 1 .. Len(line.args) : NumberResults(line, flag)[i] \in Errors
  BY <1>1, NumberErrorType DEF NumberResults, Errors
<1>4. "SUCCESS" \in Errors
  BY DEF Errors
<1>5. FirstError(NumberResults(line, flag)) \in Errors
  BY <1>2, <1>3, <1>4, FirstErrorType
<1> QED BY <1>5 DEF DataError, Errors

LEMMA DataSizeType ==
  ASSUME NEW line \in AssemblyLine, NEW flag, NEW failed,
         DataError(line, flag, failed) = "SUCCESS"
  PROVE  DataSize(line) \in Nat \ {0}
<1>1. CASE line.opcode_name = "asciz"
  BY <1>1 DEF DataError, DataSize, AssemblyLine, Token
<1>2. CASE line.opcode_name # "asciz"
  <2>1. Len(line.args) \in Nat \ {0} /\ ChunkSize(line.opcode_name) \in {1, 2, 4}
    BY <1>2 DEF DataError, ChunkSize, AssemblyLine
  <2>2. DataSize(line) = Len(line.args) * ChunkSize(line.opcode_name)
    BY <1>2 DEF DataSize
  <2> QED BY <2>1, <2>2
<1> QED BY <1>1, <1>2

LEMMA OperandFormatType ==
  ASSUME NEW line \in AssemblyLine
  PROVE  OperandFormat(line) \in Seq({"register", "number", "label"})
<1> DEFINE Kinds == {"register", "number", "label"}
<1>1. \A n \in Nat : Registers(n) \in Seq(Kinds)
  BY DEF Registers
<1>2. /\ <<"register", "register", "label">> \in Seq(Kinds)
      /\ <<"register", "number", "register">> \in Seq(Kinds)
      /\ <<"label">> \in Seq(Kinds)
      /\ <<>> \in Seq(Kinds)
  OBVIOUS
<1>3. \/ OperandFormat(line) \in
           {<<"register", "register", "label">>, <<"register", "number", "register">>,
            <<"label">>, <<>>}
      \/ \E n \in Nat : OperandFormat(line) = Registers(n)
  BY DEF OperandFormat
<1> QED BY <1>1, <1>2, <1>3

LEMMA OperandsErrorType ==
  ASSUME NEW line \in AssemblyLine, NEW flag
  PROVE  OperandsError(line, flag) \in Errors
<1> DEFINE results == OperandResults(line, flag)
           n == Len(OperandFormat(line))
<1>1. n \in Nat /\ DOMAIN OperandFormat(line) = 1 .. n
  BY OperandFormatType
<1>2. DOMAIN results = 1 .. n /\ (\A i \in 1 .. n : results[i] \in Errors)
  <2>1. \A kind, tok : OperandError(kind, tok, flag) \in Errors
    BY NumberErrorType DEF OperandError, Errors
  <2> QED BY <1>1, <2>1 DEF OperandResults
<1>3. "SUCCESS" \in Errors
  BY DEF Errors
<1>4. FirstError(results) \in Errors
  <2> HIDE DEF results, n
  <2> QED BY <1>1, <1>2, <1>3, FirstErrorType
<1> QED BY <1>4 DEF OperandsError, Errors

LEMMA InstructionErrorType ==
  ASSUME NEW line \in AssemblyLine, NEW flag, NEW failed
  PROVE  InstructionError(line, flag, failed) \in Errors
BY OperandsErrorType DEF InstructionError, ReferenceError, Errors

-----------------------------------------------------------------------------
(***************************************************************************)
(* The symbol table.                                                       *)
(***************************************************************************)

(* What find returns for a name that exists. *)
LEMMA FindType ==
  ASSUME symtab \in Seq(Symbol), NEW name, exists(name)
  PROVE  /\ find(name) \in DOMAIN symtab
         /\ symtab[find(name)].symbol = name
<1> DEFINE T == {i \in 1 .. Len(symtab) : symtab[i].symbol = name}
<1>1. Len(symtab) \in Nat /\ DOMAIN symtab = 1 .. Len(symtab)
  OBVIOUS
<1>2. T \in SUBSET (1 .. Len(symtab)) /\ T # {}
  BY <1>1 DEF exists
<1>3. \E x \in T : \A y \in T : y <= x
  <2> HIDE DEF T
  <2> QED BY <1>1, <1>2, LastPosition
<1>4. PICK x \in T : \A y \in T : y <= x
  BY <1>3
<1>5. /\ x \in DOMAIN symtab
      /\ symtab[x].symbol = name /\ \A j \in DOMAIN symtab : j > x => symtab[j].symbol # name
  BY <1>1, <1>4
<1> QED BY <1>5 DEF find

(* The three layouts, given an operand of the right kind. *)
LEMMA EncodeIType ==
  ASSUME NEW line, NEW cleared \in Word,
         IF i_command_to_subtype(line.opcode_name) = "IBranch"
         THEN Distance(line) \in Int ELSE NumberOf(line.args[2]) \in Int
  PROVE  EncodeI(line, cleared) \in Word
<1> DEFINE branch == i_command_to_subtype(line.opcode_name) = "IBranch"
           immed == BitField(IF branch THEN Distance(line) ELSE NumberOf(line.args[2]),
                             ImmedBits)
           W(s, t, m) == [cleared EXCEPT !.rs = s, !.rt = t, !.immed = m]
<1>1. immed \in 0 .. TwoTo[ImmedBits] - 1
  BY BitFieldType, Widths
<1>2. \A s, t \in 0 .. 31, m \in 0 .. TwoTo[ImmedBits] - 1 : W(s, t, m) \in Word
  BY DEF Word
<1>3. EncodeI(line, cleared) =
        W(RegisterField(line, 1), RegisterField(line, IF branch THEN 2 ELSE 3), immed)
  BY DEF EncodeI
<1> HIDE DEF immed, W
<1> QED BY <1>1, <1>2, <1>3, RegisterFieldType

LEMMA EncodeRType ==
  ASSUME NEW line, NEW cleared \in Word, is_r_command(line.opcode_name)
  PROVE  EncodeR(line, cleared) \in Word
<1> DEFINE arithmetic == r_command_to_subtype(line.opcode_name) = "RArithmetic"
           rt == IF arithmetic THEN RegisterField(line, 2) ELSE 0
           rd == RegisterField(line, IF arithmetic THEN 3 ELSE 2)
           W(f, s, t, d) == [cleared EXCEPT !.funct = f, !.rs = s, !.rt = t, !.rd = d]
<1>1. /\ r_command_to_func(line.opcode_name) \in 0 .. 31
      /\ RegisterField(line, 1) \in 0 .. 31 /\ rt \in 0 .. 31 /\ rd \in 0 .. 31
  BY RegisterFieldType, FunctType
<1>2. \A f, s, t, d \in 0 .. 31 : W(f, s, t, d) \in Word
  BY DEF Word
<1>3. EncodeR(line, cleared) =
        W(r_command_to_func(line.opcode_name), RegisterField(line, 1), rt, rd)
  BY DEF EncodeR
<1> HIDE DEF rt, rd, W
<1> QED BY <1>1, <1>2, <1>3

LEMMA EncodeJType ==
  ASSUME NEW line, NEW cleared \in Word,
         LabelOperand(line) # 0 => symtab[find(UsedSymbol(line))].value \in Int
  PROVE  EncodeJ(line, cleared) \in Word
<1> DEFINE addresses == 0 .. TwoTo[AddressBits] - 1
           label == symtab[find(UsedSymbol(line))]
           Jump(r, a) == [cleared EXCEPT !.reg = r, !.address = a]
<1>1. \A r \in 0 .. 1, a \in addresses : Jump(r, a) \in Word
  BY DEF Word
<1>2. \A a \in addresses : [cleared EXCEPT !.address = a] \in Word
  BY DEF Word
<1>3. 0 \in addresses
  BY Widths
<1>4. CASE line.args = <<>>
  BY <1>4 DEF EncodeJ
<1>5. CASE line.args # <<>> /\ LabelOperand(line) = 0
  <2>1. registerFromString(line.args[1]) \in Int
    BY RegisterType
  <2>2. BitField(registerFromString(line.args[1]), AddressBits) \in addresses
    BY <2>1, BitFieldType, Widths
  <2>3. EncodeJ(line, cleared) =
          Jump(1, BitField(registerFromString(line.args[1]), AddressBits))
    BY <1>5 DEF EncodeJ
  <2> HIDE DEF Jump
  <2> QED BY <1>1, <2>2, <2>3
<1>6. CASE line.args # <<>> /\ LabelOperand(line) # 0
  <2>1. BitField(label.value, AddressBits) \in addresses
    BY <1>6, BitFieldType, Widths
  <2>2. EncodeJ(line, cleared) =
          [cleared EXCEPT !.address = IF label.is_external THEN 0
                                      ELSE BitField(label.value, AddressBits)]
    BY <1>6 DEF EncodeJ
  <2> QED BY <1>2, <1>3, <2>1, <2>2
<1> QED BY <1>4, <1>5, <1>6

(* The word of an instruction without an error. *)
LEMMA InstructionType ==
  ASSUME symtab \in Seq(Symbol), NEW line \in AssemblyLine, NEW flag, NEW failed,
         is_valid_command_name(line.opcode_name),
         InstructionError(line, flag, failed) = "SUCCESS"
  PROVE  decodeInstructionLine(line) \in Word
<1> DEFINE cleared == [opcode |-> command_to_opcode(line.opcode_name), rs |-> 0, rt |-> 0,
                       rd |-> 0, funct |-> 0, immed |-> 0, address |-> 0, reg |-> 0]
<1>1. 0 \in 0 .. TwoTo[ImmedBits] - 1 /\ 0 \in 0 .. TwoTo[AddressBits] - 1
  BY Widths
<1>2. cleared \in Word
  BY <1>1, OpcodeType DEF Word
<1>3. OperandsError(line, flag) = "SUCCESS"
  BY DEF InstructionError, UsesSymbol
<1>4. LabelOperand(line) # 0 => exists(UsedSymbol(line))
  BY <1>3 DEF InstructionError, UsesSymbol, ReferenceError
<1>5. LabelOperand(line) # 0 => symtab[find(UsedSymbol(line))].value \in Int
  <2>1. SUFFICES ASSUME LabelOperand(line) # 0
                 PROVE  symtab[find(UsedSymbol(line))].value \in Int
    OBVIOUS
  <2>2. find(UsedSymbol(line)) \in DOMAIN symtab
    BY <1>4, <2>1, FindType
  <2>3. symtab[find(UsedSymbol(line))] \in Symbol
    BY <2>2
  <2> QED BY <2>3 DEF Symbol
<1>6. CASE is_i_command(line.opcode_name)
  <2>1. CASE i_command_to_subtype(line.opcode_name) = "IBranch"
    <3>1. LabelOperand(line) = 3
      BY <1>6, <2>1, OneLayout DEF LabelOperand, OperandFormat
    <3>2. Distance(line) \in Int
      BY <1>5, <3>1 DEF Distance, AssemblyLine
    <3> QED BY <1>2, <1>6, <2>1, <3>2, EncodeIType, OneLayout DEF decodeInstructionLine
  <2>2. CASE i_command_to_subtype(line.opcode_name) # "IBranch"
    <3>1. OperandFormat(line) = <<"register", "number", "register">>
      BY <1>6, <2>2, OneLayout DEF OperandFormat
    <3>2. Len(line.args) = 3
      BY <1>3, <3>1 DEF OperandsError
    <3>3. line.args[2] \in Token
      BY <3>2 DEF AssemblyLine
    <3> QED BY <1>2, <1>6, <2>2, <3>3, NumberType, EncodeIType, OneLayout
            DEF decodeInstructionLine
  <2> QED BY <2>1, <2>2
<1>7. CASE ~ is_i_command(line.opcode_name) /\ is_r_command(line.opcode_name)
  BY <1>2, <1>7, EncodeRType DEF decodeInstructionLine
<1>8. CASE ~ is_i_command(line.opcode_name) /\ ~ is_r_command(line.opcode_name)
  BY <1>2, <1>5, <1>8, EncodeJType DEF decodeInstructionLine
<1> QED BY <1>6, <1>7, <1>8

LEMMA InsertType ==
  ASSUME SymbolManagerTypeOK, NEW name \in Token, NEW val \in Int, NEW is_extern \in BOOLEAN,
         NEW section \in Sections, NEW failed,
         insertSymbol(name, val, is_extern, section, failed)
  PROVE  SymbolManagerTypeOK'
<1>1. newSymbol(name, val, is_extern, section) \in Symbol
  BY DEF newSymbol, Symbol
<1>2. symtab' \in Seq(Symbol)
  BY <1>1 DEF insertSymbol, SymbolManagerTypeOK
<1> QED BY <1>2 DEF insertSymbol, SymbolManagerTypeOK

LEMMA MarkType ==
  ASSUME SymbolManagerTypeOK, NEW name, markSymEntry(name)
  PROVE  SymbolManagerTypeOK'
<1>1. CASE EntryError(name) = "SUCCESS"
  <2> DEFINE marked == [symtab[find(name)] EXCEPT !.is_entry = TRUE]
  <2>1. exists(name)
    BY <1>1 DEF EntryError
  <2>2. symtab \in Seq(Symbol) /\ find(name) \in DOMAIN symtab
    BY <2>1, FindType DEF SymbolManagerTypeOK
  <2>3. marked \in Symbol
    <3>1. symtab[find(name)] \in Symbol
      BY <2>2
    <3> QED BY <3>1 DEF Symbol
  <2>4. symtab' = [symtab EXCEPT ![find(name)] = marked]
    BY <1>1 DEF markSymEntry
  <2>5. symtab' \in Seq(Symbol)
    <3> HIDE DEF marked
    <3> QED BY <2>2, <2>3, <2>4, ExceptSeq
  <2> QED BY <1>1, <2>5 DEF markSymEntry, SymbolManagerTypeOK
<1>2. CASE EntryError(name) # "SUCCESS"
  BY <1>2 DEF markSymEntry, SymbolManagerTypeOK
<1> QED BY <1>1, <1>2

LEMMA UseType ==
  ASSUME SymbolManagerTypeOK, NEW name, NEW offset \in Int, NEW failed,
         useSymbol(name, offset, failed)
  PROVE  SymbolManagerTypeOK'
<1>1. CASE exists(name)
  <2> DEFINE offsets == IF "offsets" \in failed THEN <<>>
                        ELSE Append(symtab[find(name)].dependent_offsets, offset)
             used == [symtab[find(name)] EXCEPT !.dependent_offsets = offsets]
  <2>1. symtab \in Seq(Symbol) /\ find(name) \in DOMAIN symtab
    BY <1>1, FindType DEF SymbolManagerTypeOK
  <2>2. used \in Symbol
    <3>1. symtab[find(name)] \in Symbol
      BY <2>1
    <3>2. offsets \in Seq(Int)
      <4>1. symtab[find(name)].dependent_offsets \in Seq(Int)
        BY <3>1 DEF Symbol
      <4> QED BY <4>1
    <3> HIDE DEF offsets
    <3> QED BY <3>1, <3>2 DEF Symbol
  <2>3. symtab' = [symtab EXCEPT ![find(name)] = used]
    BY <1>1 DEF useSymbol
  <2>4. symtab' \in Seq(Symbol)
    <3> HIDE DEF used
    <3> QED BY <2>1, <2>2, <2>3, ExceptSeq
  <2> QED BY <2>4 DEF useSymbol, SymbolManagerTypeOK
<1>2. CASE ~ exists(name)
  BY <1>2 DEF useSymbol, SymbolManagerTypeOK
<1> QED BY <1>1, <1>2

LEMMA FixType ==
  ASSUME SymbolManagerTypeOK, NEW offset \in Int, fixDataSymbolsOffset(offset)
  PROVE  SymbolManagerTypeOK'
<1> DEFINE fixed(i) == IF symtab[i].section # "Data" \/ symtab[i].is_external
                       THEN symtab[i] ELSE [symtab[i] EXCEPT !.value = @ + offset]
<1>1. Len(symtab) \in Nat /\ DOMAIN symtab = 1 .. Len(symtab)
  BY DEF SymbolManagerTypeOK
<1>2. \A i \in 1 .. Len(symtab) : fixed(i) \in Symbol
  <2>1. TAKE i \in 1 .. Len(symtab)
  <2>2. symtab[i] \in Symbol
    BY <2>1 DEF SymbolManagerTypeOK
  <2> QED BY <2>2 DEF Symbol
<1>3. symtab' = [i \in 1 .. Len(symtab) |-> fixed(i)]
  BY <1>1 DEF fixDataSymbolsOffset
<1>4. symtab' \in Seq(Symbol)
  <2> HIDE DEF fixed
  <2> QED BY <1>1, <1>2, <1>3
<1> QED BY <1>4 DEF fixDataSymbolsOffset, SymbolManagerTypeOK

-----------------------------------------------------------------------------
(***************************************************************************)
(* The memory and the line queue.                                          *)
(***************************************************************************)

LEMMA WriteDataType ==
  ASSUME MemoryTypeOK, NEW line \in Nat, NEW n \in Nat, NEW failed, writeData(line, n, failed)
  PROVE  MemoryTypeOK'
<1>1. [i \in 1 .. n |-> line] \in Seq(Nat)
  OBVIOUS
<1>2. data' \in Seq(Nat)
  BY <1>1 DEF writeData, MemoryTypeOK
<1> QED BY <1>2 DEF writeData, MemoryTypeOK

LEMMA WriteCodeType ==
  ASSUME MemoryTypeOK, NEW line \in Nat, NEW word \in Word, NEW failed,
         writeCode(line, word, failed)
  PROVE  MemoryTypeOK'
<1> DEFINE entry == [line |-> line, word |-> word]
           Entries == [line : Nat, word : Word]
<1>1. entry \in Entries
  OBVIOUS
<1>2. code \in Seq(Entries) /\ (code' = code \/ code' = Append(code, entry))
  BY DEF writeCode, MemoryTypeOK
<1>3. code' \in Seq(Entries)
  <2> HIDE DEF entry, Entries
  <2> QED BY <1>1, <1>2
<1> QED BY <1>3 DEF writeCode, MemoryTypeOK

(* What a push leaves in the queue: what was there, and at most the new line. *)
LEMMA PushType ==
  ASSUME queue \in Seq(Nat), tail_linked \in BOOLEAN, NEW n \in Nat, NEW failed, push(n, failed)
  PROVE  /\ queue' \in Seq(Nat) /\ tail_linked' \in BOOLEAN
         /\ \A k \in DOMAIN queue' : (k \in DOMAIN queue /\ queue'[k] = queue[k]) \/ queue'[k] = n
<1>1. tail_linked' \in BOOLEAN
  BY DEF push
<1>2. CASE queue' = queue
  BY <1>1, <1>2
<1>3. CASE queue' = Append(queue, n)
  <2>1. queue' \in Seq(Nat) /\ Len(queue') = Len(queue) + 1
    BY <1>3
  <2>2. \A k \in 1 .. Len(queue) + 1 :
          (k \in 1 .. Len(queue) /\ queue'[k] = queue[k]) \/ queue'[k] = n
    BY <1>3
  <2> QED BY <1>1, <2>1, <2>2
<1>4. queue' = queue \/ queue' = Append(queue, n)
  BY DEF push
<1> QED BY <1>2, <1>3, <1>4

(* A call tries at most four allocations. *)
LEMMA FourElements ==
  ASSUME NEW a, NEW b, NEW c, NEW d
  PROVE  IsFiniteSet({a, b, c, d}) /\ IsFiniteSet({a, b})
<1>1. IsFiniteSet({a})
  BY FS_Singleton
<1>2. IsFiniteSet({a} \cup {b})
  BY <1>1, FS_AddElement
<1>3. IsFiniteSet(({a} \cup {b}) \cup {c})
  BY <1>2, FS_AddElement
<1>4. IsFiniteSet((({a} \cup {b}) \cup {c}) \cup {d})
  BY <1>3, FS_AddElement
<1>5. {a, b, c, d} = (({a} \cup {b}) \cup {c}) \cup {d}
  OBVIOUS
<1>6. {a, b} = {a} \cup {b}
  OBVIOUS
<1> QED BY <1>2, <1>4, <1>5, <1>6

(* The faults a call adds. *)
LEMMA FailType ==
  ASSUME faults \in Nat, NEW allocations, IsFiniteSet(allocations),
         NEW failed \in Failing(allocations), NEW flag \in BOOLEAN, Fail(failed, flag)
  PROVE  faults' \in Nat /\ erange' \in BOOLEAN /\ (faults' = 0 => faults = 0 /\ failed = {})
<1>1. IsFiniteSet(failed) /\ Cardinality(failed) \in Nat
  BY FS_Subset, FS_CardinalityType DEF Failing
<1>2. Cardinality(failed) = 0 <=> failed = {}
  BY <1>1, FS_EmptySet
<1> QED BY <1>1, <1>2 DEF Fail

-----------------------------------------------------------------------------
(***************************************************************************)
(* Type correctness.                                                       *)
(***************************************************************************)

LEMMA ReadableType ==
  ASSUME NEW raw \in Readable, NEW failed, NEW kept \in Kept(raw, failed)
  PROVE  raw \in RawLine /\ kept \in 0 .. Len(raw.args)
<1>1. Eof \in RawLine
  BY TextAssumption DEF Eof, Unread, NoLabel, RawLine
<1>2. raw \in RawLine
  BY <1>1, SourceAssumption DEF Readable
<1>3. Len(raw.args) \in Nat
  BY <1>2 DEF RawLine
<1> QED BY <1>2, <1>3 DEF Kept

(* A line is parsed and appended to the lines that are kept. *)
LEMMA ParseStep ==
  ASSUME TypeInvariant, NEW raw \in Readable, NEW failed, NEW kept \in Kept(raw, failed),
         Parse(raw, kept)
  PROVE  /\ source' \in Seq(RawLine) /\ lines' \in Seq(AssemblyLine) /\ err' \in Errors
         /\ Len(lines') = Len(lines) + 1 /\ Len(source') = Len(lines')
         /\ KnownCommands'
<1>1. raw \in RawLine /\ kept \in 0 .. Len(raw.args)
  BY ReadableType
<1>2. /\ source \in Seq(RawLine) /\ lines \in Seq(AssemblyLine)
      /\ Len(source) = Len(lines)
  BY DEF TypeInvariant, TypeOK, LinesAreKept
<1>3. /\ parseLine(raw, kept) \in AssemblyLine /\ ParseError(raw, kept) \in Errors
      /\ parseLine(raw, kept).type = "Code" =>
           is_valid_command_name(parseLine(raw, kept).opcode_name)
  BY <1>1, ParseLineType
<1>4. /\ source' = Append(source, raw) /\ lines' = Append(lines, parseLine(raw, kept))
      /\ err' = ParseError(raw, kept)
  BY DEF Parse
<1>5. /\ source' \in Seq(RawLine) /\ lines' \in Seq(AssemblyLine) /\ err' \in Errors
      /\ Len(lines') = Len(lines) + 1 /\ Len(source') = Len(lines')
  BY <1>1, <1>2, <1>3, <1>4
<1>6. KnownCommands'
  <2>1. SUFFICES ASSUME NEW i \in 1 .. Len(lines) + 1, lines'[i].type = "Code"
                 PROVE  is_valid_command_name(lines'[i].opcode_name)
    BY <1>5 DEF KnownCommands
  <2>2. CASE i \in 1 .. Len(lines)
    <3>1. lines'[i] = lines[i] /\ i \in DOMAIN lines
      BY <1>2, <1>4, <2>2
    <3> QED BY <2>1, <3>1 DEF TypeInvariant, KnownCommands
  <2>3. CASE i = Len(lines) + 1
    <3>1. lines'[i] = parseLine(raw, kept)
      BY <1>2, <1>4, <2>3
    <3> QED BY <1>3, <2>1, <3>1
  <2> QED BY <2>1, <2>2, <2>3, <1>2
<1> QED BY <1>5, <1>6

(* The queue still holds numbers of lines when the new line is pushed. *)
LEMMA PushInRange ==
  ASSUME TypeInvariant, lines' \in Seq(AssemblyLine), Len(lines') = Len(lines) + 1,
         NEW n \in 1 .. Len(lines'),
         NEW failed, push(n, failed) \/ UNCHANGED queueVars
  PROVE  /\ queue' \in Seq(Nat) /\ tail_linked' \in BOOLEAN
         /\ \A k \in DOMAIN queue' : queue'[k] \in DOMAIN lines'
<1>1. /\ queue \in Seq(Nat) /\ tail_linked \in BOOLEAN /\ Len(lines) \in Nat
      /\ DOMAIN lines = 1 .. Len(lines) /\ DOMAIN lines' = 1 .. Len(lines')
      /\ \A k \in DOMAIN queue : queue[k] \in DOMAIN lines
  BY DEF TypeInvariant, TypeOK, LinesAreKept
<1>2. CASE UNCHANGED queueVars
  BY <1>1, <1>2 DEF queueVars
<1>3. CASE push(n, failed)
  <2>1. n \in Nat
    BY <1>1
  <2>2. /\ queue' \in Seq(Nat) /\ tail_linked' \in BOOLEAN
        /\ \A k \in DOMAIN queue' :
             (k \in DOMAIN queue /\ queue'[k] = queue[k]) \/ queue'[k] = n
    BY <1>1, <1>3, <2>1, PushType
  <2>3. DOMAIN lines \subseteq DOMAIN lines' /\ n \in DOMAIN lines'
    BY <1>1
  <2>4. ASSUME NEW k \in DOMAIN queue' PROVE queue'[k] \in DOMAIN lines'
    BY <1>1, <2>2, <2>3
  <2> QED BY <2>2, <2>4
<1> QED BY <1>2, <1>3

LEMMA FirstLineType == TypeInvariant /\ FirstLine => TypeInvariant'
<1> SUFFICES ASSUME TypeInvariant, FirstLine PROVE TypeInvariant'
  OBVIOUS
<1>1. PICK raw \in Readable, failed \in Failing({"operand", "queue_node"}) :
        \E kept \in Kept(raw, failed) :
          /\ Parse(raw, kept)
          /\ push(1, failed)
          /\ pc' = IF err' = "ERR_EOF" THEN "fix" ELSE "handle"
          /\ Fail(failed, erange)
  BY DEF FirstLine
<1>2. PICK kept \in Kept(raw, failed) : Parse(raw, kept)
  BY <1>1
<1>3. /\ source' \in Seq(RawLine) /\ lines' \in Seq(AssemblyLine) /\ err' \in Errors
      /\ Len(lines') = Len(lines) + 1 /\ Len(source') = Len(lines') /\ KnownCommands'
  BY <1>2, ParseStep
<1>4. Len(lines) \in Nat
  BY DEF TypeInvariant, TypeOK
<1>5. 1 \in 1 .. Len(lines')
  BY <1>3, <1>4
<1>6. /\ queue' \in Seq(Nat) /\ tail_linked' \in BOOLEAN
      /\ \A k \in DOMAIN queue' : queue'[k] \in DOMAIN lines'
  BY <1>1, <1>3, <1>5, PushInRange
<1>7. faults' \in Nat /\ erange' \in BOOLEAN
  BY <1>1, FailType, FourElements DEF TypeInvariant, TypeOK
<1>8. SymbolManagerTypeOK' /\ MemoryTypeOK'
  BY DEF FirstLine, TypeInvariant, TypeOK, SymbolManagerTypeOK, MemoryTypeOK, symbolVars,
         memoryVars
<1>9. pc' \in {"handle", "fix"} /\ UNCHANGED <<instruction_counter, errored>>
  BY <1>1 DEF FirstLine
<1>10. TypeOK'
  BY <1>3, <1>6, <1>7, <1>8, <1>9 DEF TypeInvariant, TypeOK
<1>11. LinesAreKept'
  BY <1>3, <1>4, <1>6 DEF LinesAreKept
<1> QED BY <1>3, <1>10, <1>11 DEF TypeInvariant

LEMMA NextLineType == TypeInvariant /\ NextLine => TypeInvariant'
<1> SUFFICES ASSUME TypeInvariant, NextLine PROVE TypeInvariant'
  OBVIOUS
<1>1. PICK raw \in Readable, failed \in Failing({"operand", "queue_node"}) :
        \E kept \in Kept(raw, failed) :
          /\ Parse(raw, kept)
          /\ errored' = (errored \/ err' \notin {"SUCCESS", "ERR_EOF"})
          /\ IF err' = "ERR_OUT_OF_MEMEORY"
             THEN UNCHANGED queueVars
             ELSE push(Len(source) + 1, failed)
          /\ pc' = IF err' \in {"ERR_EOF", "ERR_OUT_OF_MEMEORY"} THEN "fix" ELSE "handle"
          /\ Fail(failed, erange)
  BY DEF NextLine
<1>2. PICK kept \in Kept(raw, failed) : Parse(raw, kept)
  BY <1>1
<1>3. /\ source' \in Seq(RawLine) /\ lines' \in Seq(AssemblyLine) /\ err' \in Errors
      /\ Len(lines') = Len(lines) + 1 /\ Len(source') = Len(lines') /\ KnownCommands'
  BY <1>2, ParseStep
<1>4. Len(lines) \in Nat /\ Len(source) = Len(lines)
  BY DEF TypeInvariant, TypeOK, LinesAreKept
<1>5. Len(source) + 1 \in 1 .. Len(lines')
  BY <1>3, <1>4
<1>6. /\ queue' \in Seq(Nat) /\ tail_linked' \in BOOLEAN
      /\ \A k \in DOMAIN queue' : queue'[k] \in DOMAIN lines'
  BY <1>1, <1>3, <1>5, PushInRange
<1>7. faults' \in Nat /\ erange' \in BOOLEAN
  BY <1>1, FailType, FourElements DEF TypeInvariant, TypeOK
<1>8. SymbolManagerTypeOK' /\ MemoryTypeOK'
  BY DEF NextLine, TypeInvariant, TypeOK, SymbolManagerTypeOK, MemoryTypeOK, symbolVars,
         memoryVars
<1>9. pc' \in {"handle", "fix"} /\ errored' \in BOOLEAN /\ UNCHANGED instruction_counter
  BY <1>1 DEF NextLine, TypeInvariant, TypeOK
<1>10. TypeOK'
  BY <1>3, <1>6, <1>7, <1>8, <1>9 DEF TypeInvariant, TypeOK
<1>11. LinesAreKept'
  BY <1>3, <1>4, <1>6 DEF LinesAreKept
<1> QED BY <1>3, <1>10, <1>11 DEF TypeInvariant

(* The line handled, and the line at the head of the queue. *)
LEMMA CurrentType ==
  ASSUME TypeInvariant, pc = "handle"
  PROVE  /\ lines \in Seq(AssemblyLine) /\ Len(lines) \in Nat /\ Len(lines) \in DOMAIN lines
         /\ Current \in AssemblyLine
         /\ Current.type = "Code" => is_valid_command_name(Current.opcode_name)
<1>1. lines \in Seq(AssemblyLine) /\ lines # <<>>
  BY DEF TypeInvariant, TypeOK, LinesAreKept
<1>2. Len(lines) \in Nat /\ Len(lines) \in DOMAIN lines
  BY <1>1
<1> QED BY <1>1, <1>2 DEF Current, TypeInvariant, KnownCommands

LEMMA FirstType ==
  ASSUME TypeInvariant, queue # <<>>
  PROVE  /\ Head(queue) \in Nat /\ Head(queue) \in DOMAIN lines
         /\ First \in AssemblyLine
         /\ First.type = "Code" => is_valid_command_name(First.opcode_name)
<1>1. queue \in Seq(Nat) /\ lines \in Seq(AssemblyLine)
  BY DEF TypeInvariant, TypeOK
<1>2. 1 \in DOMAIN queue /\ Head(queue) = queue[1]
  BY <1>1
<1>3. Head(queue) \in DOMAIN lines /\ Head(queue) \in Nat
  BY <1>1, <1>2 DEF TypeInvariant, LinesAreKept
<1> QED BY <1>1, <1>3 DEF First, TypeInvariant, KnownCommands

(* Steps that read no line keep the lines, and at most pop the queue. *)
LEMMA SameLines ==
  ASSUME TypeInvariant, UNCHANGED <<source, lines>>,
         UNCHANGED queueVars \/ (queue # <<>> /\ pop),
         pc' = "handle" => pc = "handle"
  PROVE  /\ source' \in Seq(RawLine) /\ lines' \in Seq(AssemblyLine)
         /\ queue' \in Seq(Nat) /\ tail_linked' \in BOOLEAN
         /\ LinesAreKept' /\ KnownCommands'
<1>1. /\ queue \in Seq(Nat) /\ \A k \in DOMAIN queue : queue[k] \in DOMAIN lines
      /\ tail_linked' \in BOOLEAN
      /\ queue' = queue \/ (queue # <<>> /\ queue' = Tail(queue))
  BY DEF TypeInvariant, TypeOK, LinesAreKept, queueVars, pop
<1>2. queue' \in Seq(Nat) /\ \A k \in DOMAIN queue' : queue'[k] \in DOMAIN lines
  <2>1. CASE queue' = queue
    BY <1>1, <2>1
  <2>2. CASE queue # <<>> /\ queue' = Tail(queue)
    <3>1. /\ queue' \in Seq(Nat) /\ Len(queue') = Len(queue) - 1
          /\ \A k \in 1 .. Len(queue') : queue'[k] = queue[k + 1]
      BY <1>1, <2>2, HeadTailProperties
    <3>2. /\ Len(queue) \in Nat /\ DOMAIN queue = 1 .. Len(queue)
          /\ Len(queue') \in Nat /\ DOMAIN queue' = 1 .. Len(queue')
      BY <1>1, <3>1, LenProperties
    <3>3. ASSUME NEW k \in 1 .. Len(queue') PROVE queue'[k] \in DOMAIN lines
      <4>1. k + 1 \in 1 .. Len(queue) /\ queue'[k] = queue[k + 1]
        BY <3>1, <3>2
      <4> QED BY <1>1, <3>2, <4>1
    <3> QED BY <3>1, <3>2, <3>3
  <2> QED BY <1>1, <2>1, <2>2
<1> QED BY <1>1, <1>2 DEF TypeInvariant, TypeOK, LinesAreKept, KnownCommands

LEMMA NoNextLineType == TypeInvariant /\ NoNextLine => TypeInvariant'
<1> SUFFICES ASSUME TypeInvariant, NoNextLine PROVE TypeInvariant'
  OBVIOUS
<1>1. /\ source' \in Seq(RawLine) /\ lines' \in Seq(AssemblyLine)
      /\ queue' \in Seq(Nat) /\ tail_linked' \in BOOLEAN /\ LinesAreKept' /\ KnownCommands'
  <2>1. pc' = "fix" /\ UNCHANGED <<source, lines, queueVars>>
    BY DEF NoNextLine
  <2> QED BY <2>1, SameLines, Zenon
<1>2. SymbolManagerTypeOK' /\ MemoryTypeOK'
  BY DEF NoNextLine, TypeInvariant, TypeOK, SymbolManagerTypeOK, MemoryTypeOK, symbolVars,
         memoryVars
<1>3. /\ pc' = "fix" /\ err' \in Errors /\ errored' \in BOOLEAN /\ erange' \in BOOLEAN
      /\ faults' \in Nat /\ instruction_counter' \in Nat
  <2>1. faults \in Nat /\ instruction_counter \in Nat
    BY DEF TypeInvariant, TypeOK
  <2>2. /\ pc' = "fix" /\ err' = "ERR_OUT_OF_MEMEORY" /\ errored' = TRUE /\ erange' = FALSE
        /\ faults' = faults + 1 /\ instruction_counter' = instruction_counter
    BY DEF NoNextLine
  <2>3. "ERR_OUT_OF_MEMEORY" \in Errors
    BY DEF Errors
  <2>4. errored' \in BOOLEAN /\ erange' \in BOOLEAN
    BY <2>2
  <2>5. faults' \in Nat /\ instruction_counter' \in Nat
    BY <2>1, <2>2
  <2>6. pc' = "fix" /\ err' \in Errors
    BY <2>2, <2>3, Zenon
  <2> QED BY <2>4, <2>5, <2>6, Zenon
<1> QED BY <1>1, <1>2, <1>3 DEF TypeInvariant, TypeOK

(* What the loop of firstPass does with an error it is given. *)
LEMMA HandledType ==
  ASSUME TypeInvariant, NEW error \in Errors, Handled(error), UNCHANGED lines
  PROVE  /\ pc' \in {"fix", "read"} /\ err' \in Errors /\ errored' \in BOOLEAN
         /\ source' \in Seq(RawLine) /\ lines' \in Seq(AssemblyLine)
         /\ queue' \in Seq(Nat) /\ tail_linked' \in BOOLEAN /\ LinesAreKept' /\ KnownCommands'
<1>1. pc' \in {"fix", "read"} /\ err' \in Errors /\ errored' \in BOOLEAN
  BY DEF Handled, TypeInvariant, TypeOK
<1>2. UNCHANGED <<source, lines, queueVars>> /\ pc' # "handle"
  BY <1>1 DEF Handled
<1>3. /\ source' \in Seq(RawLine) /\ lines' \in Seq(AssemblyLine)
      /\ queue' \in Seq(Nat) /\ tail_linked' \in BOOLEAN /\ LinesAreKept' /\ KnownCommands'
  BY <1>2, SameLines, Zenon
<1> QED BY <1>1, <1>3

LEMMA HandleIgnoredType == TypeInvariant /\ HandleIgnored => TypeInvariant'
<1> SUFFICES ASSUME TypeInvariant, HandleIgnored PROVE TypeInvariant'
  OBVIOUS
<1>1. Handled("SUCCESS") /\ "SUCCESS" \in Errors /\ UNCHANGED lines
  BY DEF HandleIgnored, Errors
<1>2. UNCHANGED <<instruction_counter, erange, faults, symbolVars, memoryVars>>
  BY DEF HandleIgnored
<1>3. SymbolManagerTypeOK' /\ MemoryTypeOK'
  BY <1>2 DEF TypeInvariant, TypeOK, SymbolManagerTypeOK, MemoryTypeOK, symbolVars, memoryVars
<1> QED BY <1>1, <1>2, <1>3, HandledType DEF TypeInvariant, TypeOK

LEMMA HandleEntryType == TypeInvariant /\ HandleEntry => TypeInvariant'
<1> SUFFICES ASSUME TypeInvariant, HandleEntry PROVE TypeInvariant'
  OBVIOUS
<1>1. PICK error \in {"ERR_INVALID_SYNTAX_ENTRY_DECLERATION", "SUCCESS"} : Handled(error)
  BY DEF HandleEntry
<1>2. error \in Errors /\ UNCHANGED lines
  BY DEF HandleEntry, Errors
<1>3. UNCHANGED <<instruction_counter, erange, faults, symbolVars, memoryVars>>
  BY DEF HandleEntry
<1>4. SymbolManagerTypeOK' /\ MemoryTypeOK'
  BY <1>3 DEF TypeInvariant, TypeOK, SymbolManagerTypeOK, MemoryTypeOK, symbolVars, memoryVars
<1> QED BY <1>1, <1>2, <1>3, <1>4, HandledType DEF TypeInvariant, TypeOK

LEMMA InsertErrorType ==
  ASSUME NEW name, NEW failed
  PROVE  InsertError(name, failed) \in Errors
BY DEF InsertError, Errors

LEMMA HandleExternType == TypeInvariant /\ HandleExtern => TypeInvariant'
<1> SUFFICES ASSUME TypeInvariant, HandleExtern PROVE TypeInvariant'
  OBVIOUS
<1>1. Current \in AssemblyLine /\ UNCHANGED <<lines, instruction_counter, memoryVars>>
  BY CurrentType DEF HandleExtern, Handling
<1>2. MemoryTypeOK'
  BY <1>1 DEF TypeInvariant, TypeOK, MemoryTypeOK, memoryVars
<1>3. CASE Len(Current.args) # 1
  <2>1. Handled("ERR_INVALID_SYNTAX_EXTERN_DECLERATION") /\ UNCHANGED <<erange, faults, symbolVars>>
    BY <1>3 DEF HandleExtern
  <2>2. SymbolManagerTypeOK'
    BY <2>1 DEF TypeInvariant, TypeOK, SymbolManagerTypeOK, symbolVars
  <2>3. "ERR_INVALID_SYNTAX_EXTERN_DECLERATION" \in Errors
    BY DEF Errors
  <2> QED BY <1>1, <1>2, <2>1, <2>2, <2>3, HandledType DEF TypeInvariant, TypeOK
<1>4. CASE Len(Current.args) = 1
  <2>1. PICK failed \in Failing({"symbol", "node"}) :
          /\ insertSymbol(Current.args[1], 0, TRUE, "Data", failed)
          /\ Handled(InsertError(Current.args[1], failed))
          /\ Fail(failed, erange)
    BY <1>4 DEF HandleExtern
  <2>2. Current.args[1] \in Token
    BY <1>1, <1>4 DEF AssemblyLine
  <2>3. SymbolManagerTypeOK'
    <3>1. 0 \in Int /\ TRUE \in BOOLEAN /\ "Data" \in Sections
      BY DEF Sections
    <3>2. SymbolManagerTypeOK
      BY DEF TypeInvariant, TypeOK
    <3> QED BY <2>1, <2>2, <3>1, <3>2, InsertType, Zenon
  <2>4. faults' \in Nat /\ erange' \in BOOLEAN
    BY <2>1, FailType, FourElements DEF TypeInvariant, TypeOK
  <2> QED BY <1>1, <1>2, <2>1, <2>3, <2>4, InsertErrorType, HandledType
          DEF TypeInvariant, TypeOK
<1> QED BY <1>3, <1>4

(* The symbol declared by the label of the line handled. *)
LEMMA DeclareType ==
  ASSUME SymbolManagerTypeOK, Current \in AssemblyLine, NEW val \in Int,
         NEW section \in Sections, NEW failed, DeclareLabel(val, section, failed)
  PROVE  SymbolManagerTypeOK' /\ DeclareError(failed) \in Errors
<1>1. DeclareError(failed) \in Errors
  BY InsertErrorType DEF DeclareError, Errors
<1>2. CASE Current.label = Empty
  BY <1>1, <1>2 DEF DeclareLabel, SymbolManagerTypeOK, symbolVars
<1>3. CASE Current.label # Empty
  <2>1. insertSymbol(Current.label, val, FALSE, section, failed)
    BY <1>3 DEF DeclareLabel
  <2>2. Current.label \in Token /\ FALSE \in BOOLEAN
    BY DEF AssemblyLine
  <2>3. SymbolManagerTypeOK'
    BY <2>1, <2>2, InsertType, Zenon
  <2> QED BY <1>1, <2>3
<1> QED BY <1>2, <1>3

LEMMA HandleDataType == TypeInvariant /\ HandleData => TypeInvariant'
<1> SUFFICES ASSUME TypeInvariant, HandleData PROVE TypeInvariant'
  OBVIOUS
<1>1. PICK failed \in Failing({"symbol", "node", "buffer", "grow"}) :
        LET declared == DeclareError(failed)
            stale    == erange /\ "node" \notin failed
            decoded  == DataError(Current, stale, failed)
        IN  /\ DeclareLabel(data_counter, "Data", failed)
            /\ IF declared # "SUCCESS"
               THEN Handled(declared) /\ UNCHANGED memoryVars
               ELSE IF decoded # "SUCCESS"
               THEN Handled(decoded) /\ UNCHANGED memoryVars
               ELSE /\ writeData(Len(lines), DataSize(Current), failed)
                    /\ Handled(WriteDataError(DataSize(Current), failed))
            /\ Fail(failed, IF declared = "SUCCESS" THEN ErangeAfterData(Current, stale)
                            ELSE erange)
  BY DEF HandleData
<1> DEFINE stale == erange /\ "node" \notin failed
           decoded == DataError(Current, stale, failed)
<1>2. /\ Current \in AssemblyLine /\ Len(lines) \in Nat
      /\ UNCHANGED <<lines, instruction_counter>>
  BY CurrentType DEF HandleData, Handling
<1>3. SymbolManagerTypeOK' /\ DeclareError(failed) \in Errors
  <2>1. DeclareLabel(data_counter, "Data", failed)
    BY <1>1
  <2>2. data_counter \in Int /\ "Data" \in Sections /\ SymbolManagerTypeOK
    BY DEF TypeInvariant, TypeOK, MemoryTypeOK, Sections
  <2> QED BY <1>2, <2>1, <2>2, DeclareType, Zenon
<1>4. decoded \in Errors
  BY <1>2, DataErrorType
<1>5. MemoryTypeOK' /\ \E error \in Errors : Handled(error)
  <2>1. MemoryTypeOK
    BY DEF TypeInvariant, TypeOK
  <2>2. UNCHANGED memoryVars => MemoryTypeOK'
    BY <2>1 DEF MemoryTypeOK, memoryVars
  <2>3. CASE DeclareError(failed) # "SUCCESS"
    BY <1>1, <1>3, <2>2, <2>3
  <2>4. CASE DeclareError(failed) = "SUCCESS" /\ decoded # "SUCCESS"
    BY <1>1, <1>4, <2>2, <2>4
  <2>5. CASE DeclareError(failed) = "SUCCESS" /\ decoded = "SUCCESS"
    <3>1. /\ writeData(Len(lines), DataSize(Current), failed)
          /\ Handled(WriteDataError(DataSize(Current), failed))
      BY <1>1, <2>5
    <3>2. DataSize(Current) \in Nat
      BY <1>2, <2>5, DataSizeType
    <3>3. WriteDataError(DataSize(Current), failed) \in Errors
      BY DEF WriteDataError, AppendError, Errors
    <3> QED BY <1>2, <2>1, <3>1, <3>2, <3>3, WriteDataType
  <2> QED BY <2>3, <2>4, <2>5
<1>6. faults' \in Nat /\ erange' \in BOOLEAN
  <2>1. PICK flag \in BOOLEAN : Fail(failed, flag)
    <3>1. erange \in BOOLEAN /\ ErangeAfterData(Current, stale) \in BOOLEAN
      BY DEF TypeInvariant, TypeOK, ErangeAfterData
    <3> QED BY <1>1, <3>1
  <2>2. IsFiniteSet({"symbol", "node", "buffer", "grow"})
    BY FourElements
  <2>3. faults \in Nat
    BY DEF TypeInvariant, TypeOK
  <2>4. failed \in Failing({"symbol", "node", "buffer", "grow"})
    BY <1>1
  <2> QED BY <2>1, <2>2, <2>3, <2>4, FailType
<1> QED BY <1>2, <1>3, <1>5, <1>6, HandledType DEF TypeInvariant, TypeOK

LEMMA HandleCodeType == TypeInvariant /\ HandleCode => TypeInvariant'
<1> SUFFICES ASSUME TypeInvariant, HandleCode PROVE TypeInvariant'
  OBVIOUS
<1>1. PICK failed \in Failing({"symbol", "node"}) :
        /\ DeclareLabel(instruction_counter, "Code", failed)
        /\ Handled(DeclareError(failed))
        /\ Fail(failed, erange)
  BY DEF HandleCode
<1>2. /\ lines' = [lines EXCEPT ![Len(lines)].code_position = instruction_counter]
      /\ instruction_counter' = instruction_counter + INSTRUCTION_SIZE
      /\ UNCHANGED memoryVars
  BY DEF HandleCode
<1>3. /\ lines \in Seq(AssemblyLine) /\ Len(lines) \in DOMAIN lines /\ Len(lines) \in Nat
      /\ Current \in AssemblyLine
  BY CurrentType DEF HandleCode, Handling
<1>4. instruction_counter \in Nat /\ instruction_counter' \in Nat
  BY <1>2 DEF TypeInvariant, TypeOK, INSTRUCTION_SIZE
<1> DEFINE placed == [Current EXCEPT !.code_position = instruction_counter]
<1>5. /\ placed \in AssemblyLine
      /\ placed.type = Current.type /\ placed.opcode_name = Current.opcode_name
  <2>1. \A line \in AssemblyLine, a \in Int :
          LET moved == [line EXCEPT !.code_position = a]
          IN  /\ moved \in AssemblyLine
              /\ moved.type = line.type /\ moved.opcode_name = line.opcode_name
    BY DEF AssemblyLine
  <2>2. instruction_counter \in Int
    BY <1>4
  <2> QED BY <1>3, <2>1, <2>2, Zenon
<1>6. lines' = [lines EXCEPT ![Len(lines)] = placed]
  BY <1>2 DEF Current
<1>7. /\ lines' \in Seq(AssemblyLine) /\ Len(lines') = Len(lines)
      /\ DOMAIN lines' = DOMAIN lines
      /\ \A i \in DOMAIN lines :
           lines'[i].type = lines[i].type /\ lines'[i].opcode_name = lines[i].opcode_name
  <2> HIDE DEF placed
  <2>1. DOMAIN lines = 1 .. Len(lines)
    BY <1>3
  <2>2. /\ lines' \in Seq(AssemblyLine) /\ Len(lines') = Len(lines)
        /\ \A j \in 1 .. Len(lines) :
             lines'[j] = IF j = Len(lines) THEN placed ELSE lines[j]
    BY <1>3, <1>5, <1>6, <2>1, ExceptSeq
  <2>3. DOMAIN lines' = 1 .. Len(lines)
    BY <2>2
  <2> QED BY <1>5, <2>1, <2>2, <2>3 DEF Current
<1>8. SymbolManagerTypeOK' /\ DeclareError(failed) \in Errors
  <2>1. instruction_counter \in Int /\ "Code" \in Sections /\ SymbolManagerTypeOK
    BY <1>4 DEF TypeInvariant, TypeOK, Sections
  <2> QED BY <1>1, <1>3, <2>1, DeclareType, Zenon
<1>9. /\ pc' \in {"fix", "read"} /\ err' \in Errors /\ errored' \in BOOLEAN
      /\ UNCHANGED <<source, queueVars>>
  BY <1>1, <1>8 DEF Handled, TypeInvariant, TypeOK
<1>10. faults' \in Nat /\ erange' \in BOOLEAN
  BY <1>1, FailType, FourElements DEF TypeInvariant, TypeOK
<1>11. MemoryTypeOK'
  BY <1>2 DEF TypeInvariant, TypeOK, MemoryTypeOK, memoryVars
<1>12. TypeOK'
  BY <1>4, <1>7, <1>8, <1>9, <1>10, <1>11 DEF TypeInvariant, TypeOK, queueVars
<1>13. LinesAreKept' /\ KnownCommands'
  <2> HIDE DEF placed
  <2>1. LinesAreKept /\ KnownCommands
    BY DEF TypeInvariant
  <2>2. LinesAreKept'
    BY <1>7, <1>9, <2>1 DEF LinesAreKept, queueVars
  <2>3. KnownCommands'
    BY <1>7, <2>1 DEF KnownCommands
  <2> QED BY <2>2, <2>3
<1> QED BY <1>12, <1>13 DEF TypeInvariant

LEMMA FinishFirstPassType == TypeInvariant /\ FinishFirstPass => TypeInvariant'
<1> SUFFICES ASSUME TypeInvariant, FinishFirstPass PROVE TypeInvariant'
  OBVIOUS
<1>1. /\ fixDataSymbolsOffset(instruction_counter)
      /\ UNCHANGED <<source, lines, queueVars, instruction_counter, errored, erange,
                     faults, memoryVars>>
  BY DEF FinishFirstPass
<1>2. pc' \in {"rejected", "second"} /\ err' \in Errors
  BY DEF FinishFirstPass, TypeInvariant, TypeOK, Errors
<1>3. SymbolManagerTypeOK'
  BY <1>1, FixType DEF TypeInvariant, TypeOK
<1>4. MemoryTypeOK'
  BY <1>1 DEF TypeInvariant, TypeOK, MemoryTypeOK, memoryVars
<1>5. pc' # "handle" /\ UNCHANGED <<source, lines, queueVars>>
  BY <1>1, <1>2
<1>6. LinesAreKept' /\ KnownCommands'
  BY <1>5, SameLines, Zenon
<1>7. TypeOK'
  <2>1. TypeOK
    BY DEF TypeInvariant
  <2>2. UNCHANGED <<source, lines, queueVars, instruction_counter, errored, erange,
                    faults>>
    BY <1>1
  <2> QED BY <1>2, <1>3, <1>4, <2>1, <2>2 DEF TypeOK, Final, queueVars
<1> QED BY <1>6, <1>7 DEF TypeInvariant

(* What the loop of secondPass does with an error it is given. *)
LEMMA PoppedType ==
  ASSUME TypeInvariant, queue # <<>>, NEW error \in Errors, Popped(error)
  PROVE  /\ pc' \in {"rejected", "second"} /\ err' \in Errors /\ errored' \in BOOLEAN
         /\ instruction_counter' \in Nat
         /\ source' \in Seq(RawLine) /\ lines' \in Seq(AssemblyLine)
         /\ queue' \in Seq(Nat) /\ tail_linked' \in BOOLEAN /\ LinesAreKept' /\ KnownCommands'
<1>1. pc' \in {"rejected", "second"} /\ err' \in Errors /\ errored' \in BOOLEAN
  BY DEF Popped, TypeInvariant, TypeOK, Errors
<1>2. UNCHANGED <<source, lines>> /\ pop /\ pc' # "handle" /\ UNCHANGED instruction_counter
  BY <1>1 DEF Popped
<1>3. /\ source' \in Seq(RawLine) /\ lines' \in Seq(AssemblyLine)
      /\ queue' \in Seq(Nat) /\ tail_linked' \in BOOLEAN /\ LinesAreKept' /\ KnownCommands'
  BY <1>2, SameLines, Zenon
<1>4. instruction_counter' \in Nat
  BY <1>2 DEF TypeInvariant, TypeOK
<1> QED BY <1>1, <1>3, <1>4

LEMMA PopIgnoredType == TypeInvariant /\ PopIgnored => TypeInvariant'
<1> SUFFICES ASSUME TypeInvariant, PopIgnored PROVE TypeInvariant'
  OBVIOUS
<1>1. Popped("SUCCESS") /\ "SUCCESS" \in Errors /\ queue # <<>>
  BY DEF PopIgnored, Popping, Errors
<1>2. SymbolManagerTypeOK' /\ MemoryTypeOK' /\ UNCHANGED <<erange, faults>>
  BY DEF PopIgnored, TypeInvariant, TypeOK, SymbolManagerTypeOK, MemoryTypeOK, symbolVars,
         memoryVars
<1> QED BY <1>1, <1>2, PoppedType DEF TypeInvariant, TypeOK, Final

LEMMA PopEntryType == TypeInvariant /\ PopEntry => TypeInvariant'
<1> SUFFICES ASSUME TypeInvariant, PopEntry PROVE TypeInvariant'
  OBVIOUS
<1>1. queue # <<>> /\ UNCHANGED <<erange, faults, memoryVars>>
  BY DEF PopEntry, Popping
<1>2. MemoryTypeOK'
  BY <1>1 DEF TypeInvariant, TypeOK, MemoryTypeOK, memoryVars
<1>3. SymbolManagerTypeOK' /\ \E error \in Errors : Popped(error)
  <2>1. SymbolManagerTypeOK
    BY DEF TypeInvariant, TypeOK
  <2>2. CASE Len(First.args) < 1
    BY <2>1, <2>2 DEF PopEntry, Errors, SymbolManagerTypeOK, symbolVars
  <2>3. CASE ~ (Len(First.args) < 1)
    <3>1. Popped(EntryError(First.args[1])) /\ markSymEntry(First.args[1])
      BY <2>3 DEF PopEntry
    <3>2. EntryError(First.args[1]) \in Errors
      BY DEF EntryError, Errors
    <3> QED BY <2>1, <3>1, <3>2, MarkType
  <2> QED BY <2>2, <2>3
<1> QED BY <1>1, <1>2, <1>3, PoppedType DEF TypeInvariant, TypeOK, Final

LEMMA PopCodeType == TypeInvariant /\ PopCode => TypeInvariant'
<1> SUFFICES ASSUME TypeInvariant, PopCode PROVE TypeInvariant'
  OBVIOUS
<1>1. PICK failed \in Failing({"offsets", "grow"}) :
        LET decoded == InstructionError(First, erange, failed)
        IN  /\ IF UsesSymbol(First, erange)
               THEN useSymbol(UsedSymbol(First), First.code_position, failed)
               ELSE UNCHANGED symbolVars
            /\ IF decoded = "SUCCESS"
               THEN /\ writeCode(Head(queue), decodeInstructionLine(First), failed)
                    /\ Popped(WriteCodeError(failed))
               ELSE Popped(decoded) /\ UNCHANGED memoryVars
            /\ Fail(failed, ErangeAfterCode(First, erange))
  BY DEF PopCode
<1>2. queue # <<>> /\ First.type = "Code"
  BY DEF PopCode, Popping
<1>3. First \in AssemblyLine /\ Head(queue) \in Nat /\ is_valid_command_name(First.opcode_name)
  BY <1>2, FirstType
<1>4. symtab \in Seq(Symbol) /\ SymbolManagerTypeOK /\ MemoryTypeOK
  BY DEF TypeInvariant, TypeOK, SymbolManagerTypeOK
<1>5. SymbolManagerTypeOK'
  <2>1. CASE UsesSymbol(First, erange)
    <3>1. First.code_position \in Int
      BY <1>3 DEF AssemblyLine
    <3> QED BY <1>1, <1>4, <2>1, <3>1, UseType
  <2>2. CASE ~ UsesSymbol(First, erange)
    BY <1>1, <1>4, <2>2 DEF SymbolManagerTypeOK, symbolVars
  <2> QED BY <2>1, <2>2
<1>6. MemoryTypeOK' /\ \E error \in Errors : Popped(error)
  <2>1. CASE InstructionError(First, erange, failed) = "SUCCESS"
    <3>1. /\ writeCode(Head(queue), decodeInstructionLine(First), failed)
          /\ Popped(WriteCodeError(failed))
      BY <1>1, <2>1
    <3>2. decodeInstructionLine(First) \in Word
      BY <1>3, <1>4, <2>1, InstructionType
    <3>3. WriteCodeError(failed) \in Errors
      BY DEF WriteCodeError, AppendError, Errors
    <3>4. MemoryTypeOK'
      BY <1>3, <1>4, <3>1, <3>2, WriteCodeType
    <3> QED BY <3>1, <3>3, <3>4
  <2>2. CASE InstructionError(First, erange, failed) # "SUCCESS"
    <3>1. Popped(InstructionError(First, erange, failed)) /\ UNCHANGED memoryVars
      BY <1>1, <2>2
    <3>2. InstructionError(First, erange, failed) \in Errors
      BY <1>3, InstructionErrorType
    <3>3. MemoryTypeOK'
      BY <1>4, <3>1 DEF MemoryTypeOK, memoryVars
    <3> QED BY <3>1, <3>2, <3>3
  <2> QED BY <2>1, <2>2
<1>7. faults' \in Nat /\ erange' \in BOOLEAN
  <2>1. faults \in Nat /\ ErangeAfterCode(First, erange) \in BOOLEAN
    BY DEF TypeInvariant, TypeOK, ErangeAfterCode
  <2>2. Fail(failed, ErangeAfterCode(First, erange)) /\ failed \in Failing({"offsets", "grow"})
    BY <1>1
  <2>3. IsFiniteSet({"offsets", "grow"})
    BY FourElements
  <2> QED BY <2>1, <2>2, <2>3, FailType
<1> QED BY <1>2, <1>5, <1>6, <1>7, PoppedType DEF TypeInvariant, TypeOK, Final

(* The steps that touch neither the symbols nor the memory nor the lines. *)
LEMMA QuietStepType ==
  ASSUME TypeInvariant, pc' \in Final,
         UNCHANGED <<source, lines, queueVars, instruction_counter, err, errored,
                     erange, symbolVars, memoryVars>>,
         faults' \in Nat
  PROVE  TypeInvariant'
<1>1. pc' # "handle" /\ UNCHANGED <<source, lines, queueVars>>
  BY DEF Final
<1>2. LinesAreKept' /\ KnownCommands'
  BY <1>1, SameLines, Zenon
<1>3. SymbolManagerTypeOK' /\ MemoryTypeOK'
  BY DEF TypeInvariant, TypeOK, SymbolManagerTypeOK, MemoryTypeOK, symbolVars, memoryVars
<1>4. TypeOK'
  BY <1>3 DEF TypeInvariant, TypeOK, Final, queueVars
<1> QED BY <1>2, <1>4 DEF TypeInvariant

LEMMA StutterType == TypeInvariant /\ UNCHANGED vars => TypeInvariant'
BY DEF TypeInvariant, TypeOK, LinesAreKept, KnownCommands, SymbolManagerTypeOK, MemoryTypeOK,
       vars, passVars, queueVars, symbolVars, memoryVars

LEMMA TypeInit == Init => TypeInvariant
<1> SUFFICES ASSUME Init PROVE TypeInvariant
  OBVIOUS
<1>1. TypeOK
  <2>1. SymbolManagerTypeOK
    <3>1. symtab \in Seq(Symbol)
      BY DEF Init, newSymbolManager
    <3>2. has_external = FALSE /\ has_entry = FALSE
      BY DEF Init, newSymbolManager
    <3> QED BY <3>1, <3>2 DEF SymbolManagerTypeOK
  <2>2. MemoryTypeOK
    BY DEF Init, MemoryTypeOK, newMemory
  <2>3. source \in Seq(RawLine) /\ lines \in Seq(AssemblyLine) /\ queue \in Seq(Nat)
    BY DEF Init, newLineQueue
  <2>4. pc = "open" /\ tail_linked \in BOOLEAN /\ errored \in BOOLEAN /\ erange \in BOOLEAN
    BY DEF Init, newLineQueue
  <2>5. err \in Errors /\ instruction_counter \in Nat /\ faults \in Nat
    BY DEF Init, Errors, INSTRUCTION_COUNTER_INITIAL_VALUE
  <2> QED BY <2>1, <2>2, <2>3, <2>4, <2>5 DEF TypeOK
<1>2. LinesAreKept /\ KnownCommands
  BY DEF Init, newLineQueue, LinesAreKept, KnownCommands
<1> QED BY <1>1, <1>2 DEF TypeInvariant

LEMMA TypeStep == TypeInvariant /\ [Next]_vars => TypeInvariant'
<1> SUFFICES ASSUME TypeInvariant, [Next]_vars PROVE TypeInvariant'
  OBVIOUS
<1>1. CASE FirstPass
  BY <1>1, FirstLineType, NextLineType, NoNextLineType, HandleIgnoredType, HandleEntryType,
     HandleExternType, HandleDataType, HandleCodeType, FinishFirstPassType DEF FirstPass
<1>2. CASE PopIgnored \/ PopEntry \/ PopCode
  BY <1>2, PopIgnoredType, PopEntryType, PopCodeType
<1>3. CASE FinishSecondPass
  BY <1>3, QuietStepType DEF FinishSecondPass, Final, TypeInvariant, TypeOK
<1>4. CASE Crash
  BY <1>4, QuietStepType DEF Crash, Final, TypeInvariant, TypeOK
<1>5. CASE UNCHANGED vars
  BY <1>5, StutterType
<1> QED BY <1>1, <1>2, <1>3, <1>4, <1>5 DEF Next, SecondPass, Terminated

(* Every variable keeps its type, whatever the source files hold and however  *)
(* many allocations fail: each word that is written fits the bit-fields of    *)
(* its layout, and every error is one of the error codes.                     *)
THEOREM TypeCorrect == Spec => []TypeOK
<1>1. Init => TypeInvariant
  BY TypeInit
<1>2. TypeInvariant /\ [Next]_vars => TypeInvariant'
  BY TypeStep
<1>3. TypeInvariant => TypeOK
  BY DEF TypeInvariant
<1> QED BY <1>1, <1>2, <1>3, PTL DEF Spec
=============================================================================
