---------------------------- MODULE AssemblyLine ----------------------------
(***************************************************************************)
(* assembly_line.c: a line of source text is parsed into an AssemblyLine,  *)
(* which the passes decode into data bytes or into an instruction word.    *)
(* Everything here is a function of the line and of errno; what looks up   *)
(* the symbol table is in Decoding.                                        *)
(***************************************************************************)
EXTENDS Tokens, Instruction

LineTypes == {"None", "Data", "Code", "Entry", "Extern", "Empty"}

(***************************************************************************)
(* A line of text as readline delivers it: the text before its first colon *)
(* (len, alnum and letter are what parseLabel asks of it), its first word  *)
(* with a leading dot told apart, and its operands.  A blank line stands   *)
(* for a comment too.                                                      *)
(***************************************************************************)
RawLine ==
  [form    : {"text", "blank", "toolong", "eof"},
   label   : [colon : BOOLEAN, text : STRING, len : Nat, alnum : BOOLEAN, letter : BOOLEAN],
   command : [dot : BOOLEAN, name : STRING],
   args    : Seq(Token)]

NoLabel == [colon |-> FALSE, text |-> NoText, len |-> 0, alnum |-> FALSE, letter |-> FALSE]
Unread(form) == [form |-> form, label |-> NoLabel,
                 command |-> [dot |-> FALSE, name |-> NoText], args |-> <<>>]
Eof == Unread("eof")

(* The label is Empty while FlagSymbolDeclaration is not set. *)
AssemblyLine ==
  [type : LineTypes, label : Token, opcode_name : STRING, args : Seq(Token),
   code_position : Int]

newLine == [type |-> "None", label |-> Empty, opcode_name |-> NoText, args |-> <<>>,
            code_position |-> 0]

-----------------------------------------------------------------------------

(* parseLabel: what is wrong with the text in front of the colon. *)
LabelError(label) ==
  IF ~ label.colon THEN "SUCCESS"
  ELSE IF is_reserved_keyword(label.text) THEN "ERR_INVALID_LABEL_USING_RESERVED_NAME"
  ELSE IF label.len > 31 THEN "ERR_LABEL_TOO_LONG"
  ELSE IF ~ label.alnum  THEN "ERR_LABEL_WITH_BAD_CHARACTERS"
  ELSE IF ~ label.letter THEN "ERR_LABEL_MUST_START_WITH_LETTERS"
  ELSE "SUCCESS"

(* The type parseCommand gives the line; None for an unknown command. *)
CommandType(command) ==
  CASE ~ command.dot /\ is_valid_command_name(command.name) -> "Code"
    [] command.dot /\ strArrayIncludes(command.name, data_directive_commands)   -> "Data"
    [] command.dot /\ strArrayIncludes(command.name, entry_directive_commands)  -> "Entry"
    [] command.dot /\ strArrayIncludes(command.name, extern_directive_commands) -> "Extern"
    [] OTHER -> "None"

(***************************************************************************)
(* parseLine, of a line of which kept operands could be allocated: the     *)
(* error and the line as far as it was filled in when the error returned.  *)
(***************************************************************************)
ParseError(raw, kept) ==
  CASE raw.form = "eof"     -> "ERR_EOF"
    [] raw.form = "toolong" -> "LINE_TOO_LONG"
    [] raw.form = "blank"   -> "SUCCESS"
    [] OTHER ->
         IF LabelError(raw.label) # "SUCCESS" THEN LabelError(raw.label)
         ELSE IF raw.label.colon /\ raw.command = Eof.command
         THEN "ERR_INVALID_COMMAND_FORMAT"
         ELSE IF CommandType(raw.command) = "None" THEN "ERR_INVALID_COMMAND_NAME"
         ELSE IF kept < Len(raw.args) THEN "ERR_OUT_OF_MEMEORY" ELSE "SUCCESS"

parseLine(raw, kept) ==
  LET labelled == raw.form = "text" /\ raw.label.colon /\ LabelError(raw.label) = "SUCCESS"
      filled   == ParseError(raw, kept) \in {"SUCCESS", "ERR_OUT_OF_MEMEORY"}
  IN  IF raw.form = "blank"
      THEN [newLine EXCEPT !.type = "Empty"]
      ELSE [newLine EXCEPT
              !.label = IF labelled THEN Name(raw.label.text) ELSE Empty,
              !.type  = IF filled THEN CommandType(raw.command) ELSE "None",
              !.opcode_name = IF filled THEN raw.command.name ELSE NoText,
              !.args  = IF filled THEN [i \in 1 .. kept |-> raw.args[i]] ELSE <<>>]

-----------------------------------------------------------------------------

ChunkSize(directive) ==
  CASE directive = "db" -> 1 [] directive = "dh" -> 2 [] OTHER -> 4

(* The position of the first error in a sequence of results; 0 if all succeed. *)
FirstBad(results) ==
  LET bad == {i \in DOMAIN results : results[i] # "SUCCESS"}
  IN  IF bad = {} THEN 0 ELSE CHOOSE i \in bad : \A j \in bad : i <= j

FirstError(results) ==
  IF FirstBad(results) = 0 THEN "SUCCESS" ELSE results[FirstBad(results)]

NumberResults(line, erange) ==
  [i \in DOMAIN line.args |->
     numberFromString(line.args[i], ChunkSize(line.opcode_name) * ByteBits, erange)]

(***************************************************************************)
(* decodeDataLine: its error, errno after it, and the size of the buffer   *)
(* that it returns.  A conversion that sets errno is the last one tried.   *)
(***************************************************************************)
DataError(line, erange, failed) ==
  IF line.opcode_name = "asciz"
  THEN IF Len(line.args) # 1 THEN "ERR_INVALID_DATA_INSTRUCTION"
       ELSE IF line.args[1].k # "str" THEN "ERR_ASCIZ_WITHOUT_QUOTES"
       ELSE IF "buffer" \in failed THEN "ERR_OUT_OF_MEMEORY" ELSE "SUCCESS"
  ELSE IF line.args = <<>> THEN "ERR_INVALID_DATA_INSTRUCTION"
       ELSE IF "buffer" \in failed THEN "ERR_OUT_OF_MEMEORY"
       ELSE FirstError(NumberResults(line, erange))

ErangeAfterData(line, erange) ==
  LET bad == FirstBad(NumberResults(line, erange))
  IN  erange \/ (line.opcode_name # "asciz" /\ bad # 0 /\ SetsErange(line.args[bad]))

DataSize(line) ==
  IF line.opcode_name = "asciz"
  THEN line.args[1].n + 1
  ELSE Len(line.args) * ChunkSize(line.opcode_name)

-----------------------------------------------------------------------------

Registers(n) == [i \in 1 .. n |-> "register"]

(* What the operands of a command have to be, in order. *)
OperandFormat(line) ==
  LET command == line.opcode_name
  IN  CASE is_i_command(command) /\ i_command_to_subtype(command) = "IBranch" ->
             <<"register", "register", "label">>
        [] is_i_command(command) /\ i_command_to_subtype(command) # "IBranch" ->
             <<"register", "number", "register">>
        [] is_r_command(command) ->
             Registers(IF r_command_to_subtype(command) = "RArithmetic" THEN 3 ELSE 2)
        [] command = "stop" -> <<>>
        [] command = "jmp"  ->
             IF line.args # <<>> /\ IsDollar(line.args[1]) THEN Registers(1) ELSE <<"label">>
        [] OTHER -> <<"label">>

(* The position of the operand that is a label; 0 if there is none. *)
LabelOperand(line) ==
  LET format == OperandFormat(line)
  IN  IF format # <<>> /\ format[Len(format)] = "label" THEN Len(format) ELSE 0

OperandError(kind, tok, erange) ==
  CASE kind = "register" -> IF registerFromString(tok) = -1 THEN "ERR_INVALID_REGISTER"
                            ELSE "SUCCESS"
    [] kind = "number"   -> numberFromString(tok, ImmedBits, erange)
    [] OTHER             -> "SUCCESS"

OperandResults(line, erange) ==
  [i \in DOMAIN OperandFormat(line) |->
     OperandError(OperandFormat(line)[i], line.args[i], erange)]

(* The error found before the label operand, which is the last, is looked at. *)
OperandsError(line, erange) ==
  IF Len(line.args) # Len(OperandFormat(line))
  THEN "ERR_INVALID_CODE_INSTRUCTION"
  ELSE FirstError(OperandResults(line, erange))

(* errno after the operands: the first bad one is the last one converted. *)
ErangeAfterCode(line, erange) ==
  LET format == OperandFormat(line)
      bad    == FirstBad(OperandResults(line, erange))
  IN  erange \/ /\ Len(line.args) = Len(format) /\ bad # 0
                /\ IF format[bad] = "register" THEN RegisterSetsErange(line.args[bad])
                   ELSE SetsErange(line.args[bad])

UsesSymbol(line, erange) ==
  OperandsError(line, erange) = "SUCCESS" /\ LabelOperand(line) # 0

UsedSymbol(line) == line.args[LabelOperand(line)]

=============================================================================
