------------------------------ MODULE Decoding ------------------------------
(***************************************************************************)
(* assembly_line.c, second half: the instruction word of a line, whose     *)
(* label operand is looked up in the symbol table.                         *)
(***************************************************************************)
EXTENDS AssemblyLine, SymbolManager

(* A distance from the instruction behind the branch. *)
DistanceFromNext(line) ==
  symtab[find(UsedSymbol(line))].value - (line.code_position + INSTRUCTION_SIZE)

Distance(line) == symtab[find(UsedSymbol(line))].value - line.code_position

ReferenceError(line, failed) ==
  IF ~ exists(UsedSymbol(line)) THEN "ERR_UNKNOWN_LABEL_REFERENCED"
  ELSE IF "offsets" \in failed THEN "ERR_OUT_OF_MEMEORY"
  ELSE IF ~ is_i_command(line.opcode_name) THEN "SUCCESS"
  ELSE IF symtab[find(UsedSymbol(line))].is_external
       THEN "ERR_INVALID_EXTERNAL_LABEL_REFERENCE"
  ELSE IF number_fits_in_bits(Distance(line), ImmedBits)
       THEN "SUCCESS" ELSE "ERR_LABEL_TOO_FAR"

(***************************************************************************)
(* decodeInstructionLine: its error, and the word of an instruction that   *)
(* has none.  memset clears the fields that an instruction does not set;   *)
(* every other field is truncated to its width.                            *)
(***************************************************************************)
InstructionError(line, erange, failed) ==
  IF UsesSymbol(line, erange)
  THEN ReferenceError(line, failed)
  ELSE OperandsError(line, erange)

RegisterField(line, i) == BitField(registerFromString(line.args[i]), RegBits)

EncodeI(line, cleared) ==
  LET branch == i_command_to_subtype(line.opcode_name) = "IBranch"
  IN  [cleared EXCEPT
         !.rs    = RegisterField(line, 1),
         !.rt    = RegisterField(line, IF branch THEN 2 ELSE 3),
         !.immed = BitField(IF branch THEN Distance(line) ELSE NumberOf(line.args[2]),
                            ImmedBits)]

(* The destination and the second source are taken for each other. *)
EncodeRSwapped(line, cleared) ==
  LET arithmetic == r_command_to_subtype(line.opcode_name) = "RArithmetic"
  IN  [cleared EXCEPT
         !.funct = r_command_to_func(line.opcode_name),
         !.rs    = RegisterField(line, 1),
         !.rt    = IF arithmetic THEN RegisterField(line, 3) ELSE 0,
         !.rd    = RegisterField(line, 2)]

EncodeR(line, cleared) ==
  LET arithmetic == r_command_to_subtype(line.opcode_name) = "RArithmetic"
  IN  [cleared EXCEPT
         !.funct = r_command_to_func(line.opcode_name),
         !.rs    = RegisterField(line, 1),
         !.rt    = IF arithmetic THEN RegisterField(line, 2) ELSE 0,
         !.rd    = RegisterField(line, IF arithmetic THEN 3 ELSE 2)]

EncodeJ(line, cleared) ==
  CASE line.args = <<>> -> cleared
    [] line.args # <<>> /\ LabelOperand(line) = 0 ->
         [cleared EXCEPT !.reg = 1,
                         !.address = BitField(registerFromString(line.args[1]), AddressBits)]
    [] OTHER -> LET sym == symtab[find(UsedSymbol(line))]
                IN  [cleared EXCEPT !.address = IF sym.is_external THEN 0
                                                ELSE BitField(sym.value, AddressBits)]

decodeInstructionLine(line) ==
  LET command == line.opcode_name
      cleared == [opcode |-> command_to_opcode(command), rs |-> 0, rt |-> 0, rd |-> 0,
                  funct |-> 0, immed |-> 0, address |-> 0, reg |-> 0]
  IN  CASE is_i_command(command) -> EncodeI(line, cleared)
        [] is_r_command(command) -> EncodeR(line, cleared)
        [] OTHER                 -> EncodeJ(line, cleared)
=============================================================================
