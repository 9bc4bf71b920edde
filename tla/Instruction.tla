---------------------------- MODULE Instruction ----------------------------
(***************************************************************************)
(* instruction.c: the command tables and the lookups in them.  The opcode, *)
(* funct and subtype of a command are found by the command's position in   *)
(* its table.                                                              *)
(***************************************************************************)
EXTENDS BitUtils, Sequences

INSTRUCTION_SIZE == 4

(* The three layouts of an instruction word as one record; the fields that a *)
(* layout does not have stay 0. *)
Word ==
  [opcode : 0 .. 63, rs : 0 .. 31, rt : 0 .. 31, rd : 0 .. 31, funct : 0 .. 31,
   immed : 0 .. TwoTo[ImmedBits] - 1, address : 0 .. TwoTo[AddressBits] - 1, reg : 0 .. 1]

r_commands         == <<"add", "sub", "and", "or", "nor", "move", "mvhi", "mvlo">>
r_commands_funct   == <<1, 2, 3, 4, 5, 1, 2, 3>>
r_commands_opcode  == <<0, 0, 0, 0, 0, 1, 1, 1>>
r_commands_subtype == <<"RArithmetic", "RArithmetic", "RArithmetic", "RArithmetic",
                        "RArithmetic", "RMove", "RMove", "RMove">>

i_commands         == <<"addi", "subi", "andi", "ori", "nori", "bne", "beq", "blt",
                        "bgt", "lb", "sb", "lw", "sw", "lh", "sh">>
i_commands_opcode  == <<10, 11, 12, 13, 14, 15, 16, 17, 18, 19, 20, 21, 22, 23, 24>>
i_commands_subtype == <<"IArithmetic", "IArithmetic", "IArithmetic", "IArithmetic",
                        "IArithmetic", "IBranch", "IBranch", "IBranch", "IBranch",
                        "IMem", "IMem", "IMem", "IMem", "IMem", "IMem">>

j_commands         == <<"jmp", "la", "call", "stop">>
j_commands_opcode  == <<30, 31, 32, 63>>

data_directive_commands   == <<"db", "dh", "dw", "asciz">>
entry_directive_commands  == <<"entry">>
extern_directive_commands == <<"extern">>

-----------------------------------------------------------------------------

strArrayIncludes(str, arr) == \E i \in DOMAIN arr : arr[i] = str

(* findInArray, for a string that the array includes: its first position. *)
findInArray(str, arr) ==
  CHOOSE i \in DOMAIN arr : arr[i] = str /\ \A j \in 1 .. i - 1 : arr[j] # str

is_r_command(command) == strArrayIncludes(command, r_commands)
is_i_command(command) == strArrayIncludes(command, i_commands)
is_j_command(command) == strArrayIncludes(command, j_commands)

is_valid_command_name(command) ==
  is_i_command(command) \/ is_r_command(command) \/ is_j_command(command)

(* Command names and directive names (without the dot). *)
is_reserved_keyword(str) ==
  \/ is_valid_command_name(str)
  \/ strArrayIncludes(str, data_directive_commands)
  \/ strArrayIncludes(str, entry_directive_commands)
  \/ strArrayIncludes(str, extern_directive_commands)

(* For a command of the table; a line of type Code always names one. *)
command_to_mapped_value(command, commands_array, mapping) ==
  mapping[findInArray(command, commands_array)]

command_to_opcode(command) ==
  IF is_i_command(command)
  THEN command_to_mapped_value(command, i_commands, i_commands_opcode)
  ELSE IF is_r_command(command)
       THEN command_to_mapped_value(command, r_commands, r_commands_opcode)
       ELSE command_to_mapped_value(command, j_commands, j_commands_opcode)

r_command_to_func(command) ==
  command_to_mapped_value(command, r_commands, r_commands_funct)

r_command_to_subtype(command) ==
  command_to_mapped_value(command, r_commands, r_commands_subtype)

i_command_to_subtype(command) ==
  command_to_mapped_value(command, i_commands, i_commands_subtype)
=============================================================================
