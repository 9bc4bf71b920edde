------------------------------ MODULE MCTwoPass ------------------------------
(***************************************************************************)
(* Source files for TLC.  Every file of up to MaxLines lines out of one of *)
(* the sets below is assembled.                                            *)
(***************************************************************************)
EXTENDS TwoPassProperties

Reg(number) == [k |-> "reg", n |-> number, s |-> NoText]
Num(number) == [k |-> "num", n |-> number, s |-> NoText]
Str(length) == [k |-> "str", n |-> length, s |-> NoText]
Dollar(found) == [k |-> "dollar", n |-> found, s |-> NoText]

Text(label, dot, name, args) ==
  [form |-> "text",
   label |-> IF label = "" THEN NoLabel
             ELSE [colon |-> TRUE, text |-> label, len |-> 1, alnum |-> TRUE, letter |-> TRUE],
   command |-> [dot |-> dot, name |-> name],
   args |-> args]

Instr(label, name, args) == Text(label, FALSE, name, args)
Directive(label, name, args) == Text(label, TRUE, name, args)

A == Name("A")
B == Name("B")

-----------------------------------------------------------------------------

(* Two symbols that are declared as labels of data and of code, and one of   *)
(* them as external, referred to by every kind of reference; a string long   *)
(* enough to put a label out of the reach of a branch; lines with errors.    *)
SymbolLines ==
  {Unread("blank"),
   Directive("", "entry", <<A>>),
   Directive("", "entry", <<B>>),
   Directive("", "extern", <<B>>),
   Directive("A", "dh", <<Num(1), Num(-1)>>),
   Directive("B", "asciz", <<Str(65)>>),
   Instr("A", "stop", <<>>),
   Instr("B", "beq", <<Reg(1), Reg(2), A>>),
   Instr("", "bgt", <<Reg(1), Reg(2), B>>),
   Instr("", "la", <<B>>),
   Instr("A", "jmp", <<A>>),
   Instr("B", "bad", <<>>)}

(* Lines that need every kind of allocation. *)
AllocatingLines ==
  {Directive("", "entry", <<A>>),
   Directive("", "extern", <<B>>),
   Directive("A", "asciz", <<Str(7)>>),
   Directive("", "dw", <<Num(1)>>),
   Instr("A", "jmp", <<A>>),
   Instr("", "la", <<B>>)}

(* These, and operands of each format, right and wrong, and numbers at their *)
(* limits. *)
OperandLines ==
  AllocatingLines \cup
  {Unread("toolong"),
   Directive("", "entry", <<>>),
   Directive("", "entry", <<A, B>>),
   Directive("", "extern", <<A, B>>),
   Directive("A", "asciz", <<A>>),
   Directive("A", "db", <<>>),
   Directive("A", "db", <<Num(3), Num(-2), Num(0)>>),
   Directive("", "db", <<Num(3), Num(4)>>),
   Directive("", "db", <<Num(-3)>>),
   Directive("", "dw", <<Num(LongMax)>>),
   Directive("", "dw", <<Num(LongMin)>>),
   Directive("", "dw", <<Num(LongMax + 1)>>),
   Instr("A", "", <<>>),
   Instr("stop", "stop", <<>>),
   [Instr("A", "stop", <<>>) EXCEPT !.label.len = 32],
   [Instr("A", "stop", <<>>) EXCEPT !.label.alnum = FALSE],
   [Instr("A", "stop", <<>>) EXCEPT !.label.letter = FALSE],
   Instr("", "stop", <<Reg(1)>>),
   Instr("", "add", <<Reg(1), Reg(2), Reg(31)>>),
   Instr("", "move", <<Reg(33), Reg(2)>>),
   Instr("", "move", <<Reg(2), Reg(LongMax + 1)>>),
   Instr("", "move", <<Reg(32), Reg(3)>>),
   Instr("", "addi", <<Reg(1), Num(-30), Reg(2)>>),
   Instr("", "addi", <<Reg(1), Num(40), Reg(2)>>),
   Instr("", "lw", <<Reg(1), Num(LongMin - 1), Reg(2)>>),
   Instr("", "sw", <<A, Num(2), Reg(2)>>),
   Instr("", "jmp", <<Reg(5)>>),
   Instr("", "jmp", <<Dollar(40)>>),
   Instr("", "jmp", <<[Reg(2) EXCEPT !.k = "padreg"]>>),
   Instr("", "call", <<A>>)}

(* The files of the runs that show where the program departs from its docs. *)
NumberLines   == {Directive("", "db", <<Num(3), Num(-4)>>), Unread("blank")}
LargestLines  == {Directive("", "dw", <<Num(LongMax)>>), Directive("", "db", <<Num(1)>>)}
RegisterLines == {Instr("", "move", <<Reg(32), Reg(3)>>), Instr("", "stop", <<>>)}
FarLines ==
  {Instr("", "beq", <<Reg(1), Reg(2), B>>), Directive("", "asciz", <<Str(40)>>),
   Directive("B", "db", <<Num(1)>>)}
=============================================================================
