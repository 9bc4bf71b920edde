----------------------------- MODULE SourceText -----------------------------
(***************************************************************************)
(* What the text of a source says, read without passes, counters or a      *)
(* table: which errors it has, and what it assembles to.                   *)
(***************************************************************************)
EXTENDS AssemblyLine, FiniteSets

CONSTANTS
  SourceLines,   \* the lines a source file may hold
  MaxLines       \* bound on the lines of a file

ASSUME SourceAssumption ==
  /\ SourceLines \subseteq {raw \in RawLine : raw.form # "eof"}
  /\ MaxLines \in Nat

VARIABLE source  \* the lines of a source file, as far as they were read

(* The lines parseLine can meet next. *)
Readable ==
  IF Len(source) < MaxLines THEN SourceLines \cup {Eof} ELSE {Eof}

(* The end of the file was met. *)
Ended == source # <<>> /\ source[Len(source)] = Eof

-----------------------------------------------------------------------------

ParsesCleanly(raw) == ParseError(raw, Len(raw.args)) = "SUCCESS"

TypeOf(raw) ==
  IF raw.form = "text" /\ ParsesCleanly(raw) THEN CommandType(raw.command) ELSE "None"

OfType(i, type) == TypeOf(source[i]) = type

(* The names a line of the source puts into the symbol table. *)
Names(raw) ==
  CASE TypeOf(raw) \in {"Code", "Data"} -> IF raw.label.colon THEN {Name(raw.label.text)} ELSE {}
    [] TypeOf(raw) = "Extern" /\ Len(raw.args) = 1 -> {raw.args[1]}
    [] OTHER -> {}

(* The lines that declare a name as a label, and as an external symbol. *)
LabelsOf(name)  == {i \in DOMAIN source : ~ OfType(i, "Extern") /\ name \in Names(source[i])}
ExternsOf(name) == {i \in DOMAIN source : OfType(i, "Extern") /\ name \in Names(source[i])}

(* The range that the magnitude test of number_fits_in_bits leaves a signed   *)
(* number of that many bits; 0 belongs to it even if there is but one bit.    *)
AcceptedNumbers(bits) == {0} \cup (2 - TwoTo[bits - 1] .. TwoTo[bits - 1] - 1)

DataOperandsFit(raw) ==
  IF raw.command.name = "asciz"
  THEN Len(raw.args) = 1 /\ raw.args[1].k = "str"
  ELSE /\ raw.args # <<>>
       /\ \A i \in DOMAIN raw.args :
            raw.args[i].k = "num"
            /\ raw.args[i].n \in AcceptedNumbers(ChunkSize(raw.command.name) * ByteBits)

(* What .db, .dh, .dw and .asciz, .extern and .entry ask of their operands, *)
(* whatever else stands in the source.                                      *)
DirectiveFits(raw) ==
  CASE TypeOf(raw) = "Data"                -> DataOperandsFit(raw)
    [] TypeOf(raw) \in {"Extern", "Entry"} -> Len(raw.args) = 1
    [] OTHER                               -> TRUE

BytesOf(raw) ==
  IF TypeOf(raw) = "Data" /\ DirectiveFits(raw) THEN DataSize(parseLine(raw, Len(raw.args))) ELSE 0

(* The address of line i: code in front of it, or all code and the data in   *)
(* front of it. *)
CodeLines(last) == Cardinality({j \in 1 .. last : OfType(j, "Code")})
DataBytes(last) == Cardinality(UNION {{j} \X (1 .. BytesOf(source[j])) : j \in 1 .. last})

SourceAddress(i) ==
  100 + IF OfType(i, "Code") THEN 4 * CodeLines(i - 1)
        ELSE 4 * CodeLines(Len(source)) + DataBytes(i - 1)

LabelFits(raw, i) ==
  LET used == raw.args[Len(raw.args)]
  IN  IF is_i_command(raw.command.name)
      THEN /\ ExternsOf(used) = {}
           /\ \E j \in LabelsOf(used) :
                LET distance == SourceAddress(j) - SourceAddress(i)
                IN  1 - TwoTo[ImmedBits] < distance /\ distance < TwoTo[ImmedBits]
      ELSE LabelsOf(used) \cup ExternsOf(used) # {}

CodeOperandsFit(raw, i) ==
  LET format == OperandFormat(parseLine(raw, Len(raw.args)))
  IN  /\ Len(raw.args) = Len(format)
      /\ \A k \in DOMAIN format :
           CASE format[k] = "register" -> registerFromString(raw.args[k]) # -1
             [] format[k] = "number"   -> raw.args[k].k = "num"
                                          /\ raw.args[k].n \in AcceptedNumbers(ImmedBits)
             [] format[k] = "label"    -> LabelFits(raw, i)

LineFits(i) ==
  LET raw == source[i]
  IN  /\ DirectiveFits(raw)
      /\ TypeOf(raw) = "Code"  => CodeOperandsFit(raw, i)
      /\ TypeOf(raw) = "Entry" => LabelsOf(raw.args[1]) # {} /\ ExternsOf(raw.args[1]) = {}

(* The first line is exempt from being parsed: see EveryLineIsParsed. *)
AllParse ==
  \A i \in 2 .. Len(source) : ParseError(source[i], Len(source[i].args)) \in {"SUCCESS", "ERR_EOF"}

NamedOnce(last) ==
  \A i, j \in 1 .. last : i # j => Names(source[i]) \cap Names(source[j]) = {}

Clean == AllParse /\ NamedOnce(Len(source)) /\ \A i \in DOMAIN source : LineFits(i)

(* The number whose acceptance depends on errno: see LargestNumberIsSupported. *)
HasLargestNumber ==
  \E i \in DOMAIN source : \E k \in DOMAIN source[i].args :
    source[i].args[k].k = "num" /\ source[i].args[k].n = LongMax

-----------------------------------------------------------------------------
(***************************************************************************)
(* What a clean source assembles to.                                       *)
(***************************************************************************)
(* The member of a set that has one. *)
TheOnly(set) == CHOOSE member \in set : TRUE

CodeOperands(raw) == OperandFormat(parseLine(raw, Len(raw.args)))

(* The field of the instruction word that each operand goes to. *)
OperandFields(raw) ==
  LET command == raw.command.name
  IN  CASE is_i_command(command) /\ i_command_to_subtype(command) = "IBranch" ->
             <<"rs", "rt", "immed">>
        [] is_i_command(command) /\ i_command_to_subtype(command) # "IBranch" ->
             <<"rs", "immed", "rt">>
        [] is_r_command(command) ->
             IF r_command_to_subtype(command) = "RArithmetic" THEN <<"rs", "rt", "rd">>
             ELSE <<"rs", "rd">>
        [] command = "stop" -> <<>>
        [] OTHER -> <<"address">>

FieldWidth(field) ==
  CASE field = "immed" -> ImmedBits [] field = "address" -> AddressBits [] OTHER -> RegBits

(* The address of a name; an external symbol has none yet. *)
AddressOfName(name) ==
  IF LabelsOf(name) = {} THEN 0 ELSE SourceAddress(TheOnly(LabelsOf(name)))

OperandValue(i, k) ==
  LET raw == source[i]
  IN  CASE CodeOperands(raw)[k] = "register" -> registerFromString(raw.args[k])
        [] CodeOperands(raw)[k] = "number"   -> raw.args[k].n
        [] CodeOperands(raw)[k] = "label"    ->
             AddressOfName(raw.args[k])
               - IF is_i_command(raw.command.name) THEN SourceAddress(i) ELSE 0

(* What line i leaves in a field: its operand there, cut to the width. *)
FieldOf(i, field) ==
  LET places == {k \in DOMAIN OperandFields(source[i]) : OperandFields(source[i])[k] = field}
  IN  IF places = {} THEN 0
      ELSE OperandValue(i, TheOnly(places)) % TwoTo[FieldWidth(field)]

SourceWord(i) ==
  LET command == source[i].command.name
  IN  [opcode  |-> command_to_opcode(command),
       rs      |-> FieldOf(i, "rs"),
       rt      |-> FieldOf(i, "rt"),
       rd      |-> FieldOf(i, "rd"),
       funct   |-> IF is_r_command(command) THEN r_command_to_func(command) ELSE 0,
       immed   |-> FieldOf(i, "immed"),
       address |-> FieldOf(i, "address"),
       reg     |-> IF CodeOperands(source[i]) = <<"register">> THEN 1 ELSE 0]

(* The words of the lines of code, and the line of each byte of data. *)
SourceCode ==
  [n \in 1 .. CodeLines(Len(source)) |->
     SourceWord(TheOnly({i \in DOMAIN source : OfType(i, "Code") /\ CodeLines(i) = n}))]

SourceData ==
  [n \in 1 .. DataBytes(Len(source)) |->
     TheOnly({i \in DOMAIN source : DataBytes(i - 1) < n /\ n <= DataBytes(i)})]

(* The words that refer to an external symbol, by name and address. *)
SourceExternals ==
  {<<source[i].args[Len(source[i].args)], SourceAddress(i)>> :
     i \in {i \in DOMAIN source :
             /\ OfType(i, "Code")
             /\ \E k \in DOMAIN CodeOperands(source[i]) :
                  CodeOperands(source[i])[k] = "label" /\ ExternsOf(source[i].args[k]) # {}}}

(* The symbols of the .entry directives with their addresses. *)
SourceEntries ==
  {<<source[i].args[1], AddressOfName(source[i].args[1])>> :
     i \in {i \in DOMAIN source : OfType(i, "Entry")}}

(* A listing that is written only if the source has such a directive: a set *)
(* of one listing or none.                                                  *)
ListingFor(type, listing) ==
  IF \E i \in DOMAIN source : OfType(i, type) THEN {listing} ELSE {}

SourceOutputs ==
  [code |-> SourceCode, data |-> SourceData,
   ext |-> ListingFor("Extern", SourceExternals), ent |-> ListingFor("Entry", SourceEntries)]
=============================================================================
