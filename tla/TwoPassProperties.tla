-------------------------- MODULE TwoPassProperties --------------------------
(***************************************************************************)
(* What the output files of an assembled source say, and which sources are *)
(* assembled.  Most properties are stated for runs in which every          *)
(* allocation succeeded.                                                   *)
(***************************************************************************)
EXTENDS TwoPass

Assembled == pc = "assembled" /\ faults = 0

Labelled(i) == lines[i].type \in {"Code", "Data"} /\ lines[i].label # Empty

Declares(i, name) == Labelled(i) /\ lines[i].label = name

BeginsAt(i, address) == LineAt(address) = i /\ LineAt(address - 1) # i

(* The address at which the bytes of line i begin in the object file. *)
AddressOf(i) ==
  CHOOSE a \in INSTRUCTION_COUNTER_INITIAL_VALUE ..
               INSTRUCTION_COUNTER_INITIAL_VALUE + CodeBytes + Len(data) - 1 :
    BeginsAt(i, a)

(* The address of the k-th instruction word, and the line it comes from. *)
CodeAddress(k) == INSTRUCTION_COUNTER_INITIAL_VALUE + WORD_SIZE * (k - 1)
CodeLine(k)    == lines[code[k].line]

IsBranch(k) == is_i_command(CodeLine(k).opcode_name)

RefersTo(k, name) == LabelOperand(CodeLine(k)) # 0 /\ UsedSymbol(CodeLine(k)) = name

(* The address an instruction word leads to: a branch is relative to its own *)
(* address, by the signed number in its immediate field. *)
Target(k) ==
  IF IsBranch(k)
  THEN CodeAddress(k) + SignExtend(code[k].word.immed, ImmedBits)
  ELSE code[k].word.address

(* What the fields are wide enough for: a signed distance, an address. *)
InReach(k, address) ==
  IF IsBranch(k)
  THEN address - CodeAddress(k) \in -(TwoTo[ImmedBits - 1]) .. TwoTo[ImmedBits - 1] - 1
  ELSE address < TwoTo[AddressBits]

-----------------------------------------------------------------------------

(* The symbol of every label in front of an instruction or a data directive  *)
(* is local, and its address is where the first byte of that line stands in  *)
(* the object file: the two counters of the first pass, the shift of the     *)
(* data symbols and the code that the second pass writes later fit together. *)
LabelsPointAtTheirLines ==
  Assembled =>
    \A i \in DOMAIN lines :
      Labelled(i) =>
        /\ exists(lines[i].label)
        /\ ~ symtab[find(lines[i].label)].is_external
        /\ BeginsAt(i, symtab[find(lines[i].label)].value)

(* The first pass counts the instructions before the second pass writes them: *)
(* every Code line has its word, in source order, at the address that was     *)
(* counted for it, and the data image has the size that was counted.          *)
CodeIsWhereItWasCounted ==
  Assembled =>
    /\ instruction_counter = INSTRUCTION_COUNTER_INITIAL_VALUE + CodeBytes
    /\ data_counter = Len(data)
    /\ {code[k].line : k \in DOMAIN code} = {i \in DOMAIN lines : lines[i].type = "Code"}
    /\ \A k \in DOMAIN code : CodeLine(k).code_position = CodeAddress(k)

(* A word whose label operand is declared by a line of the source leads to    *)
(* the first byte of that line, backwards and forwards, into code and into    *)
(* data, as long as the field of the word is wide enough.                     *)
ReferencesReachTheirLabels ==
  Assembled =>
    \A k \in DOMAIN code, i \in DOMAIN lines :
      Labelled(i) /\ RefersTo(k, lines[i].label) /\ InReach(k, AddressOf(i)) =>
        BeginsAt(i, Target(k))

(* The same without the bound: "Make sure relative distance fits immed"       *)
(* (assembly_line.c:464) promises that no branch is encoded that does not     *)
(* reach its label.  The check lets distances through that the signed field   *)
(* does not hold.                                                             *)
BranchesReachTheirLabels ==
  Assembled =>
    \A k \in DOMAIN code, i \in DOMAIN lines :
      Labelled(i) /\ RefersTo(k, lines[i].label) /\ IsBranch(k) => BeginsAt(i, Target(k))

(* The .ext file lists each word that refers to an external symbol, under the *)
(* address of that word, and nothing else; these words have address 0, and    *)
(* the file is written exactly when the source declares an external symbol.   *)
ExternalUsesAreListed ==
  Assembled =>
    LET externs == {i \in DOMAIN lines : lines[i].type = "Extern"}
        uses == {k \in DOMAIN code : \E i \in externs : RefersTo(k, lines[i].args[1])}
    IN  /\ writeExtFile = {<<UsedSymbol(CodeLine(k)), CodeAddress(k)>> : k \in uses}
        /\ \A k \in uses : code[k].word.address = 0
        /\ has_external <=> externs # {}

(* The .ent file lists the symbol of each .entry directive with the address   *)
(* of the line that declares it, wherever the directive and the line are, and *)
(* is written exactly when there is an .entry directive.                      *)
EntriesAreListed ==
  Assembled =>
    LET entries == {j \in DOMAIN lines : lines[j].type = "Entry"}
        Declaration(j) == {i \in DOMAIN lines : Declares(i, lines[j].args[1])}
    IN  /\ \A j \in entries : Declaration(j) # {}
        /\ writeEntFile =
             UNION {{<<lines[j].args[1], AddressOf(i)>> : i \in Declaration(j)} : j \in entries}
        /\ has_entry <=> entries # {}

(* The part of the source the second pass sees has no hole, even when a queue *)
(* node could not be allocated: what is lost is all of the source from some   *)
(* line on, or the lines before the first that was queued.                    *)
QueueHasNoHole ==
  \A k \in 1 .. Len(queue) - 1 : queue[k + 1] = queue[k] + 1

(* No step renames or removes a symbol or turns a local one into an external  *)
(* one, and but for the shift at the end of the first pass no step changes an *)
(* address: a duplicate declaration never disturbs the first one.             *)
SymbolsStayPut ==
  [][\A i \in DOMAIN symtab :
       /\ i \in DOMAIN symtab'
       /\ symtab'[i].symbol = symtab[i].symbol
       /\ symtab'[i].is_external = symtab[i].is_external
       /\ pc # "fix" => symtab'[i].value = symtab[i].value]_vars

(* "Main first pass function, iterate on file, and start parsing every line"  *)
(* (first_pass.c:72): output is produced only for a source of which every     *)
(* line could be parsed.  The error of the first line is dropped.             *)
EveryLineIsParsed ==
  Assembled =>
    \A i \in DOMAIN source :
      ParseError(source[i], Len(source[i].args)) \in {"SUCCESS", "ERR_EOF"}

(* registerFromString returns "the register number if it is a valid register" *)
(* (assembly_line.c:47): a first operand that is a register stands in the     *)
(* word that is written for the instruction.                                  *)
RegistersAreEncoded ==
  Assembled =>
    \A k \in DOMAIN code :
      ~ is_j_command(CodeLine(k).opcode_name) /\ CodeLine(k).args[1].k = "reg" =>
        code[k].word.rs = CodeLine(k).args[1].n

(* The number operand of an arithmetic or memory instruction is the signed    *)
(* number in the immediate field of its word: what the range check lets       *)
(* through is what the field can hold.                                        *)
ImmediatesAreEncoded ==
  Assembled =>
    \A k \in DOMAIN code :
      is_i_command(CodeLine(k).opcode_name) /\ OperandFormat(CodeLine(k))[2] = "number" =>
        SignExtend(code[k].word.immed, ImmedBits) = CodeLine(k).args[2].n

(* Every source file, being finite, is assembled or given up: the two loops   *)
(* end, also when lines are lost or memory runs out.                          *)
Terminates == <>(pc \in Final)

(* "If a memory error occured, exit immediately" (first_pass.c:96, 114): a    *)
(* source is not assembled into less than its instructions because some       *)
(* allocation has failed.                                                     *)
MemoryErrorsAreFatal ==
  pc = "assembled" =>
    {i \in DOMAIN source : OfType(i, "Code")} \subseteq {code[k].line : k \in DOMAIN code}

-----------------------------------------------------------------------------
(* The memory that is assembled has addresses which a long can hold: the      *)
(* distance of two lines does not wrap.  A line of text has at most 80        *)
(* characters, so that a program of 25 million lines stays far below 2 ^ 31.  *)
ASSUME AddressAssumption ==
  \E width \in 0 .. LongMax :
    /\ \A raw \in SourceLines : BytesOf(raw) <= width
    /\ INSTRUCTION_COUNTER_INITIAL_VALUE + MaxLines * (INSTRUCTION_SIZE + width) <= LongMax

(* A source is assembled exactly if none of its lines is at fault: an error   *)
(* found in one pass, or on one line, is neither lost nor raised by what      *)
(* happened on another line.                                                  *)
AcceptsExactlyCleanSource ==
  faults = 0 =>
    /\ pc = "assembled" => Clean
    /\ pc = "rejected" => ~ Clean \/ HasLargestNumber

(* "Verify number fits in a long, which is also maximum supported number in   *)
(* our assembly" (assembly_line.c:376): a source that is clean is assembled   *)
(* also when it holds that number.  It is rejected while errno still holds    *)
(* the ERANGE of an earlier conversion.                                       *)
LargestNumberIsSupported == faults = 0 /\ pc = "rejected" => ~ Clean

(* "Check if the number can fit as a signed integer in a specific number of   *)
(* bits" (bit_utils.c:7), with the out of range numbers that                  *)
(* examples/first_pass_errors.as:7-14 lists: a source of numbers that fit in  *)
(* their two's complement width is not rejected.                              *)
SignedNumbersAreSupported ==
  faults = 0 /\ pc = "rejected" =>
    \E i \in DOMAIN source :
      LET raw  == source[i]
          bits == ChunkSize(raw.command.name) * ByteBits
      IN  /\ raw.form \notin {"blank", "eof"}
          /\ \/ TypeOf(raw) # "Data" \/ raw.label.colon \/ raw.args = <<>>
             \/ \E k \in DOMAIN raw.args :
                  \/ raw.args[k].k # "num" \/ raw.args[k].n = LongMax
                  \/ raw.args[k].n \notin -(TwoTo[bits - 1]) .. TwoTo[bits - 1] - 1

-----------------------------------------------------------------------------
(***************************************************************************)
(* The two passes as an abstract assembler.                                *)
(***************************************************************************)
Verdict ==
  CASE faults # 0 -> "lost" [] faults = 0 /\ pc \in {"assembled", "rejected"} -> pc
    [] OTHER -> "none"

OutputFiles ==
  IF Verdict = "assembled"
  THEN [code |-> [k \in DOMAIN code |-> code[k].word], data |-> data,
        ext |-> IF has_external THEN {writeExtFile} ELSE {},
        ent |-> IF has_entry THEN {writeEntFile} ELSE {}]
  ELSE [code |-> <<>>, data |-> <<>>, ext |-> {}, ent |-> {}]

Abstract == INSTANCE Assembler WITH verdict <- Verdict, outputs <- OutputFiles

(* The passes implement the assembler: a source is decided only when all of   *)
(* it was read, once, by its text alone, and the words, bytes and listings    *)
(* that the counters, the table and the queue lead to are those that can be   *)
(* read off the text.                                                         *)
ImplementsAssembler == Abstract!Spec

-----------------------------------------------------------------------------
(***************************************************************************)
(* What the type invariant needs in order to be inductive: the queue holds *)
(* numbers of lines, and a line of type Code names a command of a table.   *)
(***************************************************************************)
LinesAreKept ==
  /\ Len(source) = Len(lines)
  /\ pc = "handle" => lines # <<>>
  /\ \A k \in DOMAIN queue : queue[k] \in DOMAIN lines

KnownCommands ==
  \A i \in DOMAIN lines :
    lines[i].type = "Code" => is_valid_command_name(lines[i].opcode_name)

TypeInvariant == TypeOK /\ LinesAreKept /\ KnownCommands

-----------------------------------------------------------------------------
(***************************************************************************)
(* What LabelsPointAtTheirLines and CodeIsWhereItWasCounted need in order  *)
(* to be inductive: how far each counter, the queue, the two images and    *)
(* the symbols have come, while nothing has gone wrong.                    *)
(***************************************************************************)
Sound == faults = 0 /\ ~ errored /\ pc \notin {"rejected", "crashed"}

InFirstPass == pc \in {"open", "handle", "read", "fix"}

(* The lines that firstPassHandleLine and the second pass have dealt with. *)
LastHandled == IF pc = "handle" THEN Len(lines) - 1 ELSE Len(lines)
LastPopped  == Len(lines) - Len(queue)

CodeUpTo(ls, i) == {j \in 1 .. i : ls[j].type = "Code"}
Count(ls, i)    == Cardinality(CodeUpTo(ls, i))

CountersAgree ==
  /\ instruction_counter =
       INSTRUCTION_COUNTER_INITIAL_VALUE + INSTRUCTION_SIZE * Count(lines, LastHandled)
  /\ \A i \in CodeUpTo(lines, LastHandled) :
       lines[i].code_position =
         INSTRUCTION_COUNTER_INITIAL_VALUE + INSTRUCTION_SIZE * Count(lines, i - 1)
  /\ data_counter = Len(data)
  /\ \A k \in DOMAIN data : data[k] \in 1 .. LastHandled

(* No line is lost, and the second pass takes them in order. *)
QueueIsTheRest ==
  /\ tail_linked
  /\ LastPopped \in Nat /\ \A k \in DOMAIN queue : queue[k] = LastPopped + k
  /\ InFirstPass => LastPopped = 0
  /\ pc = "open" => lines = <<>>
  /\ pc = "assembled" => queue = <<>>

(* The n-th word comes from the n-th line of code. *)
CodeIsInOrder ==
  /\ Len(code) = Count(lines, LastPopped)
  /\ \A k \in DOMAIN code :
       code[k].line \in CodeUpTo(lines, LastPopped) /\ Count(lines, code[k].line) = k
  /\ \A i \in CodeUpTo(lines, LastPopped) :
       Count(lines, i) \in DOMAIN code /\ code[Count(lines, i)].line = i

(* The bytes of line i begin at the offset v of the data image. *)
DataBegins(bytes, i, v) ==
  v \in 0 .. Len(bytes) - 1 /\ bytes[v + 1] = i /\ (v > 0 => bytes[v] # i)

(* Symbol sym stands for the label of line i; the data image begins at base. *)
DeclaredBy(sym, line, i, bytes, base) ==
  /\ sym.symbol = line.label /\ ~ sym.is_external /\ sym.section = line.type
  /\ line.type = "Code" => sym.value = line.code_position
  /\ line.type = "Data" => DataBegins(bytes, i, sym.value - base)

DataBase == IF InFirstPass THEN 0 ELSE instruction_counter

LabelsAreDeclared ==
  \A i \in 1 .. LastHandled :
    Labelled(i) => \E s \in DOMAIN symtab : DeclaredBy(symtab[s], lines[i], i, data, DataBase)

UniqueSymbols ==
  \A s, t \in DOMAIN symtab : symtab[s].symbol = symtab[t].symbol => s = t

Progress == CountersAgree /\ QueueIsTheRest /\ CodeIsInOrder /\ LabelsAreDeclared

(* No name stands for two symbols, and while no line was at fault and no       *)
(* allocation failed, the counters, the queue, the symbols and the two images *)
(* have all come as far as the line that is being dealt with.                 *)
AddressInvariant == UniqueSymbols /\ (Sound => Progress)

(***************************************************************************)
(* What the properties of words and listings need in order to be           *)
(* inductive, beside the addresses: where each symbol comes from, what is  *)
(* recorded of it, and what each word was encoded from.                    *)
(***************************************************************************)
DataIsInOrder ==
  \A j, k \in DOMAIN data : lines[data[k]].type = "Data" /\ (j <= k => data[j] <= data[k])

(* Line i puts symbol sym into the table. *)
ComesFrom(sym, i) ==
  IF sym.is_external
  THEN lines[i].type = "Extern" /\ lines[i].args[1] = sym.symbol
  ELSE Declares(i, sym.symbol)

SymbolsComeFromLines ==
  \A s \in DOMAIN symtab : \E i \in 1 .. LastHandled : ComesFrom(symtab[s], i)

(* Symbol sym is external, and is what an .extern directive names. *)
ExternalBy(sym, line) == sym.is_external /\ sym.symbol = line.args[1]

ExternsAreDeclared ==
  /\ \A i \in 1 .. LastHandled :
       lines[i].type = "Extern" => \E s \in DOMAIN symtab : ExternalBy(symtab[s], lines[i])
  /\ has_external <=> \E i \in 1 .. LastHandled : lines[i].type = "Extern"

(* Symbol sym is marked, and is what an .entry directive names. *)
MarkedBy(sym, line) == sym.is_entry /\ ~ sym.is_external /\ sym.symbol = line.args[1]

EntriesAreMarked ==
  /\ \A j \in 1 .. LastPopped :
       lines[j].type = "Entry" => \E s \in DOMAIN symtab : MarkedBy(symtab[s], lines[j])
  /\ \A s \in DOMAIN symtab :
       symtab[s].is_entry =>
         \E j \in 1 .. LastPopped : lines[j].type = "Entry" /\ MarkedBy(symtab[s], lines[j])
  /\ has_entry <=> \E j \in 1 .. LastPopped : lines[j].type = "Entry"

(* The positions of the words that refer to a name. *)
UsesOf(name) == {CodeLine(k).code_position : k \in {k \in DOMAIN code : RefersTo(k, name)}}

UsesAreRecorded ==
  \A s \in DOMAIN symtab :
    LET offsets == symtab[s].dependent_offsets
    IN  {offsets[j] : j \in DOMAIN offsets} = UsesOf(symtab[s].symbol)

WordsAreEncoded ==
  \A k \in DOMAIN code :
    /\ code[k].word = decodeInstructionLine(CodeLine(k))
    /\ \E stale \in BOOLEAN : InstructionError(CodeLine(k), stale, {}) = "SUCCESS"

References ==
  /\ DataIsInOrder /\ SymbolsComeFromLines /\ ExternsAreDeclared
  /\ EntriesAreMarked /\ UsesAreRecorded /\ WordsAreEncoded

ReferenceInvariant == Sound => References

(***************************************************************************)
(* What AcceptsExactlyCleanSource needs in order to be inductive: what the *)
(* passes have looked at so far is clean as long as no error was found,    *)
(* and is not, or holds the largest number, once one was.                  *)
(***************************************************************************)
IsParseOf(line, raw) ==
  LET parsed == parseLine(raw, Len(raw.args))
  IN  /\ line.type = parsed.type /\ line.label = parsed.label
      /\ line.opcode_name = parsed.opcode_name /\ line.args = parsed.args

LinesAreParses == \A i \in DOMAIN lines : IsParseOf(lines[i], source[i])

(* Where the source ends, and how the first pass got there. *)
SourceEnds ==
  /\ \A i \in DOMAIN source :
       source[i] = Eof \/ (i <= MaxLines /\ source[i] \in SourceLines)
  /\ pc = "read" => source # <<>>
  /\ pc = "rejected" => errored

(* What the first pass has looked at. *)
FirstPassClean ==
  AllParse /\ NamedOnce(LastHandled) /\ \A i \in 1 .. LastHandled : DirectiveFits(source[i])

(* The bytes of each line lie behind those of the lines before it. *)
BytesAreCounted ==
  /\ Len(data) = DataBytes(LastHandled)
  /\ \A v \in 0 .. Len(data) - 1 :
       DataBytes(data[v + 1] - 1) <= v /\ v < DataBytes(data[v + 1])

SoFarClean == FirstPassClean /\ BytesAreCounted /\ \A i \in 1 .. LastPopped : LineFits(i)

FaultFound == HasLargestNumber \/ IF InFirstPass THEN ~ FirstPassClean ELSE ~ Clean

AcceptanceInvariant ==
  /\ SourceEnds
  /\ faults = 0 => LinesAreParses
  /\ Sound => SoFarClean
  /\ faults = 0 /\ errored => FaultFound

(* When a node of the queue could not be allocated, what was pushed before it *)
(* still ends with the line read last, as long as a push is not lost.         *)
QueueEndsWithLast ==
  /\ pc = "open" => queue = <<>> /\ lines = <<>>
  /\ tail_linked /\ pc \in {"handle", "read"} /\ queue # <<>> => queue[Len(queue)] = Len(lines)

(* A source of which some line is in error ends rejected. *)
NoErrorIsForgotten == pc = "assembled" => ~ errored
=============================================================================
