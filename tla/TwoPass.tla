------------------------------- MODULE TwoPass -------------------------------
(***************************************************************************)
(* first_pass.c and second_pass.c, with the symbol table, the memory and   *)
(* the line queue they fill: the assembly of one source file.              *)
(*                                                                         *)
(*   open  -> the first line is read                                       *)
(*   handle <-> read  one line of the first pass, then the next one        *)
(*   fix   -> the data symbols are moved behind the code                   *)
(*   second           one queued line after another                        *)
(*   assembled, rejected, crashed  what firstPass and secondPass returned  *)
(*                                                                         *)
(* A call that allocates memory takes the set of its allocations that      *)
(* fail; at most MaxFaults fail in a behaviour.                            *)
(***************************************************************************)
EXTENDS Decoding, Memory, LineFifo, SourceText

CONSTANT MaxFaults  \* bound on the allocations that fail

ASSUME FaultAssumption == MaxFaults \in Nat

VARIABLES
  pc,                   \* the point of the program that is reached
  lines,                \* the AssemblyLine of each of them
  instruction_counter,  \* address of the next instruction
  err,                  \* *err of firstPass and secondPass
  errored,              \* errored, then had_errord
  erange,               \* errno is ERANGE
  faults                \* allocations that have failed

passVars == <<pc, source, lines, queueVars, instruction_counter, err, errored, erange, faults>>
vars == <<passVars, symbolVars, memoryVars>>

Errors ==
  {"SUCCESS", "LINE_TOO_LONG", "ERR_DUPLICATE_SYMBOL",
   "ERR_INVALID_SYNTAX_ENTRY_DECLERATION", "ERR_ENTRY_SYM_NOT_FOUND",
   "ERR_INVALID_COMMAND_NAME", "ERR_INVALID_COMMAND_FORMAT",
   "ERR_INVALID_CODE_INSTRUCTION", "ERR_INVALID_REGISTER", "ERR_INVALID_NUMBER_TOKEN",
   "ERR_INVALID_NUMBER_SIZE", "ERR_INVALID_DATA_INSTRUCTION", "ERR_EOF",
   "ERR_UNKNOWN_LABEL_REFERENCED", "ERR_INVALID_EXTERNAL_LABEL_REFERENCE",
   "ERR_LABEL_TOO_FAR", "ERR_OUT_OF_MEMEORY", "ERR_SYMBOL_CANNOT_BE_ENTRY_AND_EXTERN",
   "ERR_INVALID_SYNTAX_EXTERN_DECLERATION", "ERR_ASCIZ_WITHOUT_QUOTES",
   "ERR_LABEL_WITH_BAD_CHARACTERS", "ERR_LABEL_MUST_START_WITH_LETTERS",
   "ERR_LABEL_TOO_LONG", "ERR_INVALID_LABEL_USING_RESERVED_NAME"}

Final == {"assembled", "rejected", "crashed"}

TypeOK ==
  /\ pc \in {"open", "handle", "read", "fix", "second"} \cup Final
  /\ source \in Seq(RawLine) /\ lines \in Seq(AssemblyLine)
  /\ queue \in Seq(Nat) /\ tail_linked \in BOOLEAN
  /\ instruction_counter \in Nat
  /\ err \in Errors /\ errored \in BOOLEAN /\ erange \in BOOLEAN /\ faults \in Nat
  /\ SymbolManagerTypeOK
  /\ MemoryTypeOK

(* errno may hold the ERANGE of an earlier input file. *)
Init ==
  /\ pc = "open"
  /\ source = <<>> /\ lines = <<>>
  /\ instruction_counter = INSTRUCTION_COUNTER_INITIAL_VALUE
  /\ err = "SUCCESS" /\ errored = FALSE /\ erange \in BOOLEAN /\ faults = 0
  /\ newLineQueue
  /\ newSymbolManager
  /\ newMemory

-----------------------------------------------------------------------------

(* The sets of allocations among these that may fail in one call. *)
Failing(allocations) ==
  {failed \in SUBSET allocations : faults + Cardinality(failed) <= MaxFaults}

(* errno_erange is errno after the calls that succeed; a malloc that fails *)
(* leaves ENOMEM there. *)
Fail(failed, errno_erange) ==
  /\ faults' = faults + Cardinality(failed)
  /\ erange' = (errno_erange /\ failed = {})

(* How many of its operands can be allocated: all of them, or those before *)
(* the one whose allocation fails.                                         *)
Kept(raw, failed) ==
  IF "operand" \in failed THEN 0 .. Len(raw.args) - 1 ELSE {Len(raw.args)}

Parse(raw, kept) ==
  /\ source' = Append(source, raw)
  /\ lines' = Append(lines, parseLine(raw, kept))
  /\ err' = ParseError(raw, kept)

(***************************************************************************)
(* The first line: firstPass reads it before its loop and looks at its     *)
(* error for the end of the file only.                                     *)
(***************************************************************************)
FirstLine ==
  /\ pc = "open"
  /\ \E raw \in Readable, failed \in Failing({"operand", "queue_node"}) :
       \E kept \in Kept(raw, failed) :
         /\ Parse(raw, kept)
         /\ push(1, failed)
         /\ pc' = IF err' = "ERR_EOF" THEN "fix" ELSE "handle"
         /\ Fail(failed, erange)
  /\ UNCHANGED <<instruction_counter, errored, symbolVars, memoryVars>>

(***************************************************************************)
(* The next line, at the end of the loop of firstPass.  A line with a      *)
(* parse error is queued and handled as far as it was filled in, unless    *)
(* memory ran out.                                                         *)
(***************************************************************************)
NextLine ==
  /\ pc = "read"
  /\ \E raw \in Readable, failed \in Failing({"operand", "queue_node"}) :
       \E kept \in Kept(raw, failed) :
         /\ Parse(raw, kept)
         /\ errored' = (errored \/ err' \notin {"SUCCESS", "ERR_EOF"})
         /\ IF err' = "ERR_OUT_OF_MEMEORY"
            THEN UNCHANGED queueVars
            ELSE push(Len(source) + 1, failed)
         /\ pc' = IF err' \in {"ERR_EOF", "ERR_OUT_OF_MEMEORY"} THEN "fix" ELSE "handle"
         /\ Fail(failed, erange)
  /\ UNCHANGED <<instruction_counter, symbolVars, memoryVars>>

(* newLine cannot allocate the struct of the next line. *)
NoNextLine ==
  /\ pc = "read"
  /\ faults < MaxFaults /\ faults' = faults + 1
  /\ err' = "ERR_OUT_OF_MEMEORY" /\ errored' = TRUE /\ pc' = "fix"
  /\ erange' = FALSE
  /\ UNCHANGED <<source, lines, queueVars, instruction_counter, symbolVars,
                 memoryVars>>

-----------------------------------------------------------------------------

(***************************************************************************)
(* firstPassHandleLine of the line read last, one action per type of line, *)
(* and what the loop of firstPass does with the error it returns.          *)
(***************************************************************************)
Current == lines[Len(lines)]

Handling(type) == pc = "handle" /\ Current.type \in type

(* A loop that remembers the error of the last line only. *)
HandledForgetting(error) ==
  /\ err' = error
  /\ errored' = (error # "SUCCESS")
  /\ pc' = IF error = "ERR_OUT_OF_MEMEORY" THEN "fix" ELSE "read"
  /\ UNCHANGED <<source, queueVars>>

Handled(error) ==
  /\ err' = error
  /\ errored' = (errored \/ error # "SUCCESS")
  /\ pc' = IF error = "ERR_OUT_OF_MEMEORY" THEN "fix" ELSE "read"
  /\ UNCHANGED <<source, queueVars>>

HandleIgnored ==
  /\ Handling({"None", "Empty"})
  /\ Handled("SUCCESS")
  /\ UNCHANGED <<lines, instruction_counter, erange, faults, symbolVars, memoryVars>>

HandleEntry ==
  /\ Handling({"Entry"})
  /\ Handled(IF Len(Current.args) # 1 THEN "ERR_INVALID_SYNTAX_ENTRY_DECLERATION"
             ELSE "SUCCESS")
  /\ UNCHANGED <<lines, instruction_counter, erange, faults, symbolVars, memoryVars>>

HandleExtern ==
  /\ Handling({"Extern"})
  /\ IF Len(Current.args) # 1
     THEN /\ Handled("ERR_INVALID_SYNTAX_EXTERN_DECLERATION")
          /\ UNCHANGED <<erange, faults, symbolVars>>
     ELSE \E failed \in Failing({"symbol", "node"}) :
            /\ insertSymbol(Current.args[1], 0, TRUE, "Data", failed)
            /\ Handled(InsertError(Current.args[1], failed))
            /\ Fail(failed, erange)
  /\ UNCHANGED <<lines, instruction_counter, memoryVars>>

(* The symbol a label declares; a line without a label declares none. *)
DeclareLabel(val, section, failed) ==
  IF Current.label = Empty
  THEN UNCHANGED symbolVars
  ELSE insertSymbol(Current.label, val, FALSE, section, failed)

DeclareError(failed) ==
  IF Current.label = Empty THEN "SUCCESS" ELSE InsertError(Current.label, failed)

HandleData ==
  /\ Handling({"Data"})
  /\ \E failed \in Failing({"symbol", "node", "buffer", "grow"}) :
       LET declared == DeclareError(failed)
           stale    == erange /\ "node" \notin failed
           decoded  == DataError(Current, stale, failed)
       IN  /\ DeclareLabel(data_counter, "Data", failed)
           /\ IF declared # "SUCCESS"
              THEN Handled(declared) /\ UNCHANGED memoryVars
              ELSE IF decoded # "SUCCESS"
              THEN Handled(decoded) /\ UNCHANGED memoryVars
              ELSE /\ writeData(Len(lines), DataSize(Current), failed)
                   /\ Handled(WriteDataError(DataSize(Current), failed))
           /\ Fail(failed, IF declared = "SUCCESS" THEN ErangeAfterData(Current, stale)
                           ELSE erange)
  /\ UNCHANGED <<lines, instruction_counter>>

(* The counter advances before the position is taken from it. *)
HandleCodeCountingFirst ==
  /\ Handling({"Code"})
  /\ \E failed \in Failing({"symbol", "node"}) :
       /\ DeclareLabel(instruction_counter, "Code", failed)
       /\ Handled(DeclareError(failed))
       /\ Fail(failed, erange)
  /\ instruction_counter' = instruction_counter + INSTRUCTION_SIZE
  /\ lines' = [lines EXCEPT ![Len(lines)].code_position = instruction_counter']
  /\ UNCHANGED memoryVars

(* The position is set and the counter advances even when the label is bad. *)
HandleCode ==
  /\ Handling({"Code"})
  /\ \E failed \in Failing({"symbol", "node"}) :
       /\ DeclareLabel(instruction_counter, "Code", failed)
       /\ Handled(DeclareError(failed))
       /\ Fail(failed, erange)
  /\ lines' = [lines EXCEPT ![Len(lines)].code_position = instruction_counter]
  /\ instruction_counter' = instruction_counter + INSTRUCTION_SIZE
  /\ UNCHANGED memoryVars

(* The end of firstPass; after an error handleAssemblyFile gives the file up. *)
FinishFirstPass ==
  /\ pc = "fix"
  /\ fixDataSymbolsOffset(instruction_counter)
  /\ IF errored
     THEN pc' = "rejected" /\ UNCHANGED err
     ELSE pc' = "second" /\ err' = "SUCCESS"
  /\ UNCHANGED <<source, lines, queueVars, instruction_counter, errored, erange,
                 faults, memoryVars>>

-----------------------------------------------------------------------------

(***************************************************************************)
(* secondPass: the line at the head of the queue is popped, then handled   *)
(* by its type.  An error does not end the pass, unless memory ran out.    *)
(***************************************************************************)
First == lines[Head(queue)]

Popping(type) == pc = "second" /\ queue # <<>> /\ First.type \in type

(* A line with an error stays at the head of the queue. *)
PoppedOnSuccess(error) ==
  /\ IF error = "SUCCESS" THEN pop ELSE UNCHANGED queueVars
  /\ err' = IF error = "ERR_OUT_OF_MEMEORY" THEN error ELSE "SUCCESS"
  /\ errored' = (errored \/ error # "SUCCESS")
  /\ pc' = IF error = "ERR_OUT_OF_MEMEORY" THEN "rejected" ELSE "second"
  /\ UNCHANGED <<source, lines, instruction_counter>>

Popped(error) ==
  /\ pop
  /\ err' = IF error = "ERR_OUT_OF_MEMEORY" THEN error ELSE "SUCCESS"
  /\ errored' = (errored \/ error # "SUCCESS")
  /\ pc' = IF error = "ERR_OUT_OF_MEMEORY" THEN "rejected" ELSE "second"
  /\ UNCHANGED <<source, lines, instruction_counter>>

PopIgnored ==
  /\ Popping({"None", "Empty", "Data", "Extern"})
  /\ Popped("SUCCESS")
  /\ UNCHANGED <<erange, faults, symbolVars, memoryVars>>

PopEntry ==
  /\ Popping({"Entry"})
  /\ IF Len(First.args) < 1
     THEN Popped("ERR_INVALID_SYNTAX_ENTRY_DECLERATION") /\ UNCHANGED symbolVars
     ELSE Popped(EntryError(First.args[1])) /\ markSymEntry(First.args[1])
  /\ UNCHANGED <<erange, faults, memoryVars>>

PopCode ==
  /\ Popping({"Code"})
  /\ \E failed \in Failing({"offsets", "grow"}) :
       LET decoded == InstructionError(First, erange, failed)
       IN  /\ IF UsesSymbol(First, erange)
              THEN useSymbol(UsedSymbol(First), First.code_position, failed)
              ELSE UNCHANGED symbolVars
           /\ IF decoded = "SUCCESS"
              THEN /\ writeCode(Head(queue), decodeInstructionLine(First), failed)
                   /\ Popped(WriteCodeError(failed))
              ELSE Popped(decoded) /\ UNCHANGED memoryVars
           /\ Fail(failed, ErangeAfterCode(First, erange))

FinishSecondPass ==
  /\ pc = "second" /\ queue = <<>>
  /\ pc' = IF errored THEN "rejected" ELSE "assembled"
  /\ UNCHANGED <<source, lines, queueVars, instruction_counter, err, errored,
                 erange, faults, symbolVars, memoryVars>>

-----------------------------------------------------------------------------

(***************************************************************************)
(* Allocations whose result is used unchecked: the first newLine, the      *)
(* array of operands, the iterator of find and of fixDataSymbolsOffset,    *)
(* and the list node of insert.  Here the program dereferences NULL.       *)
(***************************************************************************)
LooksUp(line) ==
  \/ line.type = "Extern" /\ Len(line.args) = 1
  \/ line.type \in {"Code", "Data"} /\ line.label # Empty

Unchecked ==
  CASE pc = "open"   -> TRUE
    [] pc = "read"   -> \E raw \in Readable : ParseError(raw, Len(raw.args)) = "SUCCESS"
                                              /\ raw.args # <<>>
    [] pc = "handle" -> LooksUp(Current) /\ symtab # <<>>
    [] pc = "fix"    -> TRUE
    [] pc = "second" -> /\ queue # <<>> /\ symtab # <<>>
                        /\ \/ First.type = "Entry" /\ First.args # <<>>
                           \/ First.type = "Code" /\ UsesSymbol(First, erange)
    [] OTHER         -> FALSE

Crash ==
  /\ Unchecked
  /\ faults < MaxFaults /\ faults' = faults + 1
  /\ pc' = "crashed"
  /\ UNCHANGED <<source, lines, queueVars, instruction_counter, err, errored,
                 erange, symbolVars, memoryVars>>

Terminated == pc \in Final /\ UNCHANGED vars

FirstPass ==
  \/ FirstLine \/ NextLine \/ NoNextLine
  \/ HandleIgnored \/ HandleEntry \/ HandleExtern \/ HandleData \/ HandleCode
  \/ FinishFirstPass

SecondPass == PopIgnored \/ PopEntry \/ PopCode \/ FinishSecondPass

Next == FirstPass \/ SecondPass \/ Crash \/ Terminated

(* The program is one thread, which runs on until it is done. *)
Spec == Init /\ [][Next]_vars /\ WF_vars(FirstPass \/ SecondPass)
=============================================================================
