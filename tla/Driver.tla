------------------------------- MODULE Driver -------------------------------
(***************************************************************************)
(* main.c: the inputs of the command line are assembled one after another, *)
(* and their outputs are written to the working directory.                 *)
(*                                                                         *)
(*   main        the head of the loop over the inputs                      *)
(*   new, open   the objects are to be allocated, the source to be opened  *)
(*   first, second   the two passes, which append to the memory image      *)
(*   ob, ext, ent    saveOutput is to write that file                      *)
(*   saved       every output is written                                   *)
(*   returned    handleAssemblyFile has returned to main                   *)
(*   exited                                                                *)
(*                                                                         *)
(* A pass is seen by what it appends and by what it returns; TwoPass says  *)
(* which source has which outcome.  Allocations and files that fail are    *)
(* counted; at most MaxFaults fail in a behaviour.                         *)
(***************************************************************************)
EXTENDS ManagedArray, ObjectFile

CONSTANTS
  Inputs,     \* the sequences of paths the program may be given
  PartLength, \* the length of each part of a file name
  MAX_FILENAME_LENGTH,
  ChunkSizes, \* the sizes of data a directive may append
  MaxData,    \* bound on the bytes of data of a source
  MaxWords,   \* bound on the instructions of a source
  MaxFaults

ASSUME DriverAssumption ==
  /\ \A paths \in Inputs : paths \in Seq(Range(paths))
  /\ \A n \in ChunkSizes : n \in Nat /\ 2 * n <= TwoTo[SizeBits]
  /\ MaxData \in Nat /\ MaxWords \in Nat /\ MaxFaults \in Nat

WORD_SIZE == 4

VARIABLES
  argv,    \* paths: a directory and the parts of the name between its dots
  turn,    \* the index i of main
  pc,
  err,     \* *err
  success, \* what handleAssemblyFile returned last
  held,    \* what is allocated, and the source file if it is open
  memory,  \* the Memory of this source
  has_external, has_entry,
  disk,    \* the output files
  results, \* what each input came to (history)
  exit,
  faults

inputVars == <<argv, turn>>
sourceVars == <<held, memory, has_external, has_entry>>
outcomeVars == <<disk, results, exit>>
vars == <<inputVars, pc, err, success, sourceVars, outcomeVars, faults>>

-----------------------------------------------------------------------------
(***************************************************************************)
(* Names.                                                                  *)
(***************************************************************************)

(* toBasename drops the directory, removeFileExtension the last of the parts. *)
OutputName(path) == IF Len(path.name) > 1 THEN Front(path.name) ELSE path.name

(* strlen of a name, with its dots. *)
NameLength(name) ==
  FoldLeft(LAMBDA n, part : n + PartLength[part], Len(name) - 1, name)

Output == {<<OutputName(path), suffix>> :
             path \in UNION {Range(paths) : paths \in Inputs},
             suffix \in {"ob", "ext", "ent"}}

Path == argv[turn]
Name == OutputName(Path)

TooLong == NameLength(Name) + 4 > MAX_FILENAME_LENGTH

(* The guard lets the name through, and the terminator of its listings does  *)
(* not fit.                                                                  *)
Overruns == NameLength(Name) + 4 + 1 > MAX_FILENAME_LENGTH

-----------------------------------------------------------------------------
(***************************************************************************)
(* The memory image.                                                       *)
(***************************************************************************)
newMemory == [data_counter |-> 0, data |-> newManagedArray, code |-> newManagedArray]

freedMemory == [data_counter |-> 0, data |-> Freed, code |-> Freed]

Bytes(array, first, n) == [i \in 1 .. n |-> <<array, first + i>>]

writeData(n, fails) ==
  /\ memory' = [memory EXCEPT
                  !.data_counter = @ + n,
                  !.data = append(@, Bytes("data", memory.data_counter, n), fails)]
  /\ err' = AppendError(memory.data, n, fails)

writeCode(fails) ==
  /\ memory' = [memory EXCEPT
                  !.code = append(@, Bytes("code", memory.code.size, WORD_SIZE), fails)]
  /\ err' = AppendError(memory.code, WORD_SIZE, fails)

-----------------------------------------------------------------------------

NoFile == [turn |-> -1, whole |-> FALSE, text |-> NoText]

(* An output of this input; not whole if it was cut short without an error. *)
File(whole, text) ==
  [turn |-> turn, whole |-> whole, text |-> IF whole THEN text ELSE NoText]

Objects == {"queue", "syms", "memory"}

(* The directory is empty, or holds the files of an earlier run. *)
Init ==
  /\ argv \in Inputs /\ turn = 0
  /\ pc = "main" /\ err = "SUCCESS" /\ success = TRUE
  /\ held = {} /\ memory = freedMemory /\ has_external = FALSE /\ has_entry = FALSE
  /\ \E before \in {-1, 0} : disk = [output \in Output |-> [NoFile EXCEPT !.turn = before]]
  /\ results = <<>> /\ exit = "running" /\ faults = 0

(* Something that fails, or does not. *)
Fault(fails) ==
  /\ fails => faults < MaxFaults
  /\ faults' = IF fails THEN faults + 1 ELSE faults

Outputs(external, entry) ==
  {"ob"} \cup (IF external THEN {"ext"} ELSE {}) \cup (IF entry THEN {"ent"} ELSE {})

(* handleAssemblyFile returns; main looks at its result next. *)
Return(ok, error) ==
  /\ pc' = "returned" /\ success' = ok /\ err' = error
  /\ results' = Append(results, [success |-> ok, err |-> error,
                                 outputs |-> Outputs(has_external, has_entry)])
  /\ UNCHANGED <<inputVars, exit>>

cleanup == held \ Objects

(* A return behind cleanup and the closing of those files. *)
ReturnReleasing(ok, error, closed) ==
  /\ Return(ok, error)
  /\ held' = cleanup \ closed
  /\ memory' = freedMemory
  /\ UNCHANGED <<has_external, has_entry>>

-----------------------------------------------------------------------------
(***************************************************************************)
(* main.                                                                   *)
(***************************************************************************)

NextInput ==
  /\ pc = "main" /\ turn < Len(argv)
  /\ turn' = turn + 1 /\ pc' = "new"
  /\ has_external' = FALSE /\ has_entry' = FALSE
  /\ UNCHANGED <<argv, err, success, held, memory, outcomeVars, faults>>

(* A loop that goes on after any failure. *)
GoOnAlways ==
  /\ pc = "returned"
  /\ pc' = "main"
  /\ UNCHANGED <<inputVars, err, success, sourceVars, outcomeVars, faults>>

(* main goes on whatever the input came to, unless memory ran out. *)
GoOn ==
  /\ pc = "returned" /\ (success \/ err # "ERR_OUT_OF_MEMEORY")
  /\ pc' = "main"
  /\ UNCHANGED <<inputVars, err, success, sourceVars, outcomeVars, faults>>

ExitOutOfMemory ==
  /\ pc = "returned" /\ ~ success /\ err = "ERR_OUT_OF_MEMEORY"
  /\ pc' = "exited" /\ exit' = "1"
  /\ UNCHANGED <<inputVars, err, success, sourceVars, disk, results, faults>>

Exit ==
  /\ pc = "main" /\ turn = Len(argv)
  /\ pc' = "exited" /\ exit' = "0"
  /\ UNCHANGED <<inputVars, err, success, sourceVars, disk, results, faults>>

-----------------------------------------------------------------------------
(***************************************************************************)
(* handleAssemblyFile up to the end of the second pass.                    *)
(***************************************************************************)

(* Every constructor is called, whatever became of the ones before it; what *)
(* was allocated beside an allocation that failed stays behind.             *)
NewObjects ==
  /\ pc = "new"
  /\ \E failed \in {{}} \cup {{object} : object \in Objects} :
       /\ Fault(failed # {})
       /\ held' = Objects \ failed
       /\ memory' = IF "memory" \in failed THEN freedMemory ELSE newMemory
       /\ IF failed = {}
          THEN pc' = "open" /\ err' = "SUCCESS" /\ UNCHANGED <<inputVars, success, results, exit>>
          ELSE Return(FALSE, "ERR_OUT_OF_MEMEORY")
  /\ UNCHANGED <<has_external, has_entry, disk>>

OpenSource ==
  /\ pc = "open"
  /\ \/ /\ pc' = "first" /\ held' = held \cup {"file"}
        /\ UNCHANGED <<inputVars, err, success, memory, has_external, has_entry, results, exit>>
     \/ ReturnReleasing(FALSE, "FILE_OPEN_ERROR", {})
  /\ UNCHANGED <<disk, faults>>

FirstPassWrites ==
  /\ pc = "first" /\ err = "SUCCESS"
  /\ \E n \in ChunkSizes, fails \in BOOLEAN :
       /\ memory.data_counter + n <= MaxData
       /\ fails => Grows(memory.data, n)
       /\ Fault(fails)
       /\ writeData(n, fails)
  /\ UNCHANGED <<inputVars, pc, success, held, has_external, has_entry, outcomeVars>>

(* The first pass has seen whether the source has external symbols. *)
FirstPassAccepts ==
  /\ pc = "first" /\ err = "SUCCESS"
  /\ pc' = "second" /\ held' = held \ {"file"}
  /\ has_external' \in BOOLEAN
  /\ UNCHANGED <<inputVars, err, success, memory, has_entry, outcomeVars, faults>>

(* A pass that is left with the source open. *)
FirstPassRejectsOpen ==
  /\ pc = "first"
  /\ \E error \in {"ERR_EOF", "ERR_OUT_OF_MEMEORY"} :
       /\ err # "SUCCESS" => error = err
       /\ Fault(err = "SUCCESS" /\ error = "ERR_OUT_OF_MEMEORY")
       /\ ReturnReleasing(FALSE, error, {})
  /\ UNCHANGED disk

(* Lines with errors, or an allocation that failed, in this append or in     *)
(* another call.                                                             *)
FirstPassRejects ==
  /\ pc = "first"
  /\ \E error \in {"ERR_EOF", "ERR_OUT_OF_MEMEORY"} :
       /\ err # "SUCCESS" => error = err
       /\ Fault(err = "SUCCESS" /\ error = "ERR_OUT_OF_MEMEORY")
       /\ ReturnReleasing(FALSE, error, {"file"})
  /\ UNCHANGED disk

SecondPassWrites ==
  /\ pc = "second" /\ err = "SUCCESS"
  /\ memory.code.size < WORD_SIZE * MaxWords
  /\ \E fails \in BOOLEAN :
       /\ fails => Grows(memory.code, WORD_SIZE)
       /\ Fault(fails)
       /\ writeCode(fails)
  /\ UNCHANGED <<inputVars, pc, success, held, has_external, has_entry, outcomeVars>>

(* The second pass has seen whether symbols are marked as entries. *)
SecondPassAccepts ==
  /\ pc = "second" /\ err = "SUCCESS"
  /\ pc' = "ob"
  /\ has_entry' \in BOOLEAN
  /\ UNCHANGED <<inputVars, err, success, held, memory, has_external, outcomeVars, faults>>

SecondPassRejects ==
  /\ pc = "second"
  /\ \E error \in {"SUCCESS", "ERR_OUT_OF_MEMEORY"} :
       /\ err # "SUCCESS" => error = err
       /\ Fault(err = "SUCCESS" /\ error = "ERR_OUT_OF_MEMEORY")
       /\ ReturnReleasing(FALSE, error, {})
  /\ UNCHANGED disk

-----------------------------------------------------------------------------
(***************************************************************************)
(* saveOutput, one action per file.  A write that fails, or an ObjectFile  *)
(* that cannot be allocated, is not noticed.                               *)
(***************************************************************************)
(* A listing that is followed by the other one again. *)
NextOutputAgain(suffix) ==
  IF suffix \in {"ob", "ent"} /\ has_external THEN "ext"
  ELSE IF suffix \in {"ob", "ext"} /\ has_entry THEN "ent"
  ELSE "saved"

NextOutput(suffix) ==
  IF suffix = "ob" /\ has_external THEN "ext"
  ELSE IF suffix \in {"ob", "ext"} /\ has_entry THEN "ent"
  ELSE "saved"

Write(suffix, text, goal) ==
  \E whole \in BOOLEAN :
    /\ Fault(~ whole)
    /\ disk' = [disk EXCEPT ![<<Name, suffix>>] = File(whole, text)]
    /\ pc' = goal
    /\ UNCHANGED <<inputVars, err, success, sourceVars, results, exit>>

(* Files that are skipped when they cannot be created. *)
CannotCreateSkipping(suffix) ==
  /\ Fault(TRUE)
  /\ pc' = NextOutput(suffix)
  /\ UNCHANGED <<inputVars, err, success, sourceVars, outcomeVars>>

CannotCreate(suffix) ==
  /\ Fault(TRUE)
  /\ ReturnReleasing(FALSE, "ERR_CREATING_OUTPUT_FILE", {})
  /\ UNCHANGED disk

SaveObject ==
  /\ pc = "ob"
  /\ IF TooLong
     THEN /\ ReturnReleasing(FALSE, "ERR_FILENAME_TOO_LONG", {})
          /\ UNCHANGED <<disk, faults>>
     ELSE \/ CannotCreate("ob")
          \/ Write("ob", toFile(memory.code, memory.data), NextOutput("ob"))

SaveListing(suffix) ==
  /\ pc = suffix /\ suffix \in {"ext", "ent"}
  /\ \/ CannotCreate(suffix)
     \/ Write(suffix, NoText, NextOutput(suffix))

(* The iterator of the listing is used unchecked, with the file created. *)
ListingCrashes(suffix) ==
  /\ pc = suffix /\ suffix \in {"ext", "ent"}
  /\ Fault(TRUE)
  /\ disk' = [disk EXCEPT ![<<Name, suffix>>] = File(FALSE, NoText)]
  /\ pc' = "exited" /\ exit' = "crashed"
  /\ UNCHANGED <<inputVars, err, success, sourceVars, results>>

ReturnSuccess ==
  /\ pc = "saved"
  /\ ReturnReleasing(TRUE, "SUCCESS", {})
  /\ UNCHANGED <<disk, faults>>

(* saveOutput returns with the byte behind its buffer overwritten. *)
Overrun == pc = "saved" /\ Overruns /\ (has_external \/ has_entry)

(* Allocations whose result is used unchecked: the struct of the symbol        *)
(* manager, many in the passes, and the iterator that frees the symbol table.  *)
Unchecked == pc \in {"new", "first", "second", "ob", "ext", "ent", "saved"}

Crash ==
  /\ \/ Unchecked /\ Fault(TRUE)
     \/ Overrun /\ Fault(FALSE)
  /\ pc' = "exited" /\ exit' = "crashed"
  /\ UNCHANGED <<inputVars, err, success, sourceVars, disk, results>>

Terminated == pc = "exited" /\ UNCHANGED vars

Step ==
  \/ NextInput \/ GoOn \/ ExitOutOfMemory \/ Exit
  \/ NewObjects \/ OpenSource \/ FirstPassWrites \/ FirstPassAccepts \/ FirstPassRejects
  \/ SecondPassWrites \/ SecondPassAccepts \/ SecondPassRejects
  \/ SaveObject \/ SaveListing("ext") \/ SaveListing("ent") \/ ReturnSuccess

Next ==
  \/ Step
  \/ ListingCrashes("ext") \/ ListingCrashes("ent") \/ Crash
  \/ Terminated

(* One thread, which runs on until main returns. *)
Spec == Init /\ [][Next]_vars /\ WF_vars(Step)

-----------------------------------------------------------------------------

TypeOK ==
  /\ argv \in Inputs /\ turn \in 0 .. Len(argv)
  /\ pc \in {"main", "new", "open", "first", "second", "ob", "ext", "ent", "saved",
             "returned", "exited"}
  /\ err \in {"SUCCESS", "FILE_OPEN_ERROR", "ERR_EOF", "ERR_OUT_OF_MEMEORY",
              "ERR_FILENAME_TOO_LONG", "ERR_CREATING_OUTPUT_FILE"}
  /\ success \in BOOLEAN /\ has_external \in BOOLEAN /\ has_entry \in BOOLEAN
  /\ held \subseteq Objects \cup {"file"}
  /\ memory.data_counter \in Nat
  /\ \A array \in {memory.data, memory.code} :
       array.size \in Nat /\ array.capacity \in 0 .. TwoTo[SizeBits] - 1
  /\ disk \in [Output -> [turn : -1 .. Len(argv), whole : BOOLEAN, text : {f.text : f \in Range(disk)}]]
  /\ Len(results) <= turn
  /\ exit \in {"running", "0", "1", "crashed"} /\ faults \in 0 .. MaxFaults

(***************************************************************************)
(* What the program keeps of Batch.                                        *)
(***************************************************************************)
OutOfMemory == ~ success /\ err = "ERR_OUT_OF_MEMEORY"

Stage ==
  CASE pc \in {"new", "open", "first", "second"}       -> "reading"
    [] pc \in {"ob", "ext", "ent", "saved"}            -> "writing"
    [] pc = "returned" /\ OutOfMemory                  -> "lost"
    [] pc = "exited"                                   -> "exited"
    [] OTHER                                           -> "between"

Pending ==
  LET entry == IF has_entry THEN <<"ent">> ELSE <<>>
      listings == IF has_external THEN <<"ext">> \o entry ELSE entry
  IN  CASE pc = "ob"  -> <<"ob">> \o listings
        [] pc = "ext" -> listings
        [] pc = "ent" -> entry
        [] OTHER      -> <<>>

Promise == INSTANCE Batch WITH
  stage   <- Stage,
  pending <- Pending,
  done    <- [t \in DOMAIN results |-> results[t].success],
  writer  <- [output \in Output |-> disk[output].turn]

(* The loop of main, handleAssemblyFile and saveOutput keep the promise:     *)
(* whatever fails, the files of an input appear in order and under its name, *)
(* a rejected source writes none, an input that fails does not keep the      *)
(* others from being assembled, and out of memory is the one fatal error.    *)
ImplementsBatch == Promise!Spec

(* When handleAssemblyFile returns or main ends, the queue, the symbols, the *)
(* image and the source file of every input have been released, on each of   *)
(* its ways out but one: objects that were allocated beside one that could   *)
(* not be are left, and then the program exits.                              *)
NothingIsLeftBehind ==
  pc \in {"main", "returned"} \/ exit \in {"0", "1"} =>
    \/ held = {} /\ memory.data.data = NULL /\ memory.code.data = NULL
    \/ OutOfMemory /\ "file" \notin held /\ exit # "0"

(* The images hold the bytes that the passes wrote, each in its place and    *)
(* none twice, through every growth and also when the doubled size wraps;    *)
(* and no byte is ever written outside the block.                            *)
ArraysHoldWhatWasWritten ==
  \A name \in {"data", "code"} :
    LET array == memory[name]
    IN  /\ array.data # NULL =>
             /\ DOMAIN array.data = 0 .. array.capacity - 1
             /\ \A i \in 0 .. array.size - 1 : array.data[i] = <<name, i + 1>>
        /\ pc \in {"first", "second", "ob"} /\ err = "SUCCESS" =>
             /\ array.data # NULL
             /\ name = "data" => array.size = memory.data_counter

(***************************************************************************)
(* The bytes of an object file, by the address its rows give them.         *)
(***************************************************************************)
ByteAt(text, address) ==
  {row.bytes[address - row.address + 1] :
     row \in {r \in Range(text.rows) : address \in r.address .. r.address + Len(r.bytes) - 1}}

(* A whole .ob file, also of an input that is done with: its rows put every  *)
(* byte of the code and then every byte of the data at one address, from 100 *)
(* on, with as many of them as the header says; rows start at multiples of   *)
(* four behind the first.                                                    *)
ObjectFileIsTheImage ==
  \A output \in Output :
    output[2] = "ob" /\ disk[output].whole =>
      LET text == disk[output].text
          code == text.header[1]
          size == text.header[1] + text.header[2]
      IN  /\ \A i \in 0 .. size - 1 :
               ByteAt(text, INSTRUCTION_COUNTER_INITIAL_VALUE + i) =
                 {IF i < code THEN <<"code", i + 1>> ELSE <<"data", i - code + 1>>}
          /\ \A row \in Range(text.rows) :
               /\ row.address % BYTES_PER_LINE = 0 /\ Len(row.bytes) <= BYTES_PER_LINE
               /\ row.address + Len(row.bytes) <= INSTRUCTION_COUNTER_INITIAL_VALUE + size
          /\ disk[output].turn = turn /\ pc \in {"ext", "ent", "saved"} =>
               text.header = <<memory.code.size, memory.data_counter>>

(* At the head of the loop and at the end the files on disk agree with what  *)
(* was reported: an input that succeeded has all its outputs, or a later one *)
(* of that name has overwritten them; a file of this run comes from an input *)
(* of that name which needs it and failed in nothing but in creating a       *)
(* later one; and no listing is newer than the object file beside it.  So a  *)
(* listing is older than its object file only if that source needs none, or  *)
(* it could not be created.                                                  *)
OutputsMatchResults ==
  pc = "main" \/ exit \in {"0", "1"} =>
    /\ \A t \in DOMAIN results : results[t].success =>
         \A suffix \in results[t].outputs : disk[<<OutputName(argv[t]), suffix>>].turn >= t
    /\ \A output \in Output :
         LET t == disk[output].turn
         IN  t > 0 => /\ OutputName(argv[t]) = output[1] /\ output[2] \in results[t].outputs
                      /\ results[t].success \/ results[t].err = "ERR_CREATING_OUTPUT_FILE"
                      /\ disk[<<output[1], "ob">>].turn >= t

(* The program ends, also when files and allocations fail. *)
MainEnds == <>(pc = "exited")
=============================================================================
