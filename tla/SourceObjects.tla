--------------------------- MODULE SourceObjects ---------------------------
(***************************************************************************)
(* The line queue and the symbol table of one source, on their heap, from  *)
(* the first line that is read to the end of cleanup.  The passes decide   *)
(* what is called and where they stop (first_pass.c, second_pass.c); then  *)
(* cleanup of main.c frees the queue and the symbol table in turn.         *)
(*                                                                         *)
(* An allocation whose result is used unchecked, an iterator or a node     *)
(* behind others, ends the process and is left to TwoPass and Driver.      *)
(***************************************************************************)
EXTENDS LineQueue, SymbolTable

CONSTANTS
  Sources,   \* the sequences of lines a source may have
  NoName     \* the name a line without a symbol declares

ASSUME SourcesAssumption == \A source \in Sources : Len(source) \in 1 .. MaxLines

VARIABLES
  source,
  handled,  \* the lines that firstPassHandleLine was called for
  err,      \* the error that keeps the first pass from succeeding
  release   \* what became of the symbol table: held, loop, done

passVars == <<source, handled, err>>
queueVars == <<phase, created, lines, heapVars>>
sourceVars == <<vars, passVars, managerVars, releaseVars, release>>

(* What a line may do with a symbol: [declares, section, is_extern] in the   *)
(* first pass, [refers, name] in the second.                                 *)
NoSymbol == [declares |-> NoName, section |-> "Code", is_extern |-> FALSE,
             refers |-> "not", name |-> NoName]

(* A line stands for its address; code comes before data.                    *)
InstructionCounter == MaxLines

SourceInit ==
  /\ Init /\ newSymbolManager
  /\ source \in Sources /\ handled = 0 /\ err = "SUCCESS" /\ release = "held"

-----------------------------------------------------------------------------
(***************************************************************************)
(* The first pass.                                                         *)
(***************************************************************************)
GoesOn == handled = created /\ err # "ERR_OUT_OF_MEMEORY"

FirstPassReads ==
  /\ PushLine /\ GoesOn /\ created < Len(source)
  /\ UNCHANGED <<passVars, managerVars, releaseVars, release>>

(* firstPassHandleLine. *)
Declares ==
  /\ phase = "first" /\ handled < created
  /\ handled' = created
  /\ LET line == source[created]
     IN  IF line.declares = NoName
         THEN UNCHANGED <<managerVars, err, faults>>
         ELSE \E failed \in SUBSET {"struct", "name", "node"} :
                LET error == InsertError(line.declares, failed)
                IN  /\ faults + Cardinality(failed) <= MaxFaults
                    /\ faults' = faults + Cardinality(failed)
                    /\ insertSymbol(line.declares, IF line.is_extern THEN 0 ELSE created,
                                    line.is_extern, line.section, failed)
                    /\ err' = IF error = "SUCCESS" THEN err ELSE error
  /\ UNCHANGED <<queueVars, source, releaseVars, release>>

(* However the first pass ends, the data symbols are shifted. *)
FirstPassEnds ==
  /\ \/ EndFirstPass /\ handled = created
     \/ DropLine /\ GoesOn /\ created < Len(source)
  /\ phase' = "second" => err = "SUCCESS" /\ created = Len(source)
  /\ fixDataSymbolsOffset(InstructionCounter)
  /\ UNCHANGED <<passVars, releaseVars, release>>

-----------------------------------------------------------------------------
(***************************************************************************)
(* The second pass, and the release.                                       *)
(***************************************************************************)

(* A line is popped, refers to its symbol and is freed. *)
Refers ==
  /\ PopLine
  /\ LET line == source[data[head]]
     IN  CASE line.refers = "use" ->
                \E failed \in SUBSET {"offsets"} :
                  /\ failed # {} => exists(line.name) /\ phase' = "cleanup"
                  /\ useSymbol(line.name, data[head], failed)
           [] line.refers = "mark" -> markSymEntry(line.name)
           [] OTHER -> UNCHANGED managerVars
  /\ UNCHANGED <<passVars, releaseVars, release>>

QueueEnds ==
  /\ EndSecondPass \/ FreeLine \/ FreeQueue
  /\ UNCHANGED <<passVars, managerVars, releaseVars, release>>

ReleaseBegins ==
  /\ phase = "done" /\ release = "held"
  /\ release' = "loop" /\ BeginFree
  /\ UNCHANGED <<vars, passVars>>

SymbolIsFreed ==
  /\ release = "loop" /\ FreeNode
  /\ UNCHANGED <<vars, passVars, release>>

ReleaseEnds ==
  /\ release = "loop" /\ node = None
  /\ release' = "done"
  /\ UNCHANGED <<vars, passVars, managerVars, releaseVars>>

Released == release = "done" /\ UNCHANGED sourceVars

SourceStep ==
  \/ FirstPassReads \/ Declares \/ FirstPassEnds \/ Refers \/ QueueEnds
  \/ ReleaseBegins \/ SymbolIsFreed \/ ReleaseEnds

SourceNext == SourceStep \/ Released

SourceSpec == SourceInit /\ [][SourceNext]_sourceVars /\ WF_sourceVars(SourceStep)

-----------------------------------------------------------------------------
(***************************************************************************)
(* The symbol table that the list stands for, oldest symbol first.         *)
(***************************************************************************)
Reached == {k \in DOMAIN SymbolAt : SymbolAt[k] # None}

Meaning(sym) ==
  [field \in DOMAIN fields[sym] \ {"dependent_offsets_count"} |-> fields[sym][field]]

Symbols ==
  [i \in 1 .. Cardinality(Reached) |-> Meaning(SymbolAt[Cardinality(Reached) - i])]

Table == INSTANCE SymbolManager WITH symtab <- Symbols, ByteBits <- 8, AddressBits <- 25

(* Until cleanup the list of nodes is the symbol table that the two passes   *)
(* rely on: what a declaration, a reference, an .entry and the shift do to   *)
(* the heap is what SymbolManager says they do, also when an allocation in   *)
(* them fails, and nothing else touches the table.                           *)
ImplementsTable ==
  /\ Table!newSymbolManager
  /\ [][\/ phase = "done"
        \/ /\ phase = "first" /\ handled < created
           /\ \E failed \in SUBSET {"symbol", "node"} :
                LET line == source[created]
                IN  Table!insertSymbol(line.declares, IF line.is_extern THEN 0 ELSE created,
                                       line.is_extern, line.section, failed)
        \/ phase = "first" /\ phase' # "first" /\ Table!fixDataSymbolsOffset(InstructionCounter)
        \/ /\ phase = "second" /\ head # NULL
           /\ LET line == source[data[head]]
              IN  \/ line.refers = "mark" /\ Table!markSymEntry(line.name)
                  \/ \E failed \in SUBSET {"offsets"} :
                       line.refers = "use" /\ Table!useSymbol(line.name, data[head], failed)
     ]_<<Symbols, has_external, has_entry>>

(* Every pointer that will be followed leads to what is allocated: along the *)
(* list to each node, its Symbol, the name and the offsets, none of them     *)
(* twice; in the loop that frees them to the node at hand and to the one     *)
(* behind it.  And while the listings can still be written, as many offsets  *)
(* are counted as there are.                                                 *)
SymbolsAreLive ==
  /\ release = "held" =>
       /\ SymbolAt[Len(fields)] = None
       /\ \A j, k \in Reached : SymbolAt[j] = SymbolAt[k] => j = k
       /\ \A k \in Reached :
            LET sym == SymbolAt[k]
            IN  /\ sym \in listed \cap structs \cap names
                /\ fields[sym].dependent_offsets # <<>> => sym \in arrays
                /\ phase \in {"first", "second"} =>
                     fields[sym].dependent_offsets_count = Len(fields[sym].dependent_offsets)
  /\ release = "loop" =>
       /\ {node, iterator} \subseteq listed \cup {None}
       /\ node # None => node \in structs \cap names /\ node # iterator

(* "this function takes ownership" (symtab.h): once the symbol table is      *)
(* freed nothing of any symbol is left, however often a name was declared    *)
(* and used and wherever the passes stopped; and each allocation that failed *)
(* costs at most the rest of one symbol.                                     *)
SymbolsAreFreed ==
  release = "done" => listed = {} /\ Cardinality(structs \cup names \cup arrays) <= faults

(* The loop that frees the table ends. *)
TableIsFreed == <>(release = "done")

-----------------------------------------------------------------------------
(***************************************************************************)
(* Why they hold.                                                          *)
(***************************************************************************)
Addresses == 1 .. Len(fields)

Members == DOMAIN newSymbol(NoName, 0, FALSE, "Code")

IsSymbol(sym) ==
  /\ DOMAIN sym = Members /\ sym = [field \in Members |-> sym[field]]
  /\ sym.dependent_offsets \in Seq(Nat) /\ sym.dependent_offsets_count \in Nat

SymbolTypeOK ==
  /\ Len(fields) \in Nat /\ DOMAIN fields = Addresses
  /\ fields = [sym \in Addresses |-> fields[sym]]
  /\ \A sym \in Addresses : IsSymbol(fields[sym])
  /\ following \in Seq(Addresses \cup {None}) /\ Len(following) = Len(fields)
  /\ structs \subseteq Addresses /\ names \subseteq Addresses
  /\ arrays \subseteq Addresses /\ listed \subseteq Addresses
  /\ {first, node, iterator} \subseteq Addresses \cup {None}
  /\ release \in {"held", "loop", "done"}

(* Where the list begins: the loop that frees it has freed what is above.     *)
Newest == IF release = "held" THEN first ELSE node

(* The nodes that are allocated form a list, from the newest to the oldest.   *)
ListedInOrder(m, u) ==
  /\ u \in [1 .. m -> listed]
  /\ \A i, j \in 1 .. m : i < j => u[i] < u[j]
  /\ \A sym \in listed : \E i \in 1 .. m : u[i] = sym
  /\ Newest = IF m = 0 THEN None ELSE u[m]
  /\ \A i \in 1 .. m : following[u[i]] = IF i = 1 THEN None ELSE u[i - 1]

(* The iterator is one node ahead of the loop, which begins after the passes. *)
IteratorIsAhead ==
  release # "held" =>
    /\ phase = "done" /\ iterator = IF node = None THEN None ELSE following[node]
    /\ release = "done" => node = None

PartsAreAllocated ==
  /\ listed \subseteq structs \cap names
  /\ \A sym \in listed : fields[sym].dependent_offsets # <<>> => sym \in arrays
  /\ phase \in {"first", "second"} =>
       \A sym \in Addresses :
         fields[sym].dependent_offsets_count = Len(fields[sym].dependent_offsets)

(* What no node leads to, or no symbol; each piece is paid for by a failure.  *)
Lost == ((structs \cup names \cup arrays) \ listed)
          \cup {sym \in arrays : fields[sym].dependent_offsets = <<>>}

SymbolInvariant ==
  /\ SymbolTypeOK /\ IteratorIsAhead /\ PartsAreAllocated
  /\ \E m \in 0 .. Len(fields) : \E u \in [1 .. m -> listed] : ListedInOrder(m, u)
  /\ Cardinality(Lost) <= faults
=============================================================================
