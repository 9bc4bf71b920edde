---------------------------- MODULE SymbolTable ----------------------------
(***************************************************************************)
(* symtab.c on a heap: every Symbol with its name and its array of offsets, *)
(* and the list nodes that lead to them.  Symbols are numbered as they are *)
(* created, a number serves as the address of all four blocks of a symbol, *)
(* and no address is used twice: what was freed stays recognisable.        *)
(***************************************************************************)
EXTENDS Integers, Sequences, FiniteSets, FiniteSetsExt, Functions

None == 0  \* the null pointer

VARIABLES
  fields,     \* the Symbol of each number
  structs, names, arrays, listed,  \* which Symbols, names, dependent_offsets
                                   \* and ListNodes are allocated
  following,  \* the field next of each ListNode
  first,      \* the field head of the SymbolTable
  has_external, has_entry,
  node, iterator  \* of SymbolTable_free: the node at hand, and the one behind it

tableVars == <<listed, following, first>>
managerVars == <<fields, structs, names, arrays, tableVars, has_external, has_entry>>
releaseVars == <<node, iterator>>

newSymbolManager ==
  /\ fields = <<>> /\ following = <<>> /\ first = None
  /\ structs = {} /\ names = {} /\ arrays = {} /\ listed = {}
  /\ has_external = FALSE /\ has_entry = FALSE
  /\ node = None /\ iterator = None

newSymbol(name, val, is_external, section) ==
  [symbol |-> name, value |-> val, is_entry |-> FALSE, is_external |-> is_external,
   section |-> section, dependent_offsets |-> <<>>, dependent_offsets_count |-> 0]

-----------------------------------------------------------------------------

(* The node an iterator returns at its k-th call, None behind the last one. *)
SymbolAt ==
  LET at[k \in 0 .. Len(fields)] ==
        IF k = 0 THEN first ELSE IF at[k - 1] = None THEN None ELSE following[at[k - 1]]
  IN  at

(* SymbolTable_find. *)
find(name) ==
  LET hits == {k \in DOMAIN SymbolAt : SymbolAt[k] # None /\ fields[SymbolAt[k]].symbol = name}
  IN  IF hits = {} THEN None ELSE SymbolAt[Min(hits)]

exists(name) == find(name) # None

(* insertSymbol that links the symbol before it looks for another one. *)
insertSymbolLinkingFirst(name, val, is_extern, section, failed) ==
  LET sym    == Len(fields) + 1
      kept   == failed \cap {"struct", "name"} = {} /\ ~ exists(name)
      linked == failed = {}
  IN  /\ "node" \in failed => first = None
      /\ fields' = Append(fields, newSymbol(name, val, is_extern, section))
      /\ following' = Append(following, IF linked THEN first ELSE None)
      /\ first' = IF linked THEN sym ELSE first
      /\ listed' = IF linked THEN listed \cup {sym} ELSE listed
      /\ structs' = IF kept THEN structs \cup {sym} ELSE structs
      /\ names' = IF kept THEN names \cup {sym} ELSE names
      /\ UNCHANGED <<arrays, has_external, has_entry>>

(***************************************************************************)
(* insertSymbol, with SymbolTable_insert.  Of a Symbol and its name one is *)
(* left behind when the other one cannot be allocated, and both when there *)
(* is no node for the first symbol of a table, which counts as success; a  *)
(* duplicate is freed.  A node that is missing behind others ends the      *)
(* process, so it is not among the failures.                               *)
(***************************************************************************)
Created(failed) == failed \cap {"struct", "name"} = {}

InsertError(name, failed) ==
  IF ~ Created(failed) THEN "ERR_OUT_OF_MEMEORY"
  ELSE IF exists(name) THEN "ERR_DUPLICATE_SYMBOL" ELSE "SUCCESS"

insertSymbol(name, val, is_extern, section, failed) ==
  LET sym       == Len(fields) + 1
      duplicate == InsertError(name, failed) = "ERR_DUPLICATE_SYMBOL"
      linked    == failed = {} /\ ~ duplicate
      Kept(part) == IF part \in failed \/ duplicate THEN {} ELSE {sym}
  IN  /\ "node" \in failed => first = None
      /\ fields' = Append(fields, newSymbol(name, val, is_extern, section))
      /\ following' = Append(following, IF linked THEN first ELSE None)
      /\ first' = IF linked THEN sym ELSE first
      /\ listed' = IF linked THEN listed \cup {sym} ELSE listed
      /\ structs' = structs \cup Kept("struct") /\ names' = names \cup Kept("name")
      /\ has_external' = (has_external \/ (is_extern /\ Created(failed)))
      /\ UNCHANGED <<arrays, has_entry>>

markSymEntry(name) ==
  LET sym    == find(name)
      marked == sym # None /\ ~ fields[sym].is_external
  IN  /\ fields' = IF marked THEN [fields EXCEPT ![sym].is_entry = TRUE] ELSE fields
      /\ has_entry' = (has_entry \/ marked)
      /\ UNCHANGED <<structs, names, arrays, tableVars, has_external>>

(***************************************************************************)
(* useSymbol: an array for the first offset, a longer one for each further *)
(* one.  When that fails the pointer to the old array is overwritten; the  *)
(* count stays.                                                            *)
(***************************************************************************)
useSymbol(name, offset, failed) ==
  LET sym   == find(name)
      grown == "offsets" \notin failed
  IN  /\ fields' =
           IF sym = None THEN fields
           ELSE [fields EXCEPT
                   ![sym].dependent_offsets = IF grown THEN Append(@, offset) ELSE <<>>,
                   ![sym].dependent_offsets_count = IF grown THEN @ + 1 ELSE @]
      /\ arrays' = IF sym # None /\ grown THEN arrays \cup {sym} ELSE arrays
      /\ UNCHANGED <<structs, names, tableVars, has_external, has_entry>>

(* A shift that calls the iterator once before its loop. *)
fixDataSymbolsOffsetBehindFirst(offset) ==
  /\ fields' = [sym \in DOMAIN fields |->
       IF sym \notin Range(SymbolAt) \ {first} \/ fields[sym].section # "Data"
          \/ fields[sym].is_external
       THEN fields[sym]
       ELSE [fields[sym] EXCEPT !.value = @ + offset]]
  /\ UNCHANGED <<structs, names, arrays, tableVars, has_external, has_entry>>

(* fixDataSymbolsOffset, of the symbols that an iterator reaches. *)
fixDataSymbolsOffset(offset) ==
  /\ fields' = [sym \in DOMAIN fields |->
       IF sym \notin Range(SymbolAt) \/ fields[sym].section # "Data" \/ fields[sym].is_external
       THEN fields[sym]
       ELSE [fields[sym] EXCEPT !.value = @ + offset]]
  /\ UNCHANGED <<structs, names, arrays, tableVars, has_external, has_entry>>

-----------------------------------------------------------------------------
(***************************************************************************)
(* SymbolTable_free: an iterator over the list that is being freed.        *)
(***************************************************************************)

(* newListIterator, and its first call of ListIterator_next. *)
BeginFree ==
  /\ node' = first
  /\ iterator' = IF first = None THEN None ELSE following[first]
  /\ UNCHANGED managerVars

(* A Symbol_free without the offsets. *)
Symbol_freeTwo(sym) ==
  structs' = structs \ {sym} /\ names' = names \ {sym} /\ UNCHANGED arrays

Symbol_free(sym) ==
  /\ structs' = structs \ {sym} /\ names' = names \ {sym}
  /\ arrays' = IF fields[sym].dependent_offsets = <<>> THEN arrays ELSE arrays \ {sym}

(* A round that does not advance the iterator. *)
FreeNodeStuck ==
  /\ node # None
  /\ listed' = listed \ {node} /\ Symbol_free(node)
  /\ node' = iterator
  /\ UNCHANGED <<fields, following, first, has_external, has_entry, iterator>>

(* One round of the loop. *)
FreeNode ==
  /\ node # None
  /\ listed' = listed \ {node} /\ Symbol_free(node)
  /\ node' = iterator
  /\ iterator' = IF iterator = None THEN None ELSE following[iterator]
  /\ UNCHANGED <<fields, following, first, has_external, has_entry>>

=============================================================================
