--------------------------- MODULE SymbolManager ---------------------------
(***************************************************************************)
(* symtab.c: the symbol table and the operations on it.  The list is kept  *)
(* as a sequence whose last element is the head of the list.  An operation *)
(* that allocates takes the set of its allocations that fail, a subset of  *)
(* {"symbol", "node", "offsets"}; a failure that ends in a NULL dereference *)
(* is not an outcome of the operation (see Crash in TwoPass).              *)
(***************************************************************************)
EXTENDS Tokens, Sequences

VARIABLES
  symtab,        \* the symbols, oldest first
  has_external,  \* an external symbol was inserted, or tried
  has_entry      \* some symbol was marked as an entry

symbolVars == <<symtab, has_external, has_entry>>

Sections == {"Code", "Data"}

Symbol == [symbol : Token, value : Int, is_entry : BOOLEAN, is_external : BOOLEAN,
           section : Sections, dependent_offsets : Seq(Int)]

SymbolManagerTypeOK ==
  symtab \in Seq(Symbol) /\ has_external \in BOOLEAN /\ has_entry \in BOOLEAN

newSymbolManager == symtab = <<>> /\ has_external = FALSE /\ has_entry = FALSE

newSymbol(name, val, is_external, section) ==
  [symbol |-> name, value |-> val, is_entry |-> FALSE, is_external |-> is_external,
   section |-> section, dependent_offsets |-> <<>>]

-----------------------------------------------------------------------------

exists(name) == \E i \in DOMAIN symtab : symtab[i].symbol = name

(* The position of the first symbol of that name, from the head of the list. *)
find(name) ==
  CHOOSE i \in DOMAIN symtab :
    symtab[i].symbol = name /\ \A j \in DOMAIN symtab : j > i => symtab[j].symbol # name

(* insert that takes over the address of a second declaration. *)
insertSymbolReplacing(name, val, is_extern, section, failed) ==
  /\ "node" \in failed => symtab = <<>>
  /\ symtab' = IF exists(name)
               THEN [symtab EXCEPT ![find(name)].value = val]
               ELSE Append(symtab, newSymbol(name, val, is_extern, section))
  /\ has_external' = (has_external \/ is_extern)
  /\ UNCHANGED has_entry

(***************************************************************************)
(* insertSymbol.  Into an empty table a list node that cannot be allocated *)
(* loses the symbol without an error.  has_external is set even when the   *)
(* symbol is a duplicate and is not inserted.                              *)
(***************************************************************************)
InsertError(name, failed) ==
  IF "symbol" \in failed THEN "ERR_OUT_OF_MEMEORY"
  ELSE IF exists(name) THEN "ERR_DUPLICATE_SYMBOL" ELSE "SUCCESS"

insertSymbol(name, val, is_extern, section, failed) ==
  /\ "node" \in failed => symtab = <<>>
  /\ symtab' = IF InsertError(name, failed) = "SUCCESS" /\ "node" \notin failed
               THEN Append(symtab, newSymbol(name, val, is_extern, section))
               ELSE symtab
  /\ has_external' = (has_external \/ (is_extern /\ "symbol" \notin failed))
  /\ UNCHANGED has_entry

(* The check of markSymEntry without its second test. *)
EntryErrorOfAny(name) == IF exists(name) THEN "SUCCESS" ELSE "ERR_ENTRY_SYM_NOT_FOUND"

(***************************************************************************)
(* markSymEntry, of the .entry directive.                                  *)
(***************************************************************************)
EntryError(name) ==
  IF ~ exists(name) THEN "ERR_ENTRY_SYM_NOT_FOUND"
  ELSE IF symtab[find(name)].is_external
       THEN "ERR_SYMBOL_CANNOT_BE_ENTRY_AND_EXTERN"
       ELSE "SUCCESS"

markSymEntry(name) ==
  /\ IF EntryError(name) = "SUCCESS"
     THEN symtab' = [symtab EXCEPT ![find(name)].is_entry = TRUE] /\ has_entry' = TRUE
     ELSE UNCHANGED <<symtab, has_entry>>
  /\ UNCHANGED has_external

(* useSymbol that keeps the last offset only. *)
useSymbolOnce(name, offset, failed) ==
  /\ symtab' = IF exists(name)
               THEN [symtab EXCEPT ![find(name)].dependent_offsets = <<offset>>]
               ELSE symtab
  /\ UNCHANGED <<has_external, has_entry>>

(***************************************************************************)
(* useSymbol: the instruction at offset refers to the symbol.  The offsets *)
(* are lost when the array that holds them cannot grow.                    *)
(***************************************************************************)
useSymbol(name, offset, failed) ==
  /\ symtab' =
       IF exists(name)
       THEN [symtab EXCEPT ![find(name)].dependent_offsets =
               IF "offsets" \in failed THEN <<>> ELSE Append(@, offset)]
       ELSE symtab
  /\ UNCHANGED <<has_external, has_entry>>

(* fixDataSymbolsOffset that does not look at the section. *)
fixAllSymbolsOffset(offset) ==
  /\ symtab' = [i \in DOMAIN symtab |->
       IF symtab[i].is_external THEN symtab[i]
       ELSE [symtab[i] EXCEPT !.value = @ + offset]]
  /\ UNCHANGED <<has_external, has_entry>>

(***************************************************************************)
(* fixDataSymbolsOffset: the data image is put after the code image.       *)
(***************************************************************************)
fixDataSymbolsOffset(offset) ==
  /\ symtab' = [i \in DOMAIN symtab |->
       IF symtab[i].section # "Data" \/ symtab[i].is_external
       THEN symtab[i]
       ELSE [symtab[i] EXCEPT !.value = @ + offset]]
  /\ UNCHANGED <<has_external, has_entry>>

-----------------------------------------------------------------------------

(* The lines of the .ext and .ent files: a symbol's name and an address. *)
writeExtFile ==
  UNION {{<<symtab[i].symbol, symtab[i].dependent_offsets[j]>> :
            j \in DOMAIN symtab[i].dependent_offsets} :
         i \in {i \in DOMAIN symtab : symtab[i].is_external}}

writeEntFile ==
  {<<symtab[i].symbol, symtab[i].value>> : i \in {j \in DOMAIN symtab : symtab[j].is_entry}}
=============================================================================
