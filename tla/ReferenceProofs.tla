--------------------------- MODULE ReferenceProofs ---------------------------
(***************************************************************************)
(* Proof of what the words and the listings say: which symbol a word       *)
(* refers to, where it leads, and which symbols are external and entries.  *)
(***************************************************************************)
EXTENDS AddressProofs

-----------------------------------------------------------------------------
(***************************************************************************)
(* What no step does to a symbol.                                          *)
(***************************************************************************)
LEMMA UntouchedKept == UNCHANGED symbolVars => SymbolsKept
BY DEF symbolVars, SymbolsKept

LEMMA SymbolsKeptStep ==
  ASSUME TypeInvariant, AddressInvariant, Next, ~ FinishFirstPass
  PROVE  SymbolsKept
<1>1. symtab \in Seq(Symbol) /\ UniqueSymbols
  BY DEF TypeInvariant, TypeOK, SymbolManagerTypeOK, AddressInvariant
<1>2. CASE FirstLine \/ NextLine \/ NoNextLine \/ HandleIgnored \/ HandleEntry
  <2>1. UNCHANGED symbolVars
    BY <1>2 DEF FirstLine, NextLine, NoNextLine, HandleIgnored, HandleEntry
  <2> QED BY <2>1, UntouchedKept
<1>3. CASE HandleExtern
  <2>1. \/ UNCHANGED symbolVars
        \/ \E failed : insertSymbol(Current.args[1], 0, TRUE, "Data", failed)
    BY <1>3 DEF HandleExtern
  <2> QED BY <1>1, <2>1, UntouchedKept, InsertKeeps
<1>4. CASE HandleData
  <2>1. PICK failed : DeclareLabel(data_counter, "Data", failed)
    BY <1>4 DEF HandleData
  <2> QED BY <2>1, DeclareKeeps
<1>5. CASE HandleCode
  <2>1. PICK failed : DeclareLabel(instruction_counter, "Code", failed)
    BY <1>5 DEF HandleCode
  <2> QED BY <2>1, DeclareKeeps
<1>6. CASE PopIgnored \/ FinishSecondPass \/ Crash \/ Terminated
  <2>1. UNCHANGED symbolVars
    BY <1>6 DEF PopIgnored, FinishSecondPass, Crash, Terminated, vars
  <2> QED BY <2>1, UntouchedKept
<1>7. CASE PopEntry
  <2>1. UNCHANGED symbolVars \/ markSymEntry(First.args[1])
    BY <1>7 DEF PopEntry
  <2> QED BY <1>1, <2>1, UntouchedKept, MarkKeeps
<1>8. CASE PopCode
  <2>1. \/ UNCHANGED symbolVars
        \/ \E failed : useSymbol(UsedSymbol(First), First.code_position, failed)
    BY <1>8 DEF PopCode
  <2> QED BY <1>1, <2>1, UntouchedKept, UseKeeps
<1> QED BY <1>2, <1>3, <1>4, <1>5, <1>6, <1>7, <1>8 DEF Next, FirstPass, SecondPass

(* The shift moves addresses and changes nothing else. *)
LEMMA FixKeeps ==
  ASSUME symtab \in Seq(Symbol), NEW offset, fixDataSymbolsOffset(offset)
  PROVE  /\ DOMAIN symtab' = DOMAIN symtab
         /\ \A s \in DOMAIN symtab :
              /\ symtab'[s].symbol = symtab[s].symbol
              /\ symtab'[s].is_external = symtab[s].is_external
              /\ symtab'[s].is_entry = symtab[s].is_entry
              /\ symtab'[s].dependent_offsets = symtab[s].dependent_offsets
<1>1. DOMAIN symtab' = DOMAIN symtab
  BY DEF fixDataSymbolsOffset
<1>2. ASSUME NEW s \in DOMAIN symtab
      PROVE  /\ symtab'[s].symbol = symtab[s].symbol
             /\ symtab'[s].is_external = symtab[s].is_external
             /\ symtab'[s].is_entry = symtab[s].is_entry
             /\ symtab'[s].dependent_offsets = symtab[s].dependent_offsets
  <2>1. symtab[s] \in Symbol
    OBVIOUS
  <2>2. symtab'[s] = symtab[s] \/ symtab'[s] = [symtab[s] EXCEPT !.value = @ + offset]
    BY DEF fixDataSymbolsOffset
  <2> QED BY <2>1, <2>2 DEF Symbol
<1> QED BY <1>1, <1>2

(* No step removes a symbol, renames it, or turns a local one into an        *)
(* external one, and only the shift at the end of the first pass changes an  *)
(* address, whatever allocations fail.                                       *)
THEOREM SymbolsAreNotDisturbed == Spec => SymbolsStayPut
<1> DEFINE Put == \A i \in DOMAIN symtab :
                    /\ i \in DOMAIN symtab'
                    /\ symtab'[i].symbol = symtab[i].symbol
                    /\ symtab'[i].is_external = symtab[i].is_external
                    /\ pc # "fix" => symtab'[i].value = symtab[i].value
<1>1. TypeInvariant /\ AddressInvariant /\ [Next]_vars => [Put]_vars
  <2> SUFFICES ASSUME TypeInvariant, AddressInvariant, Next PROVE Put
    OBVIOUS
  <2>1. CASE FinishFirstPass
    <3>1. pc = "fix" /\ fixDataSymbolsOffset(instruction_counter) /\ symtab \in Seq(Symbol)
      BY <2>1 DEF FinishFirstPass, TypeInvariant, TypeOK, SymbolManagerTypeOK
    <3> QED BY <3>1, FixKeeps
  <2>2. CASE ~ FinishFirstPass
    BY <2>2, SymbolsKeptStep DEF SymbolsKept
  <2> QED BY <2>1, <2>2
<1> QED BY <1>1, AddressInductive, PTL DEF Spec, SymbolsStayPut

-----------------------------------------------------------------------------
(***************************************************************************)
(* The queue when its nodes cannot be allocated.                           *)
(***************************************************************************)
LEMMA PushKeepsOrder ==
  ASSUME TypeInvariant, QueueEndsWithLast, QueueHasNoHole, pc \in {"open", "read"},
         NEW failed, push(Len(lines) + 1, failed), Len(lines') = Len(lines) + 1,
         pc' \in {"handle", "fix"}
  PROVE  QueueEndsWithLast' /\ QueueHasNoHole'
<1>1. /\ queue \in Seq(Nat) /\ Len(queue) \in Nat /\ Len(lines) \in Nat
      /\ DOMAIN queue = 1 .. Len(queue)
  BY DEF TypeInvariant, TypeOK
<1>2. CASE "queue_node" \in failed
  BY <1>2 DEF push, QueueEndsWithLast, QueueHasNoHole
<1>3. CASE "queue_node" \notin failed /\ tail_linked
  <2> DEFINE n == Len(queue)
  <2>1. /\ Len(queue') = n + 1 /\ queue'[n + 1] = Len(lines) + 1
        /\ \A k \in 1 .. n : queue'[k] = queue[k]
    BY <1>1, <1>3 DEF push
  <2>2. QueueEndsWithLast'
    BY <2>1 DEF QueueEndsWithLast
  <2>3. ASSUME NEW k \in 1 .. Len(queue') - 1 PROVE queue'[k + 1] = queue'[k] + 1
    <3>1. n \in Nat /\ k \in 1 .. n
      <4>1. Len(queue') - 1 = n
        BY <1>1, <2>1
      <4> QED BY <1>1, <2>3, <4>1
    <3> HIDE DEF n
    <3>2. CASE k = n
      <4>1. queue # <<>> /\ queue[k] = Len(lines)
        BY <1>1, <1>3, <3>1, <3>2 DEF QueueEndsWithLast, n
      <4> QED BY <1>1, <2>1, <3>1, <3>2, <4>1
    <3>3. CASE k # n
      <4>1. k \in 1 .. n - 1 /\ k + 1 \in 1 .. n
        BY <3>1, <3>3
      <4>2. queue[k + 1] = queue[k] + 1
        BY <4>1 DEF QueueHasNoHole, n
      <4> QED BY <2>1, <3>1, <4>1, <4>2
    <3> QED BY <3>2, <3>3
  <2> QED BY <2>2, <2>3 DEF QueueHasNoHole
<1>4. CASE "queue_node" \notin failed /\ ~ tail_linked
  BY <1>4 DEF push, QueueEndsWithLast, QueueHasNoHole
<1> QED BY <1>2, <1>3, <1>4

LEMMA QueueStep ==
  ASSUME TypeInvariant, QueueEndsWithLast, QueueHasNoHole, [Next]_vars
  PROVE  QueueEndsWithLast' /\ QueueHasNoHole'
<1>1. /\ queue \in Seq(Nat) /\ Len(queue) \in Nat /\ Len(lines) \in Nat
      /\ Len(source) = Len(lines) /\ lines \in Seq(AssemblyLine)
  BY DEF TypeInvariant, TypeOK, LinesAreKept
<1>2. ASSUME UNCHANGED queueVars, Len(lines') = Len(lines), pc \in {"handle", "read"}
      PROVE  pc' # "open" => QueueEndsWithLast' /\ QueueHasNoHole'
  BY <1>2 DEF queueVars, QueueEndsWithLast, QueueHasNoHole
<1>3. ASSUME UNCHANGED queueVars, pc' \notin {"open", "handle", "read"}
      PROVE  QueueEndsWithLast' /\ QueueHasNoHole'
  BY <1>3 DEF queueVars, QueueEndsWithLast, QueueHasNoHole
<1>4. CASE FirstLine
  <2>1. PICK raw, failed, kept : Parse(raw, kept) /\ push(1, failed)
    BY <1>4 DEF FirstLine
  <2>2. pc = "open" /\ pc' \in {"handle", "fix"} /\ lines = <<>>
    BY <1>4 DEF FirstLine, QueueEndsWithLast
  <2>3. Len(lines) + 1 = 1
    BY <2>2
  <2>4. Len(lines') = Len(lines) + 1
    BY <1>1, <2>1, AppendAnything DEF Parse
  <2> QED BY <2>1, <2>2, <2>3, <2>4, PushKeepsOrder
<1>5. CASE NextLine
  <2>1. PICK raw, failed, kept :
          /\ Parse(raw, kept)
          /\ IF err' = "ERR_OUT_OF_MEMEORY" THEN UNCHANGED queueVars
             ELSE push(Len(source) + 1, failed)
    BY <1>5 DEF NextLine
  <2>2. /\ pc = "read" /\ pc' \in {"handle", "fix"}
        /\ err' = "ERR_OUT_OF_MEMEORY" => pc' = "fix"
    BY <1>5 DEF NextLine
  <2>3. Len(lines') = Len(lines) + 1
    BY <1>1, <2>1, AppendAnything DEF Parse
  <2>4. CASE err' = "ERR_OUT_OF_MEMEORY"
    BY <1>3, <2>1, <2>2, <2>4
  <2>5. CASE err' # "ERR_OUT_OF_MEMEORY"
    BY <1>1, <2>1, <2>2, <2>3, <2>5, PushKeepsOrder
  <2> QED BY <2>4, <2>5
<1>6. CASE HandleIgnored \/ HandleEntry \/ HandleExtern \/ HandleData \/ HandleCode
  <2>1. PICK error : Handled(error)
    BY <1>6 DEF HandleIgnored, HandleEntry, HandleExtern, HandleData, HandleCode
  <2>2. pc = "handle" /\ UNCHANGED queueVars /\ pc' # "open"
    BY <1>6, <2>1 DEF HandleIgnored, HandleEntry, HandleExtern, HandleData, HandleCode,
                      Handling, Handled
  <2>3. Len(lines') = Len(lines)
    <3>1. \/ lines' = lines
          \/ lines' = [lines EXCEPT ![Len(lines)].code_position = instruction_counter]
      BY <1>6 DEF HandleIgnored, HandleEntry, HandleExtern, HandleData, HandleCode
    <3>2. ASSUME NEW l PROVE Len([lines EXCEPT ![Len(lines)] = l]) = Len(lines)
      BY <1>1
    <3> QED BY <3>1, <3>2
  <2> QED BY <1>2, <2>2, <2>3
<1>7. CASE PopIgnored \/ PopEntry \/ PopCode
  <2>1. PICK error : Popped(error)
    BY <1>7 DEF PopIgnored, PopEntry, PopCode
  <2>2. queue' = Tail(queue) /\ pc' \in {"second", "rejected"} /\ queue # <<>>
    BY <1>7, <2>1 DEF PopIgnored, PopEntry, PopCode, Popping, Popped, pop
  <2>3. Len(queue') = Len(queue) - 1 /\ \A k \in 1 .. Len(queue) - 1 : queue'[k] = queue[k + 1]
    BY <1>1, <2>2
  <2> DEFINE n == Len(queue)
  <2>4. ASSUME NEW k \in 1 .. Len(queue') - 1 PROVE queue'[k + 1] = queue'[k] + 1
    <3>1. n \in Nat /\ k \in 1 .. n - 2
      <4>1. Len(queue') - 1 = n - 2
        BY <1>1, <2>3
      <4> QED BY <1>1, <2>4, <4>1
    <3>2. \A j \in 1 .. n - 1 : queue'[j] = queue[j + 1]
      BY <2>3
    <3>3. \A j \in 1 .. n - 1 : queue[j + 1] = queue[j] + 1
      BY DEF QueueHasNoHole
    <3> HIDE DEF n
    <3>4. k \in 1 .. n - 1 /\ k + 1 \in 1 .. n - 1
      BY <3>1
    <3> QED BY <3>2, <3>3, <3>4
  <2>5. QueueHasNoHole'
    BY <2>4 DEF QueueHasNoHole
  <2> QED BY <2>2, <2>5 DEF QueueEndsWithLast
<1>8. CASE NoNextLine \/ FinishFirstPass \/ FinishSecondPass \/ Crash
  <2>1. UNCHANGED queueVars /\ pc' \notin {"open", "handle", "read"}
    BY <1>8 DEF NoNextLine, FinishFirstPass, FinishSecondPass, Crash
  <2> QED BY <1>3, <2>1
<1>9. CASE UNCHANGED vars
  BY <1>9 DEF vars, passVars, queueVars, QueueEndsWithLast, QueueHasNoHole
<1> QED
  BY <1>4, <1>5, <1>6, <1>7, <1>8, <1>9 DEF Next, FirstPass, SecondPass, Terminated

(* Whatever nodes of the queue cannot be allocated, the lines that the second *)
(* pass takes from it are consecutive lines of the source.                    *)
THEOREM QueueIsConsecutive == Spec => []QueueHasNoHole
<1> DEFINE Inv == TypeInvariant /\ QueueEndsWithLast /\ QueueHasNoHole
<1>1. Init => QueueEndsWithLast /\ QueueHasNoHole
  BY DEF Init, newLineQueue, QueueEndsWithLast, QueueHasNoHole
<1>2. TypeInvariant /\ QueueEndsWithLast /\ QueueHasNoHole /\ [Next]_vars
        => QueueEndsWithLast' /\ QueueHasNoHole'
  BY QueueStep
<1> QED BY <1>1, <1>2, TypeInit, TypeStep, PTL DEF Spec

-----------------------------------------------------------------------------
(***************************************************************************)
(* The first pass, while nothing has gone wrong: there are no words yet,   *)
(* and no symbol is used or marked.                                        *)
(***************************************************************************)
Fresh(sym) == ~ sym.is_entry /\ sym.dependent_offsets = <<>>

NothingUsed ==
  /\ LastPopped = 0 /\ code = <<>> /\ has_entry = FALSE
  /\ \A s \in DOMAIN symtab : Fresh(symtab[s])

LEMMA UnusedParts == NothingUsed => EntriesAreMarked /\ UsesAreRecorded /\ WordsAreEncoded
<1> SUFFICES ASSUME NothingUsed PROVE EntriesAreMarked /\ UsesAreRecorded /\ WordsAreEncoded
  OBVIOUS
<1>1. LastPopped = 0 /\ code = <<>> /\ has_entry = FALSE /\ DOMAIN code = {}
  BY DEF NothingUsed
<1>2. EntriesAreMarked
  BY <1>1 DEF EntriesAreMarked, NothingUsed, Fresh
<1>3. UsesAreRecorded
  <2>1. SUFFICES ASSUME NEW s \in DOMAIN symtab
                 PROVE  {symtab[s].dependent_offsets[j] : j \in DOMAIN symtab[s].dependent_offsets}
                          = UsesOf(symtab[s].symbol)
    BY DEF UsesAreRecorded
  <2>2. symtab[s].dependent_offsets = <<>>
    BY DEF NothingUsed, Fresh
  <2> QED BY <1>1, <2>2 DEF UsesOf
<1>4. WordsAreEncoded
  BY <1>1 DEF WordsAreEncoded
<1> QED BY <1>2, <1>3, <1>4

LEMMA UnusedPartsNext ==
  NothingUsed' => EntriesAreMarked' /\ UsesAreRecorded' /\ WordsAreEncoded'
BY UnusedParts, PTL

LEMMA StillUnused ==
  ASSUME TypeInvariant, Progress, References, InFirstPass
  PROVE  NothingUsed
<1>1. LastPopped = 0
  BY DEF Progress, QueueIsTheRest
<1>2. code = <<>>
  <2>1. Len(code) = 0
    BY <1>1, CountZero DEF Progress, CodeIsInOrder
  <2> QED BY <2>1 DEF TypeInvariant, TypeOK, MemoryTypeOK
<1>3. has_entry = FALSE
  BY <1>1 DEF References, EntriesAreMarked, TypeInvariant, TypeOK, SymbolManagerTypeOK
<1>4. ASSUME NEW s \in DOMAIN symtab PROVE Fresh(symtab[s])
  <2>1. ~ symtab[s].is_entry
    BY <1>1 DEF References, EntriesAreMarked
  <2> DEFINE offsets == symtab[s].dependent_offsets
  <2>2. offsets \in Seq(Int)
    <3>1. symtab[s] \in Symbol
      BY DEF TypeInvariant, TypeOK, SymbolManagerTypeOK
    <3> QED BY <3>1 DEF Symbol
  <2>3. {offsets[j] : j \in DOMAIN offsets} = {}
    BY <1>2 DEF References, UsesAreRecorded, UsesOf
  <2> HIDE DEF offsets
  <2>4. offsets = <<>>
    <3>1. Len(offsets) \in Nat /\ DOMAIN offsets = 1 .. Len(offsets)
      BY <2>2
    <3>2. 1 \notin DOMAIN offsets
      BY <2>3
    <3> QED BY <2>2, <3>1, <3>2
  <2> QED BY <2>1, <2>4 DEF Fresh, offsets
<1> QED BY <1>1, <1>2, <1>3, <1>4 DEF NothingUsed

(* A line is read. *)
LEMMA ReadReferences ==
  ASSUME TypeInvariant, Progress, References, pc \in {"open", "read"}, NEW l, Progress',
         lines' = Append(lines, l),
         pc' = "handle" \/ (pc' = "fix" /\ l.type = "None"),
         UNCHANGED <<symbolVars, memoryVars>>
  PROVE  References'
<1> DEFINE n == Len(lines)
<1>1. /\ n \in Nat /\ Len(lines') = n + 1 /\ lines'[n + 1] = l
      /\ \A j \in 1 .. n : lines'[j] = lines[j]
  BY AppendAnything DEF TypeInvariant, TypeOK
<1>2. LastHandled = n /\ LastHandled' = (IF pc' = "handle" THEN n ELSE n + 1)
  BY <1>1 DEF LastHandled
<1>3. \A j \in 1 .. LastHandled' : j \in 1 .. n \/ (j = n + 1 /\ lines'[j].type = "None")
  BY <1>1, <1>2
<1>4. 1 .. n \subseteq 1 .. LastHandled'
  BY <1>1, <1>2
<1> HIDE DEF n
<1>5. NothingUsed'
  <2>1. InFirstPass /\ InFirstPass'
    BY DEF InFirstPass
  <2>2. LastPopped' = 0
    BY <2>1 DEF Progress, QueueIsTheRest
  <2>3. UNCHANGED <<code, has_entry, symtab>>
    BY DEF memoryVars, symbolVars
  <2> QED BY <2>1, <2>2, <2>3, StillUnused DEF NothingUsed
<1>6. DataIsInOrder'
  <2>1. \A k \in DOMAIN data : data[k] \in 1 .. n
    BY <1>2 DEF Progress, CountersAgree
  <2> QED BY <1>1, <2>1 DEF References, DataIsInOrder, memoryVars
<1>7. SymbolsComeFromLines'
  <2>1. SUFFICES ASSUME NEW s \in DOMAIN symtab
                 PROVE  \E i \in 1 .. LastHandled' : ComesFrom(symtab[s], i)'
    BY DEF SymbolsComeFromLines, symbolVars, ComesFrom, Declares, Labelled
  <2>2. PICK i \in 1 .. n : ComesFrom(symtab[s], i)
    BY <1>2 DEF References, SymbolsComeFromLines
  <2> QED BY <1>1, <1>4, <2>2 DEF ComesFrom, Declares, Labelled, symbolVars
<1>8. ExternsAreDeclared'
  <2>1. ExternsAreDeclared /\ UNCHANGED <<symtab, has_external>>
    BY DEF References, symbolVars
  <2>2. \A i \in 1 .. LastHandled' :
          lines'[i].type = "Extern" => i \in 1 .. LastHandled /\ lines'[i] = lines[i]
    BY <1>1, <1>2, <1>3
  <2>3. \A i \in 1 .. LastHandled : i \in 1 .. LastHandled' /\ lines'[i] = lines[i]
    BY <1>1, <1>2, <1>4
  <2> QED BY <2>1, <2>2, <2>3 DEF ExternsAreDeclared
<1> QED BY <1>5, <1>6, <1>7, <1>8, UnusedPartsNext DEF References

(* A line is handled: its symbol, if it has one, and its bytes are added. *)
LEMMA HandleReferences ==
  ASSUME TypeInvariant, Progress, References, Progress', pc = "handle", pc' = "read",
         Len(lines') = Len(lines), code' = code,
         \A j \in 1 .. Len(lines) :
           /\ lines'[j].type = lines[j].type /\ lines'[j].label = lines[j].label
           /\ lines'[j].args = lines[j].args,
         NEW new,
         \/ symtab' = symtab
         \/ symtab' = Append(symtab, new) /\ Fresh(new) /\ ComesFrom(new, Len(lines)),
         Current.type = "Extern" => symtab' = Append(symtab, new) /\ ExternalBy(new, Current),
         has_external' = (has_external \/ Current.type = "Extern"), has_entry' = has_entry,
         \/ data' = data
         \/ Current.type = "Data" /\ \E m \in Nat : data' = data \o [k \in 1 .. m |-> Len(lines)]
  PROVE  References'
<1> DEFINE n == Len(lines)
<1>1. /\ n \in Nat \ {0} /\ LastHandled = n - 1 /\ LastHandled' = n
      /\ InFirstPass /\ InFirstPass' /\ Current = lines[n]
  BY DEF TypeInvariant, TypeOK, LinesAreKept, LastHandled, InFirstPass, Current
<1>2. 1 .. LastHandled \subseteq 1 .. LastHandled' /\ n \in 1 .. LastHandled'
      /\ \A j \in 1 .. LastHandled' : j \in 1 .. LastHandled \/ j = n
  BY <1>1
<1>3. \A j \in 1 .. n : /\ lines'[j].type = lines[j].type /\ lines'[j].label = lines[j].label
                        /\ lines'[j].args = lines[j].args
  OBVIOUS
<1>4. /\ DOMAIN symtab \subseteq DOMAIN symtab'
      /\ \A s \in DOMAIN symtab : symtab'[s] = symtab[s]
      /\ \A s \in DOMAIN symtab' :
           \/ s \in DOMAIN symtab
           \/ symtab'[s] = new /\ Fresh(new) /\ ComesFrom(new, Len(lines))
      /\ Current.type = "Extern" => \E s \in DOMAIN symtab' : symtab'[s] = new
  <2>1. symtab \in Seq(Symbol) /\ Len(symtab) \in Nat /\ DOMAIN symtab = 1 .. Len(symtab)
    BY DEF TypeInvariant, TypeOK, SymbolManagerTypeOK
  <2>2. CASE symtab' = Append(symtab, new) /\ Fresh(new) /\ ComesFrom(new, Len(lines))
    <3>1. /\ DOMAIN symtab' = 1 .. Len(symtab) + 1 /\ symtab'[Len(symtab) + 1] = new
          /\ \A s \in 1 .. Len(symtab) : symtab'[s] = symtab[s]
      BY <2>1, <2>2, AppendAnything
    <3> QED BY <2>1, <3>1
  <2>3. CASE symtab' = symtab /\ Current.type # "Extern"
    BY <2>3
  <2> QED BY <2>2, <2>3
<1> HIDE DEF n
<1>5. NothingUsed'
  <2>1. LastPopped' = 0
    BY <1>1 DEF Progress, QueueIsTheRest
  <2> QED BY <1>1, <1>4, <2>1, StillUnused DEF NothingUsed
<1>6. DataIsInOrder'
  <2>1. \A k \in DOMAIN data : data[k] \in 1 .. LastHandled /\ lines[data[k]].type = "Data"
    BY DEF Progress, CountersAgree, References, DataIsInOrder
  <2>2. CASE data' = data
    BY <1>2, <1>3, <1>1, <2>1, <2>2 DEF References, DataIsInOrder
  <2>3. CASE Current.type = "Data" /\ \E m \in Nat : data' = data \o [k \in 1 .. m |-> n]
    <3>1. PICK m \in Nat : data' = data \o [k \in 1 .. m |-> n]
      BY <2>3
    <3>2. data \in Seq(Nat) /\ Len(data) \in Nat /\ DOMAIN data = 1 .. Len(data)
      BY DEF TypeInvariant, TypeOK, MemoryTypeOK
    <3>3. /\ DOMAIN data' = 1 .. Len(data) + m
          /\ \A k \in 1 .. Len(data) : data'[k] = data[k]
          /\ \A k \in Len(data) + 1 .. Len(data) + m : data'[k] = n
      <4> DEFINE new_bytes == [k \in 1 .. m |-> n]
      <4>1. new_bytes \in Seq(Nat) /\ Len(new_bytes) = m /\ \A k \in 1 .. m : new_bytes[k] = n
        BY <1>1
      <4>2. data' = data \o new_bytes
        BY <3>1
      <4> HIDE DEF new_bytes
      <4>3. /\ data \o new_bytes \in Seq(Nat) /\ Len(data \o new_bytes) = Len(data) + m
            /\ \A k \in 1 .. Len(data) + m : (data \o new_bytes)[k] =
                 IF k <= Len(data) THEN data[k] ELSE new_bytes[k - Len(data)]
        BY <3>2, <4>1, ConcatProperties
      <4>4. \A k \in Len(data) + 1 .. Len(data) + m : new_bytes[k - Len(data)] = n
        BY <3>2, <4>1
      <4>5. DOMAIN data' = 1 .. Len(data) + m
        BY <4>2, <4>3, LenProperties
      <4>6. \A k \in 1 .. Len(data) : k \in 1 .. Len(data) + m /\ k <= Len(data)
        BY <3>2
      <4>7. \A k \in Len(data) + 1 .. Len(data) + m : k \in 1 .. Len(data) + m /\ ~ (k <= Len(data))
        BY <3>2
      <4> QED BY <4>2, <4>3, <4>4, <4>5, <4>6, <4>7
    <3>4. ASSUME NEW k \in DOMAIN data'
          PROVE  \/ k \in DOMAIN data /\ data'[k] = data[k] /\ data'[k] \in 1 .. n - 1
                 \/ k > Len(data) /\ data'[k] = n
      <4>1. k \in 1 .. Len(data) \/ (k \in Len(data) + 1 .. Len(data) + m /\ k > Len(data))
        BY <3>2, <3>3
      <4> QED BY <1>1, <2>1, <3>2, <3>3, <4>1
    <3>5. ASSUME NEW k \in DOMAIN data' PROVE lines'[data'[k]].type = "Data"
      <4>1. CASE k \in DOMAIN data /\ data'[k] = data[k] /\ data'[k] \in 1 .. n - 1
        <5>1. data[k] \in 1 .. n
          BY <1>1, <4>1
        <5> QED BY <1>3, <2>1, <4>1, <5>1
      <4>2. CASE data'[k] = n
        <5>1. n \in 1 .. n
          BY <1>1
        <5> QED BY <1>1, <1>3, <2>3, <4>2, <5>1
      <4> QED BY <3>4, <3>5, <4>1, <4>2
    <3>6. ASSUME NEW j \in DOMAIN data', NEW k \in DOMAIN data', j <= k PROVE data'[j] <= data'[k]
      <4>1. CASE k \in DOMAIN data /\ data'[k] = data[k]
        <5>1. j \in DOMAIN data /\ data'[j] = data[j]
          BY <3>2, <3>3, <3>6, <4>1
        <5> QED BY <3>6, <4>1, <5>1 DEF References, DataIsInOrder
      <4>2. CASE data'[k] = n
        BY <1>1, <3>4, <4>2
      <4> QED BY <3>4, <4>1, <4>2
    <3> QED BY <3>5, <3>6 DEF DataIsInOrder
  <2> QED BY <2>2, <2>3 DEF n
<1>7. SymbolsComeFromLines'
  <2>1. SUFFICES ASSUME NEW s \in DOMAIN symtab'
                 PROVE  (\E i \in 1 .. LastHandled : ComesFrom(symtab[s], i))'
    BY DEF SymbolsComeFromLines, ComesFrom, Declares, Labelled
  <2>2. \E i \in 1 .. LastHandled' : ComesFrom(symtab'[s], i)
    <3>1. CASE s \in DOMAIN symtab
      BY <1>2, <1>4, <3>1 DEF References, SymbolsComeFromLines
    <3>2. CASE symtab'[s] = new /\ ComesFrom(new, Len(lines))
      BY <1>2, <3>2 DEF n
    <3> QED BY <1>4, <3>1, <3>2
  <2>3. PICK i \in 1 .. LastHandled' : ComesFrom(symtab'[s], i)
    BY <2>2
  <2>4. ComesFrom(symtab[s], i)'
    BY <1>1, <1>3, <2>3 DEF ComesFrom, Declares, Labelled
  <2> QED BY <2>4
<1>8. ExternsAreDeclared'
  <2>1. ASSUME NEW i \in 1 .. LastHandled', lines'[i].type = "Extern"
        PROVE  \E s \in DOMAIN symtab' : ExternalBy(symtab'[s], lines'[i])
    <3>1. lines[i].type = "Extern" /\ lines'[i].args = lines[i].args
      BY <1>1, <1>3, <2>1
    <3>2. CASE i = n
      BY <1>1, <1>4, <3>1, <3>2 DEF ExternalBy
    <3>3. CASE i \in 1 .. LastHandled
      <4>1. PICK s \in DOMAIN symtab : ExternalBy(symtab[s], lines[i])
        BY <3>1, <3>3 DEF References, ExternsAreDeclared
      <4> QED BY <1>4, <3>1, <4>1 DEF ExternalBy
    <3> QED BY <1>2, <2>1, <3>2, <3>3
  <2>2. has_external' <=> \E i \in 1 .. LastHandled' : lines'[i].type = "Extern"
    <3>1. has_external <=> \E i \in 1 .. LastHandled : lines[i].type = "Extern"
      BY DEF References, ExternsAreDeclared
    <3>2. \A i \in 1 .. LastHandled' : lines'[i].type = lines[i].type
      BY <1>1, <1>3
    <3> QED BY <1>1, <1>2, <3>1, <3>2
  <2> QED BY <2>1, <2>2 DEF ExternsAreDeclared
<1> QED BY <1>5, <1>6, <1>7, <1>8, UnusedPartsNext DEF References

(* The shift moves addresses only. *)
LEMMA FixReferences ==
  ASSUME TypeInvariant, Progress, References, Progress', pc = "fix", pc' = "second",
         fixDataSymbolsOffset(instruction_counter),
         UNCHANGED <<lines, queueVars, memoryVars>>
  PROVE  References'
<1>1. /\ DOMAIN symtab' = DOMAIN symtab
      /\ \A s \in DOMAIN symtab :
           /\ symtab'[s].symbol = symtab[s].symbol
           /\ symtab'[s].is_external = symtab[s].is_external
           /\ symtab'[s].is_entry = symtab[s].is_entry
           /\ symtab'[s].dependent_offsets = symtab[s].dependent_offsets
  BY FixKeeps DEF TypeInvariant, TypeOK, SymbolManagerTypeOK
<1>2. /\ LastHandled' = LastHandled /\ LastPopped' = LastPopped /\ InFirstPass
      /\ UNCHANGED <<has_external, has_entry, data, code>>
  BY DEF LastHandled, LastPopped, queueVars, memoryVars, InFirstPass, fixDataSymbolsOffset
<1>3. NothingUsed'
  BY <1>1, <1>2, StillUnused DEF NothingUsed, Fresh
<1>4. DataIsInOrder'
  BY <1>2 DEF References, DataIsInOrder
<1>5. SymbolsComeFromLines'
  BY <1>1, <1>2 DEF References, SymbolsComeFromLines, ComesFrom, Declares, Labelled
<1>6. ExternsAreDeclared'
  BY <1>1, <1>2 DEF References, ExternsAreDeclared, ExternalBy
<1> QED BY <1>3, <1>4, <1>5, <1>6, UnusedPartsNext DEF References

-----------------------------------------------------------------------------
(***************************************************************************)
(* What a word is encoded from.                                            *)
(***************************************************************************)

(* Where a name stands, of which there is one symbol at most. *)
FoundAtItsPlace ==
  symtab \in Seq(Symbol) /\ UniqueSymbols =>
    \A s \in DOMAIN symtab : exists(symtab[s].symbol) /\ find(symtab[s].symbol) = s

LEMMA Found == FoundAtItsPlace
<1> SUFFICES ASSUME symtab \in Seq(Symbol), UniqueSymbols, NEW s \in DOMAIN symtab
             PROVE  exists(symtab[s].symbol) /\ find(symtab[s].symbol) = s
  BY DEF FoundAtItsPlace
<1>1. PICK name : name = symtab[s].symbol
  OBVIOUS
<1>2. exists(name)
  BY <1>1 DEF exists
<1>3. find(name) \in DOMAIN symtab /\ symtab[find(name)].symbol = name
  BY <1>2, FindType
<1> QED BY <1>1, <1>2, <1>3 DEF UniqueSymbols

LEMMA FoundNext == FoundAtItsPlace'
BY Found, PTL

(* A symbol that is kept is found where it was. *)
LEMMA FindStays ==
  ASSUME symtab \in Seq(Symbol), symtab' \in Seq(Symbol), UniqueSymbols, UniqueSymbols', SymbolsKept,
         NEW name, exists(name)
  PROVE  /\ exists(name)' /\ find(name)' = find(name) /\ find(name) \in DOMAIN symtab
         /\ symtab[find(name)].symbol = name
         /\ symtab'[find(name)].value = symtab[find(name)].value
         /\ symtab'[find(name)].is_external = symtab[find(name)].is_external
<1>1. PICK s : s = find(name)
  OBVIOUS
<1>2. s \in DOMAIN symtab /\ symtab[s].symbol = name
  BY <1>1, FindType
<1>3. /\ s \in DOMAIN symtab' /\ symtab'[s].symbol = name
      /\ symtab'[s].value = symtab[s].value /\ symtab'[s].is_external = symtab[s].is_external
  BY <1>2 DEF SymbolsKept
<1>4. exists(symtab[s].symbol)' /\ find(symtab[s].symbol)' = s
  BY <1>3, FoundNext DEF FoundAtItsPlace
<1>5. exists(name)' /\ find(name)' = s
  BY <1>3, <1>4
<1> QED BY <1>1, <1>2, <1>3, <1>5

(* The label operand of an instruction is that of a branch, or of a jump. *)
LEMMA LabelShape ==
  ASSUME NEW line
  PROVE  /\ LabelOperand(line) # 0 => ~ is_r_command(line.opcode_name)
         /\ is_i_command(line.opcode_name) =>
              (LabelOperand(line) # 0 <=> i_command_to_subtype(line.opcode_name) = "IBranch")
<1>1. CASE is_i_command(line.opcode_name)
  <2>1. CASE i_command_to_subtype(line.opcode_name) = "IBranch"
    BY <1>1, <2>1, OneLayout DEF LabelOperand, OperandFormat
  <2>2. CASE i_command_to_subtype(line.opcode_name) # "IBranch"
    <3>1. OperandFormat(line) = <<"register", "number", "register">>
      BY <1>1, <2>2, OneLayout DEF OperandFormat
    <3> QED BY <1>1, <2>2, <3>1, OneLayout DEF LabelOperand
  <2> QED BY <2>1, <2>2
<1>2. CASE ~ is_i_command(line.opcode_name) /\ is_r_command(line.opcode_name)
  <2>1. PICK n \in {2, 3} : OperandFormat(line) = Registers(n)
    BY <1>2, OneLayout DEF OperandFormat
  <2>2. LabelOperand(line) = 0
    BY <2>1 DEF LabelOperand, Registers
  <2> QED BY <1>2, <2>2
<1> QED BY <1>1, <1>2, OneLayout

(* The fields that say where a word leads, and what number it holds. *)
LEMMA WordFields ==
  ASSUME NEW line, NEW stale, OperandsError(line, stale) = "SUCCESS"
  PROVE  LET word == decodeInstructionLine(line)
             sym  == symtab[find(UsedSymbol(line))]
         IN  /\ is_i_command(line.opcode_name) =>
                  /\ word.address = 0
                  /\ word.immed = BitField(IF LabelOperand(line) # 0 THEN Distance(line)
                                           ELSE NumberOf(line.args[2]), ImmedBits)
             /\ ~ is_i_command(line.opcode_name) /\ LabelOperand(line) # 0 =>
                  word.address = IF sym.is_external THEN 0 ELSE BitField(sym.value, AddressBits)
<1> DEFINE cleared == [opcode |-> command_to_opcode(line.opcode_name), rs |-> 0, rt |-> 0,
                       rd |-> 0, funct |-> 0, immed |-> 0, address |-> 0, reg |-> 0]
           word == decodeInstructionLine(line)
           sym  == symtab[find(UsedSymbol(line))]
<1>1. CASE is_i_command(line.opcode_name)
  <2> DEFINE branch == i_command_to_subtype(line.opcode_name) = "IBranch"
             immed  == BitField(IF branch THEN Distance(line) ELSE NumberOf(line.args[2]), ImmedBits)
  <2>1. word = EncodeI(line, cleared)
    BY <1>1, OneLayout DEF decodeInstructionLine
  <2>2. PICK rs, rt : EncodeI(line, cleared) = [cleared EXCEPT !.rs = rs, !.rt = rt, !.immed = immed]
    BY DEF EncodeI
  <2>3. word.address = 0 /\ word.immed = immed
    <3> HIDE DEF immed, word
    <3> QED BY <2>1, <2>2
  <2>4. branch <=> LabelOperand(line) # 0
    BY <1>1, LabelShape
  <2> QED BY <1>1, <2>3, <2>4
<1>2. CASE ~ is_i_command(line.opcode_name) /\ LabelOperand(line) # 0
  <2>1. word = EncodeJ(line, cleared)
    BY <1>2, LabelShape DEF decodeInstructionLine
  <2>2. line.args # <<>>
    <3>1. Len(line.args) = Len(OperandFormat(line))
      BY DEF OperandsError
    <3>2. OperandFormat(line) = <<"label">>
      <4>1. ~ is_r_command(line.opcode_name)
        BY <1>2, LabelShape
      <4> QED BY <1>2, <4>1 DEF LabelOperand, OperandFormat, Registers
    <3> QED BY <3>1, <3>2
  <2> DEFINE address == IF sym.is_external THEN 0 ELSE BitField(sym.value, AddressBits)
  <2>3. EncodeJ(line, cleared) = [cleared EXCEPT !.address = address]
    BY <1>2, <2>2 DEF EncodeJ
  <2>4. word.address = address
    <3> HIDE DEF address, word
    <3> QED BY <2>1, <2>3
  <2> QED BY <1>2, <2>4
<1> QED BY <1>1, <1>2

(* A word stays what its line is encoded to, while the symbols are kept. *)
LEMMA WordStays ==
  ASSUME symtab \in Seq(Symbol), symtab' \in Seq(Symbol), UniqueSymbols, UniqueSymbols', SymbolsKept,
         NEW line, NEW stale, InstructionError(line, stale, {}) = "SUCCESS"
  PROVE  /\ decodeInstructionLine(line)' = decodeInstructionLine(line)
         /\ InstructionError(line, stale, {})' = "SUCCESS"
<1> DEFINE name == UsedSymbol(line)
<1>1. OperandsError(line, stale) = "SUCCESS"
  BY DEF InstructionError, UsesSymbol
<1>2. ASSUME LabelOperand(line) # 0
      PROVE  /\ exists(name) /\ exists(name)' /\ find(name)' = find(name)
             /\ symtab'[find(name)].value = symtab[find(name)].value
             /\ symtab'[find(name)].is_external = symtab[find(name)].is_external
  <2>1. exists(name)
    BY <1>1, <1>2 DEF InstructionError, UsesSymbol, ReferenceError
  <2> HIDE DEF name
  <2> QED BY <2>1, FindStays
<1>3. LabelOperand(line) # 0 => Distance(line)' = Distance(line)
  BY <1>2 DEF Distance
<1>4. InstructionError(line, stale, {})' = "SUCCESS"
  BY <1>1, <1>2, <1>3 DEF InstructionError, UsesSymbol, ReferenceError
<1>5. decodeInstructionLine(line)' = decodeInstructionLine(line)
  <2>1. CASE is_i_command(line.opcode_name)
    BY <1>3, <2>1, LabelShape, OneLayout DEF decodeInstructionLine, EncodeI
  <2>2. CASE ~ is_i_command(line.opcode_name) /\ is_r_command(line.opcode_name)
    BY <2>2 DEF decodeInstructionLine
  <2>3. CASE ~ is_i_command(line.opcode_name) /\ ~ is_r_command(line.opcode_name)
    BY <1>2, <2>3 DEF decodeInstructionLine, EncodeJ
  <2> QED BY <2>1, <2>2, <2>3
<1> QED BY <1>4, <1>5

-----------------------------------------------------------------------------
(***************************************************************************)
(* The second pass, while nothing has gone wrong.                          *)
(***************************************************************************)

(* An entry is marked, and nothing else. *)
LEMMA MarkEffect ==
  ASSUME symtab \in Seq(Symbol), UniqueSymbols, NEW name, markSymEntry(name),
         EntryError(name) = "SUCCESS"
  PROVE  /\ DOMAIN symtab' = DOMAIN symtab /\ has_entry' = TRUE /\ UNCHANGED has_external
         /\ \E s \in DOMAIN symtab : symtab[s].symbol = name /\ ~ symtab[s].is_external
         /\ \A s \in DOMAIN symtab :
              /\ symtab'[s].is_entry <=> symtab[s].is_entry \/ symtab[s].symbol = name
              /\ symtab'[s].dependent_offsets = symtab[s].dependent_offsets
<1>1. PICK f : f = find(name)
  OBVIOUS
<1>2. f \in DOMAIN symtab /\ symtab[f].symbol = name /\ ~ symtab[f].is_external
  BY <1>1, FindType DEF EntryError
<1>3. /\ symtab' = [symtab EXCEPT ![f].is_entry = TRUE] /\ has_entry' = TRUE
      /\ UNCHANGED has_external
  BY <1>1 DEF markSymEntry
<1>4. DOMAIN symtab' = DOMAIN symtab
  BY <1>3
<1>5. ASSUME NEW s \in DOMAIN symtab
      PROVE  /\ symtab'[s].is_entry <=> symtab[s].is_entry \/ symtab[s].symbol = name
             /\ symtab'[s].dependent_offsets = symtab[s].dependent_offsets
  <2>1. symtab[s] \in Symbol
    OBVIOUS
  <2>2. CASE s = f
    <3>1. symtab'[s] = [symtab[s] EXCEPT !.is_entry = TRUE]
      BY <1>2, <1>3, <2>2
    <3> QED BY <1>2, <2>1, <2>2, <3>1 DEF Symbol
  <2>3. CASE s # f
    <3>1. symtab'[s] = symtab[s] /\ symtab[s].symbol # name
      BY <1>2, <1>3, <2>3 DEF UniqueSymbols
    <3> QED BY <2>1, <3>1 DEF Symbol
  <2> QED BY <2>2, <2>3
<1> QED BY <1>2, <1>3, <1>4, <1>5

(* A use is recorded, and nothing else. *)
LEMMA UseEffect ==
  ASSUME symtab \in Seq(Symbol), UniqueSymbols, NEW name, NEW offset, exists(name),
         useSymbol(name, offset, {})
  PROVE  /\ DOMAIN symtab' = DOMAIN symtab /\ UNCHANGED <<has_external, has_entry>>
         /\ \A s \in DOMAIN symtab :
              /\ symtab'[s].is_entry = symtab[s].is_entry
              /\ symtab'[s].dependent_offsets =
                   IF symtab[s].symbol = name THEN Append(symtab[s].dependent_offsets, offset)
                   ELSE symtab[s].dependent_offsets
<1>1. PICK f : f = find(name)
  OBVIOUS
<1>2. f \in DOMAIN symtab /\ symtab[f].symbol = name
  BY <1>1, FindType
<1>3. /\ symtab' = [symtab EXCEPT ![f].dependent_offsets = Append(@, offset)]
      /\ UNCHANGED <<has_external, has_entry>>
  BY <1>1 DEF useSymbol
<1>4. DOMAIN symtab' = DOMAIN symtab
  BY <1>3
<1>5. ASSUME NEW s \in DOMAIN symtab
      PROVE  /\ symtab'[s].is_entry = symtab[s].is_entry
             /\ symtab'[s].dependent_offsets =
                  IF symtab[s].symbol = name THEN Append(symtab[s].dependent_offsets, offset)
                  ELSE symtab[s].dependent_offsets
  <2> DEFINE added == Append(symtab[s].dependent_offsets, offset)
  <2>1. symtab[s] \in Symbol
    OBVIOUS
  <2>2. CASE s = f
    <3>1. symtab'[s] = [symtab[s] EXCEPT !.dependent_offsets = added]
      BY <1>2, <1>3, <2>2
    <3> HIDE DEF added
    <3>2. symtab'[s].is_entry = symtab[s].is_entry /\ symtab'[s].dependent_offsets = added
      BY <2>1, <3>1 DEF Symbol
    <3> QED BY <1>2, <2>2, <3>2 DEF added
  <2>3. CASE s # f
    <3>1. symtab'[s] = symtab[s] /\ symtab[s].symbol # name
      BY <1>2, <1>3, <2>3 DEF UniqueSymbols
    <3> QED BY <3>1
  <2> QED BY <2>2, <2>3
<1> QED BY <1>2, <1>3, <1>4, <1>5

(* The next line of the queue is the next line of the source. *)
LEMMA NextPopped ==
  ASSUME TypeInvariant, Progress, pc = "second", pc' = "second", queue # <<>>,
         queue' = Tail(queue), UNCHANGED lines
  PROVE  /\ LastPopped \in Nat /\ LastPopped' = LastPopped + 1 /\ LastPopped' \in 1 .. Len(lines)
         /\ Head(queue) = LastPopped' /\ First = lines[LastPopped']
         /\ LastHandled = Len(lines) /\ LastHandled' = Len(lines)
<1>1. /\ Len(queue) \in Nat \ {0} /\ Head(queue) = queue[1] /\ Len(queue') = Len(queue) - 1
      /\ Len(lines) \in Nat
  BY DEF TypeInvariant, TypeOK
<1>2. LastPopped \in Nat /\ queue[1] = LastPopped + 1
  BY <1>1 DEF Progress, QueueIsTheRest
<1>3. LastPopped' = LastPopped + 1 /\ LastPopped' \in 1 .. Len(lines)
  BY <1>1, <1>2 DEF LastPopped
<1> QED BY <1>1, <1>2, <1>3 DEF First, LastHandled

(* The declarations are those of the first pass. *)
LEMMA PopKeepsDeclarations ==
  ASSUME References, SymbolsKept, DOMAIN symtab' = DOMAIN symtab, LastHandled' = LastHandled,
         UNCHANGED <<lines, data, has_external>>
  PROVE  DataIsInOrder' /\ SymbolsComeFromLines' /\ ExternsAreDeclared'
<1>1. DataIsInOrder'
  BY DEF References, DataIsInOrder
<1>2. SymbolsComeFromLines'
  BY DEF References, SymbolsComeFromLines, SymbolsKept, ComesFrom, Declares, Labelled
<1>3. ExternsAreDeclared'
  BY DEF References, ExternsAreDeclared, SymbolsKept, ExternalBy
<1> QED BY <1>1, <1>2, <1>3

(* WordsAreEncoded, with a name for each line. *)
WordsByLine ==
  \A k \in DOMAIN code : \A line : line = CodeLine(k) =>
    /\ code[k].word = decodeInstructionLine(line)
    /\ \E stale \in BOOLEAN : InstructionError(line, stale, {}) = "SUCCESS"

LEMMA WordsAgain == WordsAreEncoded <=> WordsByLine
BY DEF WordsAreEncoded, WordsByLine

LEMMA WordsAgainNext == WordsAreEncoded' <=> WordsByLine'
BY WordsAgain, PTL

(* The words written so far stay encoded from their lines. *)
LEMMA OldWordsStay ==
  ASSUME TypeInvariant, TypeInvariant', UniqueSymbols, UniqueSymbols', SymbolsKept, WordsAreEncoded,
         lines' = lines, NEW k \in DOMAIN code, code'[k] = code[k],
         NEW line, line = lines'[code'[k].line]
  PROVE  /\ code'[k].word = decodeInstructionLine(line)'
         /\ \E stale \in BOOLEAN : InstructionError(line, stale, {})' = "SUCCESS"
<1>1. symtab \in Seq(Symbol) /\ symtab' \in Seq(Symbol)
  BY DEF TypeInvariant, TypeOK, SymbolManagerTypeOK
<1>2. line = CodeLine(k)
  BY DEF CodeLine
<1>3. PICK stale \in BOOLEAN : InstructionError(line, stale, {}) = "SUCCESS"
  BY <1>2, WordsAgain DEF WordsByLine
<1>4. code[k].word = decodeInstructionLine(line)
  BY <1>2, WordsAgain DEF WordsByLine
<1>5. /\ decodeInstructionLine(line)' = decodeInstructionLine(line)
      /\ InstructionError(line, stale, {})' = "SUCCESS"
  BY <1>1, <1>3, WordStays
<1> QED BY <1>3, <1>4, <1>5

(* The line popped is not an .entry directive. *)
LEMMA NoEntryPopped ==
  ASSUME EntriesAreMarked, SymbolsKept, DOMAIN symtab' = DOMAIN symtab,
         UNCHANGED <<lines, has_entry>>,
         \A s \in DOMAIN symtab : symtab'[s].is_entry = symtab[s].is_entry,
         LastPopped \in Nat, LastPopped' = LastPopped + 1, lines[LastPopped'].type # "Entry"
  PROVE  EntriesAreMarked'
<1> DEFINE p == LastPopped
           q == LastPopped'
<1>1. 1 .. p \subseteq 1 .. q /\ \A j \in 1 .. q : j \in 1 .. p \/ j = q
  OBVIOUS
<1>2. ASSUME NEW s \in DOMAIN symtab, NEW line
      PROVE  MarkedBy(symtab[s], line)' <=> MarkedBy(symtab[s], line)
  BY DEF MarkedBy, SymbolsKept
<1> HIDE DEF p, q
<1>3. ASSUME NEW j \in 1 .. q, lines[j].type = "Entry"
      PROVE  j \in 1 .. p
  BY <1>1, <1>3 DEF q
<1>4. /\ \A j \in 1 .. p : lines[j].type = "Entry" => \E s \in DOMAIN symtab : MarkedBy(symtab[s], lines[j])
      /\ \A s \in DOMAIN symtab : symtab[s].is_entry =>
           \E j \in 1 .. p : lines[j].type = "Entry" /\ MarkedBy(symtab[s], lines[j])
      /\ has_entry <=> \E j \in 1 .. p : lines[j].type = "Entry"
  BY DEF EntriesAreMarked, p
<1>5. \A j \in 1 .. q : lines[j].type = "Entry" =>
        \E s \in DOMAIN symtab : MarkedBy(symtab'[s], lines[j])
  BY <1>2, <1>3, <1>4 DEF MarkedBy, SymbolsKept
<1>6. \A s \in DOMAIN symtab : symtab'[s].is_entry =>
        \E j \in 1 .. q : lines[j].type = "Entry" /\ MarkedBy(symtab'[s], lines[j])
  BY <1>1, <1>4 DEF MarkedBy, SymbolsKept
<1>7. has_entry' <=> \E j \in 1 .. q : lines[j].type = "Entry"
  BY <1>1, <1>3, <1>4
<1> QED BY <1>5, <1>6, <1>7 DEF EntriesAreMarked, q

(* The line popped is an .entry directive, which marks the symbol it names. *)
LEMMA EntryPopped ==
  ASSUME EntriesAreMarked, symtab \in Seq(Symbol), UniqueSymbols, SymbolsKept, UNCHANGED lines,
         LastPopped \in Nat, LastPopped' = LastPopped + 1,
         NEW line, line = lines[LastPopped'], line.type = "Entry",
         markSymEntry(line.args[1]), EntryError(line.args[1]) = "SUCCESS"
  PROVE  EntriesAreMarked'
<1> DEFINE p == LastPopped
           q == LastPopped'
           name == line.args[1]
<1>1. 1 .. p \subseteq 1 .. q /\ q \in 1 .. q /\ \A j \in 1 .. q : j \in 1 .. p \/ j = q
  OBVIOUS
<1>2. /\ DOMAIN symtab' = DOMAIN symtab /\ has_entry' = TRUE
      /\ \E s \in DOMAIN symtab : symtab[s].symbol = name /\ ~ symtab[s].is_external
      /\ \A s \in DOMAIN symtab : symtab'[s].is_entry <=> symtab[s].is_entry \/ symtab[s].symbol = name
  BY MarkEffect
<1>3. \A s \in DOMAIN symtab : symtab[s].is_entry =>
        \E j \in 1 .. p : lines[j].type = "Entry" /\ MarkedBy(symtab[s], lines[j])
  BY DEF EntriesAreMarked
<1>4. \A j \in 1 .. p : lines[j].type = "Entry" => \E s \in DOMAIN symtab : MarkedBy(symtab[s], lines[j])
  BY DEF EntriesAreMarked
<1>5. PICK t \in DOMAIN symtab : symtab[t].symbol = name /\ ~ symtab[t].is_external
  BY <1>2
<1>6. lines[q] = line
  OBVIOUS
<1> HIDE DEF p, q
<1>7. MarkedBy(symtab'[t], line)
  BY <1>2, <1>5 DEF MarkedBy, SymbolsKept
<1>8. ASSUME NEW s \in DOMAIN symtab, NEW l, MarkedBy(symtab[s], l) PROVE MarkedBy(symtab'[s], l)
  BY <1>2, <1>8 DEF MarkedBy, SymbolsKept
<1>9. \A j \in 1 .. q : lines[j].type = "Entry" =>
        \E s \in DOMAIN symtab : MarkedBy(symtab'[s], lines[j])
  BY <1>1, <1>4, <1>6, <1>7, <1>8
<1>10. ASSUME NEW s \in DOMAIN symtab, symtab'[s].is_entry
       PROVE  \E j \in 1 .. q : lines[j].type = "Entry" /\ MarkedBy(symtab'[s], lines[j])
  <2>1. CASE symtab[s].is_entry
    BY <1>1, <1>3, <1>8, <2>1
  <2>2. CASE symtab[s].symbol = name
    <3>1. s = t
      BY <1>5, <2>2 DEF UniqueSymbols
    <3> QED BY <1>1, <1>6, <1>7, <3>1
  <2> QED BY <1>2, <1>10, <2>1, <2>2
<1>11. has_entry' <=> \E j \in 1 .. q : lines[j].type = "Entry"
  BY <1>1, <1>2, <1>6
<1> QED BY <1>2, <1>9, <1>10, <1>11 DEF EntriesAreMarked, q

(* UsesAreRecorded, with a name for each symbol. *)
UsesByNames ==
  \A s \in DOMAIN symtab : \A name : name = symtab[s].symbol =>
    {symtab[s].dependent_offsets[j] : j \in DOMAIN symtab[s].dependent_offsets} = UsesOf(name)

LEMMA UsesNamed == UsesAreRecorded <=> UsesByNames
BY DEF UsesAreRecorded, UsesByNames

LEMMA UsesNamedNext == UsesAreRecorded' <=> UsesByNames'
BY UsesNamed, PTL

(* No word is written. *)
LEMMA NoWordPopped ==
  ASSUME TypeInvariant, TypeInvariant', UniqueSymbols, UniqueSymbols', References,
         SymbolsKept, DOMAIN symtab' = DOMAIN symtab, UNCHANGED <<lines, code>>,
         \A s \in DOMAIN symtab : symtab'[s].dependent_offsets = symtab[s].dependent_offsets
  PROVE  UsesAreRecorded' /\ WordsAreEncoded'
<1>1. UsesByNames' => UsesAreRecorded'
  BY UsesNamedNext
<1>2. UsesByNames'
  <2>1. UsesByNames
    BY UsesNamed DEF References
  <2>2. ASSUME NEW name PROVE UsesOf(name)' = UsesOf(name)
    BY DEF UsesOf, RefersTo, CodeLine
  <2> QED BY <2>1, <2>2 DEF UsesByNames, SymbolsKept
<1>3. WordsByLine'
  BY OldWordsStay DEF References, WordsByLine, CodeLine
<1> QED BY <1>1, <1>2, <1>3, WordsAgainNext

(* The elements of a sequence to which one is appended. *)
Elements(seq) == {seq[j] : j \in DOMAIN seq}

LEMMA AppendedElements ==
  ASSUME NEW S, NEW seq \in Seq(S), NEW e
  PROVE  Elements(Append(seq, e)) = Elements(seq) \cup {e}
<1> DEFINE n == Len(seq)
           longer == Append(seq, e)
<1>1. n \in Nat /\ DOMAIN seq = 1 .. n
  OBVIOUS
<1>2. /\ DOMAIN longer = 1 .. n + 1 /\ longer[n + 1] = e
      /\ \A k \in 1 .. n : longer[k] = seq[k]
  BY AppendAnything
<1> HIDE DEF n, longer
<1>3. 1 .. n + 1 = (1 .. n) \cup {n + 1}
  BY <1>1
<1>4. Elements(longer) = Elements(seq) \cup {e}
  BY <1>1, <1>2, <1>3 DEF Elements
<1> QED BY <1>4 DEF longer

(* A word is written, and the use of its symbol is recorded. *)
LEMMA WordPopped ==
  ASSUME TypeInvariant, TypeInvariant', UniqueSymbols, UniqueSymbols', References,
         SymbolsKept, UNCHANGED lines,
         NEW i, NEW line, line = lines[i], NEW stale \in BOOLEAN,
         InstructionError(line, stale, {}) = "SUCCESS",
         IF UsesSymbol(line, stale) THEN useSymbol(UsedSymbol(line), line.code_position, {})
         ELSE UNCHANGED symbolVars,
         NEW word, word = decodeInstructionLine(line),
         code' = Append(code, [line |-> i, word |-> word])
  PROVE  /\ UsesAreRecorded' /\ WordsAreEncoded'
         /\ DOMAIN symtab' = DOMAIN symtab /\ UNCHANGED <<has_external, has_entry>>
         /\ \A s \in DOMAIN symtab : symtab'[s].is_entry = symtab[s].is_entry
<1> DEFINE uses    == LabelOperand(line) # 0
           used    == UsedSymbol(line)
           entry   == [line |-> i, word |-> word]
<1>0. PICK n : n = Len(code)
  OBVIOUS
<1>1. symtab \in Seq(Symbol) /\ symtab' \in Seq(Symbol)
  BY DEF TypeInvariant, TypeOK, SymbolManagerTypeOK
<1>2. /\ n \in Nat /\ DOMAIN code = 1 .. n /\ DOMAIN code' = 1 .. n + 1
      /\ code'[n + 1] = entry /\ \A k \in 1 .. n : code'[k] = code[k]
  <2>1. code \in Seq([line : Nat, word : Word])
    BY DEF TypeInvariant, TypeOK, MemoryTypeOK
  <2> HIDE DEF entry
  <2> QED BY <1>0, <2>1, AppendAnything DEF entry
<1>3. OperandsError(line, stale) = "SUCCESS" /\ (UsesSymbol(line, stale) <=> uses)
  BY DEF InstructionError, UsesSymbol
<1>4. uses => exists(used) /\ useSymbol(used, line.code_position, {})
  BY <1>3 DEF InstructionError, ReferenceError
<1>5. ~ uses => UNCHANGED symbolVars
  BY <1>3
<1> HIDE DEF uses, used
<1>6. /\ DOMAIN symtab' = DOMAIN symtab /\ UNCHANGED <<has_external, has_entry>>
      /\ \A s \in DOMAIN symtab :
           /\ symtab'[s].is_entry = symtab[s].is_entry
           /\ symtab'[s].dependent_offsets =
                IF uses /\ symtab[s].symbol = used
                THEN Append(symtab[s].dependent_offsets, line.code_position)
                ELSE symtab[s].dependent_offsets
  <2>1. CASE uses
    <3>1. PICK name, offset : name = used /\ offset = line.code_position
      OBVIOUS
    <3>2. exists(name) /\ useSymbol(name, offset, {})
      BY <1>4, <2>1, <3>1
    <3> QED BY <1>1, <2>1, <3>1, <3>2, UseEffect
  <2>2. CASE ~ uses
    BY <1>5, <2>2 DEF symbolVars
  <2> QED BY <2>1, <2>2
<1>7. code'[n + 1].line = i /\ code'[n + 1].word = word
  BY <1>2
<1>8. ASSUME NEW name
      PROVE  UsesOf(name)' = UsesOf(name) \cup (IF uses /\ used = name THEN {line.code_position} ELSE {})
  <2>1. 1 .. n + 1 = (1 .. n) \cup {n + 1}
    BY <1>2
  <2>2. \A k \in 1 .. n : CodeLine(k)' = CodeLine(k)
    BY <1>2 DEF CodeLine
  <2>3. CodeLine(n + 1)' = line
    BY <1>7 DEF CodeLine
  <2> DEFINE Refers(l) == LabelOperand(l) # 0 /\ UsedSymbol(l) = name
  <2>4. UsesOf(name) = {CodeLine(k).code_position : k \in {k \in 1 .. n : Refers(CodeLine(k))}}
    BY <1>2 DEF UsesOf, RefersTo
  <2>5. UsesOf(name)' = {CodeLine(k)'.code_position : k \in {k \in 1 .. n + 1 : Refers(CodeLine(k)')}}
    BY <1>2 DEF UsesOf, RefersTo
  <2>6. Refers(line) <=> uses /\ used = name
    BY DEF uses, used
  <2> HIDE DEF Refers
  <2>7. ASSUME NEW x \in UsesOf(name)'
        PROVE  x \in UsesOf(name) \/ (Refers(line) /\ x = line.code_position)
    <3>1. PICK k \in 1 .. n + 1 : Refers(CodeLine(k)') /\ x = CodeLine(k)'.code_position
      BY <2>5
    <3> QED BY <2>1, <2>2, <2>3, <2>4, <3>1
  <2>8. UsesOf(name) \subseteq UsesOf(name)'
    BY <2>1, <2>2, <2>4, <2>5
  <2>9. Refers(line) => line.code_position \in UsesOf(name)'
    BY <2>1, <2>3, <2>5
  <2> QED BY <2>6, <2>7, <2>8, <2>9
<1>9. UsesByNames'
  <2>1. ASSUME NEW s \in DOMAIN symtab, NEW name, name = symtab[s].symbol
        PROVE  {symtab'[s].dependent_offsets[j] : j \in DOMAIN symtab'[s].dependent_offsets} = UsesOf(name)'
    <3>1. PICK offsets : offsets = symtab[s].dependent_offsets
      OBVIOUS
    <3>2. offsets \in Seq(Int) /\ {offsets[j] : j \in DOMAIN offsets} = UsesOf(name)
      <4>1. symtab[s] \in Symbol
        BY <1>1
      <4>2. {symtab[s].dependent_offsets[j] : j \in DOMAIN symtab[s].dependent_offsets} = UsesOf(name)
        BY <2>1, UsesNamed DEF References, UsesByNames
      <4> QED BY <3>1, <4>1, <4>2 DEF Symbol
    <3>3. CASE uses /\ used = name
      <4>1. symtab'[s].dependent_offsets = Append(offsets, line.code_position)
        BY <1>6, <2>1, <3>1, <3>3
      <4>2. Elements(Append(offsets, line.code_position)) = Elements(offsets) \cup {line.code_position}
        BY <3>2, AppendedElements
      <4>3. {symtab'[s].dependent_offsets[j] : j \in DOMAIN symtab'[s].dependent_offsets}
              = Elements(Append(offsets, line.code_position))
        BY <4>1 DEF Elements
      <4> QED BY <1>8, <3>2, <3>3, <4>2, <4>3 DEF Elements
    <3>4. CASE ~ (uses /\ used = name)
      <4>1. symtab'[s].dependent_offsets = offsets
        BY <1>6, <2>1, <3>1, <3>4
      <4> QED BY <1>8, <3>2, <3>4, <4>1
    <3> QED BY <3>3, <3>4
  <2>2. \A s \in DOMAIN symtab : symtab'[s].symbol = symtab[s].symbol
    BY DEF SymbolsKept
  <2>3. DOMAIN symtab' = DOMAIN symtab
    BY <1>6
  <2> QED BY <2>1, <2>2, <2>3 DEF UsesByNames
<1>10. WordsByLine'
  <2>1. ASSUME NEW k \in DOMAIN code', NEW l, l = lines'[code'[k].line]
        PROVE  /\ code'[k].word = decodeInstructionLine(l)'
               /\ \E st \in BOOLEAN : InstructionError(l, st, {})' = "SUCCESS"
    <3>1. CASE k \in DOMAIN code
      BY <1>2, <2>1, <3>1, OldWordsStay DEF References
    <3>2. CASE k = n + 1
      <4>1. l = line /\ code'[k].word = word
        BY <1>7, <2>1, <3>2
      <4>2. /\ decodeInstructionLine(line)' = decodeInstructionLine(line)
            /\ InstructionError(line, stale, {})' = "SUCCESS"
        BY <1>1, WordStays
      <4> QED BY <4>1, <4>2
    <3> QED BY <1>2, <2>1, <3>1, <3>2
  <2> QED BY <2>1 DEF WordsByLine, CodeLine
<1> QED BY <1>6, <1>9, <1>10, UsesNamedNext, WordsAgainNext

-----------------------------------------------------------------------------
(***************************************************************************)
(* The actions.                                                            *)
(***************************************************************************)

LEMMA ReadSound ==
  ASSUME TypeInvariant, AddressInvariant, FirstLine \/ NextLine, Sound'
  PROVE  /\ Sound /\ Progress /\ pc \in {"open", "read"} /\ UNCHANGED <<symbolVars, memoryVars>>
         /\ \E l : /\ lines' = Append(lines, l)
                   /\ pc' = "handle" \/ (pc' = "fix" /\ l.type = "None")
<1>1. PICK raw \in Readable, failed \in Failing({"operand", "queue_node"}) :
        \E kept \in Kept(raw, failed) : Parse(raw, kept) /\ Fail(failed, erange)
  BY DEF FirstLine, NextLine
<1>2. PICK kept \in Kept(raw, failed) : Parse(raw, kept) /\ Fail(failed, erange)
  BY <1>1
<1>3. faults = 0
  BY <1>2, FailType, FourElements DEF Sound, TypeInvariant, TypeOK
<1>4. pc \in {"open", "read"} /\ UNCHANGED <<symbolVars, memoryVars>> /\ (errored => errored')
  <2>1. CASE FirstLine
    BY <2>1 DEF FirstLine
  <2>2. CASE NextLine
    BY <2>2 DEF NextLine
  <2> QED BY <2>1, <2>2
<1>5. Sound /\ Progress
  BY <1>3, <1>4 DEF Sound, AddressInvariant
<1>6. /\ pc' = "handle" \/ (pc' = "fix" /\ err' \in {"ERR_EOF", "ERR_OUT_OF_MEMEORY"})
      /\ pc = "read" => errored' = (errored \/ err' \notin {"SUCCESS", "ERR_EOF"})
      /\ pc = "open" /\ pc' = "fix" => err' = "ERR_EOF"
  BY DEF FirstLine, NextLine
<1>7. pc' = "fix" => err' = "ERR_EOF"
  BY <1>4, <1>6 DEF Sound
<1> DEFINE l == parseLine(raw, kept)
<1>8. lines' = Append(lines, l) /\ (err' = "ERR_EOF" => l.type = "None")
  BY <1>2, ReadableType, EndOfFile DEF Parse
<1> HIDE DEF l
<1> QED BY <1>4, <1>5, <1>6, <1>7, <1>8

LEMMA ReadReference ==
  ASSUME TypeInvariant, AddressInvariant, AddressInvariant', ReferenceInvariant,
         FirstLine \/ NextLine
  PROVE  ReferenceInvariant'
<1> SUFFICES ASSUME Sound' PROVE References'
  BY DEF ReferenceInvariant
<1>1. PICK l : /\ lines' = Append(lines, l)
               /\ pc' = "handle" \/ (pc' = "fix" /\ l.type = "None")
  BY ReadSound
<1> QED BY <1>1, ReadSound, ReadReferences DEF ReferenceInvariant, AddressInvariant

(* A line that is handled without an error, in a state that stays sound. *)
LEMMA HandledReference ==
  ASSUME TypeInvariant, AddressInvariant, AddressInvariant', ReferenceInvariant, Sound',
         faults = 0, pc = "handle", NEW error, Handled(error),
         Len(lines') = Len(lines), code' = code,
         \A j \in 1 .. Len(lines) :
           /\ lines'[j].type = lines[j].type /\ lines'[j].label = lines[j].label
           /\ lines'[j].args = lines[j].args,
         NEW new,
         \/ symtab' = symtab
         \/ symtab' = Append(symtab, new) /\ Fresh(new) /\ ComesFrom(new, Len(lines)),
         Current.type = "Extern" => symtab' = Append(symtab, new) /\ ExternalBy(new, Current),
         has_external' = (has_external \/ Current.type = "Extern"), has_entry' = has_entry,
         \/ data' = data
         \/ Current.type = "Data" /\ \E m \in Nat : data' = data \o [k \in 1 .. m |-> Len(lines)]
  PROVE  References'
<1>1. error = "SUCCESS" /\ pc' = "read" /\ Progress
  BY HandledSound
<1>2. Sound /\ Progress'
  BY <1>1 DEF Handled, Sound, AddressInvariant
<1> QED BY <1>1, <1>2, HandleReferences DEF ReferenceInvariant

LEMMA SkippedReference ==
  ASSUME TypeInvariant, AddressInvariant, AddressInvariant', ReferenceInvariant,
         HandleIgnored \/ HandleEntry
  PROVE  ReferenceInvariant'
<1> SUFFICES ASSUME Sound' PROVE References'
  BY DEF ReferenceInvariant
<1>1. /\ pc = "handle" /\ Current.type # "Extern"
      /\ UNCHANGED <<lines, faults, symbolVars, memoryVars>>
  BY DEF HandleIgnored, HandleEntry, Handling
<1>2. PICK error : Handled(error)
  BY DEF HandleIgnored, HandleEntry
<1>3. faults = 0
  BY <1>1 DEF Sound
<1>4. UNCHANGED <<symtab, has_external, has_entry, data, code>> /\ has_external \in BOOLEAN
  BY <1>1 DEF symbolVars, memoryVars, TypeInvariant, TypeOK, SymbolManagerTypeOK
<1>5. has_external' = (has_external \/ Current.type = "Extern")
  BY <1>1, <1>4
<1> QED BY <1>1, <1>2, <1>3, <1>4, <1>5, HandledReference

LEMMA HandleExternReference ==
  ASSUME TypeInvariant, AddressInvariant, AddressInvariant', ReferenceInvariant, HandleExtern
  PROVE  ReferenceInvariant'
<1> SUFFICES ASSUME Sound' PROVE References'
  BY DEF ReferenceInvariant
<1> DEFINE name == Current.args[1]
           new  == newSymbol(name, 0, TRUE, "Data")
<1>1. /\ pc = "handle" /\ Current.type = "Extern"
      /\ UNCHANGED <<lines, instruction_counter, memoryVars>>
  BY DEF HandleExtern, Handling
<1>2. Len(Current.args) = 1
  <2>1. CASE Len(Current.args) # 1
    <3>1. Handled("ERR_INVALID_SYNTAX_EXTERN_DECLERATION") /\ UNCHANGED faults
      BY <2>1 DEF HandleExtern
    <3>2. faults = 0
      BY <3>1 DEF Sound
    <3> QED BY <1>1, <3>1, <3>2, HandledSound
  <2> QED BY <2>1
<1>3. PICK failed \in Failing({"symbol", "node"}) :
        /\ insertSymbol(name, 0, TRUE, "Data", failed)
        /\ Handled(InsertError(name, failed))
        /\ Fail(failed, erange)
  BY <1>2 DEF HandleExtern
<1>4. faults = 0 /\ failed = {}
  BY <1>3, FailType, FourElements DEF Sound, TypeInvariant, TypeOK
<1>5. InsertError(name, failed) = "SUCCESS"
  BY <1>1, <1>3, <1>4, HandledSound
<1>6. symtab' = Append(symtab, new) /\ has_external' = TRUE /\ has_entry' = has_entry
  BY <1>3, <1>4, <1>5 DEF insertSymbol
<1>7. Fresh(new) /\ ComesFrom(new, Len(lines)) /\ ExternalBy(new, Current)
  BY <1>1 DEF Fresh, ComesFrom, ExternalBy, newSymbol, Current
<1>8. has_external' = (has_external \/ Current.type = "Extern")
  BY <1>1, <1>6
<1>9. UNCHANGED <<data, code>>
  BY <1>1 DEF memoryVars
<1> HIDE DEF new, name
<1> QED BY <1>1, <1>3, <1>4, <1>6, <1>7, <1>8, <1>9, HandledReference

(* The symbol of a label, when nothing is wrong with it. *)
LEMMA DeclareShape ==
  ASSUME TypeInvariant, NEW val, NEW section, DeclareLabel(val, section, {}),
         DeclareError({}) = "SUCCESS", Current.type \in {"Code", "Data"}
  PROVE  /\ \E new : \/ symtab' = symtab
                     \/ /\ symtab' = Append(symtab, new)
                        /\ Fresh(new) /\ ComesFrom(new, Len(lines))
         /\ has_external' = (has_external \/ Current.type = "Extern") /\ has_entry' = has_entry
<1>1. has_external \in BOOLEAN
  BY DEF TypeInvariant, TypeOK, SymbolManagerTypeOK
<1>2. CASE Current.label = Empty
  <2>1. UNCHANGED <<symtab, has_external, has_entry>>
    BY <1>2 DEF DeclareLabel, symbolVars
  <2> QED BY <1>1, <2>1
<1>3. CASE Current.label # Empty
  <2> DEFINE new == newSymbol(Current.label, val, FALSE, section)
  <2>1. insertSymbol(Current.label, val, FALSE, section, {}) /\ InsertError(Current.label, {}) = "SUCCESS"
    BY <1>3 DEF DeclareLabel, DeclareError
  <2>2. symtab' = Append(symtab, new) /\ has_external' = (has_external \/ FALSE) /\ has_entry' = has_entry
    BY <2>1 DEF insertSymbol
  <2>3. Fresh(new) /\ ComesFrom(new, Len(lines))
    BY <1>3 DEF Fresh, ComesFrom, Declares, Labelled, newSymbol, Current
  <2>4. has_external' = (has_external \/ Current.type = "Extern")
    BY <1>1, <2>2
  <2> HIDE DEF new
  <2> QED BY <2>2, <2>3, <2>4
<1> QED BY <1>2, <1>3

LEMMA HandleDataReference ==
  ASSUME TypeInvariant, AddressInvariant, AddressInvariant', ReferenceInvariant, HandleData
  PROVE  ReferenceInvariant'
<1> SUFFICES ASSUME Sound' PROVE References'
  BY DEF ReferenceInvariant
<1>1. PICK failed \in Failing({"symbol", "node", "buffer", "grow"}) :
        LET declared == DeclareError(failed)
            stale    == erange /\ "node" \notin failed
            decoded  == DataError(Current, stale, failed)
        IN  /\ DeclareLabel(data_counter, "Data", failed)
            /\ IF declared # "SUCCESS"
               THEN Handled(declared) /\ UNCHANGED memoryVars
               ELSE IF decoded # "SUCCESS"
               THEN Handled(decoded) /\ UNCHANGED memoryVars
               ELSE /\ writeData(Len(lines), DataSize(Current), failed)
                    /\ Handled(WriteDataError(DataSize(Current), failed))
            /\ Fail(failed, IF declared = "SUCCESS" THEN ErangeAfterData(Current, stale)
                            ELSE erange)
  BY DEF HandleData
<1> DEFINE stale == erange /\ "node" \notin failed
           decoded == DataError(Current, stale, failed)
           size == DataSize(Current)
<1>2. pc = "handle" /\ Current.type = "Data" /\ UNCHANGED lines /\ Current \in AssemblyLine
  BY CurrentType DEF HandleData, Handling
<1>3. faults = 0 /\ failed = {}
  <2>1. PICK flag \in BOOLEAN : Fail(failed, flag)
    <3>1. erange \in BOOLEAN /\ ErangeAfterData(Current, stale) \in BOOLEAN
      BY DEF TypeInvariant, TypeOK, ErangeAfterData
    <3> QED BY <1>1, <3>1
  <2>2. IsFiniteSet({"symbol", "node", "buffer", "grow"})
    BY FourElements
  <2>3. faults \in Nat /\ faults' = 0
    BY DEF Sound, TypeInvariant, TypeOK
  <2> QED BY <2>1, <2>2, <2>3, FailType
<1>4. DeclareError(failed) = "SUCCESS"
  <2>1. CASE DeclareError(failed) # "SUCCESS"
    <3>1. Handled(DeclareError(failed))
      BY <1>1, <2>1
    <3> QED BY <1>2, <1>3, <2>1, <3>1, HandledSound
  <2> QED BY <2>1
<1>5. decoded = "SUCCESS"
  <2>1. CASE decoded # "SUCCESS"
    <3>1. Handled(decoded)
      BY <1>1, <1>4, <2>1
    <3> QED BY <1>2, <1>3, <2>1, <3>1, HandledSound
  <2> QED BY <2>1
<1>6. writeData(Len(lines), size, failed) /\ Handled(WriteDataError(size, failed))
  BY <1>1, <1>4, <1>5
<1>7. WriteDataError(size, failed) = "SUCCESS"
  BY <1>3 DEF WriteDataError, AppendError
<1>8. size \in Nat
  BY <1>2, <1>5, DataSizeType
<1>9. UNCHANGED code /\ data' = data \o [k \in 1 .. size |-> Len(lines)]
  BY <1>6, <1>7 DEF writeData
<1>10. /\ \E new : \/ symtab' = symtab
                   \/ /\ symtab' = Append(symtab, new)
                      /\ Fresh(new) /\ ComesFrom(new, Len(lines))
       /\ has_external' = (has_external \/ Current.type = "Extern") /\ has_entry' = has_entry
  <2>1. DeclareLabel(data_counter, "Data", {}) /\ DeclareError({}) = "SUCCESS"
    BY <1>1, <1>3, <1>4
  <2> QED BY <1>2, <2>1, DeclareShape
<1> HIDE DEF size
<1>11. PICK new : \/ symtab' = symtab
                  \/ /\ symtab' = Append(symtab, new)
                     /\ Fresh(new) /\ ComesFrom(new, Len(lines))
  BY <1>10
<1> QED BY <1>2, <1>3, <1>6, <1>8, <1>9, <1>10, <1>11, HandledReference

LEMMA HandleCodeReference ==
  ASSUME TypeInvariant, AddressInvariant, AddressInvariant', ReferenceInvariant, HandleCode
  PROVE  ReferenceInvariant'
<1> SUFFICES ASSUME Sound' PROVE References'
  BY DEF ReferenceInvariant
<1>1. PICK failed \in Failing({"symbol", "node"}) :
        /\ DeclareLabel(instruction_counter, "Code", failed)
        /\ Handled(DeclareError(failed))
        /\ Fail(failed, erange)
  BY DEF HandleCode
<1>2. /\ pc = "handle" /\ Current.type = "Code"
      /\ lines' = [lines EXCEPT ![Len(lines)].code_position = instruction_counter]
      /\ UNCHANGED <<data, code>>
  BY DEF HandleCode, Handling, memoryVars
<1>3. faults = 0 /\ failed = {}
  BY <1>1, FailType, FourElements DEF Sound, TypeInvariant, TypeOK
<1>4. DeclareError(failed) = "SUCCESS"
  BY <1>1, <1>2, <1>3, HandledSound
<1>5. PICK new : \/ symtab' = symtab
                 \/ /\ symtab' = Append(symtab, new)
                    /\ Fresh(new) /\ ComesFrom(new, Len(lines))
  BY <1>1, <1>2, <1>3, <1>4, DeclareShape
<1>6. has_external' = (has_external \/ Current.type = "Extern") /\ has_entry' = has_entry
  BY <1>1, <1>2, <1>3, <1>4, DeclareShape
<1>7. /\ Len(lines') = Len(lines)
      /\ \A j \in 1 .. Len(lines) :
           /\ lines'[j].type = lines[j].type /\ lines'[j].label = lines[j].label
           /\ lines'[j].args = lines[j].args
  <2>1. lines \in Seq(AssemblyLine) /\ Len(lines) \in Nat
    BY DEF TypeInvariant, TypeOK
  <2>2. ASSUME NEW j \in 1 .. Len(lines)
        PROVE  /\ lines'[j].type = lines[j].type /\ lines'[j].label = lines[j].label
               /\ lines'[j].args = lines[j].args
    <3>1. lines[j] \in AssemblyLine
      BY <2>1
    <3>2. lines'[j] = lines[j] \/ lines'[j] = [lines[j] EXCEPT !.code_position = instruction_counter]
      BY <1>2, <2>1
    <3> QED BY <3>1, <3>2 DEF AssemblyLine
  <2>3. ASSUME NEW l PROVE Len([lines EXCEPT ![Len(lines)] = l]) = Len(lines)
    BY <2>1
  <2> QED BY <1>2, <2>2, <2>3
<1> QED BY <1>1, <1>2, <1>3, <1>5, <1>6, <1>7, HandledReference

LEMMA FinishFirstPassReference ==
  ASSUME TypeInvariant, AddressInvariant, AddressInvariant', ReferenceInvariant, FinishFirstPass
  PROVE  ReferenceInvariant'
<1> SUFFICES ASSUME Sound' PROVE References'
  BY DEF ReferenceInvariant
<1>1. /\ pc = "fix" /\ pc' \in {"rejected", "second"}
      /\ fixDataSymbolsOffset(instruction_counter)
      /\ UNCHANGED <<lines, queueVars, errored, faults, memoryVars>>
  BY DEF FinishFirstPass
<1>2. pc' = "second" /\ Sound
  BY <1>1 DEF Sound
<1> QED BY <1>1, <1>2, FixReferences DEF ReferenceInvariant, AddressInvariant

(* What every line popped without an error shares. *)
LEMMA PoppedReference ==
  ASSUME TypeInvariant, AddressInvariant, AddressInvariant', ReferenceInvariant, Sound',
         faults = 0, pc = "second", queue # <<>>, NEW error, Popped(error)
  PROVE  /\ Progress /\ References /\ error = "SUCCESS" /\ UNCHANGED lines
         /\ LastPopped \in Nat /\ LastPopped' = LastPopped + 1 /\ First = lines[LastPopped']
         /\ LastHandled' = LastHandled /\ Head(queue) = LastPopped'
<1>1. /\ error = "SUCCESS" /\ pc' = "second" /\ Progress /\ queue' = Tail(queue)
      /\ UNCHANGED lines
  BY PoppedSound
<1>2. References
  BY <1>1 DEF Popped, Sound, ReferenceInvariant
<1> QED BY <1>1, <1>2, NextPopped

LEMMA PopIgnoredReference ==
  ASSUME TypeInvariant, TypeInvariant', AddressInvariant, AddressInvariant', ReferenceInvariant,
         PopIgnored
  PROVE  ReferenceInvariant'
<1> SUFFICES ASSUME Sound' PROVE References'
  BY DEF ReferenceInvariant
<1>1. /\ pc = "second" /\ queue # <<>> /\ First.type # "Entry" /\ Popped("SUCCESS")
      /\ UNCHANGED <<faults, symbolVars, memoryVars>>
  BY DEF PopIgnored, Popping
<1>2. UNCHANGED <<symtab, has_external, has_entry, data, code>> /\ faults = 0
  BY <1>1 DEF symbolVars, memoryVars, Sound
<1>3. /\ Progress /\ References /\ UNCHANGED lines /\ LastHandled' = LastHandled
      /\ LastPopped \in Nat /\ LastPopped' = LastPopped + 1 /\ First = lines[LastPopped']
  BY <1>1, <1>2, PoppedReference
<1>4. SymbolsKept /\ UniqueSymbols /\ UniqueSymbols'
  BY <1>1, UntouchedKept DEF AddressInvariant
<1>5. EntriesAreMarked'
  BY <1>1, <1>2, <1>3, <1>4, NoEntryPopped DEF References
<1>6. UsesAreRecorded' /\ WordsAreEncoded'
  BY <1>2, <1>3, <1>4, NoWordPopped
<1> QED BY <1>2, <1>3, <1>4, <1>5, <1>6, PopKeepsDeclarations DEF References

LEMMA PopEntryReference ==
  ASSUME TypeInvariant, TypeInvariant', AddressInvariant, AddressInvariant', ReferenceInvariant,
         PopEntry
  PROVE  ReferenceInvariant'
<1> SUFFICES ASSUME Sound' PROVE References'
  BY DEF ReferenceInvariant
<1>1. /\ pc = "second" /\ queue # <<>> /\ First.type = "Entry" /\ UNCHANGED <<faults, data, code>>
  BY DEF PopEntry, Popping, memoryVars
<1>2. faults = 0 /\ symtab \in Seq(Symbol)
  BY <1>1 DEF Sound, TypeInvariant, TypeOK, SymbolManagerTypeOK
<1>3. Popped(EntryError(First.args[1])) /\ markSymEntry(First.args[1])
  <2>1. CASE Len(First.args) < 1
    <3>1. Popped("ERR_INVALID_SYNTAX_ENTRY_DECLERATION")
      BY <2>1 DEF PopEntry
    <3> QED BY <1>1, <1>2, <3>1, PoppedReference
  <2> QED BY <2>1 DEF PopEntry
<1>4. /\ Progress /\ References /\ UNCHANGED lines /\ LastHandled' = LastHandled
      /\ LastPopped \in Nat /\ LastPopped' = LastPopped + 1 /\ First = lines[LastPopped']
      /\ EntryError(First.args[1]) = "SUCCESS"
  BY <1>1, <1>2, <1>3, PoppedReference
<1>5. PICK line : line = First
  OBVIOUS
<1>6. markSymEntry(line.args[1]) /\ EntryError(line.args[1]) = "SUCCESS"
  BY <1>3, <1>4, <1>5
<1>7. SymbolsKept /\ UniqueSymbols /\ UniqueSymbols'
  BY <1>2, <1>6, MarkKeeps DEF AddressInvariant
<1>8. /\ DOMAIN symtab' = DOMAIN symtab /\ UNCHANGED has_external
      /\ \A s \in DOMAIN symtab : symtab'[s].dependent_offsets = symtab[s].dependent_offsets
  BY <1>2, <1>6, <1>7, MarkEffect
<1>9. EntriesAreMarked'
  BY <1>1, <1>2, <1>4, <1>5, <1>6, <1>7, EntryPopped DEF References
<1>10. UsesAreRecorded' /\ WordsAreEncoded'
  BY <1>1, <1>4, <1>7, <1>8, NoWordPopped
<1> QED BY <1>1, <1>4, <1>7, <1>8, <1>9, <1>10, PopKeepsDeclarations DEF References

LEMMA PopCodeReference ==
  ASSUME TypeInvariant, TypeInvariant', AddressInvariant, AddressInvariant', ReferenceInvariant,
         PopCode
  PROVE  ReferenceInvariant'
<1> SUFFICES ASSUME Sound' PROVE References'
  BY DEF ReferenceInvariant
<1>1. PICK failed \in Failing({"offsets", "grow"}) :
        LET decoded == InstructionError(First, erange, failed)
        IN  /\ IF UsesSymbol(First, erange)
               THEN useSymbol(UsedSymbol(First), First.code_position, failed)
               ELSE UNCHANGED symbolVars
            /\ IF decoded = "SUCCESS"
               THEN /\ writeCode(Head(queue), decodeInstructionLine(First), failed)
                    /\ Popped(WriteCodeError(failed))
               ELSE Popped(decoded) /\ UNCHANGED memoryVars
            /\ Fail(failed, ErangeAfterCode(First, erange))
  BY DEF PopCode
<1>2. pc = "second" /\ queue # <<>> /\ First.type = "Code"
  BY DEF PopCode, Popping
<1>3. faults = 0 /\ failed = {}
  <2>1. ErangeAfterCode(First, erange) \in BOOLEAN /\ faults \in Nat /\ faults' = 0
    BY DEF TypeInvariant, TypeOK, ErangeAfterCode, Sound
  <2>2. Fail(failed, ErangeAfterCode(First, erange)) /\ IsFiniteSet({"offsets", "grow"})
    BY <1>1, FourElements
  <2> QED BY <2>1, <2>2, FailType
<1>4. PICK line, stale : line = First /\ stale = erange
  OBVIOUS
<1>5. stale \in BOOLEAN
  BY <1>4 DEF TypeInvariant, TypeOK
<1>6. InstructionError(line, stale, {}) = "SUCCESS"
  <2>1. CASE InstructionError(line, stale, {}) # "SUCCESS"
    <3>1. Popped(InstructionError(line, stale, {}))
      BY <1>1, <1>3, <1>4, <2>1
    <3> QED BY <1>2, <1>3, <2>1, <3>1, PoppedReference
  <2> QED BY <2>1
<1>7. writeCode(Head(queue), decodeInstructionLine(line), {}) /\ Popped(WriteCodeError({}))
  BY <1>1, <1>3, <1>4, <1>6
<1>8. /\ Progress /\ References /\ UNCHANGED lines /\ LastHandled' = LastHandled
      /\ LastPopped \in Nat /\ LastPopped' = LastPopped + 1 /\ First = lines[LastPopped']
      /\ Head(queue) = LastPopped'
  BY <1>2, <1>3, <1>7, PoppedReference
<1>9. PICK i, word : i = Head(queue) /\ word = decodeInstructionLine(line)
  OBVIOUS
<1>10. UNCHANGED data /\ code' = Append(code, [line |-> i, word |-> word])
  <2>1. WriteCodeError({}) = "SUCCESS"
    BY DEF WriteCodeError, AppendError
  <2> QED BY <1>7, <1>9, <2>1 DEF writeCode
<1>11. IF UsesSymbol(line, stale) THEN useSymbol(UsedSymbol(line), line.code_position, {})
       ELSE UNCHANGED symbolVars
  BY <1>1, <1>3, <1>4
<1>12. SymbolsKept /\ UniqueSymbols /\ UniqueSymbols'
  <2>1. symtab \in Seq(Symbol)
    BY DEF TypeInvariant, TypeOK, SymbolManagerTypeOK
  <2>2. CASE UNCHANGED symbolVars
    BY <2>2, UntouchedKept DEF AddressInvariant
  <2>3. CASE useSymbol(UsedSymbol(line), line.code_position, {})
    BY <2>1, <2>3, UseKeeps DEF AddressInvariant
  <2> QED BY <1>11, <2>2, <2>3
<1>13. /\ UsesAreRecorded' /\ WordsAreEncoded'
       /\ DOMAIN symtab' = DOMAIN symtab /\ UNCHANGED <<has_external, has_entry>>
       /\ \A s \in DOMAIN symtab : symtab'[s].is_entry = symtab[s].is_entry
  <2>1. line = lines[i]
    BY <1>4, <1>8, <1>9
  <2> QED BY <1>5, <1>6, <1>8, <1>9, <1>10, <1>11, <1>12, <2>1, WordPopped
<1>14. EntriesAreMarked'
  BY <1>2, <1>8, <1>12, <1>13, NoEntryPopped DEF References
<1> QED BY <1>8, <1>10, <1>12, <1>13, <1>14, PopKeepsDeclarations DEF References

(* The parts of References depend on these only. *)
LEMMA SameReferences ==
  ASSUME ReferenceInvariant, Sound' => Sound, LastHandled' = LastHandled, LastPopped' = LastPopped,
         UNCHANGED <<lines, symbolVars, memoryVars>>
  PROVE  ReferenceInvariant'
<1> SUFFICES ASSUME Sound' PROVE References'
  BY DEF ReferenceInvariant
<1>1. References /\ UNCHANGED <<symtab, has_external, has_entry, data, code>>
  BY DEF ReferenceInvariant, symbolVars, memoryVars
<1>2. DataIsInOrder' /\ SymbolsComeFromLines' /\ ExternsAreDeclared' /\ EntriesAreMarked'
  BY <1>1 DEF References, DataIsInOrder, SymbolsComeFromLines, ComesFrom, Declares, Labelled,
              ExternsAreDeclared, ExternalBy, EntriesAreMarked, MarkedBy
<1>3. UsesAreRecorded'
  <2>1. ASSUME NEW name PROVE UsesOf(name)' = UsesOf(name)
    BY <1>1 DEF UsesOf, RefersTo, CodeLine
  <2>2. UsesByNames'
    BY <1>1, <2>1, UsesNamed DEF References, UsesByNames
  <2> QED BY <2>2, UsesNamedNext
<1>4. WordsAreEncoded'
  <2>1. ASSUME NEW line
        PROVE  decodeInstructionLine(line)' = decodeInstructionLine(line)
    BY <1>1 DEF decodeInstructionLine, EncodeI, EncodeR, EncodeJ, Distance, find
  <2>2. ASSUME NEW line, NEW stale
        PROVE  InstructionError(line, stale, {})' = InstructionError(line, stale, {})
    BY <1>1 DEF InstructionError, ReferenceError, Distance, find, exists
  <2>3. WordsByLine'
    BY <1>1, <2>1, <2>2, WordsAgain DEF References, WordsByLine, CodeLine
  <2> QED BY <2>3, WordsAgainNext
<1> QED BY <1>2, <1>3, <1>4 DEF References

LEMMA ReferenceStep ==
  ASSUME TypeInvariant, TypeInvariant', AddressInvariant, AddressInvariant', ReferenceInvariant,
         [Next]_vars
  PROVE  ReferenceInvariant'
<1>1. CASE FirstLine \/ NextLine
  BY <1>1, ReadReference
<1>2. CASE HandleIgnored \/ HandleEntry
  BY <1>2, SkippedReference
<1>3. CASE HandleExtern \/ HandleData \/ HandleCode
  BY <1>3, HandleExternReference, HandleDataReference, HandleCodeReference
<1>4. CASE FinishFirstPass
  BY <1>4, FinishFirstPassReference
<1>5. CASE PopIgnored \/ PopEntry \/ PopCode
  BY <1>5, PopIgnoredReference, PopEntryReference, PopCodeReference
<1>6. CASE NoNextLine \/ Crash
  <2>1. ~ Sound'
    BY <1>6 DEF NoNextLine, Crash, Sound
  <2> QED BY <2>1 DEF ReferenceInvariant
<1>7. CASE FinishSecondPass
  <2>1. /\ pc = "second" /\ pc' # "handle"
        /\ UNCHANGED <<lines, queue, errored, faults, symbolVars, memoryVars>>
    BY <1>7 DEF FinishSecondPass, queueVars
  <2>2. (Sound' => Sound) /\ LastHandled' = LastHandled /\ LastPopped' = LastPopped
    BY <2>1 DEF Sound, LastHandled, LastPopped
  <2> QED BY <2>1, <2>2, SameReferences
<1>8. CASE UNCHANGED vars
  <2>1. UNCHANGED <<pc, lines, queue, errored, faults, symbolVars, memoryVars>>
    BY <1>8 DEF vars, passVars, queueVars
  <2>2. (Sound' => Sound) /\ LastHandled' = LastHandled /\ LastPopped' = LastPopped
    BY <2>1 DEF Sound, LastHandled, LastPopped
  <2> QED BY <2>1, <2>2, SameReferences
<1> QED
  BY <1>1, <1>2, <1>3, <1>4, <1>5, <1>6, <1>7, <1>8 DEF Next, FirstPass, SecondPass, Terminated

LEMMA ReferenceInit == Init => ReferenceInvariant
<1> SUFFICES ASSUME Init PROVE References
  BY DEF ReferenceInvariant
<1>1. /\ lines = <<>> /\ queue = <<>> /\ symtab = <<>> /\ data = <<>> /\ code = <<>>
      /\ has_external = FALSE /\ has_entry = FALSE /\ pc = "open"
  BY DEF Init, newLineQueue, newSymbolManager, newMemory
<1>2. LastHandled = 0 /\ LastPopped = 0
  BY <1>1 DEF LastHandled, LastPopped
<1>3. EntriesAreMarked /\ UsesAreRecorded /\ WordsAreEncoded
  BY <1>1, <1>2, UnusedParts DEF NothingUsed
<1>4. DataIsInOrder /\ SymbolsComeFromLines /\ ExternsAreDeclared
  BY <1>1, <1>2 DEF DataIsInOrder, SymbolsComeFromLines, ExternsAreDeclared
<1> QED BY <1>3, <1>4 DEF References

LEMMA ReferenceInductive ==
  Spec => [](TypeInvariant /\ AddressInvariant /\ NoErrorIsForgotten /\ ReferenceInvariant)
<1>1. Init => TypeInvariant /\ AddressInvariant /\ NoErrorIsForgotten /\ ReferenceInvariant
  <2>1. Init => NoErrorIsForgotten
    BY DEF Init, NoErrorIsForgotten
  <2> QED BY <2>1, TypeInit, AddressInit, ReferenceInit
<1>2. TypeInvariant /\ AddressInvariant /\ NoErrorIsForgotten /\ ReferenceInvariant /\ [Next]_vars
        => (TypeInvariant /\ AddressInvariant /\ NoErrorIsForgotten /\ ReferenceInvariant)'
  BY TypeStep, AddressStep, ErrorStep, ReferenceStep
<1> QED BY <1>1, <1>2, PTL DEF Spec

-----------------------------------------------------------------------------
(***************************************************************************)
(* What the fields hold.                                                   *)
(***************************************************************************)

LEMMA NegativeRemainder ==
  ASSUME NEW m \in Nat \ {0}, NEW v \in Int, -m <= v, v < 0
  PROVE  v % m = v + m
<1> DEFINE q == v \div m
           r == v % m
<1>1. q \in Int /\ r \in 0 .. m - 1 /\ v = m * q + r
  OBVIOUS
<1> HIDE DEF q, r
<1>2. q = -1
  <2>1. CASE q >= 0
    <3>1. m * q >= 0
      BY <1>1, <2>1
    <3> QED BY <1>1, <3>1
  <2>2. CASE q <= -2
    <3>1. m * q <= m * (-2)
      BY <1>1, <2>2
    <3> QED BY <1>1, <3>1
  <2> QED BY <1>1, <2>1, <2>2
<1>3. r = v + m
  BY <1>1, <1>2
<1> QED BY <1>3 DEF r

(* A number cut to the width of a field is read back from the field, if it   *)
(* is in the two's complement range of that width.                           *)
LEMMA FieldHoldsNumber ==
  ASSUME NEW w \in Nat \ {0}, NEW v \in Int, -(TwoTo[w - 1]) <= v, v < TwoTo[w - 1]
  PROVE  SignExtend(BitField(v, w), w) = v
<1> DEFINE half == TwoTo[w - 1]
           full == TwoTo[w]
<1>1. half \in Nat /\ half >= 1 /\ full = 2 * half
  <2>1. w - 1 \in Nat /\ (w - 1) + 1 = w
    OBVIOUS
  <2> QED BY <2>1, TwoToDefined, TwoToPositive
<1>2. -half <= v /\ v < half
  OBVIOUS
<1> HIDE DEF half, full
<1>3. CASE v >= 0
  <2>1. v % full = v
    BY <1>1, <1>2, <1>3
  <2> QED BY <1>2, <2>1 DEF SignExtend, BitField, half, full
<1>4. CASE v < 0
  <2>1. v % full = v + full
    <3>1. full \in Nat \ {0} /\ -full <= v /\ v < 0
      BY <1>1, <1>2, <1>4
    <3> QED BY <3>1, NegativeRemainder
  <2>2. ~ (v + full < half) /\ (v + full) - full = v
    BY <1>1, <1>2
  <2> QED BY <2>1, <2>2 DEF SignExtend, BitField, half, full
<1> QED BY <1>3, <1>4

(* The numbers that the range check lets through fit their width. *)
LEMMA AcceptedFits ==
  ASSUME NEW w \in Nat \ {0}, w <= ImmedBits, NEW v \in LongMin .. LongMax,
         number_fits_in_bits(v, w - 1)
  PROVE  /\ -(TwoTo[w - 1]) <= v /\ v < TwoTo[w - 1]
         /\ LongMin < v /\ v < LongMax
<1> DEFINE big   == TwoTo[LongBits - 1]
           small == TwoTo[w - 1]
           magnitude == IF v < 0 THEN -v + 1 ELSE v
<1>1. /\ LongBits \in Nat /\ LongBits - 1 \in Nat /\ w - 1 \in Nat
      /\ w - 1 < LongBits - 1 /\ (LongBits - 1) + 1 = LongBits /\ 1 <= LongBits - 1
  BY Widths DEF LongBits, ImmedBits
<1>2. small \in Nat /\ small >= 1 /\ big \in Nat /\ 2 * small <= big /\ TwoTo[LongBits] = 2 * big
  BY <1>1, TwoToDefined, TwoToPositive, TwoToGrows
<1>3. big >= 4
  <2>1. LongBits >= 4
    BY Widths
  <2>2. 0 < 1 /\ 1 < LongBits - 1 /\ TwoTo[0] = 1
    BY <1>1, <2>1, TwoToDefined
  <2>3. 2 * TwoTo[0] <= TwoTo[1] /\ 2 * TwoTo[1] <= big
    BY <1>1, <2>2, TwoToGrows
  <2>4. TwoTo[1] \in Nat
    BY TwoToPositive
  <2> QED BY <1>2, <2>2, <2>3, <2>4
<1>4. LongMax = big - 1 /\ LongMin = -big /\ v \in Int /\ -big <= v /\ v <= big - 1
  BY <1>2 DEF LongMax, LongMin
<1>5. magnitude % TwoTo[LongBits] < small
  BY DEF number_fits_in_bits
<1> HIDE DEF big, small
<1>6. magnitude \in 0 .. 2 * big - 1
  BY <1>2, <1>3, <1>4
<1>7. magnitude % (2 * big) = magnitude
  <2> HIDE DEF magnitude
  <2> QED BY <1>2, <1>3, <1>6
<1>8. magnitude < small
  BY <1>2, <1>5, <1>7
<1> QED BY <1>2, <1>3, <1>4, <1>8 DEF small

LEMMA NumberInLong ==
  ASSUME NEW tok \in Token
  PROVE  /\ NumberOf(tok) \in LongMin .. LongMax
         /\ tok.k = "num" /\ NumberOf(tok) \notin {LongMin, LongMax} => NumberOf(tok) = tok.n
<1>1. tok.n \in Int
  BY DEF Token
<1>2. LongMin \in Int /\ LongMax \in Int /\ LongMin <= 0 /\ 0 <= LongMax
  BY Widths DEF LongMin, LongMax
<1> QED BY <1>1, <1>2 DEF NumberOf, Clamped

(* Without a first error there is no error. *)
LEMMA NoFirstError ==
  ASSUME NEW results, NEW n \in Nat, DOMAIN results = 1 .. n, FirstError(results) = "SUCCESS"
  PROVE  \A i \in 1 .. n : results[i] = "SUCCESS"
<1> DEFINE bad == {i \in DOMAIN results : results[i] # "SUCCESS"}
<1>1. bad \in SUBSET Nat /\ \A i \in bad : i # 0
  OBVIOUS
<1>2. CASE bad = {}
  BY <1>2
<1>3. CASE bad # {}
  <2>1. \E i \in bad : \A j \in bad : i <= j
    <3> HIDE DEF bad
    <3> QED BY <1>1, <1>3, LeastNatural
  <2>2. FirstBad(results) \in bad /\ FirstBad(results) # 0
    BY <1>1, <1>3, <2>1 DEF FirstBad
  <2> QED BY <2>2 DEF FirstError
<1> QED BY <1>2, <1>3

-----------------------------------------------------------------------------
(***************************************************************************)
(* What the invariant says of an assembled source.                         *)
(***************************************************************************)
AtTheEndOfIt ==
  TypeInvariant /\ AddressInvariant /\ NoErrorIsForgotten /\ ReferenceInvariant /\ Assembled

LEMMA WordsAtTheEnd ==
  ASSUME AtTheEndOfIt
  PROVE  /\ References /\ Len(lines) \in Nat /\ DOMAIN lines = 1 .. Len(lines)
         /\ LastHandled = Len(lines) /\ LastPopped = Len(lines)
         /\ symtab \in Seq(Symbol) /\ UniqueSymbols /\ lines \in Seq(AssemblyLine)
         /\ \A k \in DOMAIN code :
              /\ code[k].line \in 1 .. Len(lines) /\ CodeLine(k) \in AssemblyLine
              /\ CodeLine(k).type = "Code" /\ CodeLine(k).code_position = CodeAddress(k)
              /\ CodeAddress(k) \in Int
<1> USE DEF AtTheEndOfIt
<1>1. Progress /\ LastHandled = Len(lines) /\ LastPopped = Len(lines) /\ Len(lines) \in Nat
  BY AtTheEnd
<1>2. References
  BY DEF Assembled, Sound, NoErrorIsForgotten, ReferenceInvariant
<1>3. /\ symtab \in Seq(Symbol) /\ lines \in Seq(AssemblyLine) /\ UniqueSymbols
      /\ DOMAIN code \subseteq Nat
  BY DEF TypeInvariant, TypeOK, SymbolManagerTypeOK, MemoryTypeOK, AddressInvariant
<1>4. ASSUME NEW k \in DOMAIN code
      PROVE  /\ code[k].line \in 1 .. Len(lines) /\ CodeLine(k).type = "Code"
             /\ CodeLine(k).code_position = CodeAddress(k)
  <2>1. code[k].line \in 1 .. Len(lines) /\ CodeLine(k).type = "Code"
    BY <1>1 DEF Progress, CodeIsInOrder, CodeUpTo, CodeLine
  <2> QED BY <2>1, CodeDerived DEF CodeIsWhereItWasCounted
<1>5. \A k \in DOMAIN code : CodeLine(k) \in AssemblyLine
  BY <1>3, <1>4 DEF CodeLine
<1>6. \A k \in DOMAIN code : CodeAddress(k) \in Int
  BY <1>3 DEF CodeAddress, INSTRUCTION_COUNTER_INITIAL_VALUE, WORD_SIZE
<1> QED BY <1>1, <1>2, <1>3, <1>4, <1>5, <1>6

(* The word of a line, whose operands were found right. *)
LEMMA WordOf ==
  ASSUME AtTheEndOfIt, NEW k \in DOMAIN code, NEW line, line = CodeLine(k)
  PROVE  /\ code[k].word = decodeInstructionLine(line)
         /\ \E stale \in BOOLEAN :
              OperandsError(line, stale) = "SUCCESS" /\ InstructionError(line, stale, {}) = "SUCCESS"
<1>1. WordsByLine
  BY WordsAtTheEnd, WordsAgain DEF References
<1>2. PICK stale \in BOOLEAN : InstructionError(line, stale, {}) = "SUCCESS"
  BY <1>1 DEF WordsByLine
<1>3. OperandsError(line, stale) = "SUCCESS"
  BY <1>2 DEF InstructionError, UsesSymbol
<1> QED BY <1>1, <1>2, <1>3 DEF WordsByLine

LEMMA ImmediatesDerived == AtTheEndOfIt => ImmediatesAreEncoded
<1> SUFFICES ASSUME AtTheEndOfIt, NEW k \in DOMAIN code,
                    is_i_command(CodeLine(k).opcode_name), OperandFormat(CodeLine(k))[2] = "number"
             PROVE  SignExtend(code[k].word.immed, ImmedBits) = CodeLine(k).args[2].n
  BY DEF ImmediatesAreEncoded, AtTheEndOfIt
<1>1. PICK line : line = CodeLine(k)
  OBVIOUS
<1>2. line \in AssemblyLine /\ is_i_command(line.opcode_name) /\ OperandFormat(line)[2] = "number"
  BY <1>1, WordsAtTheEnd
<1>3. PICK stale \in BOOLEAN : OperandsError(line, stale) = "SUCCESS"
  BY <1>1, WordOf
<1>4. OperandFormat(line) = <<"register", "number", "register">> /\ LabelOperand(line) = 0
  <2>1. i_command_to_subtype(line.opcode_name) # "IBranch"
    <3>1. CASE i_command_to_subtype(line.opcode_name) = "IBranch"
      <4>1. OperandFormat(line) = <<"register", "register", "label">>
        BY <1>2, <3>1, OneLayout DEF OperandFormat
      <4> QED BY <1>2, <4>1
    <3> QED BY <3>1
  <2>2. LabelOperand(line) = 0
    BY <1>2, <2>1, LabelShape
  <2>3. OperandFormat(line) = <<"register", "number", "register">>
    BY <1>2, <2>1, OneLayout DEF OperandFormat
  <2> QED BY <2>2, <2>3
<1> DEFINE tok == line.args[2]
           v   == NumberOf(tok)
<1>5. tok \in Token
  <2>1. Len(line.args) = 3 /\ line.args \in Seq(Token)
    BY <1>2, <1>3, <1>4 DEF OperandsError, AssemblyLine
  <2> QED BY <2>1
<1>6. numberFromString(tok, ImmedBits, stale) = "SUCCESS"
  <2> DEFINE results == OperandResults(line, stale)
  <2>1. FirstError(results) = "SUCCESS"
    BY <1>3 DEF OperandsError
  <2>2. DOMAIN results = 1 .. 3 /\ results[2] = OperandError("number", tok, stale)
    BY <1>4 DEF OperandResults
  <2> HIDE DEF results
  <2>3. 3 \in Nat /\ 2 \in 1 .. 3
    OBVIOUS
  <2>4. results[2] = "SUCCESS"
    BY <2>1, <2>2, <2>3, NoFirstError
  <2> QED BY <2>2, <2>4 DEF OperandError
<1>7. tok.k = "num" /\ number_fits_in_bits(v, ImmedBits - 1)
  BY <1>6 DEF numberFromString
<1>8. v \in LongMin .. LongMax /\ (v \notin {LongMin, LongMax} => v = tok.n)
  BY <1>5, <1>7, NumberInLong
<1>9. ImmedBits \in Nat \ {0} /\ ImmedBits <= ImmedBits /\ LongMin \in Int /\ LongMax \in Int
  BY Widths DEF LongMin, LongMax
<1>10. code[k].word.immed = BitField(v, ImmedBits)
  BY <1>1, <1>2, <1>3, <1>4, WordOf, WordFields
<1> HIDE DEF v, tok
<1>11. /\ -(TwoTo[ImmedBits - 1]) <= v /\ v < TwoTo[ImmedBits - 1]
       /\ LongMin < v /\ v < LongMax
  BY <1>7, <1>8, <1>9, AcceptedFits
<1>12. v = tok.n /\ v \in Int
  BY <1>8, <1>9, <1>11
<1>13. SignExtend(BitField(v, ImmedBits), ImmedBits) = v
  BY <1>9, <1>11, <1>12, FieldHoldsNumber
<1> QED BY <1>1, <1>10, <1>12, <1>13 DEF tok

(* The bytes of a line begin in one place only. *)
LEMMA OneBeginning ==
  ASSUME AtTheEndOfIt, NEW i \in 1 .. Len(lines), Labelled(i),
         NEW a \in Int, NEW b \in Int, BeginsAt(i, a), BeginsAt(i, b), a < b
  PROVE  FALSE
<1> DEFINE base == INSTRUCTION_COUNTER_INITIAL_VALUE
           nc   == Len(code)
           nd   == Len(data)
<1>1. /\ nc \in Nat /\ DOMAIN code = 1 .. nc /\ nd \in Nat /\ DOMAIN data = 1 .. nd
      /\ CodeBytes = 4 * nc /\ base = 100 /\ MemoryTypeOK
  BY DEF AtTheEndOfIt, TypeInvariant, TypeOK, MemoryTypeOK, CodeBytes, WORD_SIZE,
         INSTRUCTION_COUNTER_INITIAL_VALUE
<1>2. Progress
  BY AtTheEnd DEF AtTheEndOfIt
<1>3. ASSUME NEW c \in Int, LineAt(c) = i
      PROVE  \/ /\ lines[i].type = "Code"
                /\ \E k \in 1 .. nc, j \in 0 .. 3 :
                     c = base + WORD_SIZE * (k - 1) + j /\ code[k].line = i
             \/ /\ lines[i].type = "Data"
                /\ \E o \in 0 .. nd - 1 : c = base + CodeBytes + o /\ data[o + 1] = i
  <2> DEFINE x == c - INSTRUCTION_COUNTER_INITIAL_VALUE
  <2>1. x \in Int /\ c = base + x /\ i # 0
    BY <1>1 DEF INSTRUCTION_COUNTER_INITIAL_VALUE
  <2>2. LineAt(c) = IF x \in 0 .. CodeBytes - 1 THEN code[x \div WORD_SIZE + 1].line
                    ELSE IF x - CodeBytes \in 0 .. nd - 1 THEN data[x - CodeBytes + 1]
                    ELSE 0
    BY DEF LineAt
  <2> HIDE DEF x, base, nc, nd
  <2>3. CASE x \in 0 .. CodeBytes - 1
    <3> DEFINE k == x \div 4 + 1
               j == x % 4
    <3>1. k \in 1 .. nc /\ j \in 0 .. 3 /\ x = 4 * (k - 1) + j
      BY <1>1, <2>3
    <3>2. code[k].line = i
      BY <1>3, <2>2, <2>3 DEF WORD_SIZE
    <3> HIDE DEF k, j
    <3>3. c = base + WORD_SIZE * (k - 1) + j
      BY <1>1, <2>1, <3>1 DEF WORD_SIZE
    <3>4. lines[i].type = "Code"
      BY <1>1, <1>2, <3>1, <3>2 DEF Progress, CodeIsInOrder, CodeUpTo
    <3> QED BY <3>1, <3>2, <3>3, <3>4
  <2>4. CASE x \notin 0 .. CodeBytes - 1
    <3>1. x - CodeBytes \in 0 .. nd - 1 /\ data[x - CodeBytes + 1] = i
      BY <1>3, <2>1, <2>2, <2>4
    <3> DEFINE o == x - CodeBytes
    <3>2. o \in 0 .. nd - 1 /\ data[o + 1] = i
      BY <3>1
    <3>3. c = base + CodeBytes + o /\ o + 1 \in DOMAIN data
      BY <1>1, <2>1, <3>2
    <3> HIDE DEF o
    <3>4. lines[i].type = "Data"
      BY <3>2, <3>3, WordsAtTheEnd DEF References, DataIsInOrder
    <3> QED BY <3>2, <3>3, <3>4
  <2> QED BY <2>3, <2>4
<1>4. LineAt(a) = i /\ LineAt(b) = i /\ LineAt(b - 1) # i
  BY DEF BeginsAt
<1>5. CASE lines[i].type = "Code"
  <2>1. PICK ka \in 1 .. nc, ja \in 0 .. 3 : a = base + WORD_SIZE * (ka - 1) + ja /\ code[ka].line = i
    BY <1>3, <1>4, <1>5
  <2>2. PICK kb \in 1 .. nc, jb \in 0 .. 3 : b = base + WORD_SIZE * (kb - 1) + jb /\ code[kb].line = i
    BY <1>3, <1>4, <1>5
  <2>3. ka = kb
    <3>1. ka \in DOMAIN code /\ kb \in DOMAIN code
      BY <1>1
    <3>2. Count(lines, code[ka].line) = ka /\ Count(lines, code[kb].line) = kb
      BY <1>2, <3>1 DEF Progress, CodeIsInOrder
    <3> QED BY <2>1, <2>2, <3>2
  <2>4. ja < jb
    <3> DEFINE first == base + WORD_SIZE * (ka - 1)
    <3>1. first \in Int /\ a = first + ja /\ b = first + jb
      BY <1>1, <2>1, <2>2, <2>3 DEF WORD_SIZE
    <3> HIDE DEF first
    <3> QED BY <3>1
  <2>5. b - 1 = base + WORD_SIZE * (kb - 1) + (jb - 1) /\ jb - 1 \in 0 .. 3
    BY <1>1, <2>2, <2>4 DEF WORD_SIZE
  <2>6. LineAt(b - 1) = i
    BY <1>1, <2>2, <2>5, LineAtCode
  <2> QED BY <1>4, <2>6
<1>6. CASE lines[i].type = "Data"
  <2>1. PICK oa \in 0 .. nd - 1 : a = base + CodeBytes + oa /\ data[oa + 1] = i
    BY <1>3, <1>4, <1>6
  <2>2. PICK ob \in 0 .. nd - 1 : b = base + CodeBytes + ob /\ data[ob + 1] = i
    BY <1>3, <1>4, <1>6
  <2>3. /\ oa < ob /\ ob - 1 \in 0 .. nd - 1 /\ (ob - 1) + 1 = ob
        /\ oa + 1 \in DOMAIN data /\ ob \in DOMAIN data /\ ob + 1 \in DOMAIN data
        /\ oa + 1 <= ob /\ ob <= ob + 1 /\ b - 1 = base + CodeBytes + (ob - 1)
    BY <1>1, <2>1, <2>2
  <2>4. LineAt(b - 1) = data[ob]
    BY <1>1, <2>3, LineAtData
  <2>5. data[oa + 1] <= data[ob] /\ data[ob] <= data[ob + 1]
    BY <2>3, WordsAtTheEnd DEF References, DataIsInOrder
  <2>6. data[ob] \in Nat
    <3>1. data \in Seq(Nat)
      BY <1>1 DEF MemoryTypeOK
    <3>2. ob \in DOMAIN data
      BY <2>3
    <3> QED BY <3>1, <3>2
  <2>7. data[ob] = i
    BY <2>1, <2>2, <2>5, <2>6
  <2> QED BY <1>4, <2>4, <2>7
<1> QED BY <1>5, <1>6 DEF Labelled

(* The address of a line is that of the symbol its label declares. *)
LEMMA AddressOfLine ==
  ASSUME AtTheEndOfIt, NEW i \in DOMAIN lines, Labelled(i)
  PROVE  \E s \in DOMAIN symtab :
           /\ symtab[s].symbol = lines[i].label /\ ~ symtab[s].is_external
           /\ find(lines[i].label) = s /\ exists(lines[i].label)
           /\ symtab[s].value = AddressOf(i) /\ BeginsAt(i, AddressOf(i)) /\ AddressOf(i) \in Nat
<1> DEFINE name == lines[i].label
           s == find(name)
           v == symtab[s].value
           Places == INSTRUCTION_COUNTER_INITIAL_VALUE ..
                     INSTRUCTION_COUNTER_INITIAL_VALUE + CodeBytes + Len(data) - 1
<1>1. exists(name) /\ ~ symtab[s].is_external /\ BeginsAt(i, v)
  BY LabelsDerived DEF AtTheEndOfIt, LabelsPointAtTheirLines
<1>2. s \in DOMAIN symtab /\ symtab[s].symbol = name
  BY <1>1, WordsAtTheEnd, FindType
<1>3. v \in Int
  <2>1. symtab[s] \in Symbol
    BY <1>2, WordsAtTheEnd
  <2> QED BY <2>1 DEF Symbol
<1>4. i \in 1 .. Len(lines) /\ i # 0
  BY WordsAtTheEnd
<1>5. v \in Places /\ Places \subseteq Nat
  <2>1. CodeBytes \in Nat /\ Len(data) \in Nat
    BY DEF AtTheEndOfIt, TypeInvariant, TypeOK, MemoryTypeOK, CodeBytes, WORD_SIZE
  <2>2. LineAt(v) # 0
    BY <1>1, <1>4 DEF BeginsAt
  <2> HIDE DEF v
  <2>3. v - 100 \in 0 .. CodeBytes - 1 \/ (v - 100) - CodeBytes \in 0 .. Len(data) - 1
    BY <2>2 DEF LineAt, INSTRUCTION_COUNTER_INITIAL_VALUE
  <2> QED BY <1>3, <2>1, <2>3 DEF INSTRUCTION_COUNTER_INITIAL_VALUE
<1> HIDE DEF v
<1>6. AddressOf(i) \in Places /\ BeginsAt(i, AddressOf(i))
  <2>1. \E a \in Places : BeginsAt(i, a)
    BY <1>1, <1>5 DEF v
  <2> QED BY <2>1 DEF AddressOf
<1>7. AddressOf(i) = v
  <2> DEFINE a == AddressOf(i)
  <2>1. a \in Int /\ BeginsAt(i, a)
    BY <1>5, <1>6
  <2> HIDE DEF a
  <2>2. ~ (a < v) /\ ~ (v < a)
    BY <1>1, <1>3, <1>4, <2>1, OneBeginning DEF v
  <2> QED BY <1>3, <2>1, <2>2 DEF a
<1> QED BY <1>1, <1>2, <1>5, <1>6, <1>7 DEF v

LEMMA ReferencesDerived == AtTheEndOfIt => ReferencesReachTheirLabels
<1> SUFFICES ASSUME AtTheEndOfIt, NEW k \in DOMAIN code, NEW i \in DOMAIN lines,
                    Labelled(i), RefersTo(k, lines[i].label), InReach(k, AddressOf(i))
             PROVE  BeginsAt(i, Target(k))
  BY DEF ReferencesReachTheirLabels, AtTheEndOfIt
<1>1. PICK line, address : line = CodeLine(k) /\ address = AddressOf(i)
  OBVIOUS
<1>2. PICK s \in DOMAIN symtab :
        /\ symtab[s].symbol = lines[i].label /\ ~ symtab[s].is_external
        /\ find(lines[i].label) = s /\ exists(lines[i].label)
        /\ symtab[s].value = address /\ BeginsAt(i, address) /\ address \in Nat
  BY <1>1, AddressOfLine
<1>3. LabelOperand(line) # 0 /\ UsedSymbol(line) = lines[i].label
  BY <1>1 DEF RefersTo
<1>4. PICK stale \in BOOLEAN : OperandsError(line, stale) = "SUCCESS"
  BY <1>1, WordOf
<1>5. code[k].word = decodeInstructionLine(line)
  BY <1>1, WordOf
<1>6. line.code_position = CodeAddress(k) /\ CodeAddress(k) \in Int
  BY <1>1, WordsAtTheEnd
<1>7. CASE is_i_command(line.opcode_name)
  <2> DEFINE d == address - CodeAddress(k)
  <2>1. Distance(line) = d
    BY <1>2, <1>3, <1>6 DEF Distance
  <2>2. code[k].word.immed = BitField(d, ImmedBits)
    BY <1>3, <1>4, <1>5, <1>7, <2>1, WordFields
  <2>3. -(TwoTo[ImmedBits - 1]) <= d /\ d < TwoTo[ImmedBits - 1]
    <3>1. d \in -(TwoTo[ImmedBits - 1]) .. TwoTo[ImmedBits - 1] - 1
      BY <1>1, <1>7 DEF InReach, IsBranch
    <3>2. TwoTo[ImmedBits - 1] \in Nat
      <4>1. ImmedBits - 1 \in Nat
        BY Widths
      <4> QED BY <4>1, TwoToPositive
    <3> HIDE DEF d
    <3> QED BY <3>1, <3>2
  <2>4. SignExtend(BitField(d, ImmedBits), ImmedBits) = d
    <3>1. ImmedBits \in Nat \ {0} /\ d \in Int
      BY <1>2, <1>6, Widths
    <3> HIDE DEF d
    <3> QED BY <2>3, <3>1, FieldHoldsNumber
  <2>5. Target(k) = CodeAddress(k) + d
    BY <1>1, <1>7, <2>2, <2>4 DEF Target, IsBranch
  <2>6. Target(k) = address
    BY <1>2, <1>6, <2>5
  <2> QED BY <1>2, <2>6
<1>8. CASE ~ is_i_command(line.opcode_name)
  <2>1. address < TwoTo[AddressBits] /\ TwoTo[AddressBits] \in Nat
    BY <1>1, <1>8, Widths DEF InReach, IsBranch
  <2>2. BitField(address, AddressBits) = address
    BY <1>2, <2>1 DEF BitField
  <2>3. code[k].word.address = BitField(address, AddressBits)
    BY <1>2, <1>3, <1>4, <1>5, <1>8, WordFields
  <2>4. Target(k) = address
    BY <1>1, <1>8, <2>2, <2>3 DEF Target, IsBranch
  <2> QED BY <1>2, <2>4
<1> QED BY <1>7, <1>8

(* The external symbols are those that the .extern directives name. *)
LEMMA ExternNames ==
  ASSUME AtTheEndOfIt, NEW name
  PROVE  (\E s \in DOMAIN symtab : symtab[s].is_external /\ symtab[s].symbol = name)
           <=> (\E i \in DOMAIN lines : lines[i].type = "Extern" /\ lines[i].args[1] = name)
<1>1. /\ SymbolsComeFromLines /\ ExternsAreDeclared
      /\ DOMAIN lines = 1 .. LastHandled
  BY WordsAtTheEnd DEF References
<1>2. ASSUME NEW s \in DOMAIN symtab, symtab[s].is_external, symtab[s].symbol = name
      PROVE  \E i \in DOMAIN lines : lines[i].type = "Extern" /\ lines[i].args[1] = name
  BY <1>1, <1>2 DEF SymbolsComeFromLines, ComesFrom
<1>3. ASSUME NEW i \in DOMAIN lines, lines[i].type = "Extern", lines[i].args[1] = name
      PROVE  \E s \in DOMAIN symtab : symtab[s].is_external /\ symtab[s].symbol = name
  BY <1>1, <1>3 DEF ExternsAreDeclared, ExternalBy
<1> QED BY <1>2, <1>3

LEMMA ExternalUsesDerived == AtTheEndOfIt => ExternalUsesAreListed
<1> SUFFICES ASSUME AtTheEndOfIt PROVE ExternalUsesAreListed
  OBVIOUS
<1> DEFINE externs == {i \in DOMAIN lines : lines[i].type = "Extern"}
           uses == {k \in DOMAIN code : \E i \in externs : RefersTo(k, lines[i].args[1])}
           listed == {<<UsedSymbol(CodeLine(k)), CodeAddress(k)>> : k \in uses}
<1>1. /\ UsesAreRecorded /\ ExternsAreDeclared /\ DOMAIN lines = 1 .. LastHandled
      /\ symtab \in Seq(Symbol) /\ UniqueSymbols
      /\ \A k \in DOMAIN code : CodeLine(k).code_position = CodeAddress(k)
  BY WordsAtTheEnd DEF References
<1>2. ASSUME NEW k \in DOMAIN code
      PROVE  k \in uses <=> /\ LabelOperand(CodeLine(k)) # 0
                            /\ \E s \in DOMAIN symtab : symtab[s].is_external
                                                        /\ symtab[s].symbol = UsedSymbol(CodeLine(k))
  <2>1. PICK name : name = UsedSymbol(CodeLine(k))
    OBVIOUS
  <2>2. k \in uses <=> LabelOperand(CodeLine(k)) # 0
                       /\ \E i \in DOMAIN lines : lines[i].type = "Extern" /\ lines[i].args[1] = name
    BY <2>1 DEF RefersTo
  <2> QED BY <2>1, <2>2, ExternNames
<1> HIDE DEF uses
<1>3. ASSUME NEW s \in DOMAIN symtab
      PROVE  /\ \A j \in DOMAIN symtab[s].dependent_offsets :
                  \E k \in DOMAIN code : /\ RefersTo(k, symtab[s].symbol)
                                         /\ symtab[s].dependent_offsets[j] = CodeAddress(k)
             /\ \A k \in DOMAIN code : RefersTo(k, symtab[s].symbol) =>
                  \E j \in DOMAIN symtab[s].dependent_offsets :
                    symtab[s].dependent_offsets[j] = CodeAddress(k)
  <2>1. {symtab[s].dependent_offsets[j] : j \in DOMAIN symtab[s].dependent_offsets}
          = UsesOf(symtab[s].symbol)
    BY <1>1 DEF UsesAreRecorded
  <2> QED BY <1>1, <2>1 DEF UsesOf
<1>4. writeExtFile \subseteq listed
  <2>1. SUFFICES ASSUME NEW s \in DOMAIN symtab, symtab[s].is_external,
                        NEW j \in DOMAIN symtab[s].dependent_offsets
                 PROVE  <<symtab[s].symbol, symtab[s].dependent_offsets[j]>> \in listed
    BY DEF writeExtFile
  <2>2. PICK k \in DOMAIN code : /\ RefersTo(k, symtab[s].symbol)
                                 /\ symtab[s].dependent_offsets[j] = CodeAddress(k)
    BY <1>3
  <2>3. k \in uses /\ UsedSymbol(CodeLine(k)) = symtab[s].symbol
    BY <1>2, <2>1, <2>2 DEF RefersTo
  <2> QED BY <2>2, <2>3
<1>5. listed \subseteq writeExtFile
  <2>1. SUFFICES ASSUME NEW k \in uses
                 PROVE  <<UsedSymbol(CodeLine(k)), CodeAddress(k)>> \in writeExtFile
    OBVIOUS
  <2>2. k \in DOMAIN code
    BY DEF uses
  <2>3. PICK s \in DOMAIN symtab :
          symtab[s].is_external /\ symtab[s].symbol = UsedSymbol(CodeLine(k))
    BY <1>2, <2>2
  <2>4. RefersTo(k, symtab[s].symbol)
    BY <1>2, <2>2, <2>3 DEF RefersTo
  <2>5. PICK j \in DOMAIN symtab[s].dependent_offsets :
          symtab[s].dependent_offsets[j] = CodeAddress(k)
    BY <1>3, <2>2, <2>4
  <2> QED BY <2>3, <2>5 DEF writeExtFile
<1>6. ASSUME NEW k \in uses PROVE code[k].word.address = 0
  <2>1. PICK line : line = CodeLine(k)
    OBVIOUS
  <2>2. k \in DOMAIN code
    BY DEF uses
  <2>3. PICK stale \in BOOLEAN : OperandsError(line, stale) = "SUCCESS"
    BY <2>1, <2>2, WordOf
  <2>4. code[k].word = decodeInstructionLine(line)
    BY <2>1, <2>2, WordOf
  <2>5. PICK s \in DOMAIN symtab : symtab[s].is_external /\ symtab[s].symbol = UsedSymbol(line)
    BY <1>2, <2>1, <2>2
  <2>6. LabelOperand(line) # 0 /\ find(symtab[s].symbol) = s
    BY <1>1, <1>2, <2>1, <2>2, Found DEF FoundAtItsPlace
  <2>7. find(UsedSymbol(line)) = s
    BY <2>5, <2>6
  <2> QED BY <2>3, <2>4, <2>5, <2>6, <2>7, WordFields
<1>7. has_external <=> externs # {}
  BY <1>1 DEF ExternsAreDeclared
<1> QED BY <1>4, <1>5, <1>6, <1>7 DEF ExternalUsesAreListed, uses

LEMMA EntriesDerived == AtTheEndOfIt => EntriesAreListed
<1> SUFFICES ASSUME AtTheEndOfIt PROVE EntriesAreListed
  OBVIOUS
<1> DEFINE entries == {j \in DOMAIN lines : lines[j].type = "Entry"}
           Declaration(j) == {i \in DOMAIN lines : Declares(i, lines[j].args[1])}
           Rows(j) == {<<lines[j].args[1], AddressOf(i)>> : i \in Declaration(j)}
           listed == UNION {Rows(j) : j \in entries}
<1>1. /\ EntriesAreMarked /\ SymbolsComeFromLines
      /\ DOMAIN lines = 1 .. LastHandled /\ DOMAIN lines = 1 .. LastPopped
      /\ symtab \in Seq(Symbol) /\ UniqueSymbols
  BY WordsAtTheEnd DEF References
<1>2. ASSUME NEW j \in entries, NEW s \in DOMAIN symtab, MarkedBy(symtab[s], lines[j])
      PROVE  /\ Declaration(j) # {}
             /\ \A i \in Declaration(j) : AddressOf(i) = symtab[s].value
  <2>1. symtab[s].symbol = lines[j].args[1] /\ ~ symtab[s].is_external
    BY <1>2 DEF MarkedBy
  <2>2. PICK i \in DOMAIN lines : ComesFrom(symtab[s], i)
    BY <1>1 DEF SymbolsComeFromLines
  <2>3. i \in Declaration(j)
    BY <2>1, <2>2 DEF ComesFrom
  <2>4. ASSUME NEW d \in Declaration(j) PROVE AddressOf(d) = symtab[s].value
    <3>1. d \in DOMAIN lines /\ Labelled(d) /\ lines[d].label = symtab[s].symbol
      BY <2>1 DEF Declares
    <3>2. PICK t \in DOMAIN symtab :
            symtab[t].symbol = lines[d].label /\ symtab[t].value = AddressOf(d)
      BY <3>1, AddressOfLine
    <3>3. t = s
      BY <1>1, <3>1, <3>2 DEF UniqueSymbols
    <3> QED BY <3>2, <3>3
  <2> QED BY <2>3, <2>4
<1> HIDE DEF Declaration
<1>3. ASSUME NEW j \in entries
      PROVE  \E s \in DOMAIN symtab : MarkedBy(symtab[s], lines[j])
  BY <1>1 DEF EntriesAreMarked
<1>4. \A j \in entries : Declaration(j) # {}
  BY <1>2, <1>3
<1>5. writeEntFile \subseteq listed
  <2>1. SUFFICES ASSUME NEW s \in DOMAIN symtab, symtab[s].is_entry
                 PROVE  <<symtab[s].symbol, symtab[s].value>> \in listed
    BY DEF writeEntFile
  <2>2. PICK j \in entries : MarkedBy(symtab[s], lines[j])
    BY <1>1, <2>1 DEF EntriesAreMarked
  <2>3. PICK i : i \in Declaration(j)
    BY <1>4
  <2>4. symtab[s].symbol = lines[j].args[1] /\ symtab[s].value = AddressOf(i)
    BY <1>2, <2>2, <2>3 DEF MarkedBy
  <2>5. <<lines[j].args[1], AddressOf(i)>> \in Rows(j)
    BY <2>3
  <2> QED BY <2>2, <2>4, <2>5
<1>6. listed \subseteq writeEntFile
  <2>1. SUFFICES ASSUME NEW j \in entries, NEW i \in Declaration(j)
                 PROVE  <<lines[j].args[1], AddressOf(i)>> \in writeEntFile
    OBVIOUS
  <2>2. PICK s \in DOMAIN symtab : MarkedBy(symtab[s], lines[j])
    BY <1>3
  <2>3. symtab[s].is_entry /\ symtab[s].symbol = lines[j].args[1] /\ symtab[s].value = AddressOf(i)
    BY <1>2, <2>2 DEF MarkedBy
  <2> QED BY <2>3 DEF writeEntFile
<1>7. has_entry <=> entries # {}
  BY <1>1 DEF EntriesAreMarked
<1> QED BY <1>4, <1>5, <1>6, <1>7 DEF EntriesAreListed, Declaration

-----------------------------------------------------------------------------

(* The invariants of the two passes, which every state satisfies while no     *)
(* line was at fault and no allocation failed: how far each part has come,    *)
(* and what the symbols and the words were made from.                         *)
THEOREM AddressesKeepStep == Spec => []AddressInvariant
BY ReferenceInductive, PTL

THEOREM ReferencesKeepStep == Spec => []ReferenceInvariant
BY ReferenceInductive, PTL

(* In every object file a word whose label operand is declared by a line      *)
(* leads to the first byte of that line, forwards and backwards, into code    *)
(* and into data, if its field is wide enough.                                *)
THEOREM WordsReachTheirLabels == Spec => []ReferencesReachTheirLabels
<1>1. TypeInvariant /\ AddressInvariant /\ NoErrorIsForgotten /\ ReferenceInvariant
        => ReferencesReachTheirLabels
  BY ReferencesDerived DEF AtTheEndOfIt, ReferencesReachTheirLabels
<1> QED BY <1>1, ReferenceInductive, PTL

(* The .ext file lists the words that refer to an external symbol, each under *)
(* its own address, and no other; their address field is 0.                   *)
THEOREM ExternalFileIsRight == Spec => []ExternalUsesAreListed
<1>1. TypeInvariant /\ AddressInvariant /\ NoErrorIsForgotten /\ ReferenceInvariant
        => ExternalUsesAreListed
  BY ExternalUsesDerived DEF AtTheEndOfIt, ExternalUsesAreListed
<1> QED BY <1>1, ReferenceInductive, PTL

(* The .ent file lists the symbol of each .entry directive with the address   *)
(* of the line that declares it, and no other.                                *)
THEOREM EntryFileIsRight == Spec => []EntriesAreListed
<1>1. TypeInvariant /\ AddressInvariant /\ NoErrorIsForgotten /\ ReferenceInvariant
        => EntriesAreListed
  BY EntriesDerived DEF AtTheEndOfIt, EntriesAreListed
<1> QED BY <1>1, ReferenceInductive, PTL

(* The number operand of an instruction is the signed number that its word    *)
(* holds in the immediate field.                                              *)
THEOREM ImmediatesAreRight == Spec => []ImmediatesAreEncoded
<1>1. TypeInvariant /\ AddressInvariant /\ NoErrorIsForgotten /\ ReferenceInvariant
        => ImmediatesAreEncoded
  BY ImmediatesDerived DEF AtTheEndOfIt, ImmediatesAreEncoded
<1> QED BY <1>1, ReferenceInductive, PTL
=============================================================================
