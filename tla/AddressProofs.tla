---------------------------- MODULE AddressProofs ----------------------------
(***************************************************************************)
(* Proof that the addresses the first pass computes are the addresses at   *)
(* which the second pass and the object file put the lines.                *)
(***************************************************************************)
EXTENDS TwoPassProofs

-----------------------------------------------------------------------------
(***************************************************************************)
(* Counting the lines of code among the first lines.                       *)
(***************************************************************************)

LEMMA CountZero == ASSUME NEW ls PROVE CodeUpTo(ls, 0) = {} /\ Count(ls, 0) = 0
BY FS_EmptySet DEF CodeUpTo, Count

LEMMA CountType ==
  ASSUME NEW ls, NEW i \in Nat
  PROVE  IsFiniteSet(CodeUpTo(ls, i)) /\ Count(ls, i) \in Nat
<1>1. IsFiniteSet(1 .. i) /\ CodeUpTo(ls, i) \in SUBSET (1 .. i)
  BY FS_Interval DEF CodeUpTo
<1> QED BY <1>1, FS_Subset, FS_CardinalityType DEF Count

LEMMA CountStep ==
  ASSUME NEW ls, NEW i \in Nat
  PROVE  /\ ls[i + 1].type = "Code" =>
              /\ CodeUpTo(ls, i + 1) = CodeUpTo(ls, i) \cup {i + 1}
              /\ Count(ls, i + 1) = Count(ls, i) + 1
         /\ ls[i + 1].type # "Code" =>
              /\ CodeUpTo(ls, i + 1) = CodeUpTo(ls, i)
              /\ Count(ls, i + 1) = Count(ls, i)
<1>1. ls[i + 1].type = "Code" => CodeUpTo(ls, i + 1) = CodeUpTo(ls, i) \cup {i + 1}
  BY DEF CodeUpTo
<1>2. ls[i + 1].type # "Code" => CodeUpTo(ls, i + 1) = CodeUpTo(ls, i)
  BY DEF CodeUpTo
<1>3. i + 1 \notin CodeUpTo(ls, i)
  BY DEF CodeUpTo
<1>4. Cardinality(CodeUpTo(ls, i) \cup {i + 1}) = Cardinality(CodeUpTo(ls, i)) + 1
  BY <1>3, CountType, FS_AddElement
<1> QED BY <1>1, <1>2, <1>4 DEF Count

(* Only the types of the first lines count. *)
LEMMA CountSame ==
  ASSUME NEW ls, NEW ms, NEW i \in Nat, \A j \in 1 .. i : ms[j].type = ls[j].type
  PROVE  \A j \in 0 .. i : CodeUpTo(ms, j) = CodeUpTo(ls, j) /\ Count(ms, j) = Count(ls, j)
<1>1. \A j \in 0 .. i : CodeUpTo(ms, j) = CodeUpTo(ls, j)
  BY DEF CodeUpTo
<1> QED BY <1>1 DEF Count

-----------------------------------------------------------------------------
(***************************************************************************)
(* The symbol table.                                                       *)
(***************************************************************************)

(* The symbols are still there, but for entries and uses as they were. *)
SymbolsKept ==
  \A s \in DOMAIN symtab :
    /\ s \in DOMAIN symtab'
    /\ symtab'[s].symbol = symtab[s].symbol /\ symtab'[s].value = symtab[s].value
    /\ symtab'[s].is_external = symtab[s].is_external
    /\ symtab'[s].section = symtab[s].section

LEMMA InsertKeeps ==
  ASSUME symtab \in Seq(Symbol), UniqueSymbols, NEW name, NEW val, NEW is_extern, NEW section,
         NEW failed, insertSymbol(name, val, is_extern, section, failed)
  PROVE  /\ SymbolsKept /\ UniqueSymbols'
         /\ InsertError(name, {}) = "SUCCESS" /\ failed = {} =>
              \E s \in DOMAIN symtab' : symtab'[s] = newSymbol(name, val, is_extern, section)
<1> DEFINE new == newSymbol(name, val, is_extern, section)
           inserted == InsertError(name, failed) = "SUCCESS" /\ "node" \notin failed
<1>1. Len(symtab) \in Nat /\ DOMAIN symtab = 1 .. Len(symtab)
  OBVIOUS
<1>2. CASE inserted
  <2>1. symtab' = Append(symtab, new)
    BY <1>2 DEF insertSymbol
  <2>2. /\ DOMAIN symtab' = 1 .. Len(symtab) + 1 /\ symtab'[Len(symtab) + 1] = new
        /\ \A s \in 1 .. Len(symtab) : symtab'[s] = symtab[s]
    <3> HIDE DEF new
    <3> QED BY <1>1, <2>1
  <2>3. \A s \in DOMAIN symtab : symtab[s].symbol # name
    BY <1>2 DEF InsertError, exists
  <2>4. new.symbol = name
    BY DEF newSymbol
  <2>5. SymbolsKept
    BY <1>1, <2>2 DEF SymbolsKept
  <2>6. UniqueSymbols'
    <3>1. SUFFICES ASSUME NEW s \in DOMAIN symtab', NEW t \in DOMAIN symtab',
                          symtab'[s].symbol = symtab'[t].symbol
                   PROVE  s = t
      BY DEF UniqueSymbols
    <3> HIDE DEF new
    <3> QED BY <1>1, <2>2, <2>3, <2>4, <3>1 DEF UniqueSymbols
  <2>7. \E s \in DOMAIN symtab' : symtab'[s] = new
    BY <1>1, <2>2
  <2> QED BY <2>5, <2>6, <2>7
<1>3. CASE ~ inserted
  <2>1. symtab' = symtab
    BY <1>3 DEF insertSymbol
  <2>2. ~ (InsertError(name, {}) = "SUCCESS" /\ failed = {})
    BY <1>3
  <2> QED BY <2>1, <2>2 DEF SymbolsKept, UniqueSymbols
<1> QED BY <1>2, <1>3

LEMMA KeptUnique ==
  ASSUME SymbolsKept, DOMAIN symtab' = DOMAIN symtab, UniqueSymbols
  PROVE  UniqueSymbols'
BY DEF SymbolsKept, UniqueSymbols

LEMMA MarkKeeps ==
  ASSUME symtab \in Seq(Symbol), UniqueSymbols, NEW name, markSymEntry(name)
  PROVE  SymbolsKept /\ UniqueSymbols'
<1>1. DOMAIN symtab' = DOMAIN symtab
  BY DEF markSymEntry
<1>2. SymbolsKept
  <2>1. SUFFICES ASSUME NEW s \in DOMAIN symtab
                 PROVE  /\ symtab'[s].symbol = symtab[s].symbol
                        /\ symtab'[s].value = symtab[s].value
                        /\ symtab'[s].is_external = symtab[s].is_external
                        /\ symtab'[s].section = symtab[s].section
    BY <1>1 DEF SymbolsKept
  <2>2. symtab[s] \in Symbol
    OBVIOUS
  <2>3. symtab'[s] = symtab[s] \/ symtab'[s] = [symtab[s] EXCEPT !.is_entry = TRUE]
    BY DEF markSymEntry
  <2> QED BY <2>2, <2>3 DEF Symbol
<1> QED BY <1>1, <1>2, KeptUnique

LEMMA UseKeeps ==
  ASSUME symtab \in Seq(Symbol), UniqueSymbols, NEW name, NEW offset, NEW failed,
         useSymbol(name, offset, failed)
  PROVE  SymbolsKept /\ UniqueSymbols'
<1>1. DOMAIN symtab' = DOMAIN symtab
  BY DEF useSymbol
<1>2. SymbolsKept
  <2>1. SUFFICES ASSUME NEW s \in DOMAIN symtab
                 PROVE  /\ symtab'[s].symbol = symtab[s].symbol
                        /\ symtab'[s].value = symtab[s].value
                        /\ symtab'[s].is_external = symtab[s].is_external
                        /\ symtab'[s].section = symtab[s].section
    BY <1>1 DEF SymbolsKept
  <2>2. symtab[s] \in Symbol
    OBVIOUS
  <2>3. PICK o : symtab'[s] = symtab[s]
                 \/ symtab'[s] = [symtab[s] EXCEPT !.dependent_offsets = o]
    BY DEF useSymbol
  <2> QED BY <2>2, <2>3 DEF Symbol
<1> QED BY <1>1, <1>2, KeptUnique

(* A symbol that is kept still stands for its label. *)
LEMMA DeclaredStays ==
  ASSUME SymbolsKept, NEW line, NEW i, NEW bytes, NEW base,
         \E s \in DOMAIN symtab : DeclaredBy(symtab[s], line, i, bytes, base)
  PROVE  \E s \in DOMAIN symtab' : DeclaredBy(symtab'[s], line, i, bytes, base)
<1>1. PICK s \in DOMAIN symtab : DeclaredBy(symtab[s], line, i, bytes, base)
  OBVIOUS
<1>2. s \in DOMAIN symtab' /\ DeclaredBy(symtab'[s], line, i, bytes, base)
  BY <1>1 DEF SymbolsKept, DeclaredBy
<1> QED BY <1>2

-----------------------------------------------------------------------------
(***************************************************************************)
(* The steps, while nothing has gone wrong.                                *)
(***************************************************************************)

(* A line is read and queued. *)
LEMMA ReadStep ==
  ASSUME TypeInvariant, Progress, pc \in {"open", "read"}, NEW l,
         lines' = Append(lines, l), queue' = Append(queue, Len(lines) + 1), tail_linked' = TRUE,
         pc' = "handle" \/ (pc' = "fix" /\ l.type = "None"),
         UNCHANGED <<instruction_counter, symbolVars, memoryVars>>
  PROVE  Progress'
<1> DEFINE n == Len(lines)
<1>1. /\ n \in Nat /\ Len(lines') = n + 1 /\ lines'[n + 1] = l
      /\ \A j \in 1 .. n : lines'[j] = lines[j]
  BY DEF TypeInvariant, TypeOK
<1>2. LastHandled = n /\ LastHandled' = (IF pc' = "handle" THEN n ELSE n + 1)
  BY <1>1 DEF LastHandled
<1>3. \A j \in 0 .. n : /\ CodeUpTo(lines', j) = CodeUpTo(lines, j)
                        /\ Count(lines', j) = Count(lines, j)
  <2> HIDE DEF n
  <2> QED BY <1>1, CountSame
<1>4. /\ CodeUpTo(lines', LastHandled') = CodeUpTo(lines, n)
      /\ Count(lines', LastHandled') = Count(lines, n)
  <2>1. CASE pc' = "handle"
    BY <1>1, <1>2, <1>3, <2>1
  <2>2. CASE pc' = "fix" /\ l.type = "None"
    <3>1. CodeUpTo(lines', n + 1) = CodeUpTo(lines', n) /\ Count(lines', n + 1) = Count(lines', n)
      BY <1>1, <2>2, CountStep
    <3> QED BY <1>1, <1>2, <1>3, <2>2, <3>1
  <2> QED BY <2>1, <2>2
<1>5. LastPopped = 0 /\ LastPopped' = 0
  <2>1. LastPopped = 0
    BY DEF Progress, QueueIsTheRest, InFirstPass
  <2>2. queue \in Seq(Nat) /\ Len(queue') = Len(queue) + 1
    BY DEF TypeInvariant, TypeOK
  <2> QED BY <1>1, <2>1, <2>2 DEF LastPopped
<1>6. CountersAgree'
  <2>1. \A i \in CodeUpTo(lines, n) : i \in 1 .. n /\ i - 1 \in 0 .. n
    BY <1>1 DEF CodeUpTo
  <2>2. LastHandled' \in Nat /\ n <= LastHandled'
    BY <1>1, <1>2
  <2> QED BY <1>1, <1>2, <1>3, <1>4, <2>1, <2>2 DEF Progress, CountersAgree, memoryVars
<1>7. QueueIsTheRest'
  <2>1. queue \in Seq(Nat) /\ Len(queue) = n
    BY <1>1, <1>5 DEF LastPopped, TypeInvariant, TypeOK
  <2>2. \A k \in DOMAIN queue : queue[k] = k
    BY <1>5, <2>1 DEF Progress, QueueIsTheRest
  <2>3. /\ DOMAIN queue' = 1 .. n + 1
        /\ \A k \in DOMAIN queue' : queue'[k] = k
    BY <1>1, <2>1, <2>2
  <2> QED BY <1>5, <2>3 DEF QueueIsTheRest
<1>8. CodeIsInOrder'
  <2>1. CodeUpTo(lines', 0) = {} /\ CodeUpTo(lines, 0) = {} /\ Count(lines', 0) = Count(lines, 0)
    BY CountZero
  <2> QED BY <1>5, <2>1 DEF Progress, CodeIsInOrder, memoryVars
<1>9. LabelsAreDeclared'
  <2>1. SUFFICES ASSUME NEW i \in 1 .. LastHandled', Labelled(i)'
                 PROVE  \E s \in DOMAIN symtab :
                          DeclaredBy(symtab[s], lines'[i], i, data, 0)
    BY DEF LabelsAreDeclared, DataBase, InFirstPass, symbolVars, memoryVars
  <2>2. i \in 1 .. n
    <3>1. i # n + 1 \/ pc' = "handle"
      BY <1>1, <2>1 DEF Labelled
    <3> QED BY <1>1, <1>2, <3>1
  <2>3. lines'[i] = lines[i] /\ Labelled(i)
    BY <1>1, <2>1, <2>2 DEF Labelled
  <2> QED BY <1>2, <2>2, <2>3 DEF Progress, LabelsAreDeclared, DataBase, InFirstPass
<1> QED BY <1>6, <1>7, <1>8, <1>9 DEF Progress

(* The line handled becomes the last one handled: what the steps have in common. *)
LEMMA HandledLast ==
  ASSUME TypeInvariant, Progress, pc = "handle", pc' = "read", Len(lines') = Len(lines),
         \A j \in 1 .. Len(lines) : lines'[j].type = lines[j].type
  PROVE  /\ Len(lines) \in Nat \ {0} /\ LastHandled = Len(lines) - 1 /\ LastHandled' = Len(lines)
         /\ \A j \in 0 .. Len(lines) : /\ CodeUpTo(lines', j) = CodeUpTo(lines, j)
                                       /\ Count(lines', j) = Count(lines, j)
         /\ Current.type = "Code" =>
              /\ CodeUpTo(lines, LastHandled') = CodeUpTo(lines, LastHandled) \cup {LastHandled'}
              /\ Count(lines, LastHandled') = Count(lines, LastHandled) + 1
         /\ Current.type # "Code" =>
              /\ CodeUpTo(lines, LastHandled') = CodeUpTo(lines, LastHandled)
              /\ Count(lines, LastHandled') = Count(lines, LastHandled)
<1>1. Len(lines) \in Nat \ {0}
  BY DEF TypeInvariant, TypeOK, LinesAreKept
<1>2. LastHandled = Len(lines) - 1 /\ LastHandled' = Len(lines)
  BY DEF LastHandled
<1>3. \A j \in 0 .. Len(lines) :
        CodeUpTo(lines', j) = CodeUpTo(lines, j) /\ Count(lines', j) = Count(lines, j)
  BY <1>1, CountSame
<1> DEFINE m == Len(lines) - 1
<1>4. m \in Nat /\ Len(lines) = m + 1 /\ Current = lines[m + 1]
  BY <1>1 DEF Current
<1> HIDE DEF m
<1>5. /\ Current.type = "Code" =>
           /\ CodeUpTo(lines, m + 1) = CodeUpTo(lines, m) \cup {m + 1}
           /\ Count(lines, m + 1) = Count(lines, m) + 1
      /\ Current.type # "Code" =>
           /\ CodeUpTo(lines, m + 1) = CodeUpTo(lines, m)
           /\ Count(lines, m + 1) = Count(lines, m)
  BY <1>4, CountStep
<1>6. LastHandled = m /\ LastHandled' = m + 1
  BY <1>2, <1>4 DEF m
<1> QED BY <1>1, <1>2, <1>3, <1>5, <1>6

(* Handling a line neither touches the queue nor the code image. *)
LEMMA HandlingKeeps ==
  ASSUME TypeInvariant, Progress, pc = "handle", pc' = "read", Len(lines') = Len(lines),
         \A j \in 1 .. Len(lines) : lines'[j].type = lines[j].type,
         UNCHANGED <<queueVars, code>>
  PROVE  QueueIsTheRest' /\ CodeIsInOrder'
<1>1. LastPopped = 0 /\ LastPopped' = 0
  BY DEF queueVars, Progress, QueueIsTheRest, InFirstPass, LastPopped
<1>2. QueueIsTheRest'
  BY <1>1 DEF queueVars, Progress, QueueIsTheRest
<1>3. CodeUpTo(lines', 0) = {} /\ CodeUpTo(lines, 0) = {} /\ Count(lines', 0) = Count(lines, 0)
  BY CountZero
<1>4. CodeIsInOrder'
  BY <1>1, <1>3 DEF Progress, CodeIsInOrder
<1> QED BY <1>2, <1>4

(* A line that is neither code nor data. *)
LEMMA SkipStep ==
  ASSUME TypeInvariant, Progress, pc = "handle", pc' = "read",
         Current.type \notin {"Code", "Data"}, SymbolsKept,
         UNCHANGED <<lines, queueVars, instruction_counter, memoryVars>>
  PROVE  Progress'
<1>1. /\ Len(lines) \in Nat \ {0} /\ LastHandled = Len(lines) - 1 /\ LastHandled' = Len(lines)
      /\ CodeUpTo(lines, LastHandled') = CodeUpTo(lines, LastHandled)
      /\ Count(lines, LastHandled') = Count(lines, LastHandled)
  BY HandledLast
<1>2. QueueIsTheRest' /\ CodeIsInOrder'
  BY HandlingKeeps DEF memoryVars
<1>3. CountersAgree'
  BY <1>1 DEF Progress, CountersAgree, memoryVars
<1>4. LabelsAreDeclared'
  <2>1. SUFFICES ASSUME NEW i \in 1 .. LastHandled', Labelled(i)
                 PROVE  \E s \in DOMAIN symtab' : DeclaredBy(symtab'[s], lines[i], i, data, 0)
    BY DEF LabelsAreDeclared, DataBase, InFirstPass, memoryVars, Labelled
  <2>2. i \in 1 .. LastHandled
    <3>1. i # Len(lines)
      BY <2>1 DEF Labelled, Current
    <3> QED BY <1>1, <3>1
  <2>3. \E s \in DOMAIN symtab : DeclaredBy(symtab[s], lines[i], i, data, 0)
    BY <2>1, <2>2 DEF Progress, LabelsAreDeclared, DataBase, InFirstPass
  <2> QED BY <2>3, DeclaredStays
<1> QED BY <1>2, <1>3, <1>4 DEF Progress

(* A line of data: its bytes are appended, its label stands at their offset. *)
LEMMA DataStep ==
  ASSUME TypeInvariant, Progress, pc = "handle", pc' = "read", Current.type = "Data",
         SymbolsKept, NEW n \in Nat \ {0},
         Current.label # Empty =>
           \E s \in DOMAIN symtab' :
             symtab'[s] = newSymbol(Current.label, data_counter, FALSE, "Data"),
         data_counter' = data_counter + n, data' = data \o [k \in 1 .. n |-> Len(lines)],
         UNCHANGED <<lines, queueVars, instruction_counter, code>>
  PROVE  Progress'
<1> DEFINE size == Len(data)
<1>1. /\ Len(lines) \in Nat \ {0} /\ LastHandled = Len(lines) - 1 /\ LastHandled' = Len(lines)
      /\ CodeUpTo(lines, LastHandled') = CodeUpTo(lines, LastHandled)
      /\ Count(lines, LastHandled') = Count(lines, LastHandled)
  BY HandledLast
<1>2. QueueIsTheRest' /\ CodeIsInOrder'
  BY HandlingKeeps
<1>3. /\ size \in Nat /\ data_counter = size
      /\ \A k \in 1 .. size : data[k] \in 1 .. LastHandled
  <2>1. data \in Seq(Nat)
    BY DEF TypeInvariant, TypeOK, MemoryTypeOK
  <2>2. size \in Nat /\ DOMAIN data = 1 .. size
    BY <2>1
  <2>3. data_counter = Len(data) /\ \A k \in DOMAIN data : data[k] \in 1 .. LastHandled
    BY DEF Progress, CountersAgree
  <2> QED BY <2>2, <2>3, Zenon
<1>4. /\ Len(data') = size + n
      /\ \A k \in 1 .. size : data'[k] = data[k]
      /\ \A k \in size + 1 .. size + n : data'[k] = Len(lines)
  BY DEF TypeInvariant, TypeOK, MemoryTypeOK
<1> HIDE DEF size
<1>5. CountersAgree'
  <2>1. data_counter' = Len(data')
    BY <1>3, <1>4
  <2>2. \A k \in DOMAIN data' : data'[k] \in 1 .. LastHandled'
    <3>1. DOMAIN data' = 1 .. size + n
      BY <1>3, <1>4 DEF TypeInvariant, TypeOK, MemoryTypeOK
    <3> QED BY <1>1, <1>3, <1>4, <3>1
  <2> QED BY <1>1, <2>1, <2>2 DEF Progress, CountersAgree
<1>6. LabelsAreDeclared'
  <2>1. SUFFICES ASSUME NEW i \in 1 .. LastHandled', Labelled(i)
                 PROVE  \E s \in DOMAIN symtab' : DeclaredBy(symtab'[s], lines[i], i, data', 0)
    BY DEF LabelsAreDeclared, DataBase, InFirstPass, Labelled
  <2>2. CASE i \in 1 .. LastHandled
    <3>1. \E s \in DOMAIN symtab : DeclaredBy(symtab[s], lines[i], i, data, 0)
      BY <2>1, <2>2 DEF Progress, LabelsAreDeclared, DataBase, InFirstPass
    <3>2. PICK s \in DOMAIN symtab' : DeclaredBy(symtab'[s], lines[i], i, data, 0)
      BY <3>1, DeclaredStays
    <3>3. \A v : DataBegins(data, i, v) => DataBegins(data', i, v)
      BY <1>3, <1>4 DEF DataBegins, size
    <3>4. DeclaredBy(symtab'[s], lines[i], i, data', 0)
      BY <3>2, <3>3 DEF DeclaredBy
    <3> QED BY <3>4
  <2>3. CASE i = Len(lines)
    <3>1. PICK s \in DOMAIN symtab' :
            symtab'[s] = newSymbol(lines[i].label, size, FALSE, "Data")
      BY <1>3, <2>1, <2>3 DEF Labelled, Current
    <3>2. DataBegins(data', i, size)
      BY <1>1, <1>3, <1>4, <2>3 DEF DataBegins
    <3>3. DeclaredBy(symtab'[s], lines[i], i, data', 0)
      BY <1>3, <2>3, <3>1, <3>2 DEF DeclaredBy, newSymbol, Current
    <3> QED BY <3>3
  <2>4. i \in 1 .. LastHandled \/ i = Len(lines)
    BY <1>1
  <2> QED BY <2>2, <2>3, <2>4
<1> QED BY <1>2, <1>5, <1>6 DEF Progress

(* A line of code: it is given the address that is counted for it. *)
LEMMA CodeStep ==
  ASSUME TypeInvariant, Progress, pc = "handle", pc' = "read", Current.type = "Code",
         SymbolsKept,
         Current.label # Empty =>
           \E s \in DOMAIN symtab' :
             symtab'[s] = newSymbol(Current.label, instruction_counter, FALSE, "Code"),
         lines' = [lines EXCEPT ![Len(lines)].code_position = instruction_counter],
         instruction_counter' = instruction_counter + INSTRUCTION_SIZE,
         UNCHANGED <<queueVars, memoryVars>>
  PROVE  Progress'
<1> DEFINE n == Len(lines)
           placed == [Current EXCEPT !.code_position = instruction_counter]
<1>1. lines \in Seq(AssemblyLine) /\ n \in Nat \ {0} /\ DOMAIN lines = 1 .. n
  BY DEF TypeInvariant, TypeOK, LinesAreKept
<1>2. /\ placed.type = Current.type /\ placed.label = Current.label
      /\ placed.code_position = instruction_counter
  <2>1. Current \in AssemblyLine
    BY CurrentType
  <2> QED BY <2>1 DEF AssemblyLine
<1>3. /\ Len(lines') = n /\ lines'[n] = placed
      /\ \A j \in 1 .. n : j # n => lines'[j] = lines[j]
  <2>1. lines' = [lines EXCEPT ![n] = placed]
    BY DEF Current
  <2>2. placed \in AssemblyLine
    <3>1. Current \in AssemblyLine /\ instruction_counter \in Int
      BY CurrentType DEF TypeInvariant, TypeOK
    <3> QED BY <3>1 DEF AssemblyLine
  <2> HIDE DEF placed
  <2> QED BY <1>1, <2>1, <2>2, ExceptSeq
<1>4. \A j \in 1 .. n : lines'[j].type = lines[j].type /\ lines'[j].label = lines[j].label
  BY <1>2, <1>3 DEF Current
<1> HIDE DEF placed
<1>5. /\ LastHandled = n - 1 /\ LastHandled' = n
      /\ \A j \in 0 .. n : /\ CodeUpTo(lines', j) = CodeUpTo(lines, j)
                           /\ Count(lines', j) = Count(lines, j)
      /\ CodeUpTo(lines, n) = CodeUpTo(lines, n - 1) \cup {n}
      /\ Count(lines, n) = Count(lines, n - 1) + 1
  BY <1>3, <1>4, HandledLast
<1>6. QueueIsTheRest' /\ CodeIsInOrder'
  BY <1>3, <1>4, HandlingKeeps DEF memoryVars
<1>7. CountersAgree'
  <2>1. /\ instruction_counter =
             INSTRUCTION_COUNTER_INITIAL_VALUE + INSTRUCTION_SIZE * Count(lines, n - 1)
        /\ \A i \in CodeUpTo(lines, n - 1) :
             lines[i].code_position =
               INSTRUCTION_COUNTER_INITIAL_VALUE + INSTRUCTION_SIZE * Count(lines, i - 1)
    BY <1>5 DEF Progress, CountersAgree
  <2>2. n - 1 \in Nat /\ Count(lines, n - 1) \in Nat
    BY <1>1, CountType
  <2>3. instruction_counter' =
          INSTRUCTION_COUNTER_INITIAL_VALUE + INSTRUCTION_SIZE * Count(lines', LastHandled')
    <3> DEFINE c == Count(lines, n - 1)
    <3>1. c \in Nat /\ instruction_counter' =
            (INSTRUCTION_COUNTER_INITIAL_VALUE + INSTRUCTION_SIZE * c) + INSTRUCTION_SIZE
      BY <2>1, <2>2
    <3>2. Count(lines', LastHandled') = c + 1
      <4>1. n \in 0 .. n
        BY <1>1
      <4>2. Count(lines', n) = Count(lines, n)
        BY <1>5, <4>1
      <4> QED BY <1>5, <4>2
    <3> HIDE DEF c
    <3> QED BY <3>1, <3>2 DEF INSTRUCTION_SIZE, INSTRUCTION_COUNTER_INITIAL_VALUE
  <2>4. ASSUME NEW i \in CodeUpTo(lines', LastHandled')
        PROVE  lines'[i].code_position =
                 INSTRUCTION_COUNTER_INITIAL_VALUE + INSTRUCTION_SIZE * Count(lines', i - 1)
    <3>1. i \in 1 .. n /\ i - 1 \in 0 .. n
      BY <1>1, <1>5 DEF CodeUpTo
    <3>2. CASE i = n
      BY <1>2, <1>3, <1>5, <2>1, <3>1, <3>2
    <3>3. CASE i # n
      <4>1. i \in CodeUpTo(lines, n - 1)
        <5>1. n \in 0 .. n
          BY <1>1
        <5>2. CodeUpTo(lines', LastHandled') = CodeUpTo(lines, n - 1) \cup {n}
          BY <1>5, <5>1
        <5> QED BY <3>3, <5>2
      <4> QED BY <1>3, <1>5, <2>1, <3>1, <3>3, <4>1
    <3> QED BY <3>2, <3>3
  <2>5. data_counter' = Len(data') /\ \A k \in DOMAIN data' : data'[k] \in 1 .. LastHandled'
    <3>1. data_counter = Len(data) /\ \A k \in DOMAIN data : data[k] \in 1 .. n - 1
      BY <1>5 DEF Progress, CountersAgree
    <3> QED BY <1>1, <1>5, <3>1 DEF memoryVars
  <2> QED BY <2>3, <2>4, <2>5 DEF CountersAgree
<1>8. LabelsAreDeclared'
  <2>1. SUFFICES ASSUME NEW i \in 1 .. n, Labelled(i)
                 PROVE  \E s \in DOMAIN symtab' : DeclaredBy(symtab'[s], lines'[i], i, data, 0)
    BY <1>4, <1>5 DEF LabelsAreDeclared, DataBase, InFirstPass, Labelled, memoryVars
  <2>2. CASE i # n
    <3>1. i \in 1 .. LastHandled /\ lines'[i] = lines[i]
      BY <1>1, <1>3, <1>5, <2>2
    <3>2. \E s \in DOMAIN symtab : DeclaredBy(symtab[s], lines[i], i, data, 0)
      BY <2>1, <3>1 DEF Progress, LabelsAreDeclared, DataBase, InFirstPass
    <3> QED BY <3>1, <3>2, DeclaredStays
  <2>3. CASE i = n
    <3>1. PICK s \in DOMAIN symtab' :
            symtab'[s] = newSymbol(Current.label, instruction_counter, FALSE, "Code")
      BY <2>1, <2>3 DEF Labelled, Current
    <3>2. DeclaredBy(symtab'[s], placed, n, data, 0)
      BY <1>2, <3>1 DEF DeclaredBy, newSymbol
    <3> QED BY <1>3, <2>3, <3>2
  <2> QED BY <2>2, <2>3
<1> QED BY <1>6, <1>7, <1>8 DEF Progress

(* The end of the first pass: the data image is put behind the code. *)
LEMMA FixStep ==
  ASSUME TypeInvariant, Progress, pc = "fix", pc' = "second",
         fixDataSymbolsOffset(instruction_counter),
         UNCHANGED <<lines, queueVars, instruction_counter, memoryVars>>
  PROVE  Progress'
<1>1. LastHandled' = LastHandled /\ LastPopped' = LastPopped
  BY DEF queueVars, LastHandled, LastPopped
<1>2. CountersAgree' /\ CodeIsInOrder'
  BY <1>1 DEF Progress, CountersAgree, CodeIsInOrder, memoryVars
<1>3. QueueIsTheRest'
  BY <1>1 DEF queueVars, Progress, QueueIsTheRest, InFirstPass
<1>4. LabelsAreDeclared'
  <2>1. SUFFICES ASSUME NEW i \in 1 .. LastHandled, Labelled(i)
                 PROVE  \E s \in DOMAIN symtab' :
                          DeclaredBy(symtab'[s], lines[i], i, data, instruction_counter)
    BY <1>1 DEF LabelsAreDeclared, DataBase, InFirstPass, Labelled, memoryVars
  <2>2. PICK s \in DOMAIN symtab : DeclaredBy(symtab[s], lines[i], i, data, 0)
    BY <2>1 DEF Progress, LabelsAreDeclared, DataBase, InFirstPass
  <2>3. symtab[s] \in Symbol /\ instruction_counter \in Nat
    BY DEF TypeInvariant, TypeOK, SymbolManagerTypeOK
  <2>4. s \in DOMAIN symtab'
        /\ symtab'[s] = IF symtab[s].section # "Data" \/ symtab[s].is_external
                        THEN symtab[s]
                        ELSE [symtab[s] EXCEPT !.value = @ + instruction_counter]
    BY DEF fixDataSymbolsOffset
  <2>5. DeclaredBy(symtab'[s], lines[i], i, data, instruction_counter)
    <3>1. CASE lines[i].type = "Code"
      BY <2>2, <2>4, <3>1 DEF DeclaredBy
    <3>2. CASE lines[i].type = "Data"
      <4>1. symtab'[s] = [symtab[s] EXCEPT !.value = @ + instruction_counter]
        BY <2>2, <2>4, <3>2 DEF DeclaredBy
      <4>2. /\ symtab'[s].symbol = symtab[s].symbol
            /\ symtab'[s].is_external = symtab[s].is_external
            /\ symtab'[s].section = symtab[s].section
            /\ symtab'[s].value - instruction_counter = symtab[s].value - 0
        BY <2>3, <4>1 DEF Symbol
      <4> QED BY <2>2, <3>2, <4>2 DEF DeclaredBy
    <3> QED BY <2>1, <3>1, <3>2 DEF Labelled
  <2> QED BY <2>4, <2>5
<1> QED BY <1>2, <1>3, <1>4 DEF Progress

LEMMA AppendAnything ==
  ASSUME NEW S, NEW seq \in Seq(S), NEW e
  PROVE  /\ Len(Append(seq, e)) = Len(seq) + 1 /\ DOMAIN Append(seq, e) = 1 .. Len(seq) + 1
         /\ Append(seq, e)[Len(seq) + 1] = e
         /\ \A k \in 1 .. Len(seq) : Append(seq, e)[k] = seq[k]
OBVIOUS

(* The second pass takes the next line, and writes its word if it has one. *)
LEMMA PopStep ==
  ASSUME TypeInvariant, Progress, pc = "second", pc' = "second", queue # <<>>,
         queue' = Tail(queue), SymbolsKept,
         \/ First.type # "Code" /\ code' = code
         \/ /\ First.type = "Code"
            /\ \E w : code' = Append(code, [line |-> Head(queue), word |-> w]),
         tail_linked => tail_linked',
         UNCHANGED <<lines, instruction_counter, data, data_counter>>
  PROVE  Progress'
<1> DEFINE p == LastPopped
<1>1. /\ queue \in Seq(Nat) /\ Len(queue) \in Nat \ {0} /\ Head(queue) = queue[1]
      /\ Len(queue') = Len(queue) - 1 /\ DOMAIN queue' = 1 .. Len(queue) - 1
      /\ \A k \in 1 .. Len(queue) - 1 : queue'[k] = queue[k + 1]
  BY DEF TypeInvariant, TypeOK
<1>2. p \in Nat /\ Head(queue) = p + 1 /\ \A k \in 1 .. Len(queue) : queue[k] = p + k
  BY <1>1 DEF Progress, QueueIsTheRest
<1>3. LastPopped' = p + 1 /\ LastHandled' = LastHandled
  <2>1. Len(lines) \in Nat
    BY DEF TypeInvariant, TypeOK
  <2> QED BY <1>1, <2>1 DEF LastPopped, LastHandled
<1>4. First = lines[p + 1]
  BY <1>2 DEF First
<1> HIDE DEF p
<1>5. CountersAgree'
  BY <1>3 DEF Progress, CountersAgree
<1>6. QueueIsTheRest'
  <2>1. LastPopped' \in Nat /\ \A k \in DOMAIN queue' : queue'[k] = LastPopped' + k
    BY <1>1, <1>2, <1>3
  <2> QED BY <2>1 DEF Progress, QueueIsTheRest, InFirstPass
<1>7. CodeIsInOrder'
  <2>1. /\ Len(code) = Count(lines, p)
        /\ \A k \in DOMAIN code :
             code[k].line \in CodeUpTo(lines, p) /\ Count(lines, code[k].line) = k
        /\ \A i \in CodeUpTo(lines, p) :
             Count(lines, i) \in DOMAIN code /\ code[Count(lines, i)].line = i
    BY DEF Progress, CodeIsInOrder, p
  <2>2. CASE First.type # "Code" /\ code' = code
    <3>1. CodeUpTo(lines, p + 1) = CodeUpTo(lines, p) /\ Count(lines, p + 1) = Count(lines, p)
      BY <1>2, <1>4, <2>2, CountStep
    <3> QED BY <1>3, <2>1, <2>2, <3>1 DEF CodeIsInOrder
  <2>3. CASE First.type = "Code" /\ \E w : code' = Append(code, [line |-> Head(queue), word |-> w])
    <3> DEFINE c == Len(code)
    <3>1. /\ CodeUpTo(lines, p + 1) = CodeUpTo(lines, p) \cup {p + 1}
          /\ Count(lines, p + 1) = Count(lines, p) + 1
      BY <1>2, <1>4, <2>3, CountStep
    <3>2. /\ c \in Nat /\ DOMAIN code = 1 .. c /\ Len(code') = c + 1
          /\ DOMAIN code' = 1 .. c + 1
          /\ code'[c + 1].line = p + 1
          /\ \A k \in 1 .. c : code'[k] = code[k]
      <4>1. PICK w : code' = Append(code, [line |-> Head(queue), word |-> w])
        BY <2>3
      <4> DEFINE e == [line |-> Head(queue), word |-> w]
      <4>2. e.line = p + 1
        BY <1>2
      <4>3. code' = Append(code, e)
        BY <4>1
      <4>4. PICK S : code \in Seq(S)
        BY DEF TypeInvariant, TypeOK, MemoryTypeOK
      <4> HIDE DEF e
      <4>5. c \in Nat /\ DOMAIN code = 1 .. c
        BY <4>4
      <4>6. /\ Len(code') = c + 1 /\ DOMAIN code' = 1 .. c + 1 /\ code'[c + 1] = e
            /\ \A k \in 1 .. c : code'[k] = code[k]
        BY <4>3, <4>4, AppendAnything
      <4> QED BY <4>2, <4>5, <4>6
    <3>3. Count(lines, p) = c
      BY <2>1
    <3> HIDE DEF c
    <3>4. Len(code') = Count(lines, p + 1)
      BY <3>1, <3>2, <3>3
    <3>5. ASSUME NEW k \in DOMAIN code'
          PROVE  code'[k].line \in CodeUpTo(lines, p + 1) /\ Count(lines, code'[k].line) = k
      <4>1. CASE k \in 1 .. c
        BY <2>1, <3>1, <3>2, <4>1
      <4>2. CASE k = c + 1
        BY <3>1, <3>2, <3>3, <4>2
      <4> QED BY <3>2, <4>1, <4>2
    <3>6. ASSUME NEW i \in CodeUpTo(lines, p + 1)
          PROVE  Count(lines, i) \in DOMAIN code' /\ code'[Count(lines, i)].line = i
      <4>1. CASE i \in CodeUpTo(lines, p)
        <5>1. Count(lines, i) \in 1 .. c /\ code[Count(lines, i)].line = i
          BY <2>1, <3>2, <4>1
        <5> QED BY <3>2, <5>1
      <4>2. CASE i = p + 1
        BY <3>1, <3>2, <3>3, <4>2
      <4> QED BY <3>1, <4>1, <4>2
    <3> QED BY <1>3, <3>4, <3>5, <3>6 DEF CodeIsInOrder
  <2> QED BY <2>2, <2>3
<1>8. LabelsAreDeclared'
  <2>1. SUFFICES ASSUME NEW i \in 1 .. LastHandled, Labelled(i)
                 PROVE  \E s \in DOMAIN symtab' :
                          DeclaredBy(symtab'[s], lines[i], i, data, instruction_counter)
    BY <1>3 DEF LabelsAreDeclared, DataBase, InFirstPass, Labelled
  <2>2. \E s \in DOMAIN symtab : DeclaredBy(symtab[s], lines[i], i, data, instruction_counter)
    BY <2>1 DEF Progress, LabelsAreDeclared, DataBase, InFirstPass
  <2> QED BY <2>2, DeclaredStays
<1> QED BY <1>5, <1>6, <1>7, <1>8 DEF Progress

-----------------------------------------------------------------------------
(***************************************************************************)
(* The actions.  A step that ends in a sound state starts in one.          *)
(***************************************************************************)

LEMMA EndOfFile ==
  ASSUME NEW raw \in RawLine, NEW kept, ParseError(raw, kept) = "ERR_EOF"
  PROVE  parseLine(raw, kept).type = "None"
<1>1. raw.form # "blank" /\ ParseError(raw, kept) \notin {"SUCCESS", "ERR_OUT_OF_MEMEORY"}
  BY DEF ParseError
<1> QED BY <1>1 DEF parseLine, newLine

LEMMA FirstLineAddress ==
  TypeInvariant /\ AddressInvariant /\ FirstLine => AddressInvariant'
<1> SUFFICES ASSUME TypeInvariant, AddressInvariant, FirstLine PROVE AddressInvariant'
  OBVIOUS
<1>1. PICK raw \in Readable, failed \in Failing({"operand", "queue_node"}) :
        \E kept \in Kept(raw, failed) :
          /\ Parse(raw, kept)
          /\ push(1, failed)
          /\ pc' = IF err' = "ERR_EOF" THEN "fix" ELSE "handle"
          /\ Fail(failed, erange)
  BY DEF FirstLine
<1>2. PICK kept \in Kept(raw, failed) : Parse(raw, kept)
  BY <1>1
<1>3. pc = "open" /\ UNCHANGED <<instruction_counter, errored, symbolVars, memoryVars>>
  BY DEF FirstLine
<1>4. UniqueSymbols'
  BY <1>3 DEF AddressInvariant, UniqueSymbols, symbolVars
<1>5. ASSUME Sound' PROVE Progress'
  <2>1. faults = 0 /\ failed = {}
    BY <1>1, <1>5, FailType, FourElements DEF Sound, TypeInvariant, TypeOK
  <2>2. Sound /\ Progress
    BY <1>3, <1>5, <2>1 DEF Sound, AddressInvariant
  <2>3. lines = <<>> /\ tail_linked
    BY <1>3, <2>2 DEF Progress, QueueIsTheRest
  <2>4. Len(lines) + 1 = 1
    BY <2>3
  <2>5. queue' = Append(queue, Len(lines) + 1) /\ tail_linked' = TRUE
    BY <1>1, <2>1, <2>3, <2>4 DEF push
  <2> DEFINE l == parseLine(raw, kept)
  <2>6. lines' = Append(lines, l) /\ err' = ParseError(raw, kept)
    BY <1>2 DEF Parse
  <2>7. pc' = "handle" \/ (pc' = "fix" /\ l.type = "None")
    BY <1>1, <2>6, ReadableType, EndOfFile
  <2> HIDE DEF l
  <2> QED BY <1>3, <2>2, <2>5, <2>6, <2>7, ReadStep
<1> QED BY <1>4, <1>5 DEF AddressInvariant

LEMMA NextLineAddress ==
  TypeInvariant /\ AddressInvariant /\ NextLine => AddressInvariant'
<1> SUFFICES ASSUME TypeInvariant, AddressInvariant, NextLine PROVE AddressInvariant'
  OBVIOUS
<1>1. PICK raw \in Readable, failed \in Failing({"operand", "queue_node"}) :
        \E kept \in Kept(raw, failed) :
          /\ Parse(raw, kept)
          /\ errored' = (errored \/ err' \notin {"SUCCESS", "ERR_EOF"})
          /\ IF err' = "ERR_OUT_OF_MEMEORY"
             THEN UNCHANGED queueVars
             ELSE push(Len(source) + 1, failed)
          /\ pc' = IF err' \in {"ERR_EOF", "ERR_OUT_OF_MEMEORY"} THEN "fix" ELSE "handle"
          /\ Fail(failed, erange)
  BY DEF NextLine
<1>2. PICK kept \in Kept(raw, failed) : Parse(raw, kept)
  BY <1>1
<1>3. pc = "read" /\ UNCHANGED <<instruction_counter, symbolVars, memoryVars>>
  BY DEF NextLine
<1>4. UniqueSymbols'
  BY <1>3 DEF AddressInvariant, UniqueSymbols, symbolVars
<1>5. ASSUME Sound' PROVE Progress'
  <2>1. faults = 0 /\ failed = {}
    BY <1>1, <1>5, FailType, FourElements DEF Sound, TypeInvariant, TypeOK
  <2>2. Sound /\ Progress /\ err' \in {"SUCCESS", "ERR_EOF"}
    BY <1>1, <1>3, <1>5, <2>1 DEF Sound, AddressInvariant
  <2>3. tail_linked /\ Len(source) = Len(lines)
    BY <2>2 DEF Progress, QueueIsTheRest, TypeInvariant, LinesAreKept
  <2>4. push(Len(source) + 1, {})
    BY <1>1, <2>1, <2>2
  <2>5. queue' = Append(queue, Len(lines) + 1) /\ tail_linked' = TRUE
    BY <2>3, <2>4 DEF push
  <2> DEFINE l == parseLine(raw, kept)
  <2>6. lines' = Append(lines, l) /\ err' = ParseError(raw, kept)
    BY <1>2 DEF Parse
  <2>7. pc' = "handle" \/ (pc' = "fix" /\ l.type = "None")
    BY <1>1, <2>2, <2>6, ReadableType, EndOfFile
  <2> HIDE DEF l
  <2> QED BY <1>3, <2>2, <2>5, <2>6, <2>7, ReadStep
<1> QED BY <1>4, <1>5 DEF AddressInvariant

(* An error of a line makes the state unsound; without one the pass goes on. *)
LEMMA HandledSound ==
  ASSUME NEW error, Handled(error), Sound', faults = 0, pc = "handle", AddressInvariant
  PROVE  error = "SUCCESS" /\ pc' = "read" /\ Progress /\ UNCHANGED <<source, queueVars>>
<1>1. error = "SUCCESS" /\ ~ errored
  BY DEF Handled, Sound
<1> QED BY <1>1 DEF Handled, Sound, AddressInvariant

LEMMA HandleIgnoredAddress ==
  TypeInvariant /\ AddressInvariant /\ HandleIgnored => AddressInvariant'
<1> SUFFICES ASSUME TypeInvariant, AddressInvariant, HandleIgnored PROVE AddressInvariant'
  OBVIOUS
<1>1. /\ pc = "handle" /\ Current.type \notin {"Code", "Data"} /\ Handled("SUCCESS")
      /\ UNCHANGED <<lines, instruction_counter, faults, symbolVars, memoryVars>>
  BY DEF HandleIgnored, Handling
<1>2. SymbolsKept /\ UniqueSymbols'
  BY <1>1 DEF SymbolsKept, AddressInvariant, UniqueSymbols, symbolVars
<1>3. ASSUME Sound' PROVE Progress'
  <2>1. faults = 0
    BY <1>1, <1>3 DEF Sound
  <2> QED BY <1>1, <1>2, <1>3, <2>1, HandledSound, SkipStep
<1> QED BY <1>2, <1>3 DEF AddressInvariant

LEMMA HandleEntryAddress ==
  TypeInvariant /\ AddressInvariant /\ HandleEntry => AddressInvariant'
<1> SUFFICES ASSUME TypeInvariant, AddressInvariant, HandleEntry PROVE AddressInvariant'
  OBVIOUS
<1>1. /\ pc = "handle" /\ Current.type \notin {"Code", "Data"}
      /\ UNCHANGED <<lines, instruction_counter, faults, symbolVars, memoryVars>>
  BY DEF HandleEntry, Handling
<1>2. PICK error : Handled(error)
  BY DEF HandleEntry
<1>3. SymbolsKept /\ UniqueSymbols'
  BY <1>1 DEF SymbolsKept, AddressInvariant, UniqueSymbols, symbolVars
<1>4. ASSUME Sound' PROVE Progress'
  <2>1. faults = 0
    BY <1>1, <1>4 DEF Sound
  <2> QED BY <1>1, <1>2, <1>3, <1>4, <2>1, HandledSound, SkipStep
<1> QED BY <1>3, <1>4 DEF AddressInvariant

LEMMA HandleExternAddress ==
  TypeInvariant /\ AddressInvariant /\ HandleExtern => AddressInvariant'
<1> SUFFICES ASSUME TypeInvariant, AddressInvariant, HandleExtern PROVE AddressInvariant'
  OBVIOUS
<1>1. /\ pc = "handle" /\ Current.type \notin {"Code", "Data"}
      /\ UNCHANGED <<lines, instruction_counter, memoryVars>>
  BY DEF HandleExtern, Handling
<1>2. PICK error : Handled(error)
  BY DEF HandleExtern
<1>3. SymbolsKept /\ UniqueSymbols' /\ (faults' = 0 => faults = 0)
  <2>1. CASE Len(Current.args) # 1
    BY <2>1 DEF HandleExtern, SymbolsKept, AddressInvariant, UniqueSymbols, symbolVars
  <2>2. CASE Len(Current.args) = 1
    <3>1. PICK failed \in Failing({"symbol", "node"}) :
            /\ insertSymbol(Current.args[1], 0, TRUE, "Data", failed)
            /\ Fail(failed, erange)
      BY <2>2 DEF HandleExtern
    <3>2. faults' = 0 => faults = 0
      BY <3>1, FailType, FourElements DEF TypeInvariant, TypeOK
    <3>3. symtab \in Seq(Symbol) /\ UniqueSymbols
      BY DEF TypeInvariant, TypeOK, SymbolManagerTypeOK, AddressInvariant
    <3> QED BY <3>1, <3>2, <3>3, InsertKeeps
  <2> QED BY <2>1, <2>2
<1>4. ASSUME Sound' PROVE Progress'
  <2>1. faults = 0
    BY <1>3, <1>4 DEF Sound
  <2> QED BY <1>1, <1>2, <1>3, <1>4, <2>1, HandledSound, SkipStep
<1> QED BY <1>3, <1>4 DEF AddressInvariant

(* A line's label, if it has one, becomes a symbol. *)
LEMMA DeclareKeeps ==
  ASSUME TypeInvariant, AddressInvariant, NEW val, NEW section, NEW failed,
         DeclareLabel(val, section, failed)
  PROVE  /\ SymbolsKept /\ UniqueSymbols'
         /\ DeclareError(failed) = "SUCCESS" /\ failed = {} /\ Current.label # Empty =>
              \E s \in DOMAIN symtab' :
                symtab'[s] = newSymbol(Current.label, val, FALSE, section)
<1>1. CASE Current.label = Empty
  BY <1>1 DEF DeclareLabel, SymbolsKept, AddressInvariant, UniqueSymbols, symbolVars
<1>2. CASE Current.label # Empty
  <2>1. insertSymbol(Current.label, val, FALSE, section, failed)
    BY <1>2 DEF DeclareLabel
  <2>2. symtab \in Seq(Symbol) /\ UniqueSymbols
    BY DEF TypeInvariant, TypeOK, SymbolManagerTypeOK, AddressInvariant
  <2>3. DeclareError(failed) = "SUCCESS" /\ failed = {} =>
          InsertError(Current.label, {}) = "SUCCESS"
    BY <1>2 DEF DeclareError
  <2> DEFINE made == InsertError(Current.label, {}) = "SUCCESS"
             new  == newSymbol(Current.label, val, FALSE, section)
  <2>4. /\ SymbolsKept /\ UniqueSymbols'
        /\ made /\ failed = {} => \E s \in DOMAIN symtab' : symtab'[s] = new
    BY <2>1, <2>2, InsertKeeps
  <2>5. DeclareError(failed) = "SUCCESS" /\ failed = {} => made
    BY <2>3
  <2> HIDE DEF made
  <2> QED BY <2>4, <2>5
<1> QED BY <1>1, <1>2

LEMMA HandleDataAddress ==
  TypeInvariant /\ AddressInvariant /\ HandleData => AddressInvariant'
<1> SUFFICES ASSUME TypeInvariant, AddressInvariant, HandleData PROVE AddressInvariant'
  OBVIOUS
<1>1. PICK failed \in Failing({"symbol", "node", "buffer", "grow"}) :
        LET declared == DeclareError(failed)
            stale    == erange /\ "node" \notin failed
            decoded  == DataError(Current, stale, failed)
        IN  /\ DeclareLabel(data_counter, "Data", failed)
            /\ IF declared # "SUCCESS"
               THEN Handled(declared) /\ UNCHANGED memoryVars
               ELSE IF decoded # "SUCCESS"
               THEN Handled(decoded) /\ UNCHANGED memoryVars
               ELSE /\ writeData(Len(lines), DataSize(Current), failed)
                    /\ Handled(WriteDataError(DataSize(Current), failed))
            /\ Fail(failed, IF declared = "SUCCESS" THEN ErangeAfterData(Current, stale)
                            ELSE erange)
  BY DEF HandleData
<1> DEFINE stale == erange /\ "node" \notin failed
           decoded == DataError(Current, stale, failed)
           size == DataSize(Current)
<1>2. /\ pc = "handle" /\ Current.type = "Data"
      /\ UNCHANGED <<lines, instruction_counter>> /\ Current \in AssemblyLine
  BY CurrentType DEF HandleData, Handling
<1>3. SymbolsKept /\ UniqueSymbols'
  BY <1>1, DeclareKeeps
<1>4. ASSUME Sound' PROVE Progress'
  <2>1. faults = 0 /\ failed = {}
    <3>1. PICK flag \in BOOLEAN : Fail(failed, flag)
      <4>1. erange \in BOOLEAN /\ ErangeAfterData(Current, stale) \in BOOLEAN
        BY DEF TypeInvariant, TypeOK, ErangeAfterData
      <4> QED BY <1>1, <4>1
    <3>2. IsFiniteSet({"symbol", "node", "buffer", "grow"})
      BY FourElements
    <3>3. faults \in Nat /\ faults' = 0
      BY <1>4 DEF Sound, TypeInvariant, TypeOK
    <3> QED BY <3>1, <3>2, <3>3, FailType
  <2>2. DeclareError(failed) = "SUCCESS"
    <3>1. CASE DeclareError(failed) # "SUCCESS"
      <4>1. Handled(DeclareError(failed))
        BY <1>1, <3>1
      <4> QED BY <1>2, <1>4, <2>1, <3>1, <4>1, HandledSound
    <3> QED BY <3>1
  <2>3. decoded = "SUCCESS"
    <3>1. CASE decoded # "SUCCESS"
      <4>1. Handled(decoded)
        BY <1>1, <2>2, <3>1
      <4> QED BY <1>2, <1>4, <2>1, <3>1, <4>1, HandledSound
    <3> QED BY <3>1
  <2>4. writeData(Len(lines), size, failed) /\ Handled(WriteDataError(size, failed))
    BY <1>1, <2>2, <2>3
  <2>5. WriteDataError(size, failed) = "SUCCESS"
    BY <2>1 DEF WriteDataError, AppendError
  <2>6. size \in Nat \ {0}
    BY <1>2, <2>3, DataSizeType
  <2>7. /\ data_counter' = data_counter + size /\ UNCHANGED code
        /\ data' = data \o [k \in 1 .. size |-> Len(lines)]
    BY <2>4, <2>5 DEF writeData
  <2>8. Current.label # Empty =>
          \E s \in DOMAIN symtab' :
            symtab'[s] = newSymbol(Current.label, data_counter, FALSE, "Data")
    BY <1>1, <2>1, <2>2, DeclareKeeps
  <2>9. pc' = "read" /\ Progress /\ UNCHANGED queueVars
    BY <1>2, <1>4, <2>1, <2>4, HandledSound
  <2> HIDE DEF size
  <2> QED BY <1>2, <1>3, <2>6, <2>7, <2>8, <2>9, DataStep
<1> QED BY <1>3, <1>4 DEF AddressInvariant

LEMMA HandleCodeAddress ==
  TypeInvariant /\ AddressInvariant /\ HandleCode => AddressInvariant'
<1> SUFFICES ASSUME TypeInvariant, AddressInvariant, HandleCode PROVE AddressInvariant'
  OBVIOUS
<1>1. PICK failed \in Failing({"symbol", "node"}) :
        /\ DeclareLabel(instruction_counter, "Code", failed)
        /\ Handled(DeclareError(failed))
        /\ Fail(failed, erange)
  BY DEF HandleCode
<1>2. /\ pc = "handle" /\ Current.type = "Code"
      /\ lines' = [lines EXCEPT ![Len(lines)].code_position = instruction_counter]
      /\ instruction_counter' = instruction_counter + INSTRUCTION_SIZE
      /\ UNCHANGED memoryVars
  BY DEF HandleCode, Handling
<1>3. SymbolsKept /\ UniqueSymbols'
  BY <1>1, DeclareKeeps
<1>4. ASSUME Sound' PROVE Progress'
  <2>1. faults = 0 /\ failed = {}
    BY <1>1, <1>4, FailType, FourElements DEF Sound, TypeInvariant, TypeOK
  <2>2. /\ DeclareError(failed) = "SUCCESS" /\ pc' = "read" /\ Progress
        /\ UNCHANGED queueVars
    BY <1>1, <1>2, <1>4, <2>1, HandledSound
  <2>3. Current.label # Empty =>
          \E s \in DOMAIN symtab' :
            symtab'[s] = newSymbol(Current.label, instruction_counter, FALSE, "Code")
    BY <1>1, <2>1, <2>2, DeclareKeeps
  <2> QED BY <1>2, <1>3, <2>2, <2>3, CodeStep
<1> QED BY <1>3, <1>4 DEF AddressInvariant

LEMMA FinishFirstPassAddress ==
  TypeInvariant /\ AddressInvariant /\ FinishFirstPass => AddressInvariant'
<1> SUFFICES ASSUME TypeInvariant, AddressInvariant, FinishFirstPass PROVE AddressInvariant'
  OBVIOUS
<1>1. /\ pc = "fix" /\ pc' \in {"rejected", "second"}
      /\ fixDataSymbolsOffset(instruction_counter)
      /\ UNCHANGED <<lines, queueVars, instruction_counter, errored, faults,
                     memoryVars>>
  BY DEF FinishFirstPass
<1>2. UniqueSymbols'
  <2>1. symtab \in Seq(Symbol) /\ UniqueSymbols
    BY DEF TypeInvariant, TypeOK, SymbolManagerTypeOK, AddressInvariant
  <2>2. DOMAIN symtab' = DOMAIN symtab
    BY <1>1 DEF fixDataSymbolsOffset
  <2>3. ASSUME NEW s \in DOMAIN symtab PROVE symtab'[s].symbol = symtab[s].symbol
    <3>1. symtab[s] \in Symbol
      BY <2>1
    <3>2. symtab'[s] = symtab[s]
          \/ symtab'[s] = [symtab[s] EXCEPT !.value = @ + instruction_counter]
      BY <1>1 DEF fixDataSymbolsOffset
    <3> QED BY <3>1, <3>2 DEF Symbol
  <2> QED BY <2>1, <2>2, <2>3 DEF UniqueSymbols
<1>3. ASSUME Sound' PROVE Progress'
  <2>1. Sound /\ Progress /\ pc' = "second"
    BY <1>1, <1>3 DEF Sound, AddressInvariant
  <2> QED BY <1>1, <2>1, FixStep
<1> QED BY <1>2, <1>3 DEF AddressInvariant

LEMMA PoppedSound ==
  ASSUME NEW error, Popped(error), Sound', faults = 0, pc = "second", AddressInvariant
  PROVE  /\ error = "SUCCESS" /\ pc' = "second" /\ Progress /\ queue' = Tail(queue)
         /\ tail_linked => tail_linked'
         /\ UNCHANGED <<lines, instruction_counter>>
<1>1. error = "SUCCESS" /\ ~ errored
  BY DEF Popped, Sound
<1> QED BY <1>1 DEF Popped, pop, Sound, AddressInvariant

LEMMA PopIgnoredAddress ==
  TypeInvariant /\ AddressInvariant /\ PopIgnored => AddressInvariant'
<1> SUFFICES ASSUME TypeInvariant, AddressInvariant, PopIgnored PROVE AddressInvariant'
  OBVIOUS
<1>1. /\ pc = "second" /\ queue # <<>> /\ First.type # "Code" /\ Popped("SUCCESS")
      /\ UNCHANGED <<faults, symbolVars, memoryVars>>
  BY DEF PopIgnored, Popping
<1>2. SymbolsKept /\ UniqueSymbols' /\ UNCHANGED <<code, data, data_counter>>
  BY <1>1 DEF SymbolsKept, AddressInvariant, UniqueSymbols, symbolVars, memoryVars
<1>3. ASSUME Sound' PROVE Progress'
  <2>1. faults = 0
    BY <1>1, <1>3 DEF Sound
  <2> QED BY <1>1, <1>2, <1>3, <2>1, PoppedSound, PopStep
<1> QED BY <1>2, <1>3 DEF AddressInvariant

LEMMA PopEntryAddress ==
  TypeInvariant /\ AddressInvariant /\ PopEntry => AddressInvariant'
<1> SUFFICES ASSUME TypeInvariant, AddressInvariant, PopEntry PROVE AddressInvariant'
  OBVIOUS
<1>1. /\ pc = "second" /\ queue # <<>> /\ First.type # "Code"
      /\ UNCHANGED <<faults, code, data, data_counter>>
  BY DEF PopEntry, Popping, memoryVars
<1>2. PICK error : Popped(error)
  BY DEF PopEntry
<1>3. SymbolsKept /\ UniqueSymbols'
  <2>1. CASE UNCHANGED symbolVars
    BY <2>1 DEF SymbolsKept, AddressInvariant, UniqueSymbols, symbolVars
  <2>2. CASE markSymEntry(First.args[1])
    BY <2>2, MarkKeeps DEF TypeInvariant, TypeOK, SymbolManagerTypeOK, AddressInvariant
  <2> QED BY <2>1, <2>2 DEF PopEntry
<1>4. ASSUME Sound' PROVE Progress'
  <2>1. faults = 0
    BY <1>1, <1>4 DEF Sound
  <2> QED BY <1>1, <1>2, <1>3, <1>4, <2>1, PoppedSound, PopStep
<1> QED BY <1>3, <1>4 DEF AddressInvariant

LEMMA PopCodeAddress ==
  TypeInvariant /\ AddressInvariant /\ PopCode => AddressInvariant'
<1> SUFFICES ASSUME TypeInvariant, AddressInvariant, PopCode PROVE AddressInvariant'
  OBVIOUS
<1>1. PICK failed \in Failing({"offsets", "grow"}) :
        LET decoded == InstructionError(First, erange, failed)
        IN  /\ IF UsesSymbol(First, erange)
               THEN useSymbol(UsedSymbol(First), First.code_position, failed)
               ELSE UNCHANGED symbolVars
            /\ IF decoded = "SUCCESS"
               THEN /\ writeCode(Head(queue), decodeInstructionLine(First), failed)
                    /\ Popped(WriteCodeError(failed))
               ELSE Popped(decoded) /\ UNCHANGED memoryVars
            /\ Fail(failed, ErangeAfterCode(First, erange))
  BY DEF PopCode
<1>2. pc = "second" /\ queue # <<>> /\ First.type = "Code"
  BY DEF PopCode, Popping
<1>3. SymbolsKept /\ UniqueSymbols'
  <2>1. CASE UNCHANGED symbolVars
    BY <2>1 DEF SymbolsKept, AddressInvariant, UniqueSymbols, symbolVars
  <2>2. CASE useSymbol(UsedSymbol(First), First.code_position, failed)
    BY <2>2, UseKeeps DEF TypeInvariant, TypeOK, SymbolManagerTypeOK, AddressInvariant
  <2> QED BY <1>1, <2>1, <2>2
<1>4. ASSUME Sound' PROVE Progress'
  <2>1. faults = 0 /\ failed = {}
    <3>1. ErangeAfterCode(First, erange) \in BOOLEAN /\ faults \in Nat /\ faults' = 0
      BY <1>4 DEF TypeInvariant, TypeOK, ErangeAfterCode, Sound
    <3>2. Fail(failed, ErangeAfterCode(First, erange)) /\ IsFiniteSet({"offsets", "grow"})
      BY <1>1, FourElements
    <3> QED BY <3>1, <3>2, FailType
  <2>2. InstructionError(First, erange, failed) = "SUCCESS"
    <3>1. CASE InstructionError(First, erange, failed) # "SUCCESS"
      <4>1. Popped(InstructionError(First, erange, failed))
        BY <1>1, <3>1
      <4> QED BY <1>2, <1>4, <2>1, <3>1, <4>1, PoppedSound
    <3> QED BY <3>1
  <2>3. /\ writeCode(Head(queue), decodeInstructionLine(First), failed)
        /\ Popped(WriteCodeError(failed))
    BY <1>1, <2>2
  <2>4. WriteCodeError(failed) = "SUCCESS"
    BY <2>1 DEF WriteCodeError, AppendError
  <2>5. /\ \E w : code' = Append(code, [line |-> Head(queue), word |-> w])
        /\ UNCHANGED <<data, data_counter>>
    BY <2>3, <2>4 DEF writeCode
  <2> QED BY <1>2, <1>3, <1>4, <2>1, <2>3, <2>5, PoppedSound, PopStep
<1> QED BY <1>3, <1>4 DEF AddressInvariant

LEMMA FinishSecondPassAddress ==
  TypeInvariant /\ AddressInvariant /\ FinishSecondPass => AddressInvariant'
<1> SUFFICES ASSUME TypeInvariant, AddressInvariant, FinishSecondPass PROVE AddressInvariant'
  OBVIOUS
<1>1. /\ pc = "second" /\ queue = <<>> /\ pc' \in {"rejected", "assembled"}
      /\ UNCHANGED <<lines, queueVars, instruction_counter, errored, faults>>
      /\ UNCHANGED <<symtab, data, data_counter, code>>
  BY DEF FinishSecondPass, symbolVars, memoryVars
<1>2. UniqueSymbols'
  BY <1>1 DEF AddressInvariant, UniqueSymbols
<1>3. ASSUME Sound' PROVE Progress'
  <2>1. Progress
    BY <1>1, <1>3 DEF Sound, AddressInvariant
  <2>2. /\ LastHandled' = LastHandled /\ LastPopped' = LastPopped /\ pc' # "open"
        /\ ~ InFirstPass /\ ~ InFirstPass'
    BY <1>1 DEF queueVars, LastHandled, LastPopped, InFirstPass
  <2>3. CountersAgree' /\ CodeIsInOrder'
    BY <1>1, <2>1, <2>2 DEF Progress, CountersAgree, CodeIsInOrder
  <2>4. QueueIsTheRest'
    BY <1>1, <2>1, <2>2 DEF queueVars, Progress, QueueIsTheRest
  <2>5. LabelsAreDeclared'
    BY <1>1, <2>1, <2>2 DEF Progress, LabelsAreDeclared, DataBase, Labelled
  <2> QED BY <2>3, <2>4, <2>5 DEF Progress
<1> QED BY <1>2, <1>3 DEF AddressInvariant

(* The steps after which the source is no longer in good order. *)
LEMMA UnsoundStep ==
  ASSUME AddressInvariant, UNCHANGED symbolVars,
         pc' = "crashed" \/ errored' = TRUE
  PROVE  AddressInvariant'
BY DEF AddressInvariant, UniqueSymbols, Sound, symbolVars

LEMMA StutterAddress == AddressInvariant /\ UNCHANGED vars => AddressInvariant'
BY DEF AddressInvariant, UniqueSymbols, Sound, Progress, CountersAgree, QueueIsTheRest,
       CodeIsInOrder, LabelsAreDeclared, LastHandled, LastPopped, DataBase, InFirstPass,
       Labelled, vars, passVars, queueVars, symbolVars, memoryVars

LEMMA AddressStep == TypeInvariant /\ AddressInvariant /\ [Next]_vars => AddressInvariant'
<1> SUFFICES ASSUME TypeInvariant, AddressInvariant, [Next]_vars PROVE AddressInvariant'
  OBVIOUS
<1>1. CASE FirstLine \/ NextLine \/ FinishFirstPass
  BY <1>1, FirstLineAddress, NextLineAddress, FinishFirstPassAddress
<1>2. CASE NoNextLine
  BY <1>2, UnsoundStep DEF NoNextLine
<1>3. CASE HandleIgnored \/ HandleEntry \/ HandleExtern \/ HandleData \/ HandleCode
  BY <1>3, HandleIgnoredAddress, HandleEntryAddress, HandleExternAddress, HandleDataAddress,
     HandleCodeAddress
<1>4. CASE SecondPass
  BY <1>4, PopIgnoredAddress, PopEntryAddress, PopCodeAddress, FinishSecondPassAddress
     DEF SecondPass
<1>5. CASE Crash
  BY <1>5, UnsoundStep DEF Crash
<1>6. CASE UNCHANGED vars
  BY <1>6, StutterAddress
<1> QED BY <1>1, <1>2, <1>3, <1>4, <1>5, <1>6 DEF Next, FirstPass, Terminated

LEMMA AddressInit == Init => AddressInvariant
<1> SUFFICES ASSUME Init PROVE AddressInvariant
  OBVIOUS
<1>1. /\ lines = <<>> /\ queue = <<>> /\ symtab = <<>> /\ data = <<>> /\ code = <<>>
      /\ data_counter = 0 /\ tail_linked /\ pc = "open"
      /\ instruction_counter = INSTRUCTION_COUNTER_INITIAL_VALUE
  BY DEF Init, newLineQueue, newSymbolManager, newMemory
<1>2. LastHandled = 0 /\ LastPopped = 0
  BY <1>1 DEF LastHandled, LastPopped
<1>3. CodeUpTo(lines, 0) = {} /\ Count(lines, 0) = 0
  BY CountZero
<1>4. CountersAgree
  BY <1>1, <1>2, <1>3 DEF CountersAgree, INSTRUCTION_COUNTER_INITIAL_VALUE, INSTRUCTION_SIZE
<1>5. QueueIsTheRest
  BY <1>1, <1>2 DEF QueueIsTheRest
<1>6. CodeIsInOrder
  BY <1>1, <1>2, <1>3 DEF CodeIsInOrder
<1>7. LabelsAreDeclared /\ UniqueSymbols
  BY <1>1, <1>2 DEF LabelsAreDeclared, UniqueSymbols
<1> QED BY <1>4, <1>5, <1>6, <1>7 DEF AddressInvariant, Progress

(* Only FinishSecondPass ends in "assembled", and it looks at errored. *)
LEMMA ErrorStep == NoErrorIsForgotten /\ [Next]_vars => NoErrorIsForgotten'
<1> SUFFICES ASSUME NoErrorIsForgotten, [Next]_vars PROVE NoErrorIsForgotten'
  OBVIOUS
<1>1. ASSUME NEW error, Handled(error) \/ Popped(error) PROVE pc' # "assembled"
  BY <1>1 DEF Handled, Popped
<1>2. CASE FirstLine \/ NextLine \/ NoNextLine \/ FinishFirstPass \/ Crash
  BY <1>2 DEF FirstLine, NextLine, NoNextLine, FinishFirstPass, Crash, NoErrorIsForgotten
<1>3. CASE HandleIgnored \/ HandleEntry \/ HandleExtern \/ HandleData \/ HandleCode
  <2>1. PICK error : Handled(error)
    BY <1>3 DEF HandleIgnored, HandleEntry, HandleExtern, HandleData, HandleCode
  <2> QED BY <1>1, <2>1 DEF NoErrorIsForgotten
<1>4. CASE PopIgnored \/ PopEntry \/ PopCode
  <2>1. PICK error : Popped(error)
    BY <1>4 DEF PopIgnored, PopEntry, PopCode
  <2> QED BY <1>1, <2>1 DEF NoErrorIsForgotten
<1>5. CASE FinishSecondPass
  BY <1>5 DEF FinishSecondPass, NoErrorIsForgotten
<1>6. CASE UNCHANGED vars
  BY <1>6 DEF NoErrorIsForgotten, vars, passVars
<1> QED BY <1>2, <1>3, <1>4, <1>5, <1>6 DEF Next, FirstPass, SecondPass, Terminated

-----------------------------------------------------------------------------
(***************************************************************************)
(* What the invariant says of an assembled source.                         *)
(***************************************************************************)

LEMMA LineAtCode ==
  ASSUME MemoryTypeOK, NEW k \in 1 .. Len(code), NEW j \in 0 .. 3
  PROVE  LineAt(INSTRUCTION_COUNTER_INITIAL_VALUE + WORD_SIZE * (k - 1) + j) = code[k].line
<1>1. Len(code) \in Nat
  BY DEF MemoryTypeOK
<1> DEFINE i == 4 * (k - 1) + j
<1>2. i \in 0 .. 4 * Len(code) - 1 /\ i \div 4 + 1 = k
  BY <1>1
<1>3. INSTRUCTION_COUNTER_INITIAL_VALUE + WORD_SIZE * (k - 1) + j = 100 + i
  BY DEF INSTRUCTION_COUNTER_INITIAL_VALUE, WORD_SIZE
<1>4. i \in Int
  BY <1>2
<1> HIDE DEF i
<1>5. (100 + i) - INSTRUCTION_COUNTER_INITIAL_VALUE = i
  BY <1>4 DEF INSTRUCTION_COUNTER_INITIAL_VALUE
<1>6. LineAt(100 + i) = code[i \div 4 + 1].line
  BY <1>2, <1>5 DEF LineAt, CodeBytes, WORD_SIZE
<1> QED BY <1>2, <1>3, <1>6

LEMMA LineAtData ==
  ASSUME MemoryTypeOK, NEW v \in 0 .. Len(data) - 1
  PROVE  LineAt(INSTRUCTION_COUNTER_INITIAL_VALUE + CodeBytes + v) = data[v + 1]
<1>1. CodeBytes \in Nat /\ Len(data) \in Nat
  BY DEF MemoryTypeOK, CodeBytes, WORD_SIZE
<1> DEFINE i == CodeBytes + v
<1>2. INSTRUCTION_COUNTER_INITIAL_VALUE + CodeBytes + v = 100 + i /\ (100 + i) - 100 = i
  BY <1>1 DEF INSTRUCTION_COUNTER_INITIAL_VALUE
<1>3. i \notin 0 .. CodeBytes - 1 /\ i - CodeBytes = v
  BY <1>1
<1> HIDE DEF i
<1> QED BY <1>2, <1>3 DEF LineAt, INSTRUCTION_COUNTER_INITIAL_VALUE

LEMMA LineAtNothing ==
  ASSUME MemoryTypeOK
  PROVE  LineAt(INSTRUCTION_COUNTER_INITIAL_VALUE - 1) = 0
<1>1. CodeBytes \in Nat /\ Len(data) \in Nat
  BY DEF MemoryTypeOK, CodeBytes, WORD_SIZE
<1> QED BY <1>1 DEF LineAt, INSTRUCTION_COUNTER_INITIAL_VALUE

(* The state in which the output files are written. *)
LEMMA AtTheEnd ==
  ASSUME TypeInvariant, AddressInvariant, NoErrorIsForgotten, Assembled
  PROVE  /\ Progress /\ Len(lines) \in Nat /\ LastHandled = Len(lines)
         /\ LastPopped = Len(lines) /\ ~ InFirstPass
         /\ Len(code) \in Nat /\ DOMAIN code = 1 .. Len(code)
         /\ Len(code) = Count(lines, Len(lines))
         /\ instruction_counter = INSTRUCTION_COUNTER_INITIAL_VALUE + CodeBytes
<1>1. Progress /\ pc = "assembled"
  BY DEF Assembled, AddressInvariant, Sound, NoErrorIsForgotten
<1>2. queue = <<>> /\ Len(lines) \in Nat
  BY <1>1 DEF Progress, QueueIsTheRest, TypeInvariant, TypeOK
<1>3. LastHandled = Len(lines) /\ LastPopped = Len(lines) /\ ~ InFirstPass
  BY <1>1, <1>2 DEF LastHandled, LastPopped, InFirstPass
<1>4. Len(code) \in Nat /\ DOMAIN code = 1 .. Len(code)
  BY DEF TypeInvariant, TypeOK, MemoryTypeOK
<1>5. Len(code) = Count(lines, Len(lines))
  BY <1>1, <1>3 DEF Progress, CodeIsInOrder
<1>6. instruction_counter = INSTRUCTION_COUNTER_INITIAL_VALUE + CodeBytes
  BY <1>1, <1>3, <1>5 DEF Progress, CountersAgree, CodeBytes, WORD_SIZE, INSTRUCTION_SIZE
<1> QED BY <1>1, <1>2, <1>3, <1>4, <1>5, <1>6

(* The address of a line of code is that of its word. *)
LEMMA CodePlace ==
  ASSUME TypeInvariant, AddressInvariant, NoErrorIsForgotten, Assembled,
         NEW i \in 1 .. Len(lines), lines[i].type = "Code"
  PROVE  /\ Count(lines, i) \in 1 .. Len(code) /\ code[Count(lines, i)].line = i
         /\ lines[i].code_position =
              INSTRUCTION_COUNTER_INITIAL_VALUE + WORD_SIZE * (Count(lines, i) - 1)
<1>1. i \in CodeUpTo(lines, Len(lines))
  BY DEF CodeUpTo
<1>2. Count(lines, i) \in 1 .. Len(code) /\ code[Count(lines, i)].line = i
  BY <1>1, AtTheEnd DEF Progress, CodeIsInOrder
<1>3. lines[i].code_position =
        INSTRUCTION_COUNTER_INITIAL_VALUE + INSTRUCTION_SIZE * Count(lines, i - 1)
  BY <1>1, AtTheEnd DEF Progress, CountersAgree
<1>4. Count(lines, i) = Count(lines, i - 1) + 1 /\ Count(lines, i - 1) \in Nat
  <2>1. i - 1 \in Nat /\ (i - 1) + 1 = i
    BY AtTheEnd
  <2> QED BY <2>1, CountStep, CountType
<1> QED BY <1>2, <1>3, <1>4 DEF WORD_SIZE, INSTRUCTION_SIZE

LEMMA CodeDerived ==
  ASSUME TypeInvariant, AddressInvariant, NoErrorIsForgotten
  PROVE  CodeIsWhereItWasCounted
<1> SUFFICES ASSUME Assembled PROVE CodeIsWhereItWasCounted
  BY DEF CodeIsWhereItWasCounted
<1> DEFINE n == Len(lines)
<1>1. /\ Progress /\ n \in Nat /\ DOMAIN lines = 1 .. n
      /\ LastHandled = n /\ LastPopped = n
      /\ instruction_counter = INSTRUCTION_COUNTER_INITIAL_VALUE + CodeBytes
  BY AtTheEnd DEF TypeInvariant, TypeOK
<1>2. data_counter = Len(data)
  BY <1>1 DEF Progress, CountersAgree
<1>3. ASSUME NEW k \in DOMAIN code
      PROVE  /\ code[k].line \in 1 .. n /\ lines[code[k].line].type = "Code"
             /\ Count(lines, code[k].line) = k
  BY <1>1 DEF Progress, CodeIsInOrder, CodeUpTo
<1>4. {code[k].line : k \in DOMAIN code} = {i \in DOMAIN lines : lines[i].type = "Code"}
  <2>1. ASSUME NEW i \in 1 .. n, lines[i].type = "Code"
        PROVE  \E k \in DOMAIN code : code[k].line = i
    <3>1. Count(lines, i) \in DOMAIN code /\ code[Count(lines, i)].line = i
      BY <2>1, CodePlace, AtTheEnd
    <3> QED BY <3>1
  <2> QED BY <1>1, <1>3, <2>1
<1>5. ASSUME NEW k \in DOMAIN code PROVE CodeLine(k).code_position = CodeAddress(k)
  BY <1>3, <1>5, CodePlace DEF CodeLine, CodeAddress
<1> QED BY <1>1, <1>2, <1>4, <1>5 DEF CodeIsWhereItWasCounted

LEMMA LabelsDerived ==
  ASSUME TypeInvariant, AddressInvariant, NoErrorIsForgotten
  PROVE  LabelsPointAtTheirLines
<1> SUFFICES ASSUME Assembled, NEW i \in DOMAIN lines, Labelled(i)
             PROVE  /\ exists(lines[i].label)
                    /\ ~ symtab[find(lines[i].label)].is_external
                    /\ BeginsAt(i, symtab[find(lines[i].label)].value)
  BY DEF LabelsPointAtTheirLines
<1>1. /\ Progress /\ Len(lines) \in Nat /\ i \in 1 .. Len(lines)
      /\ MemoryTypeOK /\ symtab \in Seq(Symbol)
  BY AtTheEnd DEF TypeInvariant, TypeOK, SymbolManagerTypeOK
<1>2. PICK s \in DOMAIN symtab :
        DeclaredBy(symtab[s], lines[i], i, data, instruction_counter)
  BY <1>1, AtTheEnd DEF Progress, LabelsAreDeclared, DataBase
<1>3. exists(lines[i].label) /\ find(lines[i].label) = s
  <2>1. symtab[s].symbol = lines[i].label
    BY <1>2 DEF DeclaredBy
  <2>2. exists(lines[i].label)
    BY <2>1 DEF exists
  <2>3. /\ find(lines[i].label) \in DOMAIN symtab
        /\ symtab[find(lines[i].label)].symbol = lines[i].label
    BY <1>1, <2>2, FindType
  <2> QED BY <2>1, <2>2, <2>3 DEF AddressInvariant, UniqueSymbols
<1> DEFINE v == symtab[s].value
<1>4. CASE lines[i].type = "Code"
  <2> DEFINE k == Count(lines, i)
  <2>1. /\ k \in 1 .. Len(code) /\ code[k].line = i
        /\ v = INSTRUCTION_COUNTER_INITIAL_VALUE + WORD_SIZE * (k - 1)
    BY <1>1, <1>2, <1>4, CodePlace DEF DeclaredBy
  <2> HIDE DEF k, v
  <2>2. LineAt(v) = i
    <3>1. 0 \in 0 .. 3 /\ v + 0 = v
      BY <2>1, AtTheEnd DEF INSTRUCTION_COUNTER_INITIAL_VALUE, WORD_SIZE
    <3> QED BY <1>1, <2>1, <3>1, LineAtCode
  <2>3. LineAt(v - 1) # i
    <3>1. CASE k = 1
      <4>1. v - 1 = INSTRUCTION_COUNTER_INITIAL_VALUE - 1 /\ i # 0
        BY <1>1, <2>1, <3>1 DEF INSTRUCTION_COUNTER_INITIAL_VALUE, WORD_SIZE
      <4> QED BY <1>1, <4>1, LineAtNothing
    <3>2. CASE k # 1
      <4>1. k - 1 \in 1 .. Len(code) /\ k - 1 # k /\ k - 1 \in DOMAIN code
        BY <2>1, <3>2, AtTheEnd
      <4>2. v - 1 = INSTRUCTION_COUNTER_INITIAL_VALUE + WORD_SIZE * ((k - 1) - 1) + 3
        BY <2>1, AtTheEnd DEF INSTRUCTION_COUNTER_INITIAL_VALUE, WORD_SIZE
      <4>3. LineAt(v - 1) = code[k - 1].line
        BY <1>1, <4>1, <4>2, LineAtCode
      <4>4. Count(lines, code[k - 1].line) = k - 1
        BY <1>1, <4>1 DEF Progress, CodeIsInOrder
      <4>5. code[k - 1].line # i
        BY <4>1, <4>4 DEF k
      <4> QED BY <4>3, <4>5
    <3> QED BY <3>1, <3>2
  <2> QED BY <1>2, <1>3, <2>2, <2>3 DEF BeginsAt, DeclaredBy, v
<1>5. CASE lines[i].type = "Data"
  <2> DEFINE o == v - instruction_counter
  <2>1. DataBegins(data, i, o)
    BY <1>2, <1>5 DEF DeclaredBy
  <2>2. o \in 0 .. Len(data) - 1 /\ data[o + 1] = i /\ (o > 0 => data[o] # i)
    BY <2>1 DEF DataBegins
  <2>3. v = INSTRUCTION_COUNTER_INITIAL_VALUE + CodeBytes + o
        /\ CodeBytes = 4 * Len(code) /\ Len(data) \in Nat
    <3>1. v \in Int
      <4>1. symtab[s] \in Symbol
        BY <1>1, <1>2
      <4> QED BY <4>1 DEF Symbol
    <3>2. instruction_counter = INSTRUCTION_COUNTER_INITIAL_VALUE + CodeBytes
      BY AtTheEnd
    <3>3. CodeBytes = 4 * Len(code) /\ Len(code) \in Nat /\ Len(data) \in Nat
      BY AtTheEnd, <1>1 DEF CodeBytes, WORD_SIZE, MemoryTypeOK
    <3> QED BY <3>1, <3>2, <3>3 DEF INSTRUCTION_COUNTER_INITIAL_VALUE
  <2> HIDE DEF o, v
  <2>4. LineAt(v) = i
    BY <1>1, <2>2, <2>3, LineAtData
  <2>5. LineAt(v - 1) # i
    <3>1. CASE o > 0
      <4>1. o - 1 \in 0 .. Len(data) - 1 /\ (o - 1) + 1 = o
            /\ v - 1 = INSTRUCTION_COUNTER_INITIAL_VALUE + CodeBytes + (o - 1)
        BY <2>2, <2>3, <3>1, AtTheEnd DEF INSTRUCTION_COUNTER_INITIAL_VALUE
      <4>2. LineAt(v - 1) = data[o]
        BY <1>1, <4>1, LineAtData
      <4> QED BY <2>2, <3>1, <4>2
    <3>2. CASE o = 0 /\ Len(code) = 0
      <4>1. v - 1 = INSTRUCTION_COUNTER_INITIAL_VALUE - 1 /\ i # 0
        BY <1>1, <2>3, <3>2 DEF INSTRUCTION_COUNTER_INITIAL_VALUE
      <4> QED BY <1>1, <4>1, LineAtNothing
    <3>3. CASE o = 0 /\ Len(code) # 0
      <4> DEFINE k == Len(code)
      <4>1. k \in 1 .. Len(code) /\ k \in DOMAIN code
        BY <3>3, AtTheEnd
      <4>2. v - 1 = INSTRUCTION_COUNTER_INITIAL_VALUE + WORD_SIZE * (k - 1) + 3
        BY <2>3, <3>3, AtTheEnd DEF INSTRUCTION_COUNTER_INITIAL_VALUE, WORD_SIZE
      <4>3. LineAt(v - 1) = code[k].line
        BY <1>1, <4>1, <4>2, LineAtCode
      <4>4. lines[code[k].line].type = "Code"
        BY <1>1, <4>1, AtTheEnd DEF Progress, CodeIsInOrder, CodeUpTo
      <4> QED BY <1>5, <4>3, <4>4
    <3> QED BY <2>2, <2>3, <3>1, <3>2, <3>3, AtTheEnd
  <2> QED BY <1>2, <1>3, <2>4, <2>5 DEF BeginsAt, DeclaredBy, v
<1> QED BY <1>4, <1>5 DEF Labelled

-----------------------------------------------------------------------------

LEMMA AddressInductive == Spec => [](TypeInvariant /\ AddressInvariant /\ NoErrorIsForgotten)
<1> DEFINE Inv == TypeInvariant /\ AddressInvariant /\ NoErrorIsForgotten
<1>1. Init => Inv
  <2>1. Init => NoErrorIsForgotten
    BY DEF Init, NoErrorIsForgotten
  <2> QED BY <2>1, TypeInit, AddressInit
<1>2. Inv /\ [Next]_vars => Inv'
  BY TypeStep, AddressStep, ErrorStep
<1> QED BY <1>1, <1>2, PTL DEF Spec

(* In every object file the k-th word is that of the k-th line of code, it    *)
(* stands at the address the first pass counted for that line, and the two    *)
(* counters are the sizes of the two images: for any source lines and any     *)
(* number of them, whenever no allocation failed.                             *)
THEOREM CodeAtItsAddress == Spec => []CodeIsWhereItWasCounted
BY AddressInductive, CodeDerived, PTL

(* In every object file the symbol of a label is the address of the first     *)
(* byte of the line the label stands in front of, code or data.               *)
THEOREM LabelsAtTheirLines == Spec => []LabelsPointAtTheirLines
BY AddressInductive, LabelsDerived, PTL
=============================================================================
