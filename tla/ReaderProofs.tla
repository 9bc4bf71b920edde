---------------------------- MODULE ReaderProofs ----------------------------
(***************************************************************************)
(* Proofs about LineReader: whatever a file holds and wherever reading it  *)
(* fails, no text is longer than its buffer, the lines of the file reach   *)
(* the parser in order until a skip runs into the next line, and a line is *)
(* taken for the label, the command and the operands it has, or rejected   *)
(* if it can be read in no way.  What the code does behind such a skip and *)
(* with a comma in a string is part of the inductive invariant only.       *)
(***************************************************************************)
EXTENDS LineReader, NaturalSets, FiniteSetTheorems, SequenceTheorems

-----------------------------------------------------------------------------
(***************************************************************************)
(* Positions in a text.                                                    *)
(***************************************************************************)
LEMMA LastOf ==
  ASSUME NEW n \in Nat, NEW T \in SUBSET (0 .. n), T # {}
  PROVE  Max(T) \in T /\ \A y \in T : y <= Max(T)
<1>1. \E x \in T : \A y \in T : y <= x
  <2>1. CASE T = {0}
    BY <2>1
  <2>2. CASE T # {0}
    <3>1. T \ {0} \in SUBSET (1 .. n) /\ T \ {0} # {}
      BY <2>2
    <3>2. PICK x \in T \ {0} : \A y \in T \ {0} : y <= x
      BY <3>1, LastPosition
    <3> QED BY <3>1, <3>2
  <2> QED BY <2>1, <2>2
<1>2. \E x \in T : \A y \in T : x >= y
  BY <1>1
<1> QED BY <1>2 DEF Max

LEMMA FirstOf ==
  ASSUME NEW T \in SUBSET Nat, T # {}
  PROVE  Min(T) \in T /\ \A y \in T : Min(T) <= y
BY LeastNatural DEF Min

(* The first and the last position of a set of them, and 0 if there is none. *)
LEMMA FirstOrNone ==
  ASSUME NEW n \in Nat, NEW T \in SUBSET (1 .. n), NEW k, k = IF T # {} THEN Min(T) ELSE 0
  PROVE  /\ k \in 0 .. n
         /\ k = 0 => T = {}
         /\ k # 0 => k \in T /\ \A i \in 1 .. k - 1 : i \notin T
<1>1. T \in SUBSET Nat
  OBVIOUS
<1>2. T # {} => Min(T) \in T /\ \A y \in T : Min(T) <= y
  BY <1>1, FirstOf
<1>3. CASE T = {}
  BY <1>3
<1>4. CASE T # {}
  <2>1. k \in T /\ \A y \in T : k <= y
    BY <1>2, <1>4
  <2>2. k \in Nat /\ k >= 1 /\ k <= n
    BY <2>1
  <2>3. \A i \in 1 .. k - 1 : i \notin T
    BY <2>1, <2>2
  <2> QED BY <1>4, <2>1, <2>2, <2>3
<1> QED BY <1>3, <1>4

LEMMA LastOrNone ==
  ASSUME NEW n \in Nat, NEW T \in SUBSET (1 .. n), NEW k, k = IF T # {} THEN Max(T) ELSE 0
  PROVE  /\ k \in 0 .. n
         /\ k = 0 => T = {}
         /\ k # 0 => k \in T /\ \A i \in k + 1 .. n : i \notin T
<1>1. T \in SUBSET (0 .. n)
  OBVIOUS
<1>2. T # {} => Max(T) \in T /\ \A y \in T : y <= Max(T)
  BY <1>1, LastOf
<1>3. CASE T = {}
  BY <1>3
<1>4. CASE T # {}
  <2>1. k \in T /\ \A y \in T : y <= k
    BY <1>2, <1>4
  <2>2. k \in Nat /\ k >= 1 /\ k <= n
    BY <2>1
  <2>3. \A i \in k + 1 .. n : i \notin T
    BY <2>1, <2>2
  <2> QED BY <1>4, <2>1, <2>2, <2>3
<1> QED BY <1>3, <1>4

(* Where the first character is that is not a space, and the last. *)
LEMMA FirstNotSpace ==
  ASSUME NEW str \in Text, NEW k, k = SelectInSeq(str, NotSpace)
  PROVE  /\ k \in 0 .. Len(str)
         /\ k = 0 => \A i \in 1 .. Len(str) : str[i] \in SPACES
         /\ k # 0 => str[k] \notin SPACES /\ \A i \in 1 .. k - 1 : str[i] \in SPACES
<1>1. PICK T \in SUBSET (1 .. Len(str)) : T = {i \in 1 .. Len(str) : NotSpace(str[i])}
  OBVIOUS
<1>2. k = IF T # {} THEN Min(T) ELSE 0
  BY <1>1 DEF SelectInSeq
<1>3. Len(str) \in Nat
  BY DEF Text
<1>4. /\ k \in 0 .. Len(str)
      /\ k = 0 => T = {}
      /\ k # 0 => k \in T /\ \A i \in 1 .. k - 1 : i \notin T
  BY <1>2, <1>3, FirstOrNone
<1>5. \A i \in 1 .. Len(str) : i \in T <=> str[i] \notin SPACES
  BY <1>1 DEF NotSpace, IsSpace
<1> QED BY <1>3, <1>4, <1>5

LEMMA LastNotSpace ==
  ASSUME NEW str \in Text, NEW k, k = SelectLastInSeq(str, NotSpace)
  PROVE  /\ k \in 0 .. Len(str)
         /\ k = 0 => \A i \in 1 .. Len(str) : str[i] \in SPACES
         /\ k # 0 => str[k] \notin SPACES /\ \A i \in k + 1 .. Len(str) : str[i] \in SPACES
<1>1. PICK T \in SUBSET (1 .. Len(str)) : T = {i \in 1 .. Len(str) : NotSpace(str[i])}
  OBVIOUS
<1>2. k = IF T # {} THEN Max(T) ELSE 0
  BY <1>1 DEF SelectLastInSeq
<1>3. Len(str) \in Nat
  BY DEF Text
<1>4. /\ k \in 0 .. Len(str)
      /\ k = 0 => T = {}
      /\ k # 0 => k \in T /\ \A i \in k + 1 .. Len(str) : i \notin T
  BY <1>2, <1>3, LastOrNone
<1>5. \A i \in 1 .. Len(str) : i \in T <=> str[i] \notin SPACES
  BY <1>1 DEF NotSpace, IsSpace
<1> QED BY <1>3, <1>4, <1>5

LEMMA EmptyText ==
  /\ <<>> \in Text /\ Len(<<>>) = 0
  /\ \A str \in Text : Len(str) \in Nat /\ (str = <<>> <=> Len(str) = 0)
BY EmptySeq DEF Text

(* A part of a text, which may be empty. *)
LEMMA PartOfText ==
  ASSUME NEW str \in Text, NEW m \in Int, NEW n \in Int, 1 <= m, m <= n + 1, n <= Len(str)
  PROVE  /\ SubSeq(str, m, n) \in Text /\ Len(SubSeq(str, m, n)) = (n - m) + 1
         /\ \A i \in 1 .. (n - m) + 1 : SubSeq(str, m, n)[i] = str[(m + i) - 1]
BY SubSeqProperties DEF Text

(* Where a split is made. *)
LEMMA SplitAt ==
  ASSUME NEW str \in Text, NEW delimiters
  PROVE  \E k \in 0 .. Len(str) :
           /\ k = 0 => /\ \A i \in 1 .. Len(str) : str[i] \notin delimiters
                       /\ splitString(str, delimiters) = [token |-> str, rest |-> NULL]
           /\ k # 0 => /\ str[k] \in delimiters /\ \A i \in 1 .. k - 1 : str[i] \notin delimiters
                       /\ splitString(str, delimiters) =
                            [token |-> SubSeq(str, 1, k - 1), rest |-> SubSeq(str, k + 1, Len(str))]
<1>1. PICK T \in SUBSET (1 .. Len(str)) : T = {i \in 1 .. Len(str) : str[i] \in delimiters}
  OBVIOUS
<1>2. PICK k : k = IF T # {} THEN Min(T) ELSE 0
  OBVIOUS
<1>3. splitString(str, delimiters) =
        IF k = 0 THEN [token |-> str, rest |-> NULL]
        ELSE [token |-> SubSeq(str, 1, k - 1), rest |-> SubSeq(str, k + 1, Len(str))]
  BY <1>1, <1>2 DEF splitString, SelectInSeq
<1>4. Len(str) \in Nat
  BY DEF Text
<1>5. /\ k \in 0 .. Len(str)
      /\ k = 0 => T = {}
      /\ k # 0 => k \in T /\ \A i \in 1 .. k - 1 : i \notin T
  BY <1>2, <1>4, FirstOrNone
<1>6. \A i \in 1 .. Len(str) : i \in T <=> str[i] \in delimiters
  BY <1>1
<1>7. /\ k = 0 => \A i \in 1 .. Len(str) : str[i] \notin delimiters
      /\ k # 0 => str[k] \in delimiters /\ \A i \in 1 .. k - 1 : str[i] \notin delimiters
  BY <1>4, <1>5, <1>6
<1> QED BY <1>3, <1>5, <1>7

(* What removes spaces leaves a part of the text. *)
LEMMA Trimming ==
  ASSUME NEW str \in Text
  PROVE  /\ removeLeadingSpaces(str) \in Text /\ Len(removeLeadingSpaces(str)) <= Len(str)
         /\ removeTrailingSpaces(str) \in Text /\ Len(removeTrailingSpaces(str)) <= Len(str)
<1>1. Len(str) \in Nat /\ <<>> \in Text /\ Len(<<>>) = 0 /\ (str # <<>> => 1 <= Len(str))
  BY DEF Text
<1>2. removeLeadingSpaces(str) \in Text /\ Len(removeLeadingSpaces(str)) <= Len(str)
  <2>1. PICK k : k = SelectInSeq(str, NotSpace)
    OBVIOUS
  <2>2. k \in 0 .. Len(str)
    BY <2>1, FirstNotSpace
  <2>3. k # 0 => SubSeq(str, k, Len(str)) \in Text /\ Len(SubSeq(str, k, Len(str))) <= Len(str)
    BY <1>1, <2>2, PartOfText
  <2>4. removeLeadingSpaces(str) = IF k = 0 THEN <<>> ELSE SubSeq(str, k, Len(str))
    BY <2>1 DEF removeLeadingSpaces
  <2>5. CASE k = 0
    BY <1>1, <2>4, <2>5
  <2> QED BY <2>3, <2>4, <2>5
<1>3. removeTrailingSpaces(str) \in Text /\ Len(removeTrailingSpaces(str)) <= Len(str)
  <2>1. PICK k : k = SelectLastInSeq(str, NotSpace)
    OBVIOUS
  <2>2. PICK last : last = IF k = 0 THEN 1 ELSE k
    OBVIOUS
  <2>3. str # <<>> => last \in 1 .. Len(str)
    BY <1>1, <2>1, <2>2, LastNotSpace
  <2>4. str # <<>> => SubSeq(str, 1, last) \in Text /\ Len(SubSeq(str, 1, last)) <= Len(str)
    BY <1>1, <2>3, PartOfText
  <2> QED BY <1>1, <2>1, <2>2, <2>4 DEF removeTrailingSpaces
<1> QED BY <1>2, <1>3

LEMMA Splitting ==
  ASSUME NEW str \in Text, NEW delimiters, NEW split, split = splitString(str, delimiters)
  PROVE  /\ split.token \in Text /\ Len(split.token) <= Len(str)
         /\ split.rest = NULL \/ (split.rest \in Text /\ Len(split.rest) < Len(str))
<1>1. PICK k \in 0 .. Len(str) :
        /\ k = 0 => split = [token |-> str, rest |-> NULL]
        /\ k # 0 => split = [token |-> SubSeq(str, 1, k - 1), rest |-> SubSeq(str, k + 1, Len(str))]
  BY SplitAt
<1>2. Len(str) \in Nat
  BY DEF Text
<1>3. CASE k = 0
  BY <1>1, <1>2, <1>3
<1>4. CASE k # 0
  <2>1. SubSeq(str, 1, k - 1) \in Text /\ Len(SubSeq(str, 1, k - 1)) <= Len(str)
    <3>1. k - 1 \in Int /\ 1 <= (k - 1) + 1 /\ k - 1 <= Len(str)
      BY <1>2, <1>4
    <3>2. /\ SubSeq(str, 1, k - 1) \in Text
          /\ Len(SubSeq(str, 1, k - 1)) = ((k - 1) - 1) + 1
      BY <3>1, PartOfText
    <3> QED BY <1>2, <3>1, <3>2
  <2>2. SubSeq(str, k + 1, Len(str)) \in Text /\ Len(SubSeq(str, k + 1, Len(str))) < Len(str)
    BY <1>2, <1>4, PartOfText
  <2>3. split.token = SubSeq(str, 1, k - 1) /\ split.rest = SubSeq(str, k + 1, Len(str))
    BY <1>1, <1>4
  <2> QED BY <2>1, <2>2, <2>3
<1> QED BY <1>3, <1>4

-----------------------------------------------------------------------------
(***************************************************************************)
(* What fgets gives: the characters of the file up to a newline, as many   *)
(* as fit.                                                                 *)
(***************************************************************************)
LEMMA FullSize == FULL \in Nat /\ FULL > 1 /\ FULL = BUFFER_SIZE - 1
BY ReaderAssumption DEF ReaderAssumption, FULL

LEMMA FileIsText == TypeOK => file \in Text /\ Len(file) \in Nat /\ at \in 0 .. Len(file)
BY ReaderAssumption DEF ReaderAssumption, TypeOK, Text

LEMMA Fetching ==
  ASSUME TypeOK, NEW size, size = Len(fgets)
  PROVE  /\ fgets \in Text /\ size \in 0 .. FULL /\ at + size \in 0 .. Len(file)
         /\ fgets # <<>> <=> size > 0
         /\ broken => size = 0
         /\ \A i \in 1 .. size : fgets[i] = file[at + i]
         /\ \A i \in 1 .. size - 1 : file[at + i] # NEWLINE
         /\ ~ broken /\ size = 0 => at = Len(file)
         /\ ~ broken /\ size > 0 /\ size < FULL =>
              at + size = Len(file) \/ file[at + size] = NEWLINE
<1>1. file \in Text /\ Len(file) \in Nat /\ at \in 0 .. Len(file)
  BY FileIsText
<1>2. PICK rest : rest = SubSeq(file, at + 1, Len(file))
  OBVIOUS
<1>3. /\ rest \in Text /\ Len(rest) = Len(file) - at
      /\ \A i \in 1 .. Len(rest) : rest[i] = file[at + i]
  <2>1. /\ rest \in Text /\ Len(rest) = (Len(file) - (at + 1)) + 1
        /\ \A i \in 1 .. (Len(file) - (at + 1)) + 1 : rest[i] = file[((at + 1) + i) - 1]
    BY <1>1, <1>2, PartOfText
  <2> QED BY <1>1, <2>1
<1>4. PICK T \in SUBSET (1 .. Len(rest)) : T = {i \in 1 .. Len(rest) : rest[i] = NEWLINE}
  OBVIOUS
<1>5. PICK newline : newline = IF T # {} THEN Min(T) ELSE 0
  OBVIOUS
<1>6. /\ newline \in 0 .. Len(rest)
      /\ newline = 0 => T = {}
      /\ newline # 0 => newline \in T /\ \A i \in 1 .. newline - 1 : i \notin T
  BY <1>1, <1>3, <1>5, FirstOrNone
<1>7. PICK length : length = IF newline = 0 THEN Len(rest) ELSE newline
  OBVIOUS
<1>8. PICK n : n = IF length < FULL THEN length ELSE FULL
  OBVIOUS
<1>9. fgets = IF broken THEN <<>> ELSE SubSeq(rest, 1, n)
  BY <1>2, <1>4, <1>5, <1>7, <1>8 DEF fgets, SelectInSeq
<1>10. /\ length \in 0 .. Len(rest) /\ n \in 0 .. FULL /\ n <= length
       /\ length = 0 <=> Len(rest) = 0
  BY <1>1, <1>3, <1>6, <1>7, <1>8, FullSize
<1>11. CASE broken
  <2>1. fgets = <<>> /\ <<>> \in Text /\ size = 0
    BY <1>9, <1>11 DEF Text
  <2> QED BY <1>1, <1>11, <2>1, FullSize
<1>12. CASE ~ broken
  <2>1. /\ fgets \in Text /\ size = (n - 1) + 1
        /\ \A i \in 1 .. (n - 1) + 1 : fgets[i] = rest[(1 + i) - 1]
    BY <1>1, <1>3, <1>9, <1>10, <1>12, FullSize, PartOfText
  <2>2. /\ size = n
        /\ \A i \in 1 .. size : fgets[i] = file[at + i]
    BY <1>1, <1>3, <1>10, <2>1, FullSize
  <2>3. fgets # <<>> <=> size > 0
    <3>1. fgets = <<>> <=> size = 0
      BY <2>1, EmptyText
    <3> QED BY <1>10, <2>2, <3>1, FullSize
  <2>4. \A i \in 1 .. size - 1 : file[at + i] # NEWLINE
    <3>1. ASSUME NEW i \in 1 .. size - 1 PROVE i \in 1 .. Len(rest) /\ i \notin T
      BY <1>1, <1>3, <1>6, <1>7, <1>10, <2>2, FullSize
    <3> QED BY <1>3, <1>4, <3>1
  <2>5. size = 0 => at = Len(file)
    BY <1>1, <1>3, <1>8, <1>10, <2>2, FullSize
  <2>6. size > 0 /\ size < FULL => at + size = Len(file) \/ file[at + size] = NEWLINE
    <3>1. SUFFICES ASSUME size > 0, size < FULL
                   PROVE  at + size = Len(file) \/ file[at + size] = NEWLINE
      OBVIOUS
    <3>2. size = length
      BY <1>8, <1>10, <2>2, <3>1, FullSize
    <3>3. CASE newline = 0
      BY <1>1, <1>3, <1>7, <3>2, <3>3
    <3>4. CASE newline # 0
      BY <1>3, <1>4, <1>6, <1>7, <3>2, <3>4
    <3> QED BY <3>3, <3>4
  <2> QED BY <1>1, <1>3, <1>10, <1>12, <2>1, <2>2, <2>3, <2>4, <2>5, <2>6, FullSize
<1> QED BY <1>11, <1>12

LEMMA EndsWithNewline ==
  ASSUME TypeOK
  PROVE  EndsLine(fgets) <=> Len(fgets) > 0 /\ file[at + Len(fgets)] = NEWLINE
<1>1. PICK size : size = Len(fgets)
  OBVIOUS
<1>2. /\ size \in 0 .. FULL
      /\ fgets # <<>> <=> size > 0
      /\ \A i \in 1 .. size : fgets[i] = file[at + i]
  BY <1>1, Fetching
<1>3. size > 0 => fgets[size] = file[at + size]
  BY <1>2, FullSize
<1> QED BY <1>1, <1>2, <1>3 DEF EndsLine, Last

(* What is left of a chunk without the newline that ends it. *)
LEMMA FrontOfFetched ==
  ASSUME TypeOK, fgets # <<>>
  PROVE  /\ Front(fgets) \in Text /\ Len(Front(fgets)) = Len(fgets) - 1
         /\ \A i \in 1 .. Len(fgets) - 1 : Front(fgets)[i] = fgets[i]
<1>1. PICK size : size = Len(fgets)
  OBVIOUS
<1>2. fgets \in Text /\ size \in Nat /\ size > 0
  BY <1>1, Fetching, FullSize
<1>3. Front(fgets) = SubSeq(fgets, 1, size - 1)
  BY <1>1 DEF Front
<1>4. /\ Front(fgets) \in Text /\ Len(Front(fgets)) = ((size - 1) - 1) + 1
      /\ \A i \in 1 .. ((size - 1) - 1) + 1 : Front(fgets)[i] = fgets[(1 + i) - 1]
  BY <1>1, <1>2, <1>3, PartOfText
<1> QED BY <1>1, <1>2, <1>4

-----------------------------------------------------------------------------
(***************************************************************************)
(* The types, and the sizes of the buffers.                                *)
(***************************************************************************)
LEMMA StringsAreTexts ==
  /\ COMMANDS \subseteq Text /\ NULL \notin Text
  /\ BUFFER_SIZE \in Nat /\ BUFFER_SIZE > 2 /\ MAX_LABEL \in Nat
BY ReaderAssumption DEF ReaderAssumption

LEMMA ReturnTypes ==
  ASSUME TypeOK, NEW error \in Errors, Return(error), UNCHANGED fileVars,
         at' \in 0 .. Len(file), label' \in Text, Len(label') <= MAX_LABEL,
         command' \in COMMANDS \cup {<<>>}, args' \in Seq(Text), Len(args') < BUFFER_SIZE
  PROVE  TypeOK' /\ BuffersFit'
<1>1. PICK outcome : outcome = [error |-> error, text |-> text, label |-> label',
                                command |-> command', args |-> args']
  OBVIOUS
<1>2. results' = Append(results, outcome)
  BY <1>1 DEF Return
<1>3. text \in Text /\ command' \in Text
  BY StringsAreTexts, EmptyText DEF TypeOK
<1>4. outcome \in Outcome
  BY <1>1, <1>3 DEF Outcome
<1>5. results' \in Seq(Outcome)
  BY <1>2, <1>4, AppendProperties DEF TypeOK
<1>6. pc' \in {"read", "done"}
  BY DEF Return
<1>7. pc' \in Stages
  BY <1>6 DEF Stages
<1>8. text' \in Text /\ Len(text') < BUFFER_SIZE /\ buf' \in Text /\ Len(buf') < BUFFER_SIZE
  BY EmptyText, StringsAreTexts DEF Return
<1>9. file' \in Files /\ at' \in 0 .. Len(file') /\ broken' \in BOOLEAN
  BY DEF TypeOK, fileVars
<1>10. TypeOK'
  BY <1>5, <1>7, <1>8, <1>9 DEF TypeOK
<1> QED BY <1>6, <1>10 DEF BuffersFit

LEMMA GotoTypes ==
  ASSUME TypeOK, NEW stage \in {"label", "command", "args"}, NEW rest, Goto(stage, rest),
         rest = NULL \/ (rest \in Text /\ Len(rest) < BUFFER_SIZE),
         UNCHANGED fileVars, UNCHANGED at, label' \in Text, Len(label') <= MAX_LABEL,
         command' \in COMMANDS \cup {<<>>}, args' \in Seq(Text), Len(args') < BUFFER_SIZE
  PROVE  TypeOK'
<1>1. stage \in Stages
  BY DEF Stages
<1> QED BY <1>1 DEF Goto, TypeOK, fileVars

LEMMA LabelErrors ==
  ASSUME NEW name
  PROVE  LabelError(name) \in Errors /\ (LabelError(name) = "SUCCESS" => ~ (Len(name) > MAX_LABEL))
BY DEF LabelError, Errors

(* The rest of a split at a character that is there is a text. *)
LEMMA SplitsAtColon ==
  ASSUME NEW str \in Text, containsChar(str, ":")
  PROVE  splitString(str, {":"}).rest \in Text
<1>1. PICK delimiters : delimiters = {":"}
  OBVIOUS
<1>2. PICK k \in 0 .. Len(str) :
        /\ k = 0 => /\ \A i \in 1 .. Len(str) : str[i] \notin delimiters
                    /\ splitString(str, delimiters) = [token |-> str, rest |-> NULL]
        /\ k # 0 => /\ str[k] \in delimiters /\ \A i \in 1 .. k - 1 : str[i] \notin delimiters
                    /\ splitString(str, delimiters) =
                         [token |-> SubSeq(str, 1, k - 1), rest |-> SubSeq(str, k + 1, Len(str))]
  BY SplitAt
<1>3. k # 0
  BY <1>1, <1>2 DEF containsChar, Range, Text
<1>4. SubSeq(str, k + 1, Len(str)) \in Text
  BY <1>3, EmptyText, PartOfText
<1>5. splitString(str, delimiters).rest = SubSeq(str, k + 1, Len(str))
  BY <1>2, <1>3
<1> QED BY <1>1, <1>4, <1>5

LEMMA ReadTypes ==
  ASSUME TypeOK, ReadLine \/ ReadEnd
  PROVE  TypeOK' /\ BuffersFit'
<1>1. PICK size : size = Len(fgets)
  OBVIOUS
<1>2. /\ fgets \in Text /\ size \in 0 .. FULL /\ at + size \in 0 .. Len(file)
      /\ fgets # <<>> <=> size > 0
  BY <1>1, Fetching
<1>3. NewLine /\ UNCHANGED fileVars
  BY DEF ReadLine, ReadEnd
<1>4. <<>> \in Text /\ <<>> \in Seq(Text) /\ Len(<<>>) = 0
  BY EmptyText
<1>5. /\ label' \in Text /\ Len(label') <= MAX_LABEL /\ command' \in COMMANDS \cup {<<>>}
      /\ args' \in Seq(Text) /\ Len(args') < BUFFER_SIZE
  BY <1>3, <1>4, StringsAreTexts DEF NewLine
<1>6. CASE ReadLine
  <2>1. PICK line : line = IF EndsLine(fgets) THEN Front(fgets) ELSE fgets
    OBVIOUS
  <2>2. line \in Text /\ Len(line) < BUFFER_SIZE
    <3>1. fgets # <<>>
      BY <1>6 DEF ReadLine
    <3>2. Front(fgets) \in Text /\ Len(Front(fgets)) = size - 1
      BY <1>1, <3>1, FrontOfFetched
    <3> QED BY <1>1, <1>2, <2>1, <3>2, FullSize, StringsAreTexts
  <2>3. \/ pc' = "skip" /\ UNCHANGED <<text, buf>>
        \/ pc' = "parse" /\ text' = line /\ buf' = line
    BY <1>6, <2>1 DEF ReadLine
  <2>4. /\ text' \in Text /\ Len(text') < BUFFER_SIZE
        /\ buf' = NULL \/ (buf' \in Text /\ Len(buf') < BUFFER_SIZE)
    BY <2>2, <2>3 DEF TypeOK
  <2>5. pc' \in {"skip", "parse"} /\ pc' \in Stages
    BY <2>3 DEF Stages
  <2>6. file' \in Files /\ at' \in 0 .. Len(file') /\ broken' \in BOOLEAN
    BY <1>1, <1>2, <1>6 DEF ReadLine, TypeOK, fileVars
  <2>7. results' \in Seq(Outcome)
    BY <1>6 DEF ReadLine, TypeOK
  <2>8. TypeOK'
    BY <1>5, <2>4, <2>5, <2>6, <2>7 DEF TypeOK
  <2>9. pc' = "parse" => buf' \in Text /\ args' = <<>>
    BY <1>3, <2>2, <2>3 DEF NewLine
  <2> QED BY <2>5, <2>8, <2>9 DEF BuffersFit
<1>7. CASE ReadEnd
  <2>1. Return("ERR_EOF") /\ "ERR_EOF" \in Errors /\ at' \in 0 .. Len(file)
    BY <1>7 DEF ReadEnd, Errors, TypeOK
  <2> QED BY <1>3, <1>5, <2>1, ReturnTypes
<1> QED BY <1>6, <1>7

LEMMA LineTypes ==
  ASSUME TypeOK, UNCHANGED <<label, command, args>>
  PROVE  /\ label' \in Text /\ Len(label') <= MAX_LABEL /\ command' \in COMMANDS \cup {<<>>}
         /\ args' \in Seq(Text) /\ Len(args') < BUFFER_SIZE
BY DEF TypeOK

LEMMA SkipTypes ==
  ASSUME TypeOK, SkipChunk
  PROVE  TypeOK' /\ BuffersFit'
<1>1. PICK size : size = Len(fgets)
  OBVIOUS
<1>2. at + size \in 0 .. Len(file)
  BY <1>1, Fetching
<1>3. UNCHANGED fileVars /\ UNCHANGED <<label, command, args>> /\ at' \in 0 .. Len(file)
  BY <1>1, <1>2 DEF SkipChunk, lineVars
<1>4. CASE Return("LINE_TOO_LONG")
  <2>1. "LINE_TOO_LONG" \in Errors
    BY DEF Errors
  <2> QED BY <1>3, <1>4, <2>1, LineTypes, ReturnTypes
<1>5. CASE UNCHANGED <<pc, text, buf, results>>
  <2>1. TypeOK'
    BY <1>3, <1>5, LineTypes DEF TypeOK, fileVars
  <2> QED BY <1>5, <2>1 DEF SkipChunk, BuffersFit
<1> QED BY <1>4, <1>5 DEF SkipChunk

LEMMA ParseTypes ==
  ASSUME TypeOK, BuffersFit, ParseStart \/ ParseLabel \/ ParseCommand
  PROVE  TypeOK' /\ BuffersFit'
<1>1. pc \in {"parse", "label", "command"} /\ UNCHANGED fileVars /\ UNCHANGED at
  BY DEF ParseStart, ParseLabel, ParseCommand
<1>2. buf \in Text /\ Len(buf) < BUFFER_SIZE /\ Len(buf) \in Nat /\ args = <<>>
  BY <1>1, StringsAreTexts, EmptyText DEF BuffersFit, TypeOK
<1>3. at' \in 0 .. Len(file)
  BY <1>1 DEF TypeOK
<1>4. CASE ParseStart
  <2>1. PICK line : line = removeLeadingAndTrailingSpaces(buf)
    OBVIOUS
  <2>2. line \in Text /\ Len(line) < BUFFER_SIZE
    <3>1. PICK front : front = removeLeadingSpaces(buf)
      OBVIOUS
    <3>2. front \in Text /\ Len(front) <= Len(buf) /\ Len(front) \in Nat
      BY <1>2, <3>1, Trimming, EmptyText
    <3>3. line = removeTrailingSpaces(front)
      BY <2>1, <3>1 DEF removeLeadingAndTrailingSpaces
    <3>4. line \in Text /\ Len(line) <= Len(front) /\ Len(line) \in Nat
      BY <3>2, <3>3, Trimming, EmptyText
    <3> QED BY <1>2, <3>2, <3>4, StringsAreTexts
  <2>3. UNCHANGED <<label, command, args>> /\ (Return("SUCCESS") \/ Goto("label", line))
    BY <1>4, <2>1 DEF ParseStart, lineVars
  <2>4. CASE Return("SUCCESS")
    <3>1. "SUCCESS" \in Errors
      BY DEF Errors
    <3> QED BY <1>1, <1>3, <2>3, <2>4, <3>1, LineTypes, ReturnTypes
  <2>5. CASE Goto("label", line)
    <3>1. TypeOK'
      BY <1>1, <2>2, <2>3, <2>5, LineTypes, GotoTypes
    <3> QED BY <1>2, <2>2, <2>3, <2>5, <3>1 DEF Goto, BuffersFit
  <2> QED BY <2>3, <2>4, <2>5
<1>5. CASE ParseLabel
  <2>1. PICK split : split = splitString(buf, {":"})
    OBVIOUS
  <2>2. /\ split.token \in Text
        /\ split.rest = NULL \/ (split.rest \in Text /\ Len(split.rest) < Len(buf))
    BY <1>2, <2>1, Splitting
  <2>3. PICK error : error = LabelError(split.token)
    OBVIOUS
  <2>4. error \in Errors /\ (error = "SUCCESS" => Len(split.token) <= MAX_LABEL)
    BY <2>2, <2>3, LabelErrors, StringsAreTexts, EmptyText
  <2>5. UNCHANGED command /\ UNCHANGED args
    BY <1>5 DEF ParseLabel
  <2>6. /\ command' \in COMMANDS \cup {<<>>} /\ args' \in Seq(Text) /\ Len(args') < BUFFER_SIZE
        /\ label \in Text /\ Len(label) <= MAX_LABEL
    BY <2>5 DEF TypeOK
  <2>7. CASE ~ containsChar(buf, ":")
    <3>1. label' = <<>> /\ Goto("command", buf)
      BY <1>5, <2>7 DEF ParseLabel
    <3>2. label' \in Text /\ Len(label') <= MAX_LABEL
      BY <3>1, EmptyText, StringsAreTexts
    <3>3. TypeOK'
      BY <1>1, <1>2, <2>6, <3>1, <3>2, GotoTypes
    <3> QED BY <1>2, <2>5, <3>1, <3>3 DEF Goto, BuffersFit
  <2>8. CASE containsChar(buf, ":") /\ error = "SUCCESS"
    <3>1. label' = split.token /\ Goto("command", split.rest)
      BY <1>5, <2>1, <2>3, <2>8 DEF ParseLabel
    <3>2. split.rest \in Text
      BY <1>2, <2>1, <2>8, SplitsAtColon
    <3>3. Len(split.rest) < BUFFER_SIZE
      BY <1>2, <2>2, <3>2, StringsAreTexts, EmptyText
    <3>4. TypeOK'
      BY <1>1, <2>2, <2>4, <2>6, <2>8, <3>1, <3>2, <3>3, GotoTypes
    <3> QED BY <1>2, <2>5, <3>1, <3>2, <3>4 DEF Goto, BuffersFit
  <2>9. CASE containsChar(buf, ":") /\ error # "SUCCESS"
    <3>1. UNCHANGED label /\ Return(error)
      BY <1>5, <2>1, <2>3, <2>9 DEF ParseLabel
    <3> QED BY <1>1, <1>3, <2>4, <2>6, <3>1, ReturnTypes
  <2> QED BY <2>7, <2>8, <2>9
<1>6. CASE ParseCommand
  <2>1. PICK front : front = removeLeadingSpaces(buf)
    OBVIOUS
  <2>2. front \in Text /\ Len(front) <= Len(buf) /\ Len(front) \in Nat
    BY <1>2, <2>1, Trimming, EmptyText
  <2>3. PICK split : split = splitString(front, SEPARATORS)
    OBVIOUS
  <2>4. split.rest = NULL \/ (split.rest \in Text /\ Len(split.rest) < Len(front))
    BY <2>2, <2>3, Splitting
  <2>5. UNCHANGED label /\ UNCHANGED args
    BY <1>6 DEF ParseCommand
  <2>6. /\ command \in COMMANDS \cup {<<>>} /\ args' \in Seq(Text) /\ Len(args') < BUFFER_SIZE
        /\ label' \in Text /\ Len(label') <= MAX_LABEL
    BY <2>5 DEF TypeOK
  <2>7. \/ UNCHANGED command /\ Return("ERR_INVALID_COMMAND_FORMAT")
        \/ UNCHANGED command /\ Return("ERR_INVALID_COMMAND_NAME")
        \/ split.token \in COMMANDS /\ command' = split.token /\ Goto("args", split.rest)
    BY <1>6, <2>1, <2>3 DEF ParseCommand
  <2>8. "ERR_INVALID_COMMAND_FORMAT" \in Errors /\ "ERR_INVALID_COMMAND_NAME" \in Errors
    BY DEF Errors
  <2>9. CASE UNCHANGED command /\ Return("ERR_INVALID_COMMAND_FORMAT")
    BY <1>1, <1>3, <2>6, <2>8, <2>9, ReturnTypes
  <2>10. CASE UNCHANGED command /\ Return("ERR_INVALID_COMMAND_NAME")
    BY <1>1, <1>3, <2>6, <2>8, <2>10, ReturnTypes
  <2>11. CASE split.token \in COMMANDS /\ command' = split.token /\ Goto("args", split.rest)
    <3>1. split.rest = NULL \/ (split.rest \in Text /\ Len(split.rest) < BUFFER_SIZE - 1)
      BY <1>2, <2>2, <2>4, StringsAreTexts, EmptyText
    <3>2. split.rest = NULL \/ (split.rest \in Text /\ Len(split.rest) < BUFFER_SIZE)
      BY <3>1, StringsAreTexts, EmptyText
    <3>3. command' \in COMMANDS \cup {<<>>}
      BY <2>11
    <3>4. TypeOK'
      BY <1>1, <2>6, <2>11, <3>2, <3>3, GotoTypes
    <3>5. pc' = "args" /\ buf' = split.rest /\ Len(args') = 0
      BY <1>2, <2>5, <2>11 DEF Goto
    <3>6. pc' = "args" /\ buf' # NULL => Len(args') + Len(buf') < BUFFER_SIZE - 1
      BY <3>1, <3>5, StringsAreTexts, EmptyText
    <3> QED BY <3>4, <3>5, <3>6 DEF BuffersFit
  <2> QED BY <2>7, <2>9, <2>10, <2>11
<1> QED BY <1>4, <1>5, <1>6

LEMMA SplitIsRecord ==
  ASSUME NEW str \in Text, NEW delimiters, NEW split, split = splitString(str, delimiters)
  PROVE  split \in [{"token", "rest"} -> {split.token, split.rest}]
<1>1. PICK token, rest : split = [token |-> token, rest |-> rest]
  BY SplitAt
<1>2. split.token = token /\ split.rest = rest
  BY <1>1
<1> QED BY <1>1, <1>2

LEMMA RoomForArguments ==
  ASSUME NEW a \in Nat, NEW b \in Nat, NEW c \in Nat, NEW n \in Nat, a + b < n - 1, c < b
  PROVE  (a + 1) + c < n - 1
OBVIOUS

LEMMA ArgumentTypes ==
  ASSUME TypeOK, BuffersFit, ParseArgument \/ ParseEnd
  PROVE  TypeOK' /\ BuffersFit'
<1>1. pc = "args" /\ UNCHANGED fileVars /\ UNCHANGED at /\ at' \in 0 .. Len(file)
  BY DEF ParseArgument, ParseEnd, TypeOK
<1>2. CASE ParseEnd
  <2>1. UNCHANGED <<label, command, args>> /\ Return("SUCCESS") /\ "SUCCESS" \in Errors
    BY <1>2 DEF ParseEnd, lineVars, Errors
  <2> QED BY <1>1, <2>1, LineTypes, ReturnTypes
<1>3. CASE ParseArgument
  <2>1. /\ buf \in Text /\ Len(buf) \in Nat /\ Len(args) + Len(buf) < BUFFER_SIZE - 1
        /\ args \in Seq(Text) /\ Len(args) \in Nat
    BY <1>1, <1>3, EmptyText DEF ParseArgument, TypeOK, BuffersFit
  <2>2. PICK line, operand :
          /\ line = removeLeadingAndTrailingSpaces(buf) /\ operand = handleToken(line)
          /\ args' = Append(args, operand.token) /\ Goto("args", operand.rest)
    BY <1>3 DEF ParseArgument
  <2>3. PICK front : front = removeLeadingSpaces(buf)
    OBVIOUS
  <2>4. front \in Text /\ Len(front) <= Len(buf) /\ Len(front) \in Nat
    BY <2>1, <2>3, Trimming, EmptyText
  <2>5. line = removeTrailingSpaces(front)
    BY <2>2, <2>3 DEF removeLeadingAndTrailingSpaces
  <2>6. line \in Text /\ Len(line) <= Len(front) /\ Len(line) \in Nat
    BY <2>4, <2>5, Trimming, EmptyText
  <2>7. PICK inner : inner = removeLeadingSpaces(line)
    OBVIOUS
  <2>8. inner \in Text /\ Len(inner) <= Len(line) /\ Len(inner) \in Nat
    BY <2>6, <2>7, Trimming, EmptyText
  <2>9. PICK split : split = splitString(inner, {COMMA})
    OBVIOUS
  <2>10. /\ split.token \in Text
         /\ split.rest = NULL \/ (split.rest \in Text /\ Len(split.rest) < Len(inner))
    BY <2>8, <2>9, Splitting
  <2>11. operand = [split EXCEPT !.token = removeTrailingSpaces(split.token)]
    BY <2>2, <2>7, <2>9 DEF handleToken
  <2>12. operand.token = removeTrailingSpaces(split.token) /\ operand.rest = split.rest
    <3>1. split \in [{"token", "rest"} -> {split.token, split.rest}]
      BY <2>8, <2>9, SplitIsRecord
    <3> QED BY <2>11, <3>1
  <2>13. operand.token \in Text
    BY <2>10, <2>12, Trimming
  <2>14. operand.rest = NULL \/ (operand.rest \in Text /\ Len(operand.rest) < Len(buf))
    BY <2>1, <2>4, <2>6, <2>8, <2>10, <2>12, EmptyText
  <2>15. args' \in Seq(Text) /\ Len(args') = Len(args) + 1
    BY <2>1, <2>2, <2>13, AppendProperties
  <2>16. Len(args') < BUFFER_SIZE
    BY <2>1, <2>15, StringsAreTexts
  <2>17. UNCHANGED label /\ UNCHANGED command
    BY <1>3 DEF ParseArgument
  <2>18. operand.rest = NULL \/ (operand.rest \in Text /\ Len(operand.rest) < BUFFER_SIZE)
    BY <2>1, <2>14, EmptyText, StringsAreTexts
  <2>19. label' \in Text /\ Len(label') <= MAX_LABEL /\ command' \in COMMANDS \cup {<<>>}
    BY <2>17 DEF TypeOK
  <2>20. TypeOK'
    BY <1>1, <2>2, <2>15, <2>16, <2>18, <2>19, GotoTypes
  <2>21. buf' = operand.rest /\ pc' = "args"
    BY <2>2 DEF Goto
  <2>22. buf' # NULL => Len(args') + Len(buf') < BUFFER_SIZE - 1
    <3>1. SUFFICES ASSUME operand.rest # NULL
                   PROVE  Len(args') + Len(operand.rest) < BUFFER_SIZE - 1
      BY <2>21
    <3>2. Len(operand.rest) \in Nat /\ Len(operand.rest) < Len(buf)
      BY <2>14, <3>1, EmptyText
    <3>3. Len(args) \in Nat /\ Len(buf) \in Nat /\ BUFFER_SIZE \in Nat
          /\ Len(args) + Len(buf) < BUFFER_SIZE - 1
      BY <2>1, StringsAreTexts
    <3>4. (Len(args) + 1) + Len(operand.rest) < BUFFER_SIZE - 1
      BY <3>2, <3>3, RoomForArguments
    <3> QED BY <2>15, <3>4
  <2> QED BY <2>20, <2>21, <2>22 DEF BuffersFit
<1> QED BY <1>2, <1>3

LEMMA InitTypes == Init => TypeOK /\ BuffersFit
<1>1. SUFFICES ASSUME Init PROVE TypeOK /\ BuffersFit
  OBVIOUS
<1>2. file \in Text /\ Len(file) \in Nat
  BY <1>1, ReaderAssumption, EmptyText DEF Init, ReaderAssumption
<1>3. <<>> \in Text /\ <<>> \in Seq(Text) /\ <<>> \in Seq(Outcome) /\ Len(<<>>) = 0
  BY EmptyText
<1>4. "read" \in Stages
  BY DEF Stages
<1>5. /\ file \in Files /\ at \in 0 .. Len(file) /\ broken \in BOOLEAN /\ pc \in Stages
      /\ results \in Seq(Outcome)
  <2>1. at = 0 /\ 0 \in 0 .. Len(file)
    BY <1>1, <1>2 DEF Init
  <2>2. results = <<>>
    BY <1>1 DEF Init
  <2>3. file \in Files /\ broken \in BOOLEAN /\ pc \in Stages
    BY <1>1, <1>4 DEF Init
  <2> QED BY <1>3, <2>1, <2>2, <2>3
<1>6. /\ text \in Text /\ Len(text) < BUFFER_SIZE
      /\ buf \in Text /\ Len(buf) < BUFFER_SIZE
  BY <1>1, <1>3, StringsAreTexts DEF Init
<1>7. /\ label \in Text /\ Len(label) <= MAX_LABEL /\ command \in COMMANDS \cup {<<>>}
      /\ args \in Seq(Text) /\ Len(args) < BUFFER_SIZE
  BY <1>1, <1>3, StringsAreTexts DEF Init
<1>8. TypeOK
  BY <1>5, <1>6, <1>7 DEF TypeOK
<1>9. BuffersFit
  BY <1>1 DEF Init, BuffersFit
<1> QED BY <1>8, <1>9

LEMMA NextTypes == TypeOK /\ BuffersFit /\ [Next]_vars => TypeOK' /\ BuffersFit'
<1>1. SUFFICES ASSUME TypeOK, BuffersFit, [Next]_vars PROVE TypeOK' /\ BuffersFit'
  OBVIOUS
<1>2. CASE ReadLine \/ ReadEnd
  BY <1>1, <1>2, ReadTypes
<1>3. CASE SkipChunk
  BY <1>1, <1>3, SkipTypes
<1>4. CASE ParseStart \/ ParseLabel \/ ParseCommand
  BY <1>1, <1>4, ParseTypes
<1>5. CASE ParseArgument \/ ParseEnd
  BY <1>1, <1>5, ArgumentTypes
<1>6. CASE Break
  <2>1. UNCHANGED <<file, at, pc, text, buf, label, command, args, results>> /\ broken' = TRUE
    BY <1>6 DEF Break, lineVars
  <2> QED BY <1>1, <2>1 DEF TypeOK, BuffersFit
<1>7. CASE UNCHANGED vars
  <2>1. UNCHANGED <<file, broken, at, pc, text, buf, label, command, args, results>>
    BY <1>7 DEF vars, fileVars, lineVars
  <2> QED BY <1>1, <2>1 DEF TypeOK, BuffersFit
<1> QED BY <1>1, <1>2, <1>3, <1>4, <1>5, <1>6, <1>7 DEF Next, Step, Terminated

-----------------------------------------------------------------------------
(***************************************************************************)
(* The lines of a file.                                                    *)
(***************************************************************************)
LEMMA EndsOfLines ==
  ASSUME file \in Text
  PROVE  /\ Len(file) \in Nat
         /\ \A d \in Ends : d \in Nat /\ 1 <= d /\ d <= Len(file)
         /\ \A d \in Delivered : d \in Ends /\ d \in Nat /\ 1 <= d /\ d <= Len(file)
         /\ IsFiniteSet(Delivered)
         /\ Len(file) > 0 => Len(file) \in Ends
         /\ \A p \in 1 .. Len(file) : p \in Newlines <=> file[p] = NEWLINE
         /\ \A p \in 1 .. Len(file) : p \in Ends <=> p = Len(file) \/ file[p] = NEWLINE
<1>1. Len(file) \in Nat /\ (file = <<>> <=> Len(file) = 0)
  BY EmptyText
<1>2. DOMAIN file = 1 .. Len(file)
  BY DEF Text
<1>3. Newlines \in SUBSET (1 .. Len(file)) /\
      \A p \in 1 .. Len(file) : p \in Newlines <=> file[p] = NEWLINE
  BY <1>2 DEF Newlines
<1>4. Ends = IF Len(file) = 0 THEN {} ELSE Newlines \cup {Len(file)}
  BY <1>1 DEF Ends
<1>5. \A d \in Ends : d \in Nat /\ 1 <= d /\ d <= Len(file)
  <2>1. \A d \in Newlines : d \in Nat /\ 1 <= d /\ d <= Len(file)
    BY <1>1, <1>3
  <2> QED BY <1>1, <1>4, <2>1
<1>6. Delivered \subseteq Ends
  BY DEF Delivered
<1>7. IsFiniteSet(Delivered)
  <2>1. IsFiniteSet(1 .. Len(file))
    BY <1>1, FS_Interval
  <2>2. Delivered \in SUBSET (1 .. Len(file))
    BY <1>1, <1>5, <1>6
  <2> QED BY <2>1, <2>2, FS_Subset
<1>8. Len(file) > 0 => Len(file) \in Ends
  BY <1>1, <1>4
<1>9. \A p \in 1 .. Len(file) : p \in Ends <=> p = Len(file) \/ file[p] = NEWLINE
  BY <1>1, <1>3, <1>4
<1> QED BY <1>1, <1>3, <1>5, <1>6, <1>7, <1>8, <1>9

LEMMA BeginOf ==
  ASSUME file \in Text, NEW e \in 1 .. Len(file)
  PROVE  /\ Begin(e) \in 0 .. e - 1 /\ Begin(e) \in {0} \cup Ends
         /\ \A d \in Ends : d < e => d <= Begin(e)
<1>1. PICK T : T = {0} \cup {d \in Ends : d < e}
  OBVIOUS
<1>2. Len(file) \in Nat /\ \A d \in Ends : d \in Nat /\ 1 <= d /\ d <= Len(file)
  BY EndsOfLines
<1>3. T \in SUBSET (0 .. Len(file)) /\ T # {} /\ \A d \in T : d < e
  BY <1>1, <1>2
<1>4. Max(T) \in T /\ \A y \in T : y <= Max(T)
  BY <1>2, <1>3, LastOf
<1>5. Begin(e) = Max(T)
  BY <1>1 DEF Begin
<1>6. Begin(e) \in T /\ \A y \in T : y <= Begin(e)
  BY <1>4, <1>5
<1> QED BY <1>1, <1>2, <1>3, <1>6

LEMMA BeginIs ==
  ASSUME file \in Text, NEW e \in 1 .. Len(file), NEW b \in {0} \cup Ends, b < e,
         \A d \in Ends : d < e => d <= b
  PROVE  Begin(e) = b
<1>1. Len(file) \in Nat /\ \A d \in Ends : d \in Nat /\ 1 <= d /\ d <= Len(file)
  BY EndsOfLines
<1>2. /\ Begin(e) \in 0 .. e - 1 /\ Begin(e) \in {0} \cup Ends
      /\ \A d \in Ends : d < e => d <= Begin(e)
  BY BeginOf
<1>3. b <= Begin(e)
  BY <1>1, <1>2
<1>4. Begin(e) <= b
  BY <1>1, <1>2
<1> QED BY <1>1, <1>2, <1>3, <1>4

LEMMA LineOf ==
  ASSUME file \in Text, NEW e \in Ends
  PROVE  /\ Line(e) \in Text
         /\ Len(Line(e)) = IF file[e] = NEWLINE THEN (e - Begin(e)) - 1 ELSE e - Begin(e)
         /\ \A i \in 1 .. Len(Line(e)) : Line(e)[i] = file[Begin(e) + i]
         /\ Fits(e) <=> Len(Line(e)) < FULL
<1>1. /\ Len(file) \in Nat /\ e \in 1 .. Len(file)
      /\ e \in Newlines <=> file[e] = NEWLINE
  BY EndsOfLines
<1>2. PICK b \in 0 .. e - 1 : b = Begin(e)
  BY <1>1, BeginOf
<1>3. PICK n : n = IF file[e] = NEWLINE THEN e - 1 ELSE e
  OBVIOUS
<1>4. n \in Nat /\ b <= n /\ n <= Len(file)
  BY <1>1, <1>2, <1>3
<1>5. Line(e) = SubSeq(file, b + 1, n)
  BY <1>1, <1>2, <1>3 DEF Line
<1>6. /\ Line(e) \in Text /\ Len(Line(e)) = (n - (b + 1)) + 1
      /\ \A i \in 1 .. (n - (b + 1)) + 1 : Line(e)[i] = file[((b + 1) + i) - 1]
  BY <1>1, <1>2, <1>4, <1>5, PartOfText
<1>7. Len(Line(e)) = n - b /\ \A i \in 1 .. Len(Line(e)) : Line(e)[i] = file[b + i]
  BY <1>1, <1>2, <1>4, <1>6
<1>8. Fits(e) <=> Len(Line(e)) < FULL
  <2>1. Fits(e) <=> Len(Line(e)) <= BUFFER_SIZE - 2
    BY DEF Fits
  <2>2. Len(Line(e)) \in Nat
    BY <1>6, EmptyText
  <2> QED BY <2>1, <2>2, FullSize, StringsAreTexts
<1> QED BY <1>1, <1>2, <1>3, <1>6, <1>7, <1>8

(* Behind every position but the last a line ends. *)
LEMMA NextEnd ==
  ASSUME file \in Text, NEW p \in 0 .. Len(file), p < Len(file)
  PROVE  \E e \in Ends : p < e /\ \A d \in Ends : p < d => e <= d
<1>1. /\ Len(file) \in Nat /\ \A d \in Ends : d \in Nat /\ 1 <= d /\ d <= Len(file)
      /\ Len(file) > 0 => Len(file) \in Ends
  BY EndsOfLines
<1>2. PICK T : T = {d \in Ends : p < d}
  OBVIOUS
<1>3. T \in SUBSET Nat /\ T # {}
  BY <1>1, <1>2
<1>4. PICK e \in T : \A d \in T : e <= d
  BY <1>3, LeastNatural
<1> QED BY <1>2, <1>4

(***************************************************************************)
(* Counting the lines that are delivered.                                  *)
(***************************************************************************)
(* What parseLine returned for the lines that the code comes to, also behind *)
(* a skip that took a line with it: each delivered line as it is or as too   *)
(* long, and then the end.  LinesAreDelivered follows from it.               *)
ResultsAreDelivered ==
  Returned =>
    /\ \A e \in Delivered :
         DeliveredTo(e) = Len(results) /\ Latest.error # "ERR_EOF" =>
           IF Fits(e) THEN Latest.text = Line(e) /\ Latest.error # "LINE_TOO_LONG"
           ELSE Latest.error = "LINE_TOO_LONG"
    /\ Len(results) > Cardinality(Delivered) => Latest.error = "ERR_EOF"
    /\ Latest.error = "ERR_EOF" <=> pc = "done"
    /\ pc = "done" => broken \/ Len(results) = Cardinality(Delivered) + 1

LEMMA CountedTo ==
  ASSUME file \in Text, NEW m
  PROVE  /\ IsFiniteSet({d \in Delivered : d <= m}) /\ DeliveredTo(m) \in Nat
         /\ Cardinality(Delivered) \in Nat /\ DeliveredTo(m) <= Cardinality(Delivered)
<1>1. IsFiniteSet(Delivered)
  BY EndsOfLines
<1>2. PICK T : T = {d \in Delivered : d <= m}
  OBVIOUS
<1>3. /\ IsFiniteSet(T) /\ Cardinality(T) <= Cardinality(Delivered)
  BY <1>1, <1>2, FS_Subset
<1>4. Cardinality(T) \in Nat /\ Cardinality(Delivered) \in Nat
  BY <1>1, <1>3, FS_CardinalityType
<1> QED BY <1>2, <1>3, <1>4 DEF DeliveredTo

LEMMA CountedSame ==
  ASSUME NEW m, NEW n, \A d \in Delivered : d <= m <=> d <= n
  PROVE  DeliveredTo(m) = DeliveredTo(n)
<1>1. {d \in Delivered : d <= m} = {d \in Delivered : d <= n}
  OBVIOUS
<1> QED BY <1>1 DEF DeliveredTo

LEMMA CountedNext ==
  ASSUME file \in Text, NEW m \in Nat, NEW e \in Delivered, m < e,
         \A d \in Delivered : d < e => d <= m
  PROVE  DeliveredTo(e) = DeliveredTo(m) + 1
<1>1. Len(file) \in Nat /\ \A c \in Delivered : c \in Nat /\ 1 <= c /\ c <= Len(file)
  BY EndsOfLines
<1>2. PICK T : T = {d \in Delivered : d <= m}
  OBVIOUS
<1>3. e \notin T /\ {d \in Delivered : d <= e} = T \cup {e}
  BY <1>1, <1>2
<1>4. IsFiniteSet(T)
  BY <1>2, CountedTo
<1>5. Cardinality(T \cup {e}) = Cardinality(T) + 1
  BY <1>3, <1>4, FS_AddElement
<1> QED BY <1>2, <1>3, <1>5 DEF DeliveredTo

LEMMA CountedApart ==
  ASSUME file \in Text, NEW d \in Delivered, NEW e \in Delivered,
         DeliveredTo(d) = DeliveredTo(e)
  PROVE  d = e
<1>1. Len(file) \in Nat /\ \A c \in Delivered : c \in Nat /\ 1 <= c /\ c <= Len(file)
  BY EndsOfLines
<1>2. ASSUME NEW a \in Delivered, NEW b \in Delivered, a < b
      PROVE  DeliveredTo(a) # DeliveredTo(b)
  <2>1. PICK T, U : T = {c \in Delivered : c <= a} /\ U = {c \in Delivered : c <= b}
    OBVIOUS
  <2>2. T \subseteq U /\ b \in U /\ b \notin T
    BY <1>1, <1>2, <2>1
  <2>3. IsFiniteSet(U)
    BY <2>1, CountedTo
  <2>4. Cardinality(T) # Cardinality(U)
    BY <2>2, <2>3, FS_Subset
  <2> QED BY <2>1, <2>4 DEF DeliveredTo
<1> QED BY <1>1, <1>2

LEMMA CountedAll ==
  ASSUME file \in Text
  PROVE  DeliveredTo(0) = 0 /\ DeliveredTo(Len(file)) = Cardinality(Delivered)
<1>1. Len(file) \in Nat /\ \A c \in Delivered : c \in Nat /\ 1 <= c /\ c <= Len(file)
  BY EndsOfLines
<1>2. {d \in Delivered : d <= 0} = {} /\ {d \in Delivered : d <= Len(file)} = Delivered
  BY <1>1
<1>3. Cardinality({}) = 0
  BY FS_EmptySet
<1> QED BY <1>2, <1>3 DEF DeliveredTo

(***************************************************************************)
(* Which lines are swallowed.                                              *)
(***************************************************************************)
LEMMA FirstIsNotSwallowed ==
  ASSUME file \in Text, NEW e \in Ends, Begin(e) = 0
  PROVE  ~ Swallowed(e)
<1>1. Len(file) \in Nat /\ \A d \in Ends : d \in Nat /\ 1 <= d /\ d <= Len(file)
  BY EndsOfLines
<1>2. \A d \in Ends : ~ (d < e)
  <2>1. e \in 1 .. Len(file)
    BY <1>1
  <2>2. \A d \in Ends : d < e => d <= Begin(e)
    BY <2>1, BeginOf
  <2> QED BY <1>1, <2>2
<1> QED BY <1>2 DEF Swallowed

(* A line behind one that fits and is delivered is delivered. *)
LEMMA NextIsNotSwallowed ==
  ASSUME file \in Text, NEW a \in Ends, ~ Swallowed(a), Fits(a),
         NEW e \in Ends, Begin(e) = a
  PROVE  ~ Swallowed(e)
<1>1. Len(file) \in Nat /\ \A d \in Ends : d \in Nat /\ 1 <= d /\ d <= Len(file)
  BY EndsOfLines
<1>2. a < e /\ \A d \in Ends : d < e => d <= a
  <2>1. e \in 1 .. Len(file)
    BY <1>1
  <2>2. Begin(e) \in 0 .. e - 1 /\ \A d \in Ends : d < e => d <= Begin(e)
    BY <2>1, BeginOf
  <2> QED BY <1>1, <2>2
<1>3. SUFFICES ASSUME NEW d \in Ends, d < e, ~ Fits(d),
                      \A c \in Ends : d <= c /\ c < e => EndsFull(c)
               PROVE  Swallowed(a)
  BY DEF Swallowed
<1>4. d < a
  BY <1>1, <1>2, <1>3
<1>5. \A c \in Ends : d <= c /\ c < a => EndsFull(c)
  BY <1>1, <1>2, <1>3
<1> QED BY <1>3, <1>4, <1>5 DEF Swallowed

(* A line behind a position that does not fill a chunk is delivered. *)
LEMMA NextAfterRest ==
  ASSUME file \in Text, NEW a \in Ends, ~ EndsFull(a), NEW e \in Ends, Begin(e) = a
  PROVE  ~ Swallowed(e)
<1>1. Len(file) \in Nat /\ \A d \in Ends : d \in Nat /\ 1 <= d /\ d <= Len(file)
  BY EndsOfLines
<1>2. a < e /\ \A d \in Ends : d < e => d <= a
  <2>1. e \in 1 .. Len(file)
    BY <1>1
  <2>2. Begin(e) \in 0 .. e - 1 /\ \A d \in Ends : d < e => d <= Begin(e)
    BY <2>1, BeginOf
  <2> QED BY <1>1, <2>2
<1>3. ASSUME NEW d \in Ends, d < e, \A c \in Ends : d <= c /\ c < e => EndsFull(c)
      PROVE  FALSE
  BY <1>2, <1>3
<1> QED BY <1>3 DEF Swallowed

-----------------------------------------------------------------------------
(***************************************************************************)
(* A chunk among the lines.                                                *)
(***************************************************************************)
LEMMA NoEndWithin ==
  ASSUME TypeOK, NEW size, size = Len(fgets), NEW c \in Ends, at < c
  PROVE  at + size <= c
<1>1. /\ size \in 0 .. FULL /\ at + size \in 0 .. Len(file)
      /\ \A i \in 1 .. size - 1 : file[at + i] # NEWLINE
  BY Fetching
<1>2. file \in Text /\ at \in 0 .. Len(file) /\ Len(file) \in Nat
  BY FileIsText
<1>3. /\ c \in Nat /\ 1 <= c /\ c <= Len(file)
      /\ c = Len(file) \/ file[c] = NEWLINE
  <2>1. c \in Nat /\ 1 <= c /\ c <= Len(file)
    BY <1>2, EndsOfLines
  <2> QED BY <1>2, <2>1, EndsOfLines
<1>4. SUFFICES ASSUME c < at + size PROVE FALSE
  BY <1>1, <1>2, <1>3
<1>5. c # Len(file)
  BY <1>1, <1>2, <1>3, <1>4
<1>6. c - at \in 1 .. size - 1 /\ at + (c - at) = c
  BY <1>1, <1>2, <1>3, <1>4, FullSize
<1> QED BY <1>1, <1>3, <1>5, <1>6

LEMMA EndOfChunk ==
  ASSUME TypeOK, NEW size, size = Len(fgets), ~ broken, size > 0, size < FULL \/ EndsLine(fgets)
  PROVE  at + size \in Ends
<1>1. /\ size \in 0 .. FULL /\ at + size \in 0 .. Len(file)
      /\ size < FULL => at + size = Len(file) \/ file[at + size] = NEWLINE
  BY Fetching
<1>2. file \in Text /\ at \in 0 .. Len(file) /\ Len(file) \in Nat
  BY FileIsText
<1>3. at + size \in 1 .. Len(file)
  BY <1>1, <1>2, FullSize
<1>4. at + size = Len(file) \/ file[at + size] = NEWLINE
  BY <1>1, EndsWithNewline
<1> QED BY <1>2, <1>3, <1>4, EndsOfLines

(* With the file, its lines stay. *)
LEMMA LinesStay ==
  ASSUME file' = file
  PROVE  /\ Ends' = Ends /\ Delivered' = Delivered
         /\ \A e : Begin(e)' = Begin(e) /\ Line(e)' = Line(e) /\ Fits(e)' = Fits(e)
                   /\ EndsFull(e)' = EndsFull(e) /\ Swallowed(e)' = Swallowed(e)
                   /\ DeliveredTo(e)' = DeliveredTo(e)
<1>1. Newlines' = Newlines
  BY DEF Newlines
<1>2. Ends' = Ends
  BY <1>1 DEF Ends
<1>3. \A e : Begin(e)' = Begin(e)
  BY <1>2 DEF Begin
<1>4. \A e : Line(e)' = Line(e)
  BY <1>1, <1>3 DEF Line
<1>5. \A e : Fits(e)' = Fits(e)
  BY <1>4 DEF Fits
<1>6. \A e : EndsFull(e)' = EndsFull(e)
  BY <1>3 DEF EndsFull
<1>7. \A e : Swallowed(e)' = Swallowed(e)
  BY <1>2, <1>5, <1>6 DEF Swallowed
<1>8. Delivered' = Delivered
  BY <1>2, <1>7 DEF Delivered
<1>9. \A e : DeliveredTo(e)' = DeliveredTo(e)
  BY <1>8 DEF DeliveredTo
<1> QED BY <1>2, <1>3, <1>4, <1>5, <1>6, <1>7, <1>8, <1>9

LEMMA PositionNext ==
  ASSUME file' = file
  PROVE  /\ Begin(at)' = Begin(at') /\ Line(at)' = Line(at') /\ Fits(at)' = Fits(at')
         /\ EndsFull(at)' = EndsFull(at') /\ DeliveredTo(at)' = DeliveredTo(at')
<1>1. /\ Ends' = Ends /\ Delivered' = Delivered /\ Newlines' = Newlines
  BY LinesStay DEF Newlines
<1>2. Begin(at)' = Begin(at')
  BY <1>1 DEF Begin
<1>3. Line(at)' = Line(at')
  BY <1>1, <1>2 DEF Line
<1>4. Fits(at)' = Fits(at')
  BY <1>3 DEF Fits
<1>5. EndsFull(at)' = EndsFull(at')
  BY <1>2 DEF EndsFull
<1>6. DeliveredTo(at)' = DeliveredTo(at')
  BY <1>1 DEF DeliveredTo
<1> QED BY <1>2, <1>3, <1>4, <1>5, <1>6

(* Behind a multiple. *)
LEMMA Remainder ==
  ASSUME NEW n \in Nat, n > 1, NEW x \in Nat, x % n = 0, NEW s \in 0 .. n
  PROVE  (x + s) % n = IF s = n THEN 0 ELSE s
<1> DEFINE q == x \div n
           k == (x + s) \div n
           r == (x + s) % n
<1>1. q \in Int /\ x = n * q
  BY DEF q
<1>2. k \in Int /\ r \in 0 .. n - 1 /\ x + s = n * k + r
  <2>1. x + s \in Nat
    OBVIOUS
  <2> QED BY <2>1
<1> HIDE DEF q, k, r
<1>3. n * (k - q) = s - r
  BY <1>1, <1>2
<1>4. \A d \in Int : (d >= 1 => n * d >= n) /\ (d <= -1 => n * d <= -n)
                     /\ (d >= 2 => n * d >= n + n)
  OBVIOUS
<1>5. k - q \in Int /\ (k - q = 0 \/ k - q = 1 \/ k - q >= 2 \/ k - q <= -1)
  BY <1>1, <1>2
<1>6. s - r \in Int /\ s - r > -n /\ s - r <= n
  BY <1>2
<1>7. r = IF s = n THEN 0 ELSE s
  <2>1. k - q = 0 \/ k - q = 1
    BY <1>3, <1>4, <1>5, <1>6
  <2>2. CASE k - q = 0
    BY <1>2, <1>3, <2>2
  <2>3. CASE k - q = 1
    BY <1>2, <1>3, <2>3
  <2> QED BY <2>1, <2>2, <2>3
<1> QED BY <1>7 DEF r

(* A full chunk behind lines that end with full ones ends with a full one as *)
(* well, a shorter one does not.                                             *)
LEMMA BehindFullChunks ==
  ASSUME TypeOK, at > 0, EndsFull(at), NEW size, size = Len(fgets), size > 0,
         NEW p, p = at + size
  PROVE  EndsFull(p) <=> size = FULL
<1>1. size \in 0 .. FULL /\ p \in 0 .. Len(file)
  BY Fetching
<1>2. file \in Text /\ at \in 0 .. Len(file) /\ Len(file) \in Nat
  BY FileIsText
<1>3. FULL \in Nat /\ FULL > 1
  BY FullSize
<1>4. size \in Nat /\ p \in 1 .. Len(file) /\ at < p /\ at \in 1 .. Len(file)
  BY <1>1, <1>2, <1>3
<1>5. \A c \in Ends : c < p => c <= at
  <2>1. \A c \in Ends : c \in Nat
    BY <1>2, EndsOfLines
  <2>2. \A c \in Ends : at < c => p <= c
    BY NoEndWithin
  <2> QED BY <1>2, <1>4, <2>1, <2>2
<1>6. \E x \in Nat : x % FULL = 0 /\ p - Begin(p) = x + size
  <2>1. CASE at \in Ends
    <3>1. Begin(p) = at
      BY <1>2, <1>4, <1>5, <2>1, BeginIs
    <3>2. 0 % FULL = 0 /\ p - at = 0 + size
      BY <1>2, <1>3, <1>4
    <3> QED BY <3>1, <3>2
  <2>2. CASE at \notin Ends
    <3>1. /\ Begin(at) \in 0 .. at - 1 /\ Begin(at) \in {0} \cup Ends
          /\ \A d \in Ends : d < at => d <= Begin(at)
      BY <1>2, <1>4, BeginOf
    <3>2. \A c \in Ends : c \in Nat /\ (c < p => c < at)
      <4>1. \A c \in Ends : c \in Nat /\ c # at
        BY <1>2, <2>2, EndsOfLines
      <4> QED BY <1>2, <1>5, <4>1
    <3>3. Begin(at) < p /\ \A d \in Ends : d < p => d <= Begin(at)
      BY <1>2, <1>4, <3>1, <3>2
    <3>4. Begin(p) = Begin(at)
      BY <1>2, <1>4, <3>1, <3>3, BeginIs
    <3>5. (at - Begin(at)) % FULL = 0
      BY DEF EndsFull
    <3>6. at - Begin(at) \in Nat /\ p - Begin(at) = (at - Begin(at)) + size
      BY <1>2, <1>4, <3>1
    <3> QED BY <3>4, <3>5, <3>6
  <2> QED BY <2>1, <2>2
<1>7. PICK x \in Nat : x % FULL = 0 /\ p - Begin(p) = x + size
  BY <1>6
<1>8. (x + size) % FULL = IF size = FULL THEN 0 ELSE size
  <2>1. x % FULL = 0 /\ size \in 0 .. FULL
    BY <1>1, <1>7
  <2> QED BY <1>3, <2>1, Remainder
<1>9. (p - Begin(p)) % FULL = 0 <=> size = FULL
  <2>1. 0 # size
    BY <1>3, <1>4
  <2> QED BY <1>3, <1>7, <1>8, <2>1
<1> QED BY <1>9 DEF EndsFull

LEMMA SameText ==
  ASSUME NEW s \in Text, NEW t \in Text, Len(s) = Len(t), \A i \in 1 .. Len(s) : s[i] = t[i]
  PROVE  s = t
BY SeqEqual DEF Text

(* Behind a line, the next end is that of the next line. *)
LEMMA ReadsFromBegin ==
  ASSUME TypeOK, BetweenLines, NEW e \in Ends, at < e, \A c \in Ends : at < c => e <= c
  PROVE  Begin(e) = at /\ Delivering(e)
<1>1. file \in Text /\ at \in 0 .. Len(file) /\ Len(file) \in Nat
  BY FileIsText
<1>2. e \in 1 .. Len(file) /\ at \in {0} \cup Ends
  BY <1>1, EndsOfLines DEF BetweenLines
<1>3. \A c \in Ends : c \in Nat
  BY <1>1, EndsOfLines
<1>4. \A c \in Ends : c < e => c <= at
  BY <1>1, <1>2, <1>3
<1>5. Begin(e) = at
  BY <1>1, <1>2, <1>4, BeginIs
<1>6. e \in Delivered
  BY <1>5 DEF BetweenLines, Delivered
<1>7. \A d \in Delivered : d < e => d <= at
  BY <1>4 DEF Delivered
<1>8. DeliveredTo(e) = DeliveredTo(at) + 1
  BY <1>1, <1>6, <1>7, CountedNext
<1> QED BY <1>5, <1>6, <1>8 DEF Delivering, BetweenLines

LEMMA ReadsALine ==
  ASSUME TypeOK, BetweenLines, ~ broken, NEW size, size = Len(fgets), size > 0,
         size < FULL \/ EndsLine(fgets), NEW p, p = at + size
  PROVE  /\ p \in Ends /\ Delivering(p) /\ Fits(p)
         /\ Line(p) = IF EndsLine(fgets) THEN Front(fgets) ELSE fgets
<1>1. /\ fgets \in Text /\ size \in 0 .. FULL /\ p \in 0 .. Len(file) /\ fgets # <<>>
      /\ \A i \in 1 .. size : fgets[i] = file[at + i]
  BY Fetching
<1>2. file \in Text /\ at \in 0 .. Len(file) /\ Len(file) \in Nat /\ FULL \in Nat /\ FULL > 1
  BY FileIsText, FullSize
<1>3. p \in Ends
  BY EndOfChunk
<1>4. at < p /\ \A c \in Ends : at < c => p <= c
  BY <1>1, <1>2, NoEndWithin
<1>5. Begin(p) = at /\ Delivering(p)
  BY <1>3, <1>4, ReadsFromBegin
<1>6. EndsLine(fgets) <=> file[p] = NEWLINE
  BY EndsWithNewline
<1>7. /\ Line(p) \in Text
      /\ Len(Line(p)) = IF file[p] = NEWLINE THEN (p - at) - 1 ELSE p - at
      /\ \A i \in 1 .. Len(Line(p)) : Line(p)[i] = file[at + i]
      /\ Fits(p) <=> Len(Line(p)) < FULL
  BY <1>2, <1>3, <1>5, LineOf
<1>8. Len(Line(p)) = IF EndsLine(fgets) THEN size - 1 ELSE size
  BY <1>1, <1>2, <1>6, <1>7
<1>9. Len(Line(p)) < FULL
  BY <1>1, <1>2, <1>8
<1>10. \A i \in 1 .. Len(Line(p)) : Line(p)[i] = fgets[i]
  BY <1>1, <1>2, <1>7, <1>8
<1>11. /\ Front(fgets) \in Text /\ Len(Front(fgets)) = size - 1
       /\ \A i \in 1 .. size - 1 : Front(fgets)[i] = fgets[i]
  BY <1>1, FrontOfFetched
<1>12. CASE EndsLine(fgets)
  <2>1. Line(p) = Front(fgets)
    BY <1>7, <1>8, <1>10, <1>11, <1>12, SameText
  <2> QED BY <1>3, <1>5, <1>7, <1>9, <1>12, <2>1
<1>13. CASE ~ EndsLine(fgets)
  <2>1. Line(p) = fgets
    BY <1>1, <1>7, <1>8, <1>10, <1>13, SameText
  <2> QED BY <1>3, <1>5, <1>7, <1>9, <1>13, <2>1
<1> QED BY <1>12, <1>13

(* A full chunk that does not end a line begins a too long one. *)
LEMMA ReadsAChunk ==
  ASSUME TypeOK, BetweenLines, ~ broken, NEW size, size = Len(fgets), size = FULL,
         ~ EndsLine(fgets), NEW p, p = at + size
  PROVE  \E e \in Ends : /\ Delivering(e) /\ ~ Fits(e) /\ Begin(e) < p /\ p <= e
                         /\ EndsFull(p)
<1>1. p \in 0 .. Len(file)
  BY Fetching
<1>2. file \in Text /\ at \in 0 .. Len(file) /\ Len(file) \in Nat /\ FULL \in Nat /\ FULL > 1
  BY FileIsText, FullSize
<1>3. at < Len(file) /\ at < p /\ size > 0
  BY <1>1, <1>2
<1>4. PICK e \in Ends : at < e /\ \A d \in Ends : at < d => e <= d
  BY <1>2, <1>3, NextEnd
<1>5. p <= e
  BY <1>4, NoEndWithin
<1>6. Begin(e) = at /\ Delivering(e)
  BY <1>4, ReadsFromBegin
<1>7. file[p] # NEWLINE
  BY <1>3, EndsWithNewline
<1>8. e \in 1 .. Len(file)
  BY <1>2, EndsOfLines
<1>9. /\ Len(Line(e)) = IF file[e] = NEWLINE THEN (e - at) - 1 ELSE e - at
      /\ Fits(e) <=> Len(Line(e)) < FULL
  BY <1>2, <1>6, LineOf
<1>10. Len(Line(e)) >= FULL
  <2>1. CASE e = p
    BY <1>2, <1>7, <1>9, <2>1
  <2>2. CASE e # p
    BY <1>1, <1>2, <1>5, <1>8, <1>9, <2>2
  <2> QED BY <2>1, <2>2
<1>11. ~ Fits(e)
  <2>1. Len(Line(e)) \in Int
    BY <1>2, <1>8, <1>9
  <2> QED BY <1>2, <1>9, <1>10, <2>1
<1>12. EndsFull(p)
  <2>1. p \in 1 .. Len(file)
    BY <1>1, <1>2, <1>3
  <2>2. at \in {0} \cup Ends
    BY DEF BetweenLines
  <2>3. \A c \in Ends : c < p => c <= at
    <3>1. \A c \in Ends : c \in Nat /\ (at < c => p <= c)
      BY <1>2, EndsOfLines, NoEndWithin
    <3> QED BY <1>2, <2>1, <3>1
  <2>4. Begin(p) = at
    BY <1>2, <1>3, <2>1, <2>2, <2>3, BeginIs
  <2>5. p - at = 0 + FULL /\ 0 % FULL = 0 /\ FULL \in 0 .. FULL
    BY <1>2
  <2>6. (0 + FULL) % FULL = 0
    BY <1>2, <2>5, Remainder
  <2> QED BY <2>4, <2>5, <2>6 DEF EndsFull
<1> QED BY <1>2, <1>3, <1>5, <1>6, <1>11, <1>12

LEMMA SkipsAChunk ==
  ASSUME TypeOK, NEW e \in Ends, Skipping(e), NEW size, size = Len(fgets), size = FULL,
         NEW p, p = at + size
  PROVE  /\ Begin(e) < p /\ EndsFull(p)
         /\ \A c \in Ends : e <= c /\ c < p => EndsFull(c)
<1>1. file \in Text /\ at \in 0 .. Len(file) /\ Len(file) \in Nat /\ FULL \in Nat /\ FULL > 1
  BY FileIsText, FullSize
<1>2. e \in 1 .. Len(file) /\ Begin(e) \in 0 .. e - 1 /\ Begin(e) < at
  BY <1>1, EndsOfLines, BeginOf DEF Skipping
<1>3. Begin(e) < p /\ at > 0 /\ size > 0
  BY <1>1, <1>2
<1>4. EndsFull(p)
  BY <1>1, <1>3, BehindFullChunks DEF Skipping
<1>5. ASSUME NEW c \in Ends, e <= c, c < p PROVE EndsFull(c)
  <2>1. c \in Nat /\ (at < c => p <= c)
    BY <1>1, EndsOfLines, NoEndWithin
  <2>2. c < at \/ c = at
    BY <1>1, <1>5, <2>1
  <2> QED BY <1>5, <2>2 DEF Skipping
<1> QED BY <1>3, <1>4, <1>5

(* The chunk that does not fill the buffer ends the skip, and everything     *)
(* behind the too long line is gone.                                         *)
LEMMA SkipsToTheEnd ==
  ASSUME TypeOK, NEW e \in Ends, Skipping(e), ~ broken, NEW size, size = Len(fgets),
         size # FULL, NEW p, p = at + size
  PROVE  /\ p \in Ends /\ DeliveredTo(p) = DeliveredTo(e)
         /\ \A f \in Ends : Begin(f) = p => ~ Swallowed(f)
<1>1. /\ size \in 0 .. FULL /\ p \in 0 .. Len(file)
      /\ size = 0 => at = Len(file)
  BY Fetching
<1>2. file \in Text /\ at \in 0 .. Len(file) /\ Len(file) \in Nat /\ FULL \in Nat /\ FULL > 1
  BY FileIsText, FullSize
<1>3. \A d \in Ends : d \in Nat /\ 1 <= d /\ d <= Len(file)
  BY <1>2, EndsOfLines
<1>4. /\ e \in 1 .. Len(file) /\ Begin(e) \in 0 .. e - 1 /\ Begin(e) < at
      /\ \A d \in Ends : d < e => d <= Begin(e)
  BY <1>2, <1>3, BeginOf DEF Skipping
<1>5. at > 0 /\ size < FULL /\ at <= p
  BY <1>1, <1>2, <1>4
<1>6. p \in Ends
  <2>1. CASE size = 0
    <3>1. p = Len(file) /\ Len(file) > 0
      BY <1>1, <1>2, <1>5, <2>1
    <3> QED BY <1>2, <3>1, EndsOfLines
  <2>2. CASE size > 0
    BY <1>5, <2>2, EndOfChunk
  <2> QED BY <1>1, <1>2, <2>1, <2>2
<1>7. e <= p
  BY <1>1, <1>2, <1>3, <1>4, <1>5, <1>6
<1>8. \A c \in Ends : e <= c /\ c < p => EndsFull(c)
  <2>1. ASSUME NEW c \in Ends, e <= c, c < p PROVE EndsFull(c)
    <3>1. c \in Nat /\ (at < c => p <= c)
      BY <1>3, NoEndWithin
    <3>2. c < at \/ c = at
      BY <1>1, <1>2, <2>1, <3>1
    <3> QED BY <2>1, <3>2 DEF Skipping
  <2> QED BY <2>1
<1>9. DeliveredTo(e) = DeliveredTo(p)
  <2>1. ASSUME NEW d \in Delivered PROVE d <= e <=> d <= p
    <3>1. d \in Ends /\ d \in Nat /\ ~ Swallowed(d)
      BY <1>3 DEF Delivered
    <3>2. ASSUME e < d, d <= p PROVE Swallowed(d)
      <4>1. \A c \in Ends : e <= c /\ c < d => EndsFull(c)
        BY <1>1, <1>3, <1>8, <3>1, <3>2
      <4> QED BY <3>2, <4>1 DEF Swallowed, Skipping
    <3> QED BY <1>1, <1>4, <1>7, <3>1, <3>2
  <2> QED BY <2>1, CountedSame
<1>10. ASSUME NEW f \in Ends, Begin(f) = p PROVE ~ Swallowed(f)
  <2>1. f \in 1 .. Len(file) /\ Begin(f) \in 0 .. f - 1
    BY <1>2, <1>3, BeginOf
  <2>2. p < Len(file)
    BY <1>1, <1>2, <1>10, <2>1
  <2>3. size > 0
    BY <1>1, <1>2, <2>2
  <2>4. ~ EndsFull(p)
    BY <1>5, <2>3, BehindFullChunks DEF Skipping
  <2> QED BY <1>2, <1>6, <1>10, <2>4, NextAfterRest
<1> QED BY <1>6, <1>9, <1>10

-----------------------------------------------------------------------------
(***************************************************************************)
(* The lines are delivered in order.                                       *)
(***************************************************************************)
LEMMA ReturnsOutcome ==
  ASSUME TypeOK, NEW error, Return(error)
  PROVE  /\ Latest'.error = error /\ Latest'.text = text
         /\ Latest'.label = label' /\ Latest'.command = command' /\ Latest'.args = args'
         /\ results' # <<>> /\ Len(results) \in Nat /\ Len(results') = Len(results) + 1
<1>1. PICK outcome : outcome = [error |-> error, text |-> text, label |-> label',
                                command |-> command', args |-> args']
  OBVIOUS
<1>2. results' = Append(results, outcome)
  BY <1>1 DEF Return
<1>3. results \in Seq(Range(results) \cup {outcome})
  BY DEF TypeOK, Range
<1>4. /\ Len(results) \in Nat /\ Len(results') = Len(results) + 1
      /\ results'[Len(results) + 1] = outcome /\ results' # <<>>
  BY <1>2, <1>3, AppendProperties
<1>5. Latest' = outcome
  BY <1>4 DEF Latest, Last
<1> QED BY <1>1, <1>4, <1>5

(* Line e is handed over. *)
LEMMA ReturnDelivers ==
  ASSUME TypeOK, UNCHANGED fileVars, NEW error, Return(error), error # "ERR_EOF",
         NEW e, Delivering(e),
         IF Fits(e) THEN text = Line(e) /\ error # "LINE_TOO_LONG" ELSE error = "LINE_TOO_LONG",
         \/ broken
         \/ /\ at' \in {0} \cup Ends /\ DeliveredTo(at') = DeliveredTo(e)
            /\ \A f \in Ends : Begin(f) = at' => ~ Swallowed(f)
  PROVE  LinesAreInOrder' /\ ResultsAreDelivered'
<1>1. file \in Text /\ file' = file /\ broken' = broken
  BY FileIsText DEF fileVars
<1>2. /\ Latest'.error = error /\ Latest'.text = text
      /\ results' # <<>> /\ Len(results) \in Nat /\ Len(results') = Len(results) + 1
  BY ReturnsOutcome
<1>3. pc' = "read"
  BY DEF Return
<1>4. e \in Delivered /\ DeliveredTo(e) = Len(results')
  BY <1>2 DEF Delivering
<1>5. DeliveredTo(e) <= Cardinality(Delivered) /\ Cardinality(Delivered) \in Nat
      /\ DeliveredTo(e) \in Nat
  BY <1>1, CountedTo
<1>6. Ends' = Ends /\ Delivered' = Delivered
  BY <1>1, LinesStay
<1>7. \A f : /\ Begin(f)' = Begin(f) /\ Line(f)' = Line(f) /\ Fits(f)' = Fits(f)
             /\ Swallowed(f)' = Swallowed(f) /\ DeliveredTo(f)' = DeliveredTo(f)
  BY <1>1, LinesStay
<1>8. broken' \/ BetweenLines'
  <2>1. SUFFICES ASSUME ~ broken PROVE BetweenLines'
    BY <1>1
  <2>2. DeliveredTo(at)' = DeliveredTo(at')
    BY <1>1, PositionNext
  <2> QED BY <1>4, <1>6, <1>7, <2>1, <2>2 DEF BetweenLines
<1>9. LinesAreInOrder'
  BY <1>3, <1>4, <1>5, <1>6, <1>8 DEF LinesAreInOrder
<1>10. ASSUME NEW f \in Delivered, DeliveredTo(f) = Len(results')
       PROVE  IF Fits(f) THEN Latest'.text = Line(f) /\ Latest'.error # "LINE_TOO_LONG"
              ELSE Latest'.error = "LINE_TOO_LONG"
  <2>1. f = e
    BY <1>1, <1>4, <1>10, CountedApart
  <2> QED BY <1>2, <2>1
<1>11. \A f \in Delivered' : DeliveredTo(f)' = Len(results') /\ Latest'.error # "ERR_EOF" =>
         IF Fits(f)' THEN Latest'.text = Line(f)' /\ Latest'.error # "LINE_TOO_LONG"
         ELSE Latest'.error = "LINE_TOO_LONG"
  BY <1>6, <1>7, <1>10
<1>12. ~ (Len(results') > Cardinality(Delivered'))
  BY <1>4, <1>5, <1>6
<1> QED BY <1>2, <1>3, <1>9, <1>11, <1>12 DEF ResultsAreDelivered

LEMMA ReturnEnds ==
  ASSUME TypeOK, UNCHANGED fileVars, Return("ERR_EOF"),
         Len(results) <= Cardinality(Delivered),
         broken \/ Len(results) = Cardinality(Delivered)
  PROVE  LinesAreInOrder' /\ ResultsAreDelivered'
<1>1. file \in Text /\ file' = file /\ broken' = broken
  BY FileIsText DEF fileVars
<1>2. Latest'.error = "ERR_EOF" /\ Len(results) \in Nat /\ Len(results') = Len(results) + 1
  BY ReturnsOutcome
<1>3. pc' = "done"
  BY DEF Return
<1>4. Delivered' = Delivered
  BY <1>1, LinesStay
<1>5. broken' \/ Len(results') = Cardinality(Delivered') + 1
  BY <1>1, <1>2, <1>4
<1>6. LinesAreInOrder'
  BY <1>3 DEF LinesAreInOrder
<1> QED BY <1>2, <1>3, <1>5, <1>6 DEF ResultsAreDelivered

LEMMA ReadLineInOrder ==
  ASSUME TypeOK, LinesAreInOrder, ReadLine
  PROVE  LinesAreInOrder' /\ ResultsAreDelivered'
<1>1. PICK size, p : size = Len(fgets) /\ p = at + size
  OBVIOUS
<1>2. /\ size \in 0 .. FULL /\ size > 0 /\ ~ broken
  <2>1. fgets # <<>>
    BY DEF ReadLine
  <2>2. size \in 0 .. FULL /\ (fgets # <<>> <=> size > 0) /\ (broken => size = 0)
    BY <1>1, Fetching
  <2> QED BY <2>1, <2>2, FullSize
<1>3. BetweenLines
  BY <1>2 DEF ReadLine, LinesAreInOrder
<1>4. UNCHANGED fileVars /\ at' = p /\ results' = results
  BY <1>1 DEF ReadLine
<1>5. file' = file
  BY <1>4 DEF fileVars
<1>6. Ends' = Ends /\ Delivered' = Delivered
  BY <1>5, LinesStay
<1>7. \A e : /\ Begin(e)' = Begin(e) /\ Fits(e)' = Fits(e) /\ EndsFull(e)' = EndsFull(e)
             /\ DeliveredTo(e)' = DeliveredTo(e)
  BY <1>5, LinesStay
<1>8. CASE ~ EndsLine(fgets) /\ size = FULL
  <2>1. pc' = "skip"
    BY <1>1, <1>8 DEF ReadLine
  <2>2. PICK e \in Ends : /\ Delivering(e) /\ ~ Fits(e) /\ Begin(e) < p /\ p <= e
                          /\ EndsFull(p)
    BY <1>1, <1>2, <1>3, <1>8, ReadsAChunk
  <2>3. Delivering(e)'
    BY <1>4, <1>6, <1>7, <2>2 DEF Delivering
  <2>4. EndsFull(at)' = EndsFull(at')
    BY <1>5, PositionNext
  <2>5. \A c \in Ends : ~ (e <= c /\ c < p)
    <3>1. file \in Text /\ Len(file) \in Nat /\ at \in 0 .. Len(file)
      BY FileIsText
    <3>2. \A c \in Ends : c \in Nat
      BY <3>1, EndsOfLines
    <3>3. p \in Nat
      BY <1>1, <1>2, <3>1, FullSize
    <3> QED BY <2>2, <3>2, <3>3
  <2>6. Skipping(e)'
    BY <1>4, <1>6, <1>7, <2>2, <2>3, <2>4, <2>5 DEF Skipping
  <2>7. \E f \in Ends' : Skipping(f)'
    BY <1>6, <2>6
  <2>8. LinesAreInOrder'
    BY <2>1, <2>7 DEF LinesAreInOrder
  <2> QED BY <2>1, <2>8 DEF ResultsAreDelivered, Returned
<1>9. CASE EndsLine(fgets) \/ size # FULL
  <2>1. /\ pc' = "parse"
        /\ text' = IF EndsLine(fgets) THEN Front(fgets) ELSE fgets
    BY <1>1, <1>9 DEF ReadLine
  <2>2. size < FULL \/ EndsLine(fgets)
    BY <1>2, <1>9, FullSize
  <2>3. /\ Delivering(p) /\ Fits(p)
        /\ Line(p) = IF EndsLine(fgets) THEN Front(fgets) ELSE fgets
    BY <1>1, <1>2, <1>3, <2>2, ReadsALine
  <2>4. Line(at)' = Line(at') /\ Fits(at)' = Fits(at') /\ DeliveredTo(at)' = DeliveredTo(at')
    BY <1>5, PositionNext
  <2>5. Delivering(at)'
    BY <1>4, <1>6, <2>3, <2>4 DEF Delivering
  <2>6. text' = Line(at)' /\ Fits(at)'
    BY <1>4, <2>1, <2>3, <2>4
  <2>7. LinesAreInOrder'
    BY <2>1, <2>5, <2>6 DEF LinesAreInOrder
  <2> QED BY <2>1, <2>7 DEF ResultsAreDelivered, Returned
<1> QED BY <1>8, <1>9

LEMMA ReadEndInOrder ==
  ASSUME TypeOK, LinesAreInOrder, ReadEnd
  PROVE  LinesAreInOrder' /\ ResultsAreDelivered'
<1>1. PICK size : size = Len(fgets)
  OBVIOUS
<1>2. size = 0 /\ (~ broken => at = Len(file))
  <2>1. fgets = <<>>
    BY DEF ReadEnd
  <2>2. size = 0
    BY <1>1, <2>1, EmptyText
  <2> QED BY <1>1, <2>2, Fetching
<1>3. Len(results) <= Cardinality(Delivered) /\ (broken \/ BetweenLines)
  BY DEF ReadEnd, LinesAreInOrder
<1>4. broken \/ Len(results) = Cardinality(Delivered)
  BY <1>2, <1>3, FileIsText, CountedAll DEF BetweenLines
<1> QED BY <1>3, <1>4, ReturnEnds DEF ReadEnd

LEMMA SkipInOrder ==
  ASSUME TypeOK, LinesAreInOrder, SkipChunk
  PROVE  LinesAreInOrder' /\ ResultsAreDelivered'
<1>1. PICK size, p : size = Len(fgets) /\ p = at + size
  OBVIOUS
<1>2. PICK e \in Ends : Skipping(e)
  BY DEF SkipChunk, LinesAreInOrder
<1>3. UNCHANGED fileVars /\ at' = p
  BY <1>1 DEF SkipChunk
<1>4. file' = file
  BY <1>3 DEF fileVars
<1>5. CASE size = FULL
  <2>1. pc' = "skip" /\ UNCHANGED results
    BY <1>1, <1>5 DEF SkipChunk
  <2>2. Ends' = Ends /\ Delivered' = Delivered
    BY <1>4, LinesStay
  <2>3. \A c : /\ Begin(c)' = Begin(c) /\ Fits(c)' = Fits(c) /\ EndsFull(c)' = EndsFull(c)
               /\ DeliveredTo(c)' = DeliveredTo(c)
    BY <1>4, LinesStay
  <2>4. /\ Begin(e) < p /\ EndsFull(p)
        /\ \A c \in Ends : e <= c /\ c < p => EndsFull(c)
    BY <1>1, <1>2, <1>5, SkipsAChunk
  <2>5. EndsFull(at)' = EndsFull(at')
    BY <1>4, PositionNext
  <2>6. Delivering(e)'
    BY <1>2, <2>1, <2>2, <2>3 DEF Delivering, Skipping
  <2>7. ~ Fits(e)
    BY <1>2 DEF Skipping
  <2>8. Skipping(e)'
    BY <1>3, <2>2, <2>3, <2>4, <2>5, <2>6, <2>7 DEF Skipping
  <2>9. \E f \in Ends' : Skipping(f)'
    BY <2>2, <2>8
  <2>10. LinesAreInOrder'
    BY <2>1, <2>9 DEF LinesAreInOrder
  <2> QED BY <2>1, <2>10 DEF ResultsAreDelivered, Returned
<1>6. CASE size # FULL
  <2>1. Return("LINE_TOO_LONG")
    BY <1>1, <1>6 DEF SkipChunk
  <2>2. Delivering(e) /\ ~ Fits(e)
    BY <1>2 DEF Skipping
  <2>3. \/ broken
        \/ /\ at' \in {0} \cup Ends /\ DeliveredTo(at') = DeliveredTo(e)
           /\ \A f \in Ends : Begin(f) = at' => ~ Swallowed(f)
    <3>1. SUFFICES ASSUME ~ broken
                   PROVE  /\ p \in Ends /\ DeliveredTo(p) = DeliveredTo(e)
                          /\ \A f \in Ends : Begin(f) = p => ~ Swallowed(f)
      BY <1>3
    <3> QED BY <1>1, <1>2, <1>6, <3>1, SkipsToTheEnd
  <2> QED BY <1>3, <2>1, <2>2, <2>3, ReturnDelivers
<1> QED BY <1>5, <1>6

LEMMA ParsingInOrder ==
  ASSUME TypeOK, LinesAreInOrder, pc \in {"parse", "label", "command", "args"},
         UNCHANGED fileVars, UNCHANGED at,
         \/ \E error : Return(error) /\ error \notin {"ERR_EOF", "LINE_TOO_LONG"}
         \/ pc' \in {"label", "command", "args"} /\ UNCHANGED <<text, results>>
  PROVE  LinesAreInOrder' /\ ResultsAreDelivered'
<1>1. Delivering(at) /\ Fits(at) /\ text = Line(at) /\ file' = file
  BY DEF LinesAreInOrder, fileVars
<1>2. CASE \E error : Return(error) /\ error \notin {"ERR_EOF", "LINE_TOO_LONG"}
  <2>1. PICK error : Return(error) /\ error # "ERR_EOF" /\ error # "LINE_TOO_LONG"
    BY <1>2
  <2>2. at \in Ends /\ ~ Swallowed(at) /\ file \in Text
    BY <1>1, FileIsText DEF Delivering, Delivered
  <2>3. \A f \in Ends : Begin(f) = at => ~ Swallowed(f)
    BY <1>1, <2>2, NextIsNotSwallowed
  <2> QED BY <1>1, <2>1, <2>2, <2>3, ReturnDelivers
<1>3. CASE pc' \in {"label", "command", "args"} /\ UNCHANGED <<text, results>>
  <2>1. /\ Line(at)' = Line(at') /\ Fits(at)' = Fits(at') /\ DeliveredTo(at)' = DeliveredTo(at')
        /\ Delivered' = Delivered
    BY <1>1, LinesStay, PositionNext
  <2>2. Delivering(at)'
    BY <1>1, <1>3, <2>1 DEF Delivering
  <2>3. text' = Line(at)' /\ Fits(at)'
    BY <1>1, <1>3, <2>1
  <2>4. LinesAreInOrder'
    BY <1>3, <2>2, <2>3 DEF LinesAreInOrder
  <2> QED BY <1>3, <2>4 DEF ResultsAreDelivered, Returned
<1> QED BY <1>2, <1>3

LEMMA InitInOrder == Init => LinesAreInOrder /\ ResultsAreDelivered
<1>1. SUFFICES ASSUME Init PROVE LinesAreInOrder /\ ResultsAreDelivered
  OBVIOUS
<1>2. file \in Text /\ at = 0 /\ Len(results) = 0 /\ results = <<>> /\ pc = "read"
  BY <1>1, InitTypes, FileIsText, EmptyText DEF Init
<1>3. DeliveredTo(at) = 0 /\ Cardinality(Delivered) \in Nat
  BY <1>2, CountedAll, CountedTo
<1>4. \A e \in Ends : Begin(e) = at => ~ Swallowed(e)
  BY <1>2, FirstIsNotSwallowed
<1>5. BetweenLines
  BY <1>2, <1>3, <1>4 DEF BetweenLines
<1> QED BY <1>2, <1>3, <1>5 DEF LinesAreInOrder, ResultsAreDelivered, Returned

(* Nothing but whether reading fails has changed. *)
LEMMA StaysInOrder ==
  ASSUME TypeOK, LinesAreInOrder, ResultsAreDelivered,
         UNCHANGED <<file, at, pc, text, results>>, broken => broken'
  PROVE  LinesAreInOrder' /\ ResultsAreDelivered'
<1>1. Ends' = Ends /\ Delivered' = Delivered
  BY LinesStay
<1>2. \A e : /\ Begin(e)' = Begin(e) /\ Line(e)' = Line(e) /\ Fits(e)' = Fits(e)
             /\ EndsFull(e)' = EndsFull(e) /\ Swallowed(e)' = Swallowed(e)
             /\ DeliveredTo(e)' = DeliveredTo(e)
  BY LinesStay
<1>3. /\ Line(at)' = Line(at) /\ Fits(at)' = Fits(at) /\ EndsFull(at)' = EndsFull(at)
      /\ DeliveredTo(at)' = DeliveredTo(at)
  BY PositionNext
<1>4. BetweenLines' = BetweenLines
  BY <1>1, <1>2, <1>3 DEF BetweenLines
<1>5. \A e : Delivering(e)' = Delivering(e)
  BY <1>1, <1>2 DEF Delivering
<1>6. \A e : Skipping(e)' = Skipping(e)
  BY <1>1, <1>2, <1>3, <1>5 DEF Skipping
<1>7. Delivering(at)' = Delivering(at)
  BY <1>1, <1>3 DEF Delivering
<1>8. LinesAreInOrder'
  BY <1>1, <1>3, <1>4, <1>6, <1>7 DEF LinesAreInOrder
<1>9. Latest' = Latest
  BY DEF Latest, Last
<1>10. ResultsAreDelivered'
  BY <1>1, <1>2, <1>9 DEF ResultsAreDelivered, Returned
<1> QED BY <1>8, <1>10

LEMMA NextInOrder ==
  TypeOK /\ LinesAreInOrder /\ ResultsAreDelivered /\ [Next]_vars
    => LinesAreInOrder' /\ ResultsAreDelivered'
<1>1. SUFFICES ASSUME TypeOK, LinesAreInOrder, ResultsAreDelivered, [Next]_vars
               PROVE  LinesAreInOrder' /\ ResultsAreDelivered'
  OBVIOUS
<1>2. CASE ReadLine
  BY <1>1, <1>2, ReadLineInOrder
<1>3. CASE ReadEnd
  BY <1>1, <1>3, ReadEndInOrder
<1>4. CASE SkipChunk
  BY <1>1, <1>4, SkipInOrder
<1>5. CASE ParseStart
  <2>1. \/ Return("SUCCESS")
        \/ pc' = "label" /\ UNCHANGED <<text, results>>
    BY <1>5 DEF ParseStart, Goto
  <2>2. pc = "parse" /\ UNCHANGED fileVars /\ UNCHANGED at
    BY <1>5 DEF ParseStart
  <2>3. \/ \E error : Return(error) /\ error \notin {"ERR_EOF", "LINE_TOO_LONG"}
        \/ pc' \in {"label", "command", "args"} /\ UNCHANGED <<text, results>>
    BY <2>1
  <2> QED BY <1>1, <2>2, <2>3, ParsingInOrder
<1>6. CASE ParseLabel
  <2>1. PICK error : error = LabelError(splitString(buf, {":"}).token)
    OBVIOUS
  <2>2. \/ Return(error)
        \/ pc' = "command" /\ UNCHANGED <<text, results>>
    BY <1>6, <2>1 DEF ParseLabel, Goto
  <2>3. error \notin {"ERR_EOF", "LINE_TOO_LONG"}
    BY <2>1 DEF LabelError
  <2>4. pc = "label" /\ UNCHANGED fileVars /\ UNCHANGED at
    BY <1>6 DEF ParseLabel
  <2>5. \/ \E e : Return(e) /\ e \notin {"ERR_EOF", "LINE_TOO_LONG"}
        \/ pc' \in {"label", "command", "args"} /\ UNCHANGED <<text, results>>
    BY <2>2, <2>3
  <2> QED BY <1>1, <2>4, <2>5, ParsingInOrder
<1>7. CASE ParseCommand
  <2>1. \/ Return("ERR_INVALID_COMMAND_FORMAT") \/ Return("ERR_INVALID_COMMAND_NAME")
        \/ pc' = "args" /\ UNCHANGED <<text, results>>
    BY <1>7 DEF ParseCommand, Goto
  <2>2. pc = "command" /\ UNCHANGED fileVars /\ UNCHANGED at
    BY <1>7 DEF ParseCommand
  <2>3. \/ \E error : Return(error) /\ error \notin {"ERR_EOF", "LINE_TOO_LONG"}
        \/ pc' \in {"label", "command", "args"} /\ UNCHANGED <<text, results>>
    BY <2>1
  <2> QED BY <1>1, <2>2, <2>3, ParsingInOrder
<1>8. CASE ParseArgument \/ ParseEnd
  <2>1. \/ Return("SUCCESS")
        \/ pc' = "args" /\ UNCHANGED <<text, results>>
    BY <1>8 DEF ParseArgument, ParseEnd, Goto
  <2>2. pc = "args" /\ UNCHANGED fileVars /\ UNCHANGED at
    BY <1>8 DEF ParseArgument, ParseEnd
  <2>3. \/ \E error : Return(error) /\ error \notin {"ERR_EOF", "LINE_TOO_LONG"}
        \/ pc' \in {"label", "command", "args"} /\ UNCHANGED <<text, results>>
    BY <2>1
  <2> QED BY <1>1, <2>2, <2>3, ParsingInOrder
<1>9. CASE Break
  BY <1>1, <1>9, StaysInOrder DEF Break
<1>10. CASE UNCHANGED vars
  BY <1>1, <1>10, StaysInOrder DEF vars, fileVars
<1> QED BY <1>1, <1>2, <1>3, <1>4, <1>5, <1>6, <1>7, <1>8, <1>9, <1>10 DEF Next, Step, Terminated

-----------------------------------------------------------------------------
(***************************************************************************)
(* Parts of a text.                                                        *)
(***************************************************************************)
LEMMA Characters == ":" \notin SPACES /\ COMMA \notin SPACES /\ COMMENT_CHAR \notin SPACES
BY ReaderAssumption DEF ReaderAssumption

LEMMA RangeOf ==
  ASSUME NEW str \in Text, NEW S
  PROVE  Range(str) \subseteq S <=> \A i \in 1 .. Len(str) : str[i] \in S
BY DEF Range, Text

LEMMA BlankPart ==
  ASSUME NEW str \in Text, NEW m \in Int, NEW n \in Int, 1 <= m, m <= n + 1, n <= Len(str)
  PROVE  Blank(SubSeq(str, m, n)) <=> \A i \in m .. n : str[i] \in SPACES
<1>1. PICK part : part = SubSeq(str, m, n)
  OBVIOUS
<1>2. PICK size \in Nat : size = (n - m) + 1
  OBVIOUS
<1>3. /\ part \in Text /\ Len(part) = size
      /\ \A i \in 1 .. size : part[i] = str[(m + i) - 1]
  BY <1>1, <1>2, PartOfText
<1>4. Blank(part) <=> \A i \in 1 .. size : part[i] \in SPACES
  BY <1>3, RangeOf DEF Blank
<1>5. ASSUME \A i \in 1 .. size : part[i] \in SPACES, NEW i \in m .. n
      PROVE  str[i] \in SPACES
  <2>1. (i - m) + 1 \in 1 .. size /\ (m + ((i - m) + 1)) - 1 = i
    BY <1>2
  <2> QED BY <1>3, <1>5, <2>1
<1>6. ASSUME \A i \in m .. n : str[i] \in SPACES, NEW i \in 1 .. size
      PROVE  part[i] \in SPACES
  <2>1. (m + i) - 1 \in m .. n
    BY <1>2
  <2> QED BY <1>3, <1>6, <2>1
<1> QED BY <1>1, <1>4, <1>5, <1>6

LEMMA BlankIs ==
  ASSUME NEW str \in Text
  PROVE  Blank(str) <=> \A i \in 1 .. Len(str) : str[i] \in SPACES
BY RangeOf DEF Blank

LEMMA PartOfPart ==
  ASSUME NEW str \in Text, NEW a \in Int, NEW b \in Int, NEW c \in Int, NEW d \in Int,
         1 <= a, a <= b + 1, b <= Len(str), 1 <= c, c <= d + 1, d <= (b - a) + 1
  PROVE  SubSeq(SubSeq(str, a, b), c, d) = SubSeq(str, (a + c) - 1, (a + d) - 1)
<1>1. PICK part : part = SubSeq(str, a, b)
  OBVIOUS
<1>2. Len(str) \in Nat
  BY EmptyText
<1>3. /\ part \in Text /\ Len(part) = (b - a) + 1
      /\ \A i \in 1 .. (b - a) + 1 : part[i] = str[(a + i) - 1]
  BY <1>1, PartOfText
<1>4. PICK left : left = SubSeq(part, c, d)
  OBVIOUS
<1>5. /\ left \in Text /\ Len(left) = (d - c) + 1
      /\ \A i \in 1 .. (d - c) + 1 : left[i] = part[(c + i) - 1]
  BY <1>3, <1>4, PartOfText
<1>6. PICK m \in Int, n \in Int : m = (a + c) - 1 /\ n = (a + d) - 1
  OBVIOUS
<1>7. 1 <= m /\ m <= n + 1 /\ n <= Len(str) /\ (n - m) + 1 = (d - c) + 1
  BY <1>2, <1>6
<1>8. PICK right : right = SubSeq(str, m, n)
  OBVIOUS
<1>9. /\ right \in Text /\ Len(right) = (n - m) + 1
      /\ \A i \in 1 .. (n - m) + 1 : right[i] = str[(m + i) - 1]
  BY <1>7, <1>8, PartOfText
<1>10. ASSUME NEW i \in 1 .. (d - c) + 1 PROVE left[i] = right[i]
  <2>1. (c + i) - 1 \in 1 .. (b - a) + 1 /\ (a + ((c + i) - 1)) - 1 = (m + i) - 1
    BY <1>6
  <2>2. left[i] = str[(m + i) - 1]
    BY <1>3, <1>5, <2>1
  <2> QED BY <1>7, <1>9, <2>2
<1>11. left = right
  BY <1>5, <1>7, <1>9, <1>10, SameText
<1> QED BY <1>1, <1>4, <1>6, <1>8, <1>11

(* A whole text is a part of itself. *)
LEMMA WholeText ==
  ASSUME NEW str \in Text
  PROVE  SubSeq(str, 1, Len(str)) = str
<1>1. Len(str) \in Nat
  BY EmptyText
<1>2. PICK part : part = SubSeq(str, 1, Len(str))
  OBVIOUS
<1>3. /\ part \in Text /\ Len(part) = (Len(str) - 1) + 1
      /\ \A i \in 1 .. (Len(str) - 1) + 1 : part[i] = str[(1 + i) - 1]
  BY <1>1, <1>2, PartOfText
<1>4. Len(part) = Len(str) /\ \A i \in 1 .. Len(part) : part[i] = str[i]
  BY <1>1, <1>3
<1> QED BY <1>2, <1>3, <1>4, SameText

(* The first position where something holds, from one on. *)
LEMMA FirstFrom ==
  ASSUME NEW a \in Nat, NEW b \in Nat, NEW T, \E i \in a .. b : i \in T
  PROVE  \E k \in a .. b : k \in T /\ \A i \in a .. k - 1 : i \notin T
<1>1. PICK U : U = {i \in a .. b : i \in T}
  OBVIOUS
<1>2. U \in SUBSET Nat /\ U # {}
  BY <1>1
<1>3. PICK k \in U : \A i \in U : k <= i
  BY <1>2, LeastNatural
<1>4. k \in a .. b /\ k \in T
  BY <1>1, <1>3
<1>5. \A i \in a .. k - 1 : i \notin T
  BY <1>1, <1>3, <1>4
<1> QED BY <1>4, <1>5

LEMMA LastFrom ==
  ASSUME NEW a \in Nat, NEW b \in Nat, NEW T, \E i \in a .. b : i \in T
  PROVE  \E k \in a .. b : k \in T /\ \A i \in k + 1 .. b : i \notin T
<1>1. PICK U : U = {i \in a .. b : i \in T}
  OBVIOUS
<1>2. U \in SUBSET (0 .. b) /\ U # {}
  BY <1>1
<1>3. Max(U) \in U /\ \A i \in U : i <= Max(U)
  BY <1>2, LastOf
<1>4. PICK k : k = Max(U)
  OBVIOUS
<1>5. k \in a .. b /\ k \in T
  BY <1>1, <1>3, <1>4
<1>6. \A i \in k + 1 .. b : i \notin T
  BY <1>1, <1>3, <1>4, <1>5
<1> QED BY <1>5, <1>6

(***************************************************************************)
(* What trimming and splitting leave of a part of a text.                  *)
(***************************************************************************)
IsPart(part, str, a, b) ==
  /\ part \in Text /\ Len(part) = (b - a) + 1
  /\ \A i \in a .. b : (i - a) + 1 \in 1 .. Len(part) /\ part[(i - a) + 1] = str[i]
  /\ \A i \in 1 .. Len(part) : (a + i) - 1 \in a .. b /\ part[i] = str[(a + i) - 1]

LEMMA PartHolds ==
  ASSUME NEW str \in Text, NEW a \in Int, NEW b \in Int, 1 <= a, a <= b + 1, b <= Len(str),
         NEW part, part = SubSeq(str, a, b)
  PROVE  IsPart(part, str, a, b)
<1>1. /\ part \in Text /\ Len(part) = (b - a) + 1
      /\ \A i \in 1 .. (b - a) + 1 : part[i] = str[(a + i) - 1]
  BY PartOfText
<1>2. ASSUME NEW i \in a .. b
      PROVE  (i - a) + 1 \in 1 .. Len(part) /\ part[(i - a) + 1] = str[i]
  <2>1. (i - a) + 1 \in 1 .. (b - a) + 1 /\ (a + ((i - a) + 1)) - 1 = i
    OBVIOUS
  <2> QED BY <1>1, <2>1
<1>3. ASSUME NEW i \in 1 .. Len(part)
      PROVE  (a + i) - 1 \in a .. b /\ part[i] = str[(a + i) - 1]
  <2>1. i \in 1 .. (b - a) + 1
    BY <1>1
  <2>2. (a + i) - 1 \in a .. b
    BY <2>1
  <2> QED BY <1>1, <2>1, <2>2
<1> QED BY <1>1, <1>2, <1>3 DEF IsPart

LEMMA LeadingOfPart ==
  ASSUME NEW str \in Text, NEW a \in Int, NEW b \in Int, 1 <= a, b <= Len(str),
         NEW f \in a .. b, str[f] \notin SPACES, \A i \in a .. f - 1 : str[i] \in SPACES
  PROVE  removeLeadingSpaces(SubSeq(str, a, b)) = SubSeq(str, f, b)
<1>1. PICK part : part = SubSeq(str, a, b)
  OBVIOUS
<1>2. a <= b + 1 /\ Len(str) \in Nat
  BY EmptyText
<1>3. /\ part \in Text /\ Len(part) = (b - a) + 1
      /\ \A i \in a .. b : (i - a) + 1 \in 1 .. Len(part) /\ part[(i - a) + 1] = str[i]
      /\ \A i \in 1 .. Len(part) : (a + i) - 1 \in a .. b /\ part[i] = str[(a + i) - 1]
  <2>1. IsPart(part, str, a, b)
    BY <1>1, <1>2, PartHolds
  <2> QED BY <2>1 DEF IsPart
<1>4. PICK k : k = SelectInSeq(part, NotSpace)
  OBVIOUS
<1>5. /\ k \in 0 .. Len(part)
      /\ k = 0 => \A i \in 1 .. Len(part) : part[i] \in SPACES
      /\ k # 0 => part[k] \notin SPACES /\ \A i \in 1 .. k - 1 : part[i] \in SPACES
  BY <1>3, <1>4, FirstNotSpace
<1>6. (f - a) + 1 \in 1 .. Len(part) /\ part[(f - a) + 1] \notin SPACES
  BY <1>3
<1>7. k # 0
  BY <1>5, <1>6
<1>8. k <= (f - a) + 1
  <2>1. SUFFICES ASSUME k > (f - a) + 1 PROVE FALSE
    BY <1>3, <1>5
  <2>2. (f - a) + 1 \in 1 .. k - 1
    BY <1>3, <1>5, <1>6, <2>1
  <2> QED BY <1>5, <1>6, <1>7, <2>2
<1>9. (a + k) - 1 \in a .. b /\ str[(a + k) - 1] \notin SPACES
  <2>1. k \in 1 .. Len(part)
    BY <1>3, <1>5, <1>7
  <2> QED BY <1>3, <1>5, <1>7, <2>1
<1>10. (a + k) - 1 >= f
  BY <1>3, <1>5, <1>9
<1>11. k = (f - a) + 1
  BY <1>3, <1>5, <1>8, <1>10
<1>12. removeLeadingSpaces(part) = SubSeq(part, k, Len(part))
  BY <1>4, <1>7 DEF removeLeadingSpaces
<1>13. PICK c \in Int, d \in Int : c = (f - a) + 1 /\ d = (b - a) + 1
  OBVIOUS
<1>14. /\ 1 <= c /\ c <= d + 1 /\ d <= (b - a) + 1
       /\ (a + c) - 1 = f /\ (a + d) - 1 = b
  BY <1>13
<1>15. SubSeq(part, c, d) = SubSeq(str, (a + c) - 1, (a + d) - 1)
  BY <1>1, <1>2, <1>14, PartOfPart
<1> QED BY <1>1, <1>3, <1>11, <1>12, <1>13, <1>14, <1>15

LEMMA TrailingOfPart ==
  ASSUME NEW str \in Text, NEW a \in Int, NEW b \in Int, 1 <= a, b <= Len(str),
         NEW l \in a .. b, str[l] \notin SPACES, \A i \in l + 1 .. b : str[i] \in SPACES
  PROVE  removeTrailingSpaces(SubSeq(str, a, b)) = SubSeq(str, a, l)
<1>1. PICK part : part = SubSeq(str, a, b)
  OBVIOUS
<1>2. a <= b + 1 /\ Len(str) \in Nat
  BY EmptyText
<1>3. /\ part \in Text /\ Len(part) = (b - a) + 1
      /\ \A i \in a .. b : (i - a) + 1 \in 1 .. Len(part) /\ part[(i - a) + 1] = str[i]
      /\ \A i \in 1 .. Len(part) : (a + i) - 1 \in a .. b /\ part[i] = str[(a + i) - 1]
  <2>1. IsPart(part, str, a, b)
    BY <1>1, <1>2, PartHolds
  <2> QED BY <2>1 DEF IsPart
<1>4. PICK k : k = SelectLastInSeq(part, NotSpace)
  OBVIOUS
<1>5. /\ k \in 0 .. Len(part)
      /\ k = 0 => \A i \in 1 .. Len(part) : part[i] \in SPACES
      /\ k # 0 => part[k] \notin SPACES /\ \A i \in k + 1 .. Len(part) : part[i] \in SPACES
  BY <1>3, <1>4, LastNotSpace
<1>6. (l - a) + 1 \in 1 .. Len(part) /\ part[(l - a) + 1] \notin SPACES
  BY <1>3
<1>7. k # 0 /\ part # <<>>
  <2>1. k # 0
    BY <1>5, <1>6
  <2>2. Len(part) # 0
    BY <1>3
  <2> QED BY <2>1, <2>2, <1>3, EmptyText
<1>8. k >= (l - a) + 1
  <2>1. SUFFICES ASSUME k < (l - a) + 1 PROVE FALSE
    BY <1>3, <1>5
  <2>2. (l - a) + 1 \in k + 1 .. Len(part)
    BY <1>3, <1>5, <1>6, <2>1
  <2> QED BY <1>5, <1>6, <1>7, <2>2
<1>9. (a + k) - 1 \in a .. b /\ str[(a + k) - 1] \notin SPACES
  <2>1. k \in 1 .. Len(part)
    BY <1>3, <1>5, <1>7
  <2> QED BY <1>3, <1>5, <1>7, <2>1
<1>10. (a + k) - 1 <= l
  BY <1>3, <1>5, <1>9
<1>11. k = (l - a) + 1
  BY <1>3, <1>5, <1>8, <1>10
<1>12. removeTrailingSpaces(part) = SubSeq(part, 1, k)
  BY <1>4, <1>7 DEF removeTrailingSpaces
<1>13. PICK c \in Int, d \in Int : c = 1 /\ d = (l - a) + 1
  OBVIOUS
<1>14. /\ 1 <= c /\ c <= d + 1 /\ d <= (b - a) + 1
       /\ (a + c) - 1 = a /\ (a + d) - 1 = l
  BY <1>13
<1>15. SubSeq(part, c, d) = SubSeq(str, (a + c) - 1, (a + d) - 1)
  BY <1>1, <1>2, <1>14, PartOfPart
<1> QED BY <1>1, <1>11, <1>12, <1>13, <1>14, <1>15

(* Nothing is left of spaces. *)
LEMMA BlankTrims ==
  ASSUME NEW str \in Text, Blank(str)
  PROVE  /\ removeLeadingSpaces(str) = <<>> /\ removeLeadingAndTrailingSpaces(str) = <<>>
<1>1. PICK k : k = SelectInSeq(str, NotSpace)
  OBVIOUS
<1>2. \A i \in 1 .. Len(str) : str[i] \in SPACES
  BY BlankIs
<1>3. /\ k \in 0 .. Len(str)
      /\ k # 0 => str[k] \notin SPACES
  BY <1>1, FirstNotSpace
<1>4. k = 0
  BY <1>2, <1>3, EmptyText
<1>5. removeLeadingSpaces(str) = <<>>
  BY <1>1, <1>4 DEF removeLeadingSpaces
<1>6. removeTrailingSpaces(<<>>) = <<>>
  BY DEF removeTrailingSpaces
<1> QED BY <1>5, <1>6 DEF removeLeadingAndTrailingSpaces

LEMMA TrimmedPart ==
  ASSUME NEW str \in Text, NEW a \in Int, NEW b \in Int, 1 <= a, b <= Len(str),
         NEW f \in a .. b, str[f] \notin SPACES, \A i \in a .. f - 1 : str[i] \in SPACES,
         NEW l \in a .. b, str[l] \notin SPACES, \A i \in l + 1 .. b : str[i] \in SPACES
  PROVE  removeLeadingAndTrailingSpaces(SubSeq(str, a, b)) = SubSeq(str, f, l)
<1>1. removeLeadingSpaces(SubSeq(str, a, b)) = SubSeq(str, f, b)
  BY LeadingOfPart
<1>2. f <= l
  <2>1. SUFFICES ASSUME l < f PROVE FALSE
    OBVIOUS
  <2>2. l \in a .. f - 1
    BY <2>1
  <2> QED BY <2>2
<1>3. 1 <= f /\ l \in f .. b
  BY <1>2
<1>4. removeTrailingSpaces(SubSeq(str, f, b)) = SubSeq(str, f, l)
  BY <1>3, TrailingOfPart
<1> QED BY <1>1, <1>4 DEF removeLeadingAndTrailingSpaces

IsSplit(split, token, rest) == split = [token |-> token, rest |-> rest]

LEMMA SplitFields ==
  ASSUME NEW token, NEW rest, NEW split, IsSplit(split, token, rest)
  PROVE  split.token = token /\ split.rest = rest
BY DEF IsSplit

LEMMA NoSplitOfPart ==
  ASSUME NEW str \in Text, NEW a \in Int, NEW b \in Int, 1 <= a, a <= b + 1, b <= Len(str),
         NEW delimiters, ~ (\E i \in a .. b : str[i] \in delimiters)
  PROVE  splitString(SubSeq(str, a, b), delimiters) = [token |-> SubSeq(str, a, b), rest |-> NULL]
<1>1. PICK part : part = SubSeq(str, a, b)
  OBVIOUS
<1>2. /\ part \in Text /\ Len(part) = (b - a) + 1
      /\ \A i \in a .. b : (i - a) + 1 \in 1 .. Len(part) /\ part[(i - a) + 1] = str[i]
      /\ \A i \in 1 .. Len(part) : (a + i) - 1 \in a .. b /\ part[i] = str[(a + i) - 1]
  <2>1. IsPart(part, str, a, b)
    BY <1>1, PartHolds
  <2> QED BY <2>1 DEF IsPart
<1>3. PICK m \in 0 .. Len(part) :
        /\ m = 0 => /\ \A i \in 1 .. Len(part) : part[i] \notin delimiters
                    /\ splitString(part, delimiters) = [token |-> part, rest |-> NULL]
        /\ m # 0 => /\ part[m] \in delimiters /\ \A i \in 1 .. m - 1 : part[i] \notin delimiters
                    /\ splitString(part, delimiters) =
                         [token |-> SubSeq(part, 1, m - 1), rest |-> SubSeq(part, m + 1, Len(part))]
  <2>1. part \in Text
    BY <1>2
  <2> QED BY <2>1, SplitAt
<1>4. \A i \in 1 .. Len(part) : part[i] \notin delimiters
  BY <1>2
<1>5. m = 0
  BY <1>2, <1>3, <1>4
<1> QED BY <1>1, <1>3, <1>5

IsFirst(str, a, k, S) == str[k] \in S /\ \A i \in a .. k - 1 : str[i] \notin S

LEMMA SplitOfPart ==
  ASSUME NEW str \in Text, NEW a \in Int, NEW b \in Int, 1 <= a, a <= b + 1, b <= Len(str),
         NEW delimiters, NEW k \in a .. b, IsFirst(str, a, k, delimiters)
  PROVE  splitString(SubSeq(str, a, b), delimiters) =
           [token |-> SubSeq(str, a, k - 1), rest |-> SubSeq(str, k + 1, b)]
<1>1. PICK part : part = SubSeq(str, a, b)
  OBVIOUS
<1>2. /\ part \in Text /\ Len(part) = (b - a) + 1
      /\ \A i \in a .. b : (i - a) + 1 \in 1 .. Len(part) /\ part[(i - a) + 1] = str[i]
      /\ \A i \in 1 .. Len(part) : (a + i) - 1 \in a .. b /\ part[i] = str[(a + i) - 1]
  <2>1. IsPart(part, str, a, b)
    BY <1>1, PartHolds
  <2> QED BY <2>1 DEF IsPart
<1>3. PICK m \in 0 .. Len(part) :
        /\ m = 0 => /\ \A i \in 1 .. Len(part) : part[i] \notin delimiters
                    /\ splitString(part, delimiters) = [token |-> part, rest |-> NULL]
        /\ m # 0 => /\ part[m] \in delimiters /\ \A i \in 1 .. m - 1 : part[i] \notin delimiters
                    /\ splitString(part, delimiters) =
                         [token |-> SubSeq(part, 1, m - 1), rest |-> SubSeq(part, m + 1, Len(part))]
  <2>1. part \in Text
    BY <1>2
  <2> QED BY <2>1, SplitAt
<1>4. (k - a) + 1 \in 1 .. Len(part) /\ part[(k - a) + 1] \in delimiters
  BY <1>2 DEF IsFirst
<1>5. m # 0
  BY <1>3, <1>4
<1>6. m <= (k - a) + 1
  <2>1. SUFFICES ASSUME m > (k - a) + 1 PROVE FALSE
    BY <1>2
  <2>2. (k - a) + 1 \in 1 .. m - 1
    BY <1>2, <1>4, <2>1
  <2> QED BY <1>3, <1>4, <1>5, <2>2
<1>7. (a + m) - 1 \in a .. b /\ str[(a + m) - 1] \in delimiters
  <2>1. m \in 1 .. Len(part)
    BY <1>2, <1>5
  <2> QED BY <1>2, <1>3, <1>5, <2>1
<1>8. (a + m) - 1 >= k
  BY <1>2, <1>7 DEF IsFirst
<1>9. m = (k - a) + 1
  BY <1>2, <1>6, <1>8
<1>10. SubSeq(part, 1, m - 1) = SubSeq(str, a, k - 1)
  <2>1. PICK c \in Int, d \in Int : c = 1 /\ d = m - 1
    BY <1>2
  <2>2. /\ 1 <= c /\ c <= d + 1 /\ d <= (b - a) + 1
        /\ (a + c) - 1 = a /\ (a + d) - 1 = k - 1
    BY <1>9, <2>1
  <2>3. SubSeq(part, c, d) = SubSeq(str, (a + c) - 1, (a + d) - 1)
    BY <1>1, <2>2, PartOfPart
  <2> QED BY <2>1, <2>2, <2>3
<1>11. SubSeq(part, m + 1, Len(part)) = SubSeq(str, k + 1, b)
  <2>1. PICK c \in Int, d \in Int : c = m + 1 /\ d = (b - a) + 1
    BY <1>2
  <2>2. /\ 1 <= c /\ c <= d + 1 /\ d <= (b - a) + 1
        /\ (a + c) - 1 = k + 1 /\ (a + d) - 1 = b
    BY <1>9, <2>1
  <2>3. SubSeq(part, c, d) = SubSeq(str, (a + c) - 1, (a + d) - 1)
    BY <1>1, <2>2, PartOfPart
  <2> QED BY <1>2, <2>1, <2>2, <2>3
<1> QED BY <1>1, <1>3, <1>5, <1>10, <1>11

-----------------------------------------------------------------------------
(***************************************************************************)
(* The language of a line.                                                 *)
(***************************************************************************)
LEMMA EmptyPart ==
  ASSUME NEW str \in Text, NEW m \in Int, NEW n \in Int, m > n
  PROVE  SubSeq(str, m, n) = <<>>
BY SubSeqProperties DEF Text

LEMMA EmptyCheck ==
  ASSUME NEW str \in Text
  PROVE  checkForEmptyLine(str) = 0 <=> Blank(str)
<1>1. PICK T : T = {i \in 1 .. Len(str) : str[i] \notin SPACES}
  OBVIOUS
<1>2. removeAllSpaces(str) = T
  BY <1>1 DEF removeAllSpaces, NotSpace, IsSpace, Text
<1>3. IsFiniteSet(T)
  <2>1. IsFiniteSet(1 .. Len(str)) /\ T \in SUBSET (1 .. Len(str))
    BY <1>1, EmptyText, FS_Interval
  <2> QED BY <2>1, FS_Subset
<1>4. Cardinality(T) = 0 <=> T = {}
  BY <1>3, FS_EmptySet
<1>5. T = {} <=> Blank(str)
  BY <1>1, BlankIs
<1> QED BY <1>2, <1>4, <1>5 DEF checkForEmptyLine

LEMMA InnerOf ==
  ASSUME NEW t \in Text, ~ Blank(t), NEW lo, lo = Min(Inner(t)), NEW hi, hi = Max(Inner(t))
  PROVE  /\ lo \in 1 .. Len(t) /\ hi \in lo .. Len(t)
         /\ t[lo] \notin SPACES /\ t[hi] \notin SPACES
         /\ \A i \in 1 .. lo - 1 : t[i] \in SPACES
         /\ \A i \in hi + 1 .. Len(t) : t[i] \in SPACES
         /\ Trimmed(t) = SubSeq(t, lo, hi)
         /\ removeLeadingAndTrailingSpaces(t) = SubSeq(t, lo, hi)
<1>1. PICK T : T = Inner(t)
  OBVIOUS
<1>2. Len(t) \in Nat /\ DOMAIN t = 1 .. Len(t)
  BY EmptyText DEF Text
<1>3. \A i : i \in T <=> i \in 1 .. Len(t) /\ t[i] \notin SPACES
  BY <1>1, <1>2 DEF Inner
<1>4. T # {}
  BY <1>3, BlankIs
<1>5. T \in SUBSET Nat /\ T \in SUBSET (0 .. Len(t))
  BY <1>2, <1>3
<1>6. lo \in T /\ \A i \in T : lo <= i
  BY <1>1, <1>4, <1>5, FirstOf
<1>7. hi \in T /\ \A i \in T : i <= hi
  BY <1>1, <1>2, <1>4, <1>5, LastOf
<1>8. /\ lo \in 1 .. Len(t) /\ hi \in lo .. Len(t)
      /\ t[lo] \notin SPACES /\ t[hi] \notin SPACES
  BY <1>2, <1>3, <1>6, <1>7
<1>9. ASSUME NEW i \in 1 .. lo - 1 PROVE t[i] \in SPACES
  BY <1>3, <1>6, <1>8
<1>10. ASSUME NEW i \in hi + 1 .. Len(t) PROVE t[i] \in SPACES
  BY <1>3, <1>7, <1>8
<1>11. Trimmed(t) = SubSeq(t, lo, hi)
  BY <1>1, <1>4 DEF Trimmed
<1>12. removeLeadingAndTrailingSpaces(t) = SubSeq(t, lo, hi)
  <2>1. PICK a \in Int, b \in Int : a = 1 /\ b = Len(t)
    <3>1. Len(t) \in Int /\ 1 \in Int
      BY EmptyText
    <3> QED BY <3>1, Zenon
  <2>2. /\ 1 <= a /\ b <= Len(t) /\ lo \in a .. b /\ hi \in a .. b
        /\ \A i \in a .. lo - 1 : t[i] \in SPACES
        /\ \A i \in hi + 1 .. b : t[i] \in SPACES
    BY <1>2, <1>8, <1>9, <1>10, <2>1
  <2>3. removeLeadingAndTrailingSpaces(SubSeq(t, a, b)) = SubSeq(t, lo, hi)
    BY <1>8, <2>2, TrimmedPart, SMTT(30)
  <2> QED BY <2>1, <2>3, WholeText
<1> QED BY <1>8, <1>9, <1>10, <1>11, <1>12

LEMMA LabelIs ==
  ASSUME NEW name \in Text
  PROVE  LabelError(name) = "SUCCESS" <=> IsLabel(name)
<1>1. Len(name) > MAX_LABEL <=> ~ (Len(name) <= MAX_LABEL)
  BY EmptyText, StringsAreTexts
<1> QED BY <1>1 DEF LabelError, IsLabel, isOnlyLettersAndNumbers, isLetter

LEMMA LabelHolds ==
  ASSUME NEW name \in Text, IsLabel(name)
  PROVE  /\ Len(name) >= 1
         /\ \A i \in 1 .. Len(name) : name[i] \notin SPACES /\ name[i] # ":"
<1>1. /\ (LETTERS \cup DIGITS) \cap SPACES = {} /\ ":" \notin LETTERS \cup DIGITS
  BY ReaderAssumption DEF ReaderAssumption
<1>2. \A i \in 1 .. Len(name) : name[i] \in LETTERS \cup DIGITS
  BY RangeOf DEF IsLabel
<1>3. Len(name) >= 1
  BY EmptyText DEF IsLabel
<1> QED BY <1>1, <1>2, <1>3

LEMMA CutOf ==
  ASSUME NEW t \in Text, NEW cut \in Cuts(t)
  PROVE  /\ cut.from \in 1 .. Len(t) /\ cut.colon \in 0 .. Len(t)
         /\ cut.first \in 1 .. Len(t) /\ cut.last \in 1 .. Len(t) /\ Len(t) \in Nat
<1>1. DOMAIN t = 1 .. Len(t) /\ Len(t) \in Nat
  BY EmptyText DEF Text
<1> QED BY <1>1 DEF Cuts

(* A label stands before the first colon and behind the spaces.              *)
LEMMA LabelledAt ==
  ASSUME NEW t \in Text, ~ Blank(t), NEW cut \in Cuts(t), IsLabelled(t, cut), cut.colon # 0
  PROVE  /\ cut.from = Min(Inner(t)) /\ cut.from < cut.colon /\ t[cut.colon] = ":"
         /\ \A i \in 1 .. cut.colon - 1 : t[i] # ":"
<1>1. PICK from, colon : from = cut.from /\ colon = cut.colon
  OBVIOUS
<1>2. from \in 1 .. Len(t) /\ colon \in 1 .. Len(t) /\ Len(t) \in Nat
  BY <1>1, CutOf
<1>3. /\ t[colon] = ":" /\ IsLabel(SubSeq(t, from, colon - 1))
      /\ Blank(SubSeq(t, 1, from - 1))
  BY <1>1 DEF IsLabelled, NameAt
<1>4. from < colon
  <2>1. SUFFICES ASSUME from > colon - 1 PROVE FALSE
    BY <1>2
  <2>2. SubSeq(t, from, colon - 1) = <<>>
    BY <1>2, <2>1, EmptyPart
  <2> QED BY <1>3, <2>2 DEF IsLabel
<1>5. PICK name : name = SubSeq(t, from, colon - 1)
  OBVIOUS
<1>6. IsPart(name, t, from, colon - 1)
  <2>1. PICK b \in Int : b = colon - 1
    BY <1>2
  <2>2. from \in Int /\ 1 <= from /\ from <= b + 1 /\ b <= Len(t)
    BY <1>2, <1>4, <2>1
  <2>3. IsPart(name, t, from, b)
    BY <1>5, <2>1, <2>2, PartHolds
  <2> QED BY <2>1, <2>3
<1>7. \A i \in 1 .. Len(name) : name[i] \notin SPACES /\ name[i] # ":"
  BY <1>3, <1>5, <1>6, LabelHolds DEF IsPart
<1>8. \A i \in from .. colon - 1 : t[i] \notin SPACES /\ t[i] # ":"
  BY <1>6, <1>7 DEF IsPart
<1>9. \A i \in 1 .. from - 1 : t[i] \in SPACES
  BY <1>2, <1>3, BlankPart
<1>10. from = Min(Inner(t))
  <2>1. PICK lo : lo = Min(Inner(t))
    OBVIOUS
  <2>2. /\ lo \in 1 .. Len(t) /\ t[lo] \notin SPACES
        /\ \A i \in 1 .. lo - 1 : t[i] \in SPACES
    BY <2>1, InnerOf
  <2>3. t[from] \notin SPACES
    BY <1>2, <1>4, <1>8
  <2>4. ~ (lo < from)
    BY <1>2, <1>9, <2>2
  <2>5. ~ (from < lo)
    BY <1>2, <2>2, <2>3
  <2> QED BY <1>2, <2>1, <2>2, <2>4, <2>5
<1>11. ASSUME NEW i \in 1 .. colon - 1 PROVE t[i] # ":"
  <2>1. i \in 1 .. from - 1 \/ i \in from .. colon - 1
    BY <1>2, <1>4
  <2> QED BY <1>8, <1>9, <2>1, Characters
<1> QED BY <1>1, <1>3, <1>4, <1>10, <1>11

LEMMA SameLabel ==
  ASSUME NEW t \in Text, ~ Blank(t), NEW c \in Cuts(t), NEW d \in Cuts(t),
         IsLabelled(t, c), IsLabelled(t, d)
  PROVE  c.colon = d.colon /\ NameAt(t, c) = NameAt(t, d)
<1>1. /\ c.colon \in 0 .. Len(t) /\ d.colon \in 0 .. Len(t) /\ Len(t) \in Nat
      /\ c.from \in 1 .. Len(t) /\ d.from \in 1 .. Len(t)
  BY CutOf
<1>2. ASSUME NEW a \in Cuts(t), NEW b \in Cuts(t), IsLabelled(t, a), IsLabelled(t, b),
             a.colon = 0
      PROVE  b.colon = 0
  <2>1. \A i \in 1 .. Len(t) : t[i] # ":"
    BY <1>2 DEF IsLabelled, Range, Text
  <2>2. b.colon # 0 => t[b.colon] = ":" /\ b.colon \in 1 .. Len(t)
    BY <1>2, LabelledAt, CutOf
  <2> QED BY <2>1, <2>2
<1>3. CASE c.colon = 0
  <2>1. d.colon = 0
    BY <1>2, <1>3
  <2>2. \A n \in 1 .. Len(t) : SubSeq(t, n, 0 - 1) = <<>>
    BY EmptyPart
  <2> QED BY <1>1, <1>3, <2>1, <2>2 DEF NameAt
<1>4. CASE c.colon # 0
  <2>1. d.colon # 0
    BY <1>2, <1>4
  <2>2. /\ c.from = Min(Inner(t)) /\ t[c.colon] = ":"
        /\ \A i \in 1 .. c.colon - 1 : t[i] # ":"
    BY <1>4, LabelledAt
  <2>3. /\ d.from = Min(Inner(t)) /\ t[d.colon] = ":"
        /\ \A i \in 1 .. d.colon - 1 : t[i] # ":"
    BY <2>1, LabelledAt
  <2>4. c.colon = d.colon
    BY <1>1, <1>4, <2>1, <2>2, <2>3
  <2> QED BY <2>2, <2>3, <2>4 DEF NameAt
<1> QED BY <1>3, <1>4

LEMMA CommandHolds ==
  ASSUME NEW name \in COMMANDS
  PROVE  name \in Text /\ Len(name) >= 1 /\ \A i \in 1 .. Len(name) : name[i] \notin SPACES
<1>1. name \in Text /\ name # <<>> /\ Range(name) \cap SPACES = {}
  BY ReaderAssumption DEF ReaderAssumption
<1>2. \A i \in 1 .. Len(name) : name[i] \in Range(name)
  BY <1>1 DEF Range, Text
<1> QED BY <1>1, <1>2, EmptyText

LEMMA SeparatorsAreSpaces == SEPARATORS \subseteq SPACES /\ COMMA \notin SEPARATORS
BY ReaderAssumption, Characters DEF ReaderAssumption

LEMMA ReadingAt ==
  ASSUME NEW t \in Text, NEW c \in Cuts(t), IsReading(t, c)
  PROVE  /\ c.colon < c.first /\ c.first <= c.last
         /\ \A i \in c.colon + 1 .. c.first - 1 : t[i] \in SPACES
         /\ \A i \in c.first .. c.last : t[i] \notin SPACES
         /\ Blank(Behind(t, c)) <=> \A i \in c.last + 1 .. Len(t) : t[i] \in SPACES
         /\ ~ Blank(Behind(t, c)) => c.last < Len(t) /\ t[c.last + 1] \in SEPARATORS
<1>1. PICK colon, first, last : colon = c.colon /\ first = c.first /\ last = c.last
  OBVIOUS
<1>2. /\ colon \in 0 .. Len(t) /\ first \in 1 .. Len(t) /\ last \in 1 .. Len(t)
      /\ Len(t) \in Nat
  BY <1>1, CutOf
<1>3. /\ colon < first /\ Blank(SubSeq(t, colon + 1, first - 1))
      /\ SubSeq(t, first, last) \in COMMANDS
      /\ Blank(Behind(t, c)) \/ t[last + 1] \in SEPARATORS
  BY <1>1 DEF IsReading
<1>4. \A i \in colon + 1 .. first - 1 : t[i] \in SPACES
  <2>1. PICK m \in Int, n \in Int : m = colon + 1 /\ n = first - 1
    BY <1>2
  <2>2. 1 <= m /\ m <= n + 1 /\ n <= Len(t)
    BY <1>2, <1>3, <2>1
  <2>3. \A i \in m .. n : t[i] \in SPACES
    BY <1>3, <2>1, <2>2, BlankPart
  <2> QED BY <2>1, <2>3
<1>5. PICK name : name = SubSeq(t, first, last)
  OBVIOUS
<1>6. Len(name) >= 1 /\ \A i \in 1 .. Len(name) : name[i] \notin SPACES
  BY <1>3, <1>5, CommandHolds
<1>7. first <= last
  <2>1. SUFFICES ASSUME first > last PROVE FALSE
    BY <1>2
  <2>2. name = <<>>
    BY <1>2, <1>5, <2>1, EmptyPart
  <2> QED BY <1>6, <2>2, EmptyText
<1>8. \A i \in first .. last : t[i] \notin SPACES
  <2>1. first \in Int /\ last \in Int /\ 1 <= first /\ first <= last + 1 /\ last <= Len(t)
    BY <1>2, <1>7
  <2>2. IsPart(name, t, first, last)
    BY <1>5, <2>1, PartHolds
  <2> QED BY <1>6, <2>2 DEF IsPart
<1>9. Blank(Behind(t, c)) <=> \A i \in last + 1 .. Len(t) : t[i] \in SPACES
  <2>1. PICK m \in Int, n \in Int : m = last + 1 /\ n = Len(t)
    BY <1>2
  <2>2. 1 <= m /\ m <= n + 1 /\ n <= Len(t)
    BY <1>2, <2>1
  <2>3. Behind(t, c) = SubSeq(t, m, n)
    BY <1>1, <2>1 DEF Behind
  <2> QED BY <2>1, <2>2, <2>3, BlankPart
<1>10. ~ Blank(Behind(t, c)) => last < Len(t) /\ t[last + 1] \in SEPARATORS
  <2>1. last = Len(t) => Blank(Behind(t, c))
    BY <1>2, <1>9
  <2> QED BY <1>2, <1>3, <2>1
<1> QED BY <1>1, <1>3, <1>4, <1>7, <1>8, <1>9, <1>10

LEMMA NoEarlierReading ==
  ASSUME NEW t \in Text, NEW c \in Cuts(t), NEW d \in Cuts(t),
         IsReading(t, c), IsReading(t, d), c.colon = d.colon
  PROVE  ~ (c.first < d.first) /\ (c.first = d.first => ~ (c.last < d.last))
<1>1. /\ c.colon < c.first /\ c.first <= c.last
      /\ \A i \in c.first .. c.last : t[i] \notin SPACES
      /\ Blank(Behind(t, c)) <=> \A i \in c.last + 1 .. Len(t) : t[i] \in SPACES
      /\ ~ Blank(Behind(t, c)) => c.last < Len(t) /\ t[c.last + 1] \in SEPARATORS
  BY ReadingAt
<1>2. /\ d.first <= d.last
      /\ \A i \in d.colon + 1 .. d.first - 1 : t[i] \in SPACES
      /\ \A i \in d.first .. d.last : t[i] \notin SPACES
  BY ReadingAt
<1>3. PICK k, f, l, g, m : k = c.colon /\ f = c.first /\ l = c.last /\ g = d.first /\ m = d.last
  OBVIOUS
<1>4. /\ k \in 0 .. Len(t) /\ f \in 1 .. Len(t) /\ l \in 1 .. Len(t) /\ g \in 1 .. Len(t)
      /\ m \in 1 .. Len(t) /\ Len(t) \in Nat /\ k < f /\ f <= l /\ g <= m
  BY <1>1, <1>2, <1>3, CutOf
<1>5. ~ (f < g)
  <2>1. SUFFICES ASSUME f < g PROVE FALSE
    OBVIOUS
  <2>2. f \in k + 1 .. g - 1 /\ f \in f .. l
    BY <1>4, <2>1
  <2>3. t[f] \in SPACES /\ t[f] \notin SPACES
    BY <1>1, <1>2, <1>3, <2>2
  <2> QED BY <2>3
<1>6. f = g => ~ (l < m)
  <2>1. SUFFICES ASSUME f = g, l < m PROVE FALSE
    OBVIOUS
  <2>2. l + 1 \in g .. m /\ l + 1 \in l + 1 .. Len(t)
    BY <1>4, <2>1
  <2>3. t[l + 1] \notin SPACES
    BY <1>2, <1>3, <2>2
  <2>4. t[l + 1] \in SPACES
    BY <1>1, <1>3, <2>2, SeparatorsAreSpaces
  <2> QED BY <2>3, <2>4
<1> QED BY <1>3, <1>5, <1>6

(* Without a comma in a string the operands are what stands between commas.  *)
LEMMA WholeStrings ==
  ASSUME NEW t, NEW cut \in Cuts(t), IsReading(t, cut), ~ HasCommaInString(t)
  PROVE  Fields(Behind(t, cut)) = Pieces(Behind(t, cut))
<1>1. PICK str : str = Behind(t, cut)
  OBVIOUS
<1>2. \A c \in Commas(str) : ~ InString(str, c)
  BY <1>1 DEF HasCommaInString
<1>3. {c \in Commas(str) : ~ InString(str, c)} = Commas(str)
  BY <1>2
<1> QED BY <1>1, <1>3 DEF Fields, Pieces

LEMMA SameReading ==
  ASSUME NEW t \in Text, ~ Blank(t), NEW c \in Cuts(t), NEW d \in Cuts(t),
         IsReading(t, c), IsReading(t, d)
  PROVE  Reading(t, c) = Reading(t, d)
<1>1. c.colon = d.colon /\ NameAt(t, c) = NameAt(t, d)
  BY SameLabel DEF IsReading
<1>2. ~ (c.first < d.first) /\ ~ (d.first < c.first)
  BY <1>1, NoEarlierReading
<1>3. /\ c.first \in 1 .. Len(t) /\ d.first \in 1 .. Len(t) /\ Len(t) \in Nat
      /\ c.last \in 1 .. Len(t) /\ d.last \in 1 .. Len(t)
  BY CutOf
<1>4. c.first = d.first
  BY <1>2, <1>3
<1>5. ~ (c.last < d.last) /\ ~ (d.last < c.last)
  BY <1>1, <1>4, NoEarlierReading
<1>6. c.last = d.last
  BY <1>3, <1>5
<1> QED BY <1>1, <1>4, <1>6 DEF Reading, Behind

(* A line that can be read can be read in one way. *)
LEMMA OneReading ==
  ASSUME NEW t \in Text, ~ Blank(t), NEW cut \in Cuts(t), IsReading(t, cut)
  PROVE  Readings(t) = {Reading(t, cut)}
<1>1. PICK S : S = {c \in Cuts(t) : IsReading(t, c)}
  OBVIOUS
<1>2. cut \in S /\ \A c \in S : Reading(t, c) = Reading(t, cut)
  BY <1>1, SameReading
<1>3. {Reading(t, c) : c \in S} = {Reading(t, cut)}
  BY <1>2
<1> QED BY <1>1, <1>3 DEF Readings

LEMMA NoReading ==
  ASSUME NEW t \in Text, \A c \in Cuts(t) : ~ IsReading(t, c)
  PROVE  Readings(t) = {}
BY DEF Readings

-----------------------------------------------------------------------------
(***************************************************************************)
(* The command of a line.                                                  *)
(***************************************************************************)
LEMMA LastInner ==
  ASSUME NEW str \in Text, NEW k \in 1 .. Len(str), str[k] \notin SPACES,
         \A i \in k + 1 .. Len(str) : str[i] \in SPACES
  PROVE  ~ Blank(str) /\ Max(Inner(str)) = k
<1>1. ~ Blank(str) /\ Len(str) \in Nat
  BY BlankIs, EmptyText
<1>2. PICK lo, hi : lo = Min(Inner(str)) /\ hi = Max(Inner(str))
  OBVIOUS
<1>3. /\ lo \in 1 .. Len(str) /\ hi \in lo .. Len(str) /\ str[hi] \notin SPACES
      /\ \A i \in hi + 1 .. Len(str) : str[i] \in SPACES
  BY <1>1, <1>2, InnerOf
<1>4. ~ (hi < k)
  BY <1>1, <1>3
<1>5. ~ (k < hi)
  BY <1>1, <1>3
<1> QED BY <1>1, <1>2, <1>3, <1>4, <1>5

LEMMA StartOf ==
  ASSUME NEW t \in Text, ~ Blank(t), NEW cut \in Cuts(t), IsLabelled(t, cut),
         NEW s, s = Start(t, cut), NEW hi, hi = Max(Inner(t))
  PROVE  /\ hi \in 1 .. Len(t) /\ s \in 1 .. hi + 1 /\ cut.colon < s
         /\ \A i \in cut.colon + 1 .. s - 1 : t[i] \in SPACES
<1>1. PICK lo, colon : lo = Min(Inner(t)) /\ colon = cut.colon
  OBVIOUS
<1>2. /\ lo \in 1 .. Len(t) /\ hi \in lo .. Len(t)
      /\ \A i \in 1 .. lo - 1 : t[i] \in SPACES
      /\ \A i \in hi + 1 .. Len(t) : t[i] \in SPACES
  BY <1>1, InnerOf
<1>3. colon \in 0 .. Len(t) /\ Len(t) \in Nat
  BY <1>1, CutOf
<1>4. CASE colon = 0
  <2>1. s = lo
    BY <1>1, <1>4 DEF Start
  <2> QED BY <1>1, <1>2, <1>3, <1>4, <2>1
<1>5. CASE colon # 0
  <2>1. s = colon + 1
    BY <1>1, <1>5 DEF Start
  <2>2. t[colon] \notin SPACES
    BY <1>1, <1>5, LabelledAt, Characters
  <2>3. colon <= hi
    BY <1>2, <1>3, <1>5, <2>2
  <2> QED BY <1>1, <1>2, <1>3, <1>5, <2>1, <2>3
<1> QED BY <1>4, <1>5

(* The text from the first character behind a label up to a separator or to  *)
(* the last character of the line.                                           *)
IsToken(t, s, hi, f, e) ==
  /\ f \in s .. hi /\ e \in f .. hi /\ t[f] \notin SPACES
  /\ \A i \in s .. f - 1 : t[i] \in SPACES
  /\ \A i \in f .. e : t[i] \notin SEPARATORS
  /\ e # hi => e + 1 < hi /\ t[e + 1] \in SEPARATORS

LEMMA ReadingHasToken ==
  ASSUME NEW t \in Text, ~ Blank(t), NEW cut \in Cuts(t), IsLabelled(t, cut),
         NEW s, s = Start(t, cut), NEW hi, hi = Max(Inner(t)),
         NEW f, NEW e, IsToken(t, s, hi, f, e), NEW c \in Cuts(t), IsReading(t, c)
  PROVE  c.first = f /\ c.last = e
<1>1. PICK colon, g, l : colon = cut.colon /\ g = c.first /\ l = c.last
  OBVIOUS
<1>2. c.colon = colon
  BY <1>1, SameLabel DEF IsReading
<1>3. /\ colon < g /\ g <= l
      /\ \A i \in colon + 1 .. g - 1 : t[i] \in SPACES
      /\ \A i \in g .. l : t[i] \notin SPACES
      /\ Blank(Behind(t, c)) <=> \A i \in l + 1 .. Len(t) : t[i] \in SPACES
      /\ ~ Blank(Behind(t, c)) => l < Len(t) /\ t[l + 1] \in SEPARATORS
  BY <1>1, <1>2, ReadingAt
<1>4. /\ hi \in 1 .. Len(t) /\ s \in 1 .. hi + 1 /\ colon < s
      /\ \A i \in colon + 1 .. s - 1 : t[i] \in SPACES
  BY <1>1, StartOf
<1>5. /\ t[hi] \notin SPACES
      /\ \A i \in hi + 1 .. Len(t) : t[i] \in SPACES
  BY InnerOf
<1>6. /\ colon \in 0 .. Len(t) /\ g \in 1 .. Len(t) /\ l \in 1 .. Len(t) /\ Len(t) \in Nat
  BY <1>1, CutOf
<1>7. /\ f \in s .. hi /\ e \in f .. hi /\ t[f] \notin SPACES
      /\ \A i \in s .. f - 1 : t[i] \in SPACES
      /\ \A i \in f .. e : t[i] \notin SEPARATORS
      /\ e # hi => e + 1 < hi /\ t[e + 1] \in SEPARATORS
  BY DEF IsToken
<1>8. t[g] \notin SPACES /\ t[l] \notin SPACES
  <2>1. g \in g .. l /\ l \in g .. l
    BY <1>3, <1>6
  <2> QED BY <1>3, <2>1
<1>9. ~ (g < f)
  <2>1. SUFFICES ASSUME g < f PROVE FALSE
    OBVIOUS
  <2>2. g \in colon + 1 .. s - 1 \/ g \in s .. f - 1
    BY <1>3, <1>4, <1>6, <1>7, <2>1
  <2> QED BY <1>4, <1>7, <1>8, <2>2
<1>10. ~ (f < g)
  <2>1. SUFFICES ASSUME f < g PROVE FALSE
    OBVIOUS
  <2>2. f \in colon + 1 .. g - 1
    BY <1>4, <1>6, <1>7, <2>1
  <2> QED BY <1>3, <1>7, <2>2
<1>11. g = f
  BY <1>4, <1>6, <1>7, <1>9, <1>10
<1>12. l <= hi
  BY <1>4, <1>5, <1>6, <1>8
<1>13. ~ (l < e)
  <2>1. SUFFICES ASSUME l < e PROVE FALSE
    OBVIOUS
  <2>2. l + 1 \in f .. e /\ hi \in l + 1 .. Len(t)
    BY <1>3, <1>4, <1>6, <1>7, <1>11, <2>1
  <2>3. t[l + 1] \in SEPARATORS
    BY <1>3, <1>5, <2>2
  <2> QED BY <1>7, <2>2, <2>3
<1>14. ~ (e < l)
  <2>1. SUFFICES ASSUME e < l PROVE FALSE
    OBVIOUS
  <2>2. e + 1 \in g .. l /\ e # hi
    BY <1>3, <1>4, <1>6, <1>7, <1>11, <1>12, <2>1
  <2> QED BY <1>3, <1>7, <2>2, SeparatorsAreSpaces
<1>15. l = e
  BY <1>4, <1>6, <1>7, <1>13, <1>14
<1> QED BY <1>1, <1>11, <1>15

LEMMA TokenIsReading ==
  ASSUME NEW t \in Text, ~ Blank(t), NEW cut \in Cuts(t), IsLabelled(t, cut),
         NEW s, s = Start(t, cut), NEW hi, hi = Max(Inner(t)),
         NEW f, NEW e, IsToken(t, s, hi, f, e), SubSeq(t, f, e) \in COMMANDS,
         NEW c, c = [from |-> cut.from, colon |-> cut.colon, first |-> f, last |-> e]
  PROVE  /\ c \in Cuts(t) /\ IsReading(t, c) /\ NameAt(t, c) = NameAt(t, cut)
         /\ Blank(Behind(t, c)) <=> e = hi
<1>1. PICK colon, from : colon = cut.colon /\ from = cut.from
  OBVIOUS
<1>2. /\ hi \in 1 .. Len(t) /\ s \in 1 .. hi + 1 /\ colon < s
      /\ \A i \in colon + 1 .. s - 1 : t[i] \in SPACES
  BY <1>1, StartOf
<1>3. /\ t[hi] \notin SPACES
      /\ \A i \in hi + 1 .. Len(t) : t[i] \in SPACES
  BY InnerOf
<1>4. colon \in 0 .. Len(t) /\ from \in 1 .. Len(t) /\ Len(t) \in Nat
  BY <1>1, CutOf
<1>5. /\ f \in s .. hi /\ e \in f .. hi
      /\ \A i \in s .. f - 1 : t[i] \in SPACES
      /\ e # hi => e + 1 < hi /\ t[e + 1] \in SEPARATORS
  BY DEF IsToken
<1>6. c.from = from /\ c.colon = colon /\ c.first = f /\ c.last = e
  BY <1>1
<1>7. c \in Cuts(t)
  <2>1. f \in 1 .. Len(t) /\ e \in 1 .. Len(t)
    BY <1>2, <1>4, <1>5
  <2>2. DOMAIN t = 1 .. Len(t)
    BY DEF Text
  <2> QED BY <1>1, <1>4, <2>1, <2>2 DEF Cuts
<1>8. NameAt(t, c) = NameAt(t, cut)
  BY <1>1, <1>6 DEF NameAt
<1>9. IsLabelled(t, c)
  BY <1>1, <1>6, <1>8 DEF IsLabelled
<1>10. Blank(SubSeq(t, colon + 1, f - 1)) /\ colon < f
  <2>1. PICK m \in Int, n \in Int : m = colon + 1 /\ n = f - 1
    BY <1>2, <1>4, <1>5
  <2>2. 1 <= m /\ m <= n + 1 /\ n <= Len(t)
    BY <1>2, <1>4, <1>5, <2>1
  <2>3. ASSUME NEW i \in m .. n PROVE t[i] \in SPACES
    <3>1. i \in colon + 1 .. s - 1 \/ i \in s .. f - 1
      BY <1>2, <1>4, <1>5, <2>1
    <3> QED BY <1>2, <1>5, <3>1
  <2>4. Blank(SubSeq(t, m, n))
    BY <2>2, <2>3, BlankPart
  <2> QED BY <1>2, <1>4, <1>5, <2>1, <2>4
<1>11. Blank(Behind(t, c)) <=> e = hi
  <2>1. PICK m \in Int, n \in Int : m = e + 1 /\ n = Len(t)
    BY <1>2, <1>4, <1>5
  <2>2. 1 <= m /\ m <= n + 1 /\ n <= Len(t)
    BY <1>2, <1>4, <1>5, <2>1
  <2>3. Behind(t, c) = SubSeq(t, m, n)
    BY <1>6, <2>1 DEF Behind
  <2>4. Blank(Behind(t, c)) <=> \A i \in e + 1 .. Len(t) : t[i] \in SPACES
    BY <2>1, <2>2, <2>3, BlankPart
  <2>5. e # hi => hi \in e + 1 .. Len(t)
    BY <1>2, <1>4, <1>5
  <2> QED BY <1>3, <2>4, <2>5
<1>12. IsReading(t, c)
  BY <1>5, <1>6, <1>9, <1>10, <1>11 DEF IsReading
<1> QED BY <1>7, <1>8, <1>11, <1>12

(* The token of a split, and the rest behind the separator. *)
FoundToken(split, t, s, hi, f, e) ==
  /\ IsToken(t, s, hi, f, e) /\ split.token = SubSeq(t, f, e)
  /\ split.rest = IF e = hi THEN NULL ELSE SubSeq(t, e + 2, hi)

(* What parseCommand finds. *)
LEMMA TokenFound ==
  ASSUME NEW t \in Text, ~ Blank(t), NEW hi, hi = Max(Inner(t)), NEW s \in 1 .. hi + 1,
         ~ Blank(SubSeq(t, s, hi)),
         NEW split, split = splitString(removeLeadingSpaces(SubSeq(t, s, hi)), SEPARATORS)
  PROVE  \E f, e : FoundToken(split, t, s, hi, f, e)
<1>1. /\ hi \in 1 .. Len(t) /\ t[hi] \notin SPACES /\ Len(t) \in Nat
  BY InnerOf, EmptyText
<1>2. s \in Int /\ hi \in Int /\ 1 <= s /\ s <= hi + 1 /\ hi <= Len(t)
  BY <1>1
<1>3. \E i \in s .. hi : t[i] \notin SPACES
  BY <1>2, BlankPart
<1>4. PICK T : T = {i \in s .. hi : t[i] \notin SPACES}
  OBVIOUS
<1>5. s \in Nat /\ hi \in Nat /\ \E i \in s .. hi : i \in T
  BY <1>1, <1>2, <1>3, <1>4
<1>6. PICK f \in s .. hi : f \in T /\ \A i \in s .. f - 1 : i \notin T
  BY <1>5, FirstFrom
<1>7. t[f] \notin SPACES /\ \A i \in s .. f - 1 : t[i] \in SPACES
  BY <1>1, <1>4, <1>6
<1>8. removeLeadingSpaces(SubSeq(t, s, hi)) = SubSeq(t, f, hi)
  BY <1>2, <1>7, LeadingOfPart
<1>9. f \in Int /\ 1 <= f /\ f <= hi + 1 /\ f \in Nat /\ f <= hi
  BY <1>1, <1>2, <1>6
<1>10. CASE ~ (\E i \in f .. hi : t[i] \in SEPARATORS)
  <2>1. splitString(SubSeq(t, f, hi), SEPARATORS) = [token |-> SubSeq(t, f, hi), rest |-> NULL]
    BY <1>2, <1>9, <1>10, NoSplitOfPart
  <2>2. IsToken(t, s, hi, f, hi)
    BY <1>2, <1>7, <1>9, <1>10 DEF IsToken
  <2>3. split.token = SubSeq(t, f, hi) /\ split.rest = NULL
    <3>1. IsSplit(split, SubSeq(t, f, hi), NULL)
      BY <1>8, <2>1 DEF IsSplit
    <3> QED BY <3>1, SplitFields
  <2> QED BY <2>2, <2>3 DEF FoundToken
<1>11. CASE \E i \in f .. hi : t[i] \in SEPARATORS
  <2>1. PICK U : U = {i \in f .. hi : t[i] \in SEPARATORS}
    OBVIOUS
  <2>2. \E i \in f .. hi : i \in U
    BY <1>11, <2>1
  <2>3. PICK k \in f .. hi : k \in U /\ \A i \in f .. k - 1 : i \notin U
    BY <1>5, <1>9, <2>2, FirstFrom
  <2>4. t[k] \in SEPARATORS /\ \A i \in f .. k - 1 : t[i] \notin SEPARATORS
    BY <1>1, <1>9, <2>1, <2>3
  <2>5. splitString(SubSeq(t, f, hi), SEPARATORS) =
          [token |-> SubSeq(t, f, k - 1), rest |-> SubSeq(t, k + 1, hi)]
    <3>1. IsFirst(t, f, k, SEPARATORS)
      BY <2>4 DEF IsFirst
    <3>2. f \in Int /\ hi \in Int /\ 1 <= f /\ f <= hi + 1 /\ hi <= Len(t) /\ k \in f .. hi
      BY <1>2, <1>9, <2>3
    <3> QED BY <3>1, <3>2, SplitOfPart
  <2>6. k # f /\ k # hi
    BY <1>1, <1>7, <2>4, SeparatorsAreSpaces
  <2>7. PICK e \in f .. hi : e = k - 1 /\ e + 1 = k /\ e # hi /\ e + 1 < hi /\ e + 2 = k + 1
    <3>1. k - 1 \in f .. hi /\ (k - 1) + 1 = k /\ k - 1 # hi /\ (k - 1) + 1 < hi
          /\ (k - 1) + 2 = k + 1
      BY <1>2, <1>9, <2>3, <2>6
    <3> QED BY <3>1
  <2>8. IsToken(t, s, hi, f, e)
    <3>1. \A i \in f .. e : t[i] \notin SEPARATORS
      BY <2>4, <2>7
    <3>2. t[e + 1] \in SEPARATORS
      BY <2>4, <2>7
    <3> QED BY <1>6, <1>7, <2>7, <3>1, <3>2 DEF IsToken
  <2>9. split.token = SubSeq(t, f, e) /\ split.rest = SubSeq(t, e + 2, hi)
    <3>1. IsSplit(split, SubSeq(t, f, k - 1), SubSeq(t, k + 1, hi))
      BY <1>8, <2>5 DEF IsSplit
    <3>2. split.token = SubSeq(t, f, k - 1) /\ split.rest = SubSeq(t, k + 1, hi)
      BY <3>1, SplitFields
    <3> QED BY <2>7, <3>2
  <2> QED BY <2>7, <2>8, <2>9 DEF FoundToken
<1> QED BY <1>10, <1>11

-----------------------------------------------------------------------------
(***************************************************************************)
(* The operands of a line.                                                 *)
(***************************************************************************)
Before(str, i) == Cardinality({c \in Commas(str) : c < i})
FieldAt(str, k) ==
  {i \in (1 .. Len(str)) \ Commas(str) : str[i] \notin SPACES /\ Before(str, i) = k - 1}

LEMMA CommasAreFinite ==
  ASSUME NEW str \in Text
  PROVE  Len(str) \in Nat /\ IsFiniteSet(Commas(str))
<1>1. Len(str) \in Nat
  BY EmptyText
<1>2. IsFiniteSet(1 .. Len(str)) /\ Commas(str) \in SUBSET (1 .. Len(str))
  BY <1>1, FS_Interval DEF Commas
<1> QED BY <1>1, <1>2, FS_Subset

LEMMA BeforeIs ==
  ASSUME NEW str \in Text, NEW i
  PROVE  Before(str, i) \in Nat /\ Cardinality(Commas(str)) \in Nat
         /\ IsFiniteSet({c \in Commas(str) : c < i})
<1>1. PICK T : T = {c \in Commas(str) : c < i}
  OBVIOUS
<1>2. IsFiniteSet(Commas(str))
  BY CommasAreFinite
<1>3. IsFiniteSet(T)
  BY <1>1, <1>2, FS_Subset
<1>4. Cardinality(T) \in Nat /\ Cardinality(Commas(str)) \in Nat
  BY <1>2, <1>3, FS_CardinalityType
<1> QED BY <1>1, <1>3, <1>4 DEF Before

LEMMA BeforeSame ==
  ASSUME NEW str \in Text, NEW m \in Int, NEW n \in Int, m <= n,
         \A i \in m .. n - 1 : str[i] # COMMA
  PROVE  Before(str, m) = Before(str, n)
<1>1. {c \in Commas(str) : c < m} = {c \in Commas(str) : c < n}
  <2>1. \A c \in Commas(str) : c \in Int /\ str[c] = COMMA
    BY EmptyText DEF Commas
  <2>2. ASSUME NEW c \in Commas(str) PROVE c < m <=> c < n
    <3>1. c \in Int /\ str[c] = COMMA
      BY <2>1
    <3>2. c \notin m .. n - 1
      BY <3>1
    <3> QED BY <3>1, <3>2
  <2> QED BY <2>2
<1> QED BY <1>1 DEF Before

LEMMA BeforeNext ==
  ASSUME NEW str \in Text, NEW k \in 1 .. Len(str), str[k] = COMMA
  PROVE  Before(str, k + 1) = Before(str, k) + 1
<1>1. PICK T : T = {c \in Commas(str) : c < k}
  OBVIOUS
<1>2. k \in Commas(str) /\ \A c \in Commas(str) : c \in Int
  BY EmptyText DEF Commas
<1>3. k \in Int
  BY EmptyText
<1>4. k \notin T /\ {c \in Commas(str) : c < k + 1} = T \cup {k}
  <2>1. \A c \in Commas(str) : c < k + 1 <=> c < k \/ c = k
    BY <1>2, <1>3
  <2>2. ~ (k < k) /\ k < k + 1
    BY <1>3
  <2> QED BY <1>1, <1>2, <2>1, <2>2
<1>5. IsFiniteSet(T)
  BY <1>1, BeforeIs
<1>6. Cardinality(T \cup {k}) = Cardinality(T) + 1
  BY <1>4, <1>5, FS_AddElement
<1> QED BY <1>1, <1>4, <1>6 DEF Before

LEMMA BeforeGrows ==
  ASSUME NEW str \in Text, NEW m \in Int, NEW n \in Int, m <= n
  PROVE  Before(str, m) <= Before(str, n)
<1>1. PICK T, U : T = {c \in Commas(str) : c < m} /\ U = {c \in Commas(str) : c < n}
  OBVIOUS
<1>2. \A c \in Commas(str) : c \in Int
  BY EmptyText DEF Commas
<1>3. T \in SUBSET U
  BY <1>1, <1>2
<1>4. IsFiniteSet(U)
  BY <1>1, BeforeIs
<1>5. Cardinality(T) <= Cardinality(U)
  BY <1>3, <1>4, FS_Subset
<1> QED BY <1>1, <1>5 DEF Before

LEMMA BeforeAll ==
  ASSUME NEW str \in Text
  PROVE  Before(str, Len(str) + 1) = Cardinality(Commas(str))
<1>1. \A c \in Commas(str) : c < Len(str) + 1
  BY EmptyText DEF Commas
<1>2. {c \in Commas(str) : c < Len(str) + 1} = Commas(str)
  BY <1>1
<1> QED BY <1>2 DEF Before

LEMMA PiecesAreFunction ==
  ASSUME NEW str \in Text, NEW n, n = Cardinality(Commas(str)) + 1, NEW f, f = Pieces(str)
  PROVE  f = [k \in 1 .. n |-> f[k]]
<1>1. DOMAIN str = 1 .. Len(str)
  BY DEF Text
<1>2. f = [k \in 1 .. n |->
         IF FieldAt(str, k) = {} THEN <<>>
         ELSE SubSeq(str, Min(FieldAt(str, k)), Max(FieldAt(str, k)))]
  BY <1>1 DEF Pieces, Between, FieldAt, Before
<1>3. DOMAIN f = 1 .. n
  BY <1>2
<1> QED BY <1>2, <1>3, Zenon

LEMMA PiecesAre ==
  ASSUME NEW str \in Text
  PROVE  /\ Len(Pieces(str)) = Cardinality(Commas(str)) + 1
         /\ \A k \in 1 .. Cardinality(Commas(str)) + 1 :
              Pieces(str)[k] = IF FieldAt(str, k) = {} THEN <<>>
                               ELSE SubSeq(str, Min(FieldAt(str, k)), Max(FieldAt(str, k)))
<1>1. DOMAIN str = 1 .. Len(str)
  BY DEF Text
<1>2. PICK n : n = Cardinality(Commas(str)) + 1
  OBVIOUS
<1>3. n \in Nat
  <2>1. Cardinality(Commas(str)) \in Nat
    BY BeforeIs
  <2> QED BY <1>2, <2>1
<1>4. Pieces(str) = [k \in 1 .. n |->
         IF FieldAt(str, k) = {} THEN <<>>
         ELSE SubSeq(str, Min(FieldAt(str, k)), Max(FieldAt(str, k)))]
  BY <1>1, <1>2 DEF Pieces, Between, FieldAt, Before
<1>5. Len(Pieces(str)) = n
  <2>1. PICK f : f = Pieces(str)
    OBVIOUS
  <2>2. f = [k \in 1 .. n |-> f[k]]
    BY <1>2, <2>1, PiecesAreFunction
  <2> QED BY <1>3, <2>1, <2>2
<1> QED BY <1>2, <1>4, <1>5

(* Up to here the first n operands of a text stand: behind a comma, or at the *)
(* separator in front of all of them.                                        *)
Reached(str, r, n) ==
  /\ r \in 1 .. Len(str) /\ n \in Nat /\ Before(str, r + 1) = n
  /\ str[r] = COMMA \/ (r = 1 /\ str[r] \in SPACES)

(* The next operand ends in front of m. *)
NextComma(str, r, m) ==
  /\ m \in r + 1 .. Len(str) + 1
  /\ \A i \in r + 1 .. m - 1 : str[i] # COMMA
  /\ m = Len(str) + 1 \/ str[m] = COMMA

LEMMA FieldBetween ==
  ASSUME NEW str \in Text, NEW r, NEW n, NEW m, Reached(str, r, n), NextComma(str, r, m)
  PROVE  FieldAt(str, n + 1) = {i \in r + 1 .. m - 1 : str[i] \notin SPACES}
<1>1. /\ r \in 1 .. Len(str) /\ n \in Nat /\ Before(str, r + 1) = n
      /\ str[r] = COMMA \/ (r = 1 /\ str[r] \in SPACES)
      /\ m \in r + 1 .. Len(str) + 1
      /\ \A i \in r + 1 .. m - 1 : str[i] # COMMA
      /\ m = Len(str) + 1 \/ str[m] = COMMA
  BY DEF Reached, NextComma
<1>2. Len(str) \in Nat
  BY EmptyText
<1>3. ASSUME NEW i \in r + 1 .. m - 1, str[i] \notin SPACES
      PROVE  i \in FieldAt(str, n + 1)
  <2>1. r + 1 \in Int /\ i \in Int /\ r + 1 <= i /\ \A j \in r + 1 .. i - 1 : str[j] # COMMA
    BY <1>1, <1>2
  <2>2. Before(str, i) = n
    BY <1>1, <2>1, BeforeSame
  <2>3. i \in 1 .. Len(str) /\ str[i] # COMMA /\ (n + 1) - 1 = n
    BY <1>1, <1>2
  <2> QED BY <1>3, <2>2, <2>3 DEF FieldAt, Commas
<1>4. ASSUME NEW i \in FieldAt(str, n + 1)
      PROVE  i \in r + 1 .. m - 1 /\ str[i] \notin SPACES
  <2>1. i \in 1 .. Len(str) /\ str[i] \notin SPACES /\ str[i] # COMMA /\ Before(str, i) = n
    <3>1. (n + 1) - 1 = n
      BY <1>1
    <3> QED BY <3>1 DEF FieldAt, Commas
  <2>2. i # r
    BY <1>1, <2>1
  <2>3. ~ (i < r)
    <3>1. SUFFICES ASSUME i < r PROVE FALSE
      OBVIOUS
    <3>2. str[r] = COMMA
      BY <1>1, <1>2, <2>1, <3>1
    <3>3. Before(str, r + 1) = Before(str, r) + 1
      BY <1>1, <3>2, BeforeNext
    <3>4. i \in Int /\ r \in Int /\ i <= r
      BY <1>1, <2>1, <3>1
    <3>5. Before(str, i) <= Before(str, r)
      BY <3>4, BeforeGrows
    <3>6. Before(str, r) \in Nat
      BY BeforeIs
    <3> QED BY <1>1, <2>1, <3>3, <3>5, <3>6
  <2>4. i # m
    BY <1>1, <1>2, <2>1
  <2>5. ~ (m < i)
    <3>1. SUFFICES ASSUME m < i PROVE FALSE
      OBVIOUS
    <3>2. m \in 1 .. Len(str) /\ str[m] = COMMA
      BY <1>1, <1>2, <2>1, <3>1
    <3>3. Before(str, m + 1) = Before(str, m) + 1
      BY <3>2, BeforeNext
    <3>4. i \in Int /\ m + 1 \in Int /\ m + 1 <= i
      BY <1>1, <1>2, <2>1, <3>1
    <3>5. Before(str, m + 1) <= Before(str, i)
      BY <3>4, BeforeGrows
    <3>6. r + 1 \in Int /\ m \in Int /\ r + 1 <= m
      BY <1>1, <1>2
    <3>7. Before(str, r + 1) = Before(str, m)
      BY <1>1, <3>6, BeforeSame
    <3> QED BY <1>1, <2>1, <3>3, <3>5, <3>7
  <2> QED BY <1>1, <1>2, <2>1, <2>2, <2>3, <2>4, <2>5
<1> QED BY <1>3, <1>4

(* The next operand is the last one, or there are more. *)
LEMMA NextReached ==
  ASSUME NEW str \in Text, NEW r, NEW n, NEW m, Reached(str, r, n), NextComma(str, r, m)
  PROVE  /\ m = Len(str) + 1 => n + 1 = Len(Pieces(str))
         /\ m # Len(str) + 1 => Reached(str, m, n + 1)
         /\ n + 1 \in 1 .. Len(Pieces(str))
<1>1. /\ r \in 1 .. Len(str) /\ n \in Nat /\ Before(str, r + 1) = n
      /\ m \in r + 1 .. Len(str) + 1
      /\ \A i \in r + 1 .. m - 1 : str[i] # COMMA
      /\ m = Len(str) + 1 \/ str[m] = COMMA
  BY DEF Reached, NextComma
<1>2. Len(str) \in Nat
  BY EmptyText
<1>3. r + 1 \in Int /\ m \in Int /\ r + 1 <= m
  BY <1>1, <1>2
<1>4. Before(str, m) = n
  BY <1>1, <1>3, BeforeSame
<1>5. Len(Pieces(str)) = Before(str, Len(str) + 1) + 1
  BY PiecesAre, BeforeAll
<1>6. Before(str, m) <= Before(str, Len(str) + 1)
  <2>1. m \in Int /\ Len(str) + 1 \in Int /\ m <= Len(str) + 1
    BY <1>1, <1>2
  <2> QED BY <2>1, BeforeGrows
<1>7. Before(str, Len(str) + 1) \in Nat
  BY BeforeIs
<1>8. ASSUME m # Len(str) + 1 PROVE Reached(str, m, n + 1)
  <2>1. m \in 1 .. Len(str) /\ str[m] = COMMA
    BY <1>1, <1>2, <1>8
  <2>2. Before(str, m + 1) = Before(str, m) + 1
    BY <2>1, BeforeNext
  <2> QED BY <1>1, <1>4, <2>1, <2>2 DEF Reached
<1> QED BY <1>1, <1>4, <1>5, <1>6, <1>7, <1>8

(* An operand without its spaces. *)
LEMMA FieldIs ==
  ASSUME NEW str \in Text, NEW r, NEW n, NEW m, Reached(str, r, n), NextComma(str, r, m)
  PROVE  /\ (\A i \in r + 1 .. m - 1 : str[i] \in SPACES) => Pieces(str)[n + 1] = <<>>
         /\ \A f \in r + 1 .. m - 1 : \A l \in r + 1 .. m - 1 :
              /\ str[f] \notin SPACES /\ \A i \in r + 1 .. f - 1 : str[i] \in SPACES
              /\ str[l] \notin SPACES /\ \A i \in l + 1 .. m - 1 : str[i] \in SPACES
              => Pieces(str)[n + 1] = SubSeq(str, f, l)
<1>1. PICK T : T = FieldAt(str, n + 1)
  OBVIOUS
<1>2. T = {i \in r + 1 .. m - 1 : str[i] \notin SPACES}
  BY <1>1, FieldBetween
<1>3. Pieces(str)[n + 1] = IF T = {} THEN <<>> ELSE SubSeq(str, Min(T), Max(T))
  <2>1. n + 1 \in 1 .. Cardinality(Commas(str)) + 1
    BY NextReached, PiecesAre
  <2> QED BY <1>1, <2>1, PiecesAre
<1>4. r \in Nat /\ r + 1 \in Nat /\ m - 1 \in Nat
  BY EmptyText DEF Reached, NextComma
<1>5. ASSUME \A i \in r + 1 .. m - 1 : str[i] \in SPACES PROVE T = {}
  BY <1>2, <1>5
<1>6. ASSUME NEW f \in r + 1 .. m - 1, NEW l \in r + 1 .. m - 1,
             str[f] \notin SPACES, \A i \in r + 1 .. f - 1 : str[i] \in SPACES,
             str[l] \notin SPACES, \A i \in l + 1 .. m - 1 : str[i] \in SPACES
      PROVE  T # {} /\ Min(T) = f /\ Max(T) = l
  <2>1. f \in T /\ l \in T
    BY <1>2, <1>6
  <2>2. \A i \in T : f <= i /\ i <= l
    BY <1>2, <1>4, <1>6
  <2>3. T \in SUBSET Nat /\ T \in SUBSET (0 .. m - 1)
    BY <1>2, <1>4
  <2>4. Min(T) \in T /\ \A i \in T : Min(T) <= i
    BY <2>1, <2>3, FirstOf
  <2>5. Max(T) \in T /\ \A i \in T : i <= Max(T)
    BY <1>4, <2>1, <2>3, LastOf
  <2>6. Min(T) <= f /\ f <= Min(T) /\ Max(T) <= l /\ l <= Max(T)
    BY <2>1, <2>2, <2>4, <2>5
  <2>7. Min(T) \in Nat /\ Max(T) \in Nat /\ f \in Nat /\ l \in Nat
    BY <2>1, <2>3, <2>4, <2>5
  <2> QED BY <2>1, <2>6, <2>7
<1>7. ASSUME NEW f \in r + 1 .. m - 1, NEW l \in r + 1 .. m - 1,
             str[f] \notin SPACES /\ (\A i \in r + 1 .. f - 1 : str[i] \in SPACES),
             str[l] \notin SPACES /\ (\A i \in l + 1 .. m - 1 : str[i] \in SPACES)
      PROVE  Pieces(str)[n + 1] = SubSeq(str, f, l)
  BY <1>3, <1>6, <1>7
<1> QED BY <1>3, <1>5, <1>7

LEMMA HandledIs ==
  ASSUME NEW line, NEW token, NEW rest,
         IsSplit(splitString(removeLeadingSpaces(line), {COMMA}), token, rest)
  PROVE  /\ handleToken(line).token = removeTrailingSpaces(token)
         /\ handleToken(line).rest = rest
<1>1. PICK split : split = splitString(removeLeadingSpaces(line), {COMMA})
  OBVIOUS
<1>2. split.token = token /\ split.rest = rest
  BY <1>1, SplitFields
<1>3. split \in [{"token", "rest"} -> {token, rest}]
  BY <1>1 DEF IsSplit
<1>4. handleToken(line) = [split EXCEPT !.token = removeTrailingSpaces(split.token)]
  BY <1>1 DEF handleToken
<1> QED BY <1>2, <1>3, <1>4

(* An operand of nothing, behind a comma at the end of the line. *)
LEMMA NothingHandled ==
  ASSUME NEW operand, operand = handleToken(removeLeadingAndTrailingSpaces(<<>>))
  PROVE  operand.token = <<>> /\ operand.rest = NULL
<1>1. <<>> \in Text /\ Len(<<>>) = 0
  BY EmptyText
<1>2. Blank(<<>>)
  BY <1>1, BlankIs
<1>3. removeLeadingAndTrailingSpaces(<<>>) = <<>> /\ removeLeadingSpaces(<<>>) = <<>>
  BY <1>1, <1>2, BlankTrims
<1>4. IsSplit(splitString(removeLeadingSpaces(<<>>), {COMMA}), <<>>, NULL)
  BY <1>1, <1>3, SplitAt DEF IsSplit
<1>5. removeTrailingSpaces(<<>>) = <<>>
  BY DEF removeTrailingSpaces
<1>6. operand.token = removeTrailingSpaces(<<>>) /\ operand.rest = NULL
  BY <1>3, <1>4, HandledIs, Zenon
<1> QED BY <1>5, <1>6

LEMMA PartTrims ==
  ASSUME NEW str \in Text, NEW a \in Int, NEW b \in Int, 1 <= a, b <= Len(str), str[b] \notin SPACES,
         NEW f \in a .. b, str[f] \notin SPACES, \A i \in a .. f - 1 : str[i] \in SPACES
  PROVE  /\ removeLeadingAndTrailingSpaces(SubSeq(str, a, b)) = SubSeq(str, f, b)
         /\ removeLeadingSpaces(SubSeq(str, f, b)) = SubSeq(str, f, b)
         /\ removeTrailingSpaces(SubSeq(str, f, b)) = SubSeq(str, f, b)
<1>1. Len(str) \in Nat
  BY EmptyText
<1>2. b \in a .. b /\ \A i \in b + 1 .. b : str[i] \in SPACES
  BY <1>1
<1>3. removeLeadingAndTrailingSpaces(SubSeq(str, a, b)) = SubSeq(str, f, b)
  BY <1>2, TrimmedPart
<1>4. f \in Int /\ 1 <= f /\ f \in f .. b /\ b \in f .. b /\ \A i \in f .. f - 1 : str[i] \in SPACES
  BY <1>1
<1>5. removeLeadingSpaces(SubSeq(str, f, b)) = SubSeq(str, f, b)
  BY <1>4, LeadingOfPart
<1>6. removeTrailingSpaces(SubSeq(str, f, b)) = SubSeq(str, f, b)
  BY <1>2, <1>4, TrailingOfPart
<1> QED BY <1>3, <1>5, <1>6

(* The part from a to b, which ends with no space, begins at f.              *)
Begins(str, a, b, f) ==
  /\ a \in Int /\ b \in Int /\ 1 <= a /\ b <= Len(str) /\ str[b] \notin SPACES
  /\ f \in a .. b /\ str[f] \notin SPACES /\ \A i \in a .. f - 1 : str[i] \in SPACES

(* The operands up to the end of the line, the last of which is in the buffer.*)
LEMMA LastHandled ==
  ASSUME NEW str \in Text, NEW a, NEW b, NEW f, Begins(str, a, b, f),
         \A i \in a .. b : str[i] # COMMA,
         NEW operand, operand = handleToken(removeLeadingAndTrailingSpaces(SubSeq(str, a, b)))
  PROVE  operand.token = SubSeq(str, f, b) /\ operand.rest = NULL
<1>1. PICK line : line = SubSeq(str, f, b)
  OBVIOUS
<1>2. /\ removeLeadingAndTrailingSpaces(SubSeq(str, a, b)) = line
      /\ removeLeadingSpaces(line) = line /\ removeTrailingSpaces(line) = line
  BY <1>1, PartTrims DEF Begins
<1>3. /\ f \in Int /\ 1 <= f /\ f <= b + 1
      /\ ~ (\E i \in f .. b : str[i] \in {COMMA})
  BY DEF Begins
<1>4. IsSplit(splitString(removeLeadingSpaces(line), {COMMA}), line, NULL)
  <2>1. b \in Int /\ b <= Len(str)
    BY DEF Begins
  <2> QED BY <1>1, <1>2, <1>3, <2>1, NoSplitOfPart DEF IsSplit
<1>5. operand.token = removeTrailingSpaces(line) /\ operand.rest = NULL
  BY <1>2, <1>4, HandledIs
<1> QED BY <1>1, <1>2, <1>5

(* An operand up to a comma. *)
EndsAt(str, a, b, m) == m \in a .. b /\ IsFirst(str, a, m, {COMMA})

LEMMA NextHandled ==
  ASSUME NEW str \in Text, NEW a, NEW b, NEW f, Begins(str, a, b, f), NEW m, EndsAt(str, a, b, m),
         NEW operand, operand = handleToken(removeLeadingAndTrailingSpaces(SubSeq(str, a, b)))
  PROVE  /\ f <= m /\ operand.token = removeTrailingSpaces(SubSeq(str, f, m - 1))
         /\ operand.rest = SubSeq(str, m + 1, b)
<1>1. PICK line : line = SubSeq(str, f, b)
  OBVIOUS
<1>2. /\ removeLeadingAndTrailingSpaces(SubSeq(str, a, b)) = line
      /\ removeLeadingSpaces(line) = line
  BY <1>1, PartTrims DEF Begins
<1>3. f <= m
  <2>1. SUFFICES ASSUME m < f PROVE FALSE
    BY DEF Begins, EndsAt
  <2>2. m \in a .. f - 1 /\ str[m] = COMMA
    BY <2>1 DEF Begins, EndsAt, IsFirst
  <2> QED BY <2>2, Characters DEF Begins
<1>4. IsFirst(str, f, m, {COMMA})
  BY DEF Begins, EndsAt, IsFirst
<1>5. f \in Int /\ 1 <= f /\ f <= b + 1 /\ m \in f .. b /\ b \in Int /\ b <= Len(str)
  BY <1>3 DEF Begins, EndsAt
<1>6. splitString(line, {COMMA}) = [token |-> SubSeq(str, f, m - 1), rest |-> SubSeq(str, m + 1, b)]
  BY <1>1, <1>4, <1>5, SplitOfPart
<1>7. PICK token, rest : token = SubSeq(str, f, m - 1) /\ rest = SubSeq(str, m + 1, b)
  OBVIOUS
<1>8. IsSplit(splitString(removeLeadingSpaces(line), {COMMA}), token, rest)
  BY <1>2, <1>6, <1>7 DEF IsSplit
<1>9. operand = handleToken(line)
  BY <1>2
<1>10. operand.token = removeTrailingSpaces(token) /\ operand.rest = rest
  BY <1>8, <1>9, HandledIs, Zenon
<1> QED BY <1>3, <1>7, <1>10

LEMMA FirstNotBlank ==
  ASSUME NEW str \in Text, NEW a \in Nat, NEW b \in Nat, \E i \in a .. b : str[i] \notin SPACES
  PROVE  \E f \in a .. b : str[f] \notin SPACES /\ \A i \in a .. f - 1 : str[i] \in SPACES
<1>1. PICK T : T = {i \in a .. b : str[i] \notin SPACES}
  OBVIOUS
<1>2. \E i \in a .. b : i \in T
  BY <1>1
<1>3. PICK f \in a .. b : f \in T /\ \A i \in a .. f - 1 : i \notin T
  BY <1>2, FirstFrom
<1>4. \A i \in a .. f - 1 : str[i] \in SPACES
  BY <1>1, <1>3
<1> QED BY <1>1, <1>3, <1>4

LEMMA LastNotBlank ==
  ASSUME NEW str \in Text, NEW a \in Nat, NEW b \in Nat, \E i \in a .. b : str[i] \notin SPACES
  PROVE  \E l \in a .. b : str[l] \notin SPACES /\ \A i \in l + 1 .. b : str[i] \in SPACES
<1>1. PICK T : T = {i \in a .. b : str[i] \notin SPACES}
  OBVIOUS
<1>2. \E i \in a .. b : i \in T
  BY <1>1
<1>3. PICK l \in a .. b : l \in T /\ \A i \in l + 1 .. b : i \notin T
  BY <1>2, LastFrom
<1>4. \A i \in l + 1 .. b : str[i] \in SPACES
  BY <1>1, <1>3
<1> QED BY <1>1, <1>3, <1>4

LEMMA FirstComma ==
  ASSUME NEW str \in Text, NEW a \in Nat, NEW b \in Nat, \E i \in a .. b : str[i] = COMMA
  PROVE  \E m : EndsAt(str, a, b, m)
<1>1. PICK T : T = {i \in a .. b : str[i] = COMMA}
  OBVIOUS
<1>2. \E i \in a .. b : i \in T
  BY <1>1
<1>3. PICK m \in a .. b : m \in T /\ \A i \in a .. m - 1 : i \notin T
  BY <1>2, FirstFrom
<1>4. \A i \in a .. m - 1 : str[i] # COMMA
  BY <1>1, <1>3
<1> QED BY <1>1, <1>3, <1>4 DEF EndsAt, IsFirst

(* What parseArgs finds when no comma is left. *)
LEMMA LastOperand ==
  ASSUME NEW str \in Text, ~ Blank(str), NEW h, h = Max(Inner(str)),
         NEW r, NEW n, Reached(str, r, n), r <= h, \A i \in r + 1 .. h : str[i] # COMMA,
         NEW operand, operand = handleToken(removeLeadingAndTrailingSpaces(SubSeq(str, r + 1, h)))
  PROVE  /\ n + 1 \in 1 .. Len(Pieces(str)) /\ operand.token = Pieces(str)[n + 1]
         /\ operand.rest = NULL /\ n + 1 = Len(Pieces(str))
<1>1. /\ h \in 1 .. Len(str) /\ str[h] \notin SPACES
      /\ \A i \in h + 1 .. Len(str) : str[i] \in SPACES
  BY InnerOf
<1>2. Len(str) \in Nat /\ r \in 1 .. Len(str)
  BY EmptyText DEF Reached
<1>3. PICK m : m = Len(str) + 1
  OBVIOUS
<1>4. NextComma(str, r, m)
  <2>1. ASSUME NEW i \in r + 1 .. m - 1 PROVE str[i] # COMMA
    <3>1. i \in r + 1 .. h \/ i \in h + 1 .. Len(str)
      BY <1>1, <1>2, <1>3
    <3> QED BY <1>1, <3>1, Characters
  <2> QED BY <1>2, <1>3, <2>1 DEF NextComma
<1>5. n + 1 \in 1 .. Len(Pieces(str)) /\ n + 1 = Len(Pieces(str))
  BY <1>3, <1>4, NextReached
<1>6. CASE r = h
  <2>1. SubSeq(str, r + 1, h) = <<>>
    BY <1>1, <1>2, <1>6, EmptyPart
  <2>2. operand.token = <<>> /\ operand.rest = NULL
    BY <2>1, NothingHandled
  <2>3. \A i \in r + 1 .. m - 1 : str[i] \in SPACES
    BY <1>1, <1>2, <1>3, <1>6
  <2>4. Pieces(str)[n + 1] = <<>>
    BY <1>4, <2>3, FieldIs
  <2> QED BY <1>5, <2>2, <2>4
<1>7. CASE r # h
  <2>1. PICK a \in Nat : a = r + 1
    BY <1>2
  <2>2. h \in Nat /\ h \in a .. h /\ a <= h
    BY <1>1, <1>2, <1>7, <2>1
  <2>3. PICK f \in a .. h : str[f] \notin SPACES /\ \A i \in a .. f - 1 : str[i] \in SPACES
    BY <1>1, <2>2, FirstNotBlank
  <2>4. /\ a \in Int /\ h \in Int /\ 1 <= a /\ h <= Len(str)
        /\ \A i \in a .. h : str[i] # COMMA
    BY <1>1, <1>2, <2>1
  <2>5. operand = handleToken(removeLeadingAndTrailingSpaces(SubSeq(str, a, h)))
    BY <2>1
  <2>6. operand.token = SubSeq(str, f, h) /\ operand.rest = NULL
    <3>1. Begins(str, a, h, f)
      BY <1>1, <2>3, <2>4 DEF Begins
    <3>2. \A i \in a .. h : str[i] # COMMA
      BY <2>4
    <3>3. handleToken(removeLeadingAndTrailingSpaces(SubSeq(str, a, h))).token = SubSeq(str, f, h)
      BY <3>1, <3>2, LastHandled
    <3>4. handleToken(removeLeadingAndTrailingSpaces(SubSeq(str, a, h))).rest = NULL
      BY <3>1, <3>2, LastHandled
    <3> QED BY <2>5, <3>3, <3>4
  <2>7. /\ f \in r + 1 .. m - 1 /\ h \in r + 1 .. m - 1
        /\ \A i \in r + 1 .. f - 1 : str[i] \in SPACES
        /\ \A i \in h + 1 .. m - 1 : str[i] \in SPACES
    BY <1>1, <1>2, <1>3, <2>1, <2>2, <2>3
  <2>8. Pieces(str)[n + 1] = SubSeq(str, f, h)
    BY <1>1, <1>4, <2>3, <2>7, FieldIs
  <2> QED BY <1>5, <2>6, <2>8
<1> QED BY <1>6, <1>7

(* What it finds in front of a comma. *)
LEMMA NextOperand ==
  ASSUME NEW str \in Text, ~ Blank(str), NEW h, h = Max(Inner(str)),
         NEW r, NEW n, Reached(str, r, n), r <= h, \E i \in r + 1 .. h : str[i] = COMMA,
         NEW operand, operand = handleToken(removeLeadingAndTrailingSpaces(SubSeq(str, r + 1, h)))
  PROVE  /\ n + 1 \in 1 .. Len(Pieces(str)) /\ operand.token = Pieces(str)[n + 1]
         /\ operand.rest # NULL
         /\ \E m \in r + 1 .. h : Reached(str, m, n + 1) /\ operand.rest = SubSeq(str, m + 1, h)
<1>1. /\ h \in 1 .. Len(str) /\ str[h] \notin SPACES
      /\ \A i \in h + 1 .. Len(str) : str[i] \in SPACES
  BY InnerOf
<1>2. Len(str) \in Nat /\ r \in 1 .. Len(str)
  BY EmptyText DEF Reached
<1>3. PICK a \in Nat : a = r + 1
  BY <1>2
<1>4. a \in Int /\ h \in Int /\ h \in Nat /\ 1 <= a /\ h <= Len(str)
  BY <1>1, <1>2, <1>3
<1>5. PICK m \in a .. h : str[m] = COMMA /\ \A i \in a .. m - 1 : str[i] # COMMA
  <2>1. a \in Nat /\ h \in Nat /\ \E i \in a .. h : str[i] = COMMA
    BY <1>3, <1>4
  <2>2. PICK m : EndsAt(str, a, h, m)
    BY <2>1, FirstComma
  <2> QED BY <2>2 DEF EndsAt, IsFirst
<1>6. a <= h /\ h \in a .. h
  BY <1>4, <1>5
<1>7. PICK f \in a .. h : str[f] \notin SPACES /\ \A i \in a .. f - 1 : str[i] \in SPACES
  BY <1>1, <1>4, <1>6, FirstNotBlank
<1>8. operand = handleToken(removeLeadingAndTrailingSpaces(SubSeq(str, a, h)))
  BY <1>3
<1>9. /\ f <= m /\ operand.token = removeTrailingSpaces(SubSeq(str, f, m - 1))
      /\ operand.rest = SubSeq(str, m + 1, h)
  <2>1. Begins(str, a, h, f)
    BY <1>1, <1>4, <1>7 DEF Begins
  <2>2. EndsAt(str, a, h, m)
    BY <1>5 DEF EndsAt, IsFirst
  <2>3. handleToken(removeLeadingAndTrailingSpaces(SubSeq(str, a, h))).token
          = removeTrailingSpaces(SubSeq(str, f, m - 1))
    BY <2>1, <2>2, NextHandled
  <2>4. handleToken(removeLeadingAndTrailingSpaces(SubSeq(str, a, h))).rest = SubSeq(str, m + 1, h)
    BY <2>1, <2>2, NextHandled
  <2>5. f <= m
    BY <2>1, <2>2, NextHandled
  <2> QED BY <1>8, <2>3, <2>4, <2>5
<1>10. NextComma(str, r, m)
  BY <1>1, <1>2, <1>3, <1>5 DEF NextComma
<1>11. n + 1 \in 1 .. Len(Pieces(str)) /\ Reached(str, m, n + 1)
  <2>1. m # Len(str) + 1
    BY <1>1, <1>2, <1>5
  <2> QED BY <1>10, <2>1, NextReached
<1>12. operand.rest # NULL
  <2>1. SubSeq(str, m + 1, h) \in Text
    <3>1. PICK b \in Int : b = m + 1
      BY <1>5
    <3>2. 1 <= b /\ b <= h + 1
      BY <1>4, <1>5, <3>1
    <3> QED BY <1>4, <3>1, <3>2, PartOfText
  <2> QED BY <1>9, <2>1, StringsAreTexts
<1>13. operand.token = Pieces(str)[n + 1]
  <2>1. CASE f = m
    <3>1. SubSeq(str, f, m - 1) = <<>>
      BY <1>4, <1>5, <2>1, EmptyPart
    <3>2. operand.token = <<>>
      BY <1>9, <3>1 DEF removeTrailingSpaces
    <3>3. \A i \in r + 1 .. m - 1 : str[i] \in SPACES
      BY <1>3, <1>7, <2>1
    <3>4. Pieces(str)[n + 1] = <<>>
      BY <1>10, <3>3, FieldIs
    <3> QED BY <3>2, <3>4
  <2>2. CASE f # m
    <3>1. PICK b \in Nat : b = m - 1
      BY <1>4, <1>5
    <3>2. f \in Nat /\ f \in f .. b /\ f \in Int /\ 1 <= f /\ b \in Int /\ b <= Len(str)
      BY <1>4, <1>5, <1>7, <1>9, <2>2, <3>1
    <3>3. PICK l \in f .. b : str[l] \notin SPACES /\ \A i \in l + 1 .. b : str[i] \in SPACES
      BY <1>7, <3>2, LastNotBlank
    <3>4. removeTrailingSpaces(SubSeq(str, f, b)) = SubSeq(str, f, l)
      BY <3>2, <3>3, TrailingOfPart
    <3>5. /\ f \in r + 1 .. m - 1 /\ l \in r + 1 .. m - 1
          /\ \A i \in r + 1 .. f - 1 : str[i] \in SPACES
          /\ \A i \in l + 1 .. m - 1 : str[i] \in SPACES
      BY <1>3, <1>4, <1>5, <1>7, <3>1, <3>2, <3>3
    <3>6. Pieces(str)[n + 1] = SubSeq(str, f, l)
      BY <1>7, <1>10, <3>3, <3>5, FieldIs
    <3> QED BY <1>9, <3>1, <3>4, <3>6
  <2> QED BY <2>1, <2>2
<1> QED BY <1>3, <1>5, <1>9, <1>11, <1>12, <1>13

-----------------------------------------------------------------------------
(***************************************************************************)
(* The stages of parseLine.                                                *)
(***************************************************************************)
LEMMA ReturnParses ==
  ASSUME TypeOK, NEW error, Return(error),
         error \notin {"LINE_TOO_LONG", "ERR_EOF"} =>
           IF IsComment(text) THEN error = "SUCCESS" /\ command' = <<>>
           ELSE ~ HasCommaInString(text) =>
                  Readings(text) = IF error = "SUCCESS"
                                   THEN {[label |-> label', command |-> command', args |-> args']}
                                   ELSE {}
  PROVE  LineIsRead' /\ LinesAreParsed'
<1>1. /\ Latest'.error = error /\ Latest'.text = text
      /\ Latest'.label = label' /\ Latest'.command = command' /\ Latest'.args = args'
  BY ReturnsOutcome
<1>2. pc' \in {"read", "done"}
  BY DEF Return
<1>3. LineIsRead'
  BY <1>2 DEF LineIsRead
<1>4. LinesAreParsed'
  BY <1>1 DEF LinesAreParsed, IsReadRight
<1> QED BY <1>3, <1>4

LEMMA NotReturned == pc' \notin {"read", "done"} => LinesAreParsed'
BY DEF LinesAreParsed, Returned

LEMMA StartParses ==
  ASSUME TypeOK, BuffersFit, LineIsRead, ParseStart
  PROVE  LineIsRead' /\ LinesAreParsed'
<1>1. /\ pc = "parse" /\ buf = text /\ text \in Text
      /\ command = <<>> /\ command' = <<>> /\ label' = label /\ args' = args
  BY DEF ParseStart, LineIsRead, TypeOK, lineVars
<1>2. PICK line : line = removeLeadingAndTrailingSpaces(text)
  OBVIOUS
<1>3. IF checkForEmptyLine(line) = 0 \/ Head(line) = COMMENT_CHAR
      THEN Return("SUCCESS") ELSE Goto("label", line)
  BY <1>1, <1>2 DEF ParseStart
<1>4. IF IsComment(text) THEN Return("SUCCESS") ELSE Goto("label", Trimmed(text))
  <2>1. CASE Blank(text)
    <3>1. line = <<>>
      BY <1>1, <1>2, <2>1, BlankTrims
    <3>2. <<>> \in Text /\ Blank(<<>>)
      BY EmptyText, BlankIs
    <3>3. checkForEmptyLine(line) = 0
      BY <3>1, <3>2, EmptyCheck
    <3> QED BY <1>3, <2>1, <3>3 DEF IsComment
  <2>2. CASE ~ Blank(text)
    <3>1. PICK lo, hi : lo = Min(Inner(text)) /\ hi = Max(Inner(text))
      OBVIOUS
    <3>2. /\ lo \in 1 .. Len(text) /\ hi \in lo .. Len(text) /\ text[lo] \notin SPACES
          /\ Trimmed(text) = SubSeq(text, lo, hi) /\ line = SubSeq(text, lo, hi)
      BY <1>1, <1>2, <2>2, <3>1, InnerOf
    <3>3. lo \in Int /\ hi \in Int /\ 1 <= lo /\ lo <= hi + 1 /\ hi <= Len(text) /\ lo \in lo .. hi
      BY <1>1, <3>2, EmptyText
    <3>4. ~ Blank(line)
      BY <1>1, <3>2, <3>3, BlankPart
    <3>5. line \in Text
      BY <1>1, <3>2, <3>3, PartOfText
    <3>6. checkForEmptyLine(line) # 0
      BY <3>4, <3>5, EmptyCheck
    <3> QED BY <1>3, <2>2, <3>2, <3>6 DEF IsComment
  <2> QED BY <2>1, <2>2
<1>5. CASE IsComment(text)
  BY <1>1, <1>4, <1>5, ReturnParses
<1>6. CASE ~ IsComment(text)
  <2>1. pc' = "label" /\ buf' = Trimmed(text) /\ text' = text
    BY <1>4, <1>6 DEF Goto
  <2>2. LineIsRead'
    BY <1>1, <1>6, <2>1 DEF LineIsRead
  <2> QED BY <2>1, <2>2, NotReturned
<1> QED BY <1>5, <1>6

(* The cut of a line without a label, and of a line with one. *)
LEMMA CutFound ==
  ASSUME NEW t \in Text, ~ Blank(t), NEW lo, lo = Min(Inner(t)), NEW k \in 0 .. Len(t),
         NEW cut, cut = [from |-> lo, colon |-> k, first |-> lo, last |-> lo],
         IF k = 0 THEN \A i \in 1 .. Len(t) : t[i] # ":"
         ELSE t[k] = ":" /\ IsLabel(SubSeq(t, lo, k - 1))
  PROVE  /\ cut \in Cuts(t) /\ IsLabelled(t, cut) /\ NameAt(t, cut) = SubSeq(t, lo, k - 1)
         /\ Start(t, cut) = IF k = 0 THEN lo ELSE k + 1
<1>1. /\ lo \in 1 .. Len(t) /\ Len(t) \in Nat
      /\ \A i \in 1 .. lo - 1 : t[i] \in SPACES
  BY InnerOf, EmptyText
<1>2. DOMAIN t = 1 .. Len(t)
  BY DEF Text
<1>3. cut.from = lo /\ cut.colon = k
  OBVIOUS
<1>4. cut \in Cuts(t)
  BY <1>1, <1>2 DEF Cuts
<1>5. Blank(SubSeq(t, 1, lo - 1))
  <2>1. PICK n \in Int : n = lo - 1
    BY <1>1
  <2>2. 1 <= n + 1 /\ n <= Len(t) /\ \A i \in 1 .. n : t[i] \in SPACES
    BY <1>1, <2>1
  <2>3. Blank(SubSeq(t, 1, n))
    BY <2>2, BlankPart
  <2> QED BY <2>1, <2>3
<1>6. NameAt(t, cut) = SubSeq(t, lo, k - 1)
  BY <1>3 DEF NameAt
<1>7. IsLabelled(t, cut)
  BY <1>2, <1>3, <1>5, <1>6 DEF IsLabelled, Range
<1>8. Start(t, cut) = IF k = 0 THEN lo ELSE k + 1
  BY <1>3 DEF Start
<1> QED BY <1>4, <1>6, <1>7, <1>8

(* A text before the first colon that is no label leaves no way to read the line. *)
LEMMA NoLabel ==
  ASSUME NEW t \in Text, ~ Blank(t), NEW lo, lo = Min(Inner(t)), NEW k \in 1 .. Len(t),
         t[k] = ":", \A i \in 1 .. k - 1 : t[i] # ":", ~ IsLabel(SubSeq(t, lo, k - 1))
  PROVE  Readings(t) = {}
<1>1. SUFFICES ASSUME NEW c \in Cuts(t), IsReading(t, c) PROVE FALSE
  BY NoReading
<1>2. IsLabelled(t, c)
  BY <1>1 DEF IsReading
<1>3. c.colon # 0
  BY <1>2 DEF IsLabelled, Range, Text
<1>4. /\ c.from = lo /\ t[c.colon] = ":" /\ \A i \in 1 .. c.colon - 1 : t[i] # ":"
  BY <1>1, <1>2, <1>3, LabelledAt
<1>5. PICK m \in 0 .. Len(t) : m = c.colon
  BY <1>1, CutOf
<1>6. Len(t) \in Nat
  BY EmptyText
<1>7. ~ (m < k) /\ ~ (k < m)
  BY <1>3, <1>4, <1>5, <1>6
<1>8. m = k
  BY <1>5, <1>6, <1>7
<1>9. IsLabel(SubSeq(t, lo, k - 1))
  BY <1>2, <1>3, <1>4, <1>5, <1>8 DEF IsLabelled, NameAt
<1> QED BY <1>9

LEMMA CommandStage ==
  ASSUME text' = text, ~ IsComment(text), pc' = "command", command' = <<>>,
         NEW cut \in Cuts(text), IsLabelled(text, cut), label' = NameAt(text, cut),
         buf' = Rest(text, Start(text, cut))
  PROVE  LineIsRead' /\ LinesAreParsed'
<1>1. LineIsRead'
  BY DEF LineIsRead
<1> QED BY <1>1, NotReturned

LEMMA FirstColon ==
  ASSUME NEW t \in Text, ~ Blank(t), NEW lo, lo = Min(Inner(t)), NEW hi, hi = Max(Inner(t)),
         NEW line, line = SubSeq(t, lo, hi)
  PROVE  /\ ~ containsChar(line, ":") => \A i \in 1 .. Len(t) : t[i] # ":"
         /\ containsChar(line, ":") =>
              \E k \in lo .. hi : /\ t[k] = ":" /\ \A i \in 1 .. k - 1 : t[i] # ":"
                                  /\ IsFirst(t, lo, k, {":"})
<1>1. /\ lo \in 1 .. Len(t) /\ hi \in lo .. Len(t) /\ Len(t) \in Nat
      /\ \A i \in 1 .. lo - 1 : t[i] \in SPACES
      /\ \A i \in hi + 1 .. Len(t) : t[i] \in SPACES
  BY InnerOf, EmptyText
<1>2. lo \in Int /\ hi \in Int /\ 1 <= lo /\ lo <= hi + 1 /\ hi <= Len(t) /\ lo \in Nat /\ hi \in Nat
  BY <1>1
<1>3. IsPart(line, t, lo, hi)
  BY <1>2, PartHolds
<1>4. containsChar(line, ":") <=> \E i \in lo .. hi : t[i] = ":"
  <2>1. containsChar(line, ":") <=> \E i \in 1 .. Len(line) : line[i] = ":"
    <3>1. DOMAIN line = 1 .. Len(line)
      BY <1>3 DEF Text, IsPart
    <3> QED BY <3>1 DEF containsChar, Range
  <2>2. ASSUME NEW i \in 1 .. Len(line), line[i] = ":" PROVE \E j \in lo .. hi : t[j] = ":"
    <3>1. PICK j : j = (lo + i) - 1
      OBVIOUS
    <3>2. j \in lo .. hi /\ line[i] = t[j]
      BY <1>3, <3>1 DEF IsPart
    <3> QED BY <2>2, <3>2
  <2>3. ASSUME NEW j \in lo .. hi, t[j] = ":" PROVE \E i \in 1 .. Len(line) : line[i] = ":"
    <3>1. PICK i : i = (j - lo) + 1
      OBVIOUS
    <3>2. i \in 1 .. Len(line) /\ line[i] = t[j]
      BY <1>3, <3>1 DEF IsPart
    <3> QED BY <2>3, <3>2
  <2> QED BY <2>1, <2>2, <2>3
<1>5. ASSUME ~ (\E i \in lo .. hi : t[i] = ":"), NEW i \in 1 .. Len(t) PROVE t[i] # ":"
  <2>1. i \in 1 .. lo - 1 \/ i \in lo .. hi \/ i \in hi + 1 .. Len(t)
    BY <1>1
  <2> QED BY <1>1, <1>5, <2>1, Characters
<1>6. ASSUME \E i \in lo .. hi : t[i] = ":"
      PROVE  \E k \in lo .. hi : /\ t[k] = ":" /\ \A i \in 1 .. k - 1 : t[i] # ":"
                                 /\ IsFirst(t, lo, k, {":"})
  <2>1. PICK T : T = {i \in lo .. hi : t[i] = ":"}
    OBVIOUS
  <2>2. \E i \in lo .. hi : i \in T
    BY <1>6, <2>1
  <2>3. PICK k \in lo .. hi : k \in T /\ \A i \in lo .. k - 1 : i \notin T
    BY <1>2, <2>2, FirstFrom
  <2>4. t[k] = ":" /\ \A i \in lo .. k - 1 : t[i] # ":"
    BY <1>2, <2>1, <2>3
  <2>5. ASSUME NEW i \in 1 .. k - 1 PROVE t[i] # ":"
    <3>1. i \in 1 .. lo - 1 \/ i \in lo .. k - 1
      BY <1>1
    <3> QED BY <1>1, <2>4, <3>1, Characters
  <2>6. IsFirst(t, lo, k, {":"})
    BY <2>4 DEF IsFirst
  <2> QED BY <2>4, <2>5, <2>6
<1> QED BY <1>4, <1>5, <1>6

LEMMA LabelParses ==
  ASSUME TypeOK, BuffersFit, LineIsRead, ParseLabel
  PROVE  LineIsRead' /\ LinesAreParsed'
<1>1. /\ pc = "label" /\ buf = Trimmed(text) /\ text \in Text /\ ~ IsComment(text)
      /\ command = <<>> /\ command' = <<>>
  BY DEF ParseLabel, LineIsRead, TypeOK
<1>2. PICK t : t = text
  OBVIOUS
<1>3. t \in Text /\ ~ Blank(t)
  BY <1>1, <1>2 DEF IsComment
<1>4. PICK lo, hi : lo = Min(Inner(t)) /\ hi = Max(Inner(t))
  OBVIOUS
<1>5. /\ lo \in 1 .. Len(t) /\ hi \in lo .. Len(t) /\ Len(t) \in Nat
      /\ buf = SubSeq(t, lo, hi)
  BY <1>1, <1>2, <1>3, <1>4, InnerOf, EmptyText
<1>6. PICK split, error : split = splitString(buf, {":"}) /\ error = LabelError(split.token)
  OBVIOUS
<1>7. IF ~ containsChar(buf, ":") THEN label' = <<>> /\ Goto("command", buf)
      ELSE IF error = "SUCCESS" THEN label' = split.token /\ Goto("command", split.rest)
      ELSE UNCHANGED label /\ Return(error)
  BY <1>6 DEF ParseLabel
<1>8. CASE ~ containsChar(buf, ":")
  <2>1. PICK cut : cut = [from |-> lo, colon |-> 0, first |-> lo, last |-> lo]
    OBVIOUS
  <2>2. 0 \in 0 .. Len(t) /\ \A i \in 1 .. Len(t) : t[i] # ":"
    <3>1. \A i \in 1 .. Len(t) : t[i] # ":"
      BY <1>3, <1>4, <1>5, <1>8, FirstColon
    <3> QED BY <1>5, <3>1
  <2>3. /\ cut \in Cuts(t) /\ IsLabelled(t, cut) /\ NameAt(t, cut) = SubSeq(t, lo, 0 - 1)
        /\ Start(t, cut) = lo
    BY <1>3, <1>4, <2>1, <2>2, CutFound
  <2>4. SubSeq(t, lo, 0 - 1) = <<>>
    BY <1>3, <1>5, EmptyPart
  <2>5. Rest(t, Start(t, cut)) = buf
    BY <1>4, <1>5, <2>3 DEF Rest
  <2>6. label' = <<>> /\ pc' = "command" /\ buf' = buf /\ text' = text
    BY <1>7, <1>8 DEF Goto
  <2> QED BY <1>1, <1>2, <2>3, <2>4, <2>5, <2>6, CommandStage
<1>9. CASE containsChar(buf, ":")
  <2>1. PICK k \in lo .. hi : /\ t[k] = ":" /\ \A i \in 1 .. k - 1 : t[i] # ":"
                              /\ IsFirst(t, lo, k, {":"})
    BY <1>3, <1>4, <1>5, <1>9, FirstColon
  <2>2. lo \in Int /\ hi \in Int /\ 1 <= lo /\ lo <= hi + 1 /\ hi <= Len(t) /\ k \in 1 .. Len(t) /\ k # 0
    BY <1>5
  <2>3. splitString(buf, {":"}) = [token |-> SubSeq(t, lo, k - 1), rest |-> SubSeq(t, k + 1, hi)]
    BY <1>3, <1>5, <2>1, <2>2, SplitOfPart
  <2>4. split.token = SubSeq(t, lo, k - 1) /\ split.rest = SubSeq(t, k + 1, hi)
    <3>1. IsSplit(split, SubSeq(t, lo, k - 1), SubSeq(t, k + 1, hi))
      BY <1>6, <2>3 DEF IsSplit
    <3> QED BY <3>1, SplitFields DEF IsSplit
  <2>5. split.token \in Text
    <3>1. PICK n \in Int : n = k - 1
      BY <2>2
    <3>2. lo <= n + 1 /\ n <= Len(t)
      BY <1>5, <2>2, <3>1
    <3> QED BY <1>3, <2>2, <2>4, <3>1, <3>2, PartOfText
  <2>6. error = "SUCCESS" <=> IsLabel(split.token)
    BY <1>6, <2>5, LabelIs
  <2>7. CASE error = "SUCCESS"
    <3>1. PICK cut : cut = [from |-> lo, colon |-> k, first |-> lo, last |-> lo]
      OBVIOUS
    <3>2. k \in 0 .. Len(t) /\ t[k] = ":" /\ IsLabel(SubSeq(t, lo, k - 1))
      BY <2>1, <2>2, <2>4, <2>6, <2>7
    <3>3. /\ cut \in Cuts(t) /\ IsLabelled(t, cut) /\ NameAt(t, cut) = SubSeq(t, lo, k - 1)
          /\ Start(t, cut) = k + 1
      BY <1>3, <1>4, <2>2, <3>1, <3>2, CutFound
    <3>4. Rest(t, Start(t, cut)) = split.rest
      BY <1>4, <2>4, <3>3 DEF Rest
    <3>5. label' = split.token /\ pc' = "command" /\ buf' = split.rest /\ text' = text
      BY <1>7, <1>9, <2>7 DEF Goto
    <3> QED BY <1>1, <1>2, <2>4, <3>3, <3>4, <3>5, CommandStage
  <2>8. CASE error # "SUCCESS"
    <3>1. Readings(t) = {}
      BY <1>3, <1>4, <2>1, <2>2, <2>4, <2>6, <2>8, NoLabel
    <3>2. Return(error)
      BY <1>7, <1>9, <2>8
    <3> QED BY <1>1, <1>2, <2>8, <3>1, <3>2, ReturnParses
  <2> QED BY <2>7, <2>8
<1> QED BY <1>8, <1>9

LEMMA NoCommand ==
  ASSUME NEW t \in Text, ~ Blank(t), NEW cut \in Cuts(t), IsLabelled(t, cut),
         NEW s, s = Start(t, cut), NEW hi, hi = Max(Inner(t)), Blank(SubSeq(t, s, hi))
  PROVE  Readings(t) = {}
<1>1. SUFFICES ASSUME NEW c \in Cuts(t), IsReading(t, c) PROVE FALSE
  BY NoReading
<1>2. /\ hi \in 1 .. Len(t) /\ s \in 1 .. hi + 1 /\ cut.colon < s
      /\ \A i \in cut.colon + 1 .. s - 1 : t[i] \in SPACES
  BY StartOf
<1>3. \A i \in hi + 1 .. Len(t) : t[i] \in SPACES
  BY InnerOf
<1>4. Len(t) \in Nat /\ cut.colon \in 0 .. Len(t) /\ c.first \in 1 .. Len(t) /\ c.last \in 1 .. Len(t)
  BY <1>1, CutOf
<1>5. c.colon = cut.colon
  BY <1>1, SameLabel DEF IsReading
<1>6. c.colon < c.first /\ c.first <= c.last /\ \A i \in c.first .. c.last : t[i] \notin SPACES
  BY <1>1, ReadingAt
<1>7. PICK k, f : k = cut.colon /\ f = c.first
  OBVIOUS
<1>8. k \in 0 .. Len(t) /\ f \in 1 .. Len(t) /\ k < f /\ t[f] \notin SPACES
  BY <1>4, <1>5, <1>6, <1>7
<1>9. s \in Int /\ hi \in Int /\ 1 <= s /\ s <= hi + 1 /\ hi <= Len(t)
  BY <1>2, <1>4
<1>10. \A i \in s .. hi : t[i] \in SPACES
  BY <1>9, BlankPart
<1>11. f \in k + 1 .. s - 1 \/ f \in s .. hi \/ f \in hi + 1 .. Len(t)
  BY <1>4, <1>8, <1>9
<1> QED BY <1>2, <1>3, <1>7, <1>8, <1>10, <1>11

LEMMA ArgsStage ==
  ASSUME text' = text, ~ IsComment(text), pc' = "args",
         NEW cut \in Cuts(text), IsReading(text, cut), label' = NameAt(text, cut),
         command' = SubSeq(text, cut.first, cut.last), OperandsSoFar(Behind(text, cut))'
  PROVE  LineIsRead' /\ LinesAreParsed'
<1>1. text' = text /\ Behind(text', cut) = Behind(text, cut)
  OBVIOUS
<1>2. LineIsRead'
  BY <1>1 DEF LineIsRead
<1> QED BY <1>2, NotReturned

(* Behind the command there is the separator, and then the first operand.    *)
LEMMA FirstOperands ==
  ASSUME NEW t \in Text, NEW e, NEW hi \in 1 .. Len(t), e \in 1 .. hi - 1, t[e + 1] \in SEPARATORS,
         t[hi] \notin SPACES, \A i \in hi + 1 .. Len(t) : t[i] \in SPACES,
         args' = <<>>, buf' = SubSeq(t, e + 2, hi), NEW str, str = SubSeq(t, e + 1, Len(t))
  PROVE  OperandsSoFar(str)'
<1>1. Len(t) \in Nat
  BY EmptyText
<1>2. PICK a \in Int, b \in Int : a = e + 1 /\ b = Len(t)
  BY <1>1
<1>3. 1 <= a /\ a <= b + 1 /\ b <= Len(t) /\ a <= hi /\ hi <= b
  <2>1. hi \in Int /\ hi <= Len(t) /\ 1 <= e /\ e <= hi - 1
    BY <1>1
  <2> QED BY <1>1, <1>2, <2>1
<1>4. str = SubSeq(t, a, b)
  BY <1>2
<1>5. /\ str \in Text /\ Len(str) = (b - a) + 1
      /\ \A i \in a .. b : (i - a) + 1 \in 1 .. Len(str) /\ str[(i - a) + 1] = t[i]
      /\ \A i \in 1 .. Len(str) : (a + i) - 1 \in a .. b /\ str[i] = t[(a + i) - 1]
  <2>1. IsPart(str, t, a, b)
    BY <1>3, <1>4, PartHolds
  <2> QED BY <2>1 DEF IsPart
<1>6. PICK h \in Int : h = (hi - a) + 1
  OBVIOUS
<1>7. h \in 1 .. Len(str) /\ str[h] \notin SPACES /\ h >= 1
  <2>1. hi \in a .. b
    BY <1>3
  <2>2. (hi - a) + 1 \in 1 .. Len(str) /\ str[(hi - a) + 1] = t[hi]
    BY <1>5, <2>1
  <2> QED BY <1>3, <1>6, <2>2
<1>8. ASSUME NEW i \in h + 1 .. Len(str) PROVE str[i] \in SPACES
  <2>1. i \in 1 .. Len(str) /\ (a + i) - 1 \in hi + 1 .. Len(t)
    BY <1>2, <1>3, <1>5, <1>6, <1>7
  <2> QED BY <1>5, <2>1
<1>9. ~ Blank(str) /\ Max(Inner(str)) = h
  BY <1>5, <1>7, <1>8, LastInner
<1>10. str[1] # COMMA /\ 1 \in 1 .. Len(str)
  <2>1. a \in a .. b /\ (a - a) + 1 = 1
    BY <1>3
  <2>2. str[1] = t[a] /\ 1 \in 1 .. Len(str)
    BY <1>5, <2>1
  <2> QED BY <1>2, <2>2, SeparatorsAreSpaces
<1>11. Rest(str, 1 + 1) = SubSeq(t, e + 2, hi)
  <2>1. PICK c \in Int : c = 2
    OBVIOUS
  <2>2. 1 <= c /\ c <= h + 1 /\ h <= (b - a) + 1
    <3>1. h >= 1
      BY <1>7
    <3> QED BY <1>3, <1>6, <2>1, <3>1
  <2>3. SubSeq(SubSeq(t, a, b), c, h) = SubSeq(t, (a + c) - 1, (a + h) - 1)
    BY <1>3, <2>2, PartOfPart
  <2>4. (a + c) - 1 = e + 2 /\ (a + h) - 1 = hi /\ 1 + 1 = c
    BY <1>2, <1>6, <2>1
  <2> QED BY <1>4, <1>9, <2>3, <2>4 DEF Rest
<1>12. Cardinality({i \in 1 .. 1 : str[i] = COMMA}) = 0
  <2>1. {i \in 1 .. 1 : str[i] = COMMA} = {}
    BY <1>10
  <2> QED BY <2>1, FS_EmptySet
<1>13. args' = <<>> /\ Len(args') = 0 /\ DOMAIN args' = {}
  OBVIOUS
<1>14. OperandsUpTo(str, 1)'
  <2>1. 1 <= Max(Inner(str)) /\ buf' = Rest(str, 1 + 1)
    BY <1>7, <1>9, <1>11
  <2>2. Cardinality({i \in 1 .. 1 : str[i] = COMMA}) = Len(args')
    BY <1>12, <1>13
  <2> QED BY <2>1, <2>2 DEF OperandsUpTo
<1>15. buf' # NULL
  <2>1. PICK c \in Int : c = e + 2
    BY <1>2
  <2>2. 1 <= c /\ c <= hi + 1 /\ hi <= Len(t) /\ hi \in Int
    BY <1>1, <1>2, <1>3, <2>1
  <2>3. SubSeq(t, c, hi) \in Text
    BY <2>2, PartOfText
  <2> QED BY <2>1, <2>3, StringsAreTexts
<1>16. DOMAIN str = 1 .. Len(str)
  BY <1>5 DEF Text
<1> QED BY <1>9, <1>10, <1>13, <1>14, <1>15, <1>16 DEF OperandsSoFar

LEMMA CommandParses ==
  ASSUME TypeOK, BuffersFit, LineIsRead, ParseCommand
  PROVE  LineIsRead' /\ LinesAreParsed'
<1>1. /\ pc = "command" /\ text \in Text /\ ~ IsComment(text) /\ buf \in Text
      /\ args = <<>> /\ args' = <<>> /\ label' = label /\ command = <<>>
  BY DEF ParseCommand, LineIsRead, TypeOK, BuffersFit
<1>2. PICK cut \in Cuts(text) : /\ IsLabelled(text, cut) /\ label = NameAt(text, cut)
                                /\ buf = Rest(text, Start(text, cut))
  BY <1>1 DEF LineIsRead
<1>3. PICK t : t = text
  OBVIOUS
<1>4. t \in Text /\ ~ Blank(t) /\ cut \in Cuts(t) /\ IsLabelled(t, cut)
  BY <1>1, <1>2, <1>3 DEF IsComment
<1>5. PICK s, hi : s = Start(t, cut) /\ hi = Max(Inner(t))
  OBVIOUS
<1>6. buf = SubSeq(t, s, hi)
  BY <1>2, <1>3, <1>5 DEF Rest
<1>7. hi \in 1 .. Len(t) /\ s \in 1 .. hi + 1 /\ Len(t) \in Nat
  BY <1>4, <1>5, StartOf, EmptyText
<1>8. PICK split : split = splitString(removeLeadingSpaces(buf), SEPARATORS)
  OBVIOUS
<1>9. IF checkForEmptyLine(buf) = 0 THEN UNCHANGED command /\ Return("ERR_INVALID_COMMAND_FORMAT")
      ELSE IF split.token \in COMMANDS THEN command' = split.token /\ Goto("args", split.rest)
      ELSE UNCHANGED command /\ Return("ERR_INVALID_COMMAND_NAME")
  BY <1>8 DEF ParseCommand
<1>10. checkForEmptyLine(buf) = 0 <=> Blank(buf)
  BY <1>1, EmptyCheck
<1>11. CASE Blank(buf)
  <2>1. Readings(t) = {}
    BY <1>4, <1>5, <1>6, <1>11, NoCommand
  <2>2. Return("ERR_INVALID_COMMAND_FORMAT")
    BY <1>9, <1>10, <1>11
  <2> QED BY <1>1, <1>3, <2>1, <2>2, ReturnParses
<1>12. CASE ~ Blank(buf)
  <2>1. PICK f, e : /\ IsToken(t, s, hi, f, e) /\ split.token = SubSeq(t, f, e)
                    /\ split.rest = IF e = hi THEN NULL ELSE SubSeq(t, e + 2, hi)
    <3>1. \E f, e : FoundToken(split, t, s, hi, f, e)
      BY <1>4, <1>5, <1>6, <1>7, <1>8, <1>12, TokenFound
    <3> QED BY <3>1 DEF FoundToken
  <2>2. CASE split.token \notin COMMANDS
    <3>1. ASSUME NEW c \in Cuts(t), IsReading(t, c) PROVE FALSE
      <4>1. c.first = f /\ c.last = e
        BY <1>4, <1>5, <2>1, <3>1, ReadingHasToken
      <4>2. SubSeq(t, c.first, c.last) \in COMMANDS
        BY <3>1 DEF IsReading
      <4> QED BY <2>1, <2>2, <4>1, <4>2
    <3>2. Readings(t) = {}
      BY <1>4, <3>1, NoReading
    <3>3. Return("ERR_INVALID_COMMAND_NAME")
      BY <1>9, <1>10, <1>12, <2>2
    <3> QED BY <1>1, <1>3, <3>2, <3>3, ReturnParses
  <2>3. CASE split.token \in COMMANDS
    <3>1. PICK c : c = [from |-> cut.from, colon |-> cut.colon, first |-> f, last |-> e]
      OBVIOUS
    <3>2. SubSeq(t, f, e) \in COMMANDS
      BY <2>1, <2>3
    <3>3. c \in Cuts(t) /\ IsReading(t, c) /\ NameAt(t, c) = NameAt(t, cut)
      BY <1>4, <1>5, <2>1, <3>1, <3>2, TokenIsReading
    <3>4. Blank(Behind(t, c)) <=> e = hi
      BY <1>4, <1>5, <2>1, <3>1, <3>2, TokenIsReading
    <3>5. c.first = f /\ c.last = e
      BY <3>1
    <3>6. command' = SubSeq(t, c.first, c.last) /\ label' = NameAt(t, c)
      BY <1>1, <1>2, <1>3, <1>9, <1>10, <1>12, <2>1, <2>3, <3>3, <3>5
    <3>7. pc' = "args" /\ text' = text /\ buf' = split.rest
      BY <1>9, <1>10, <1>12, <2>3 DEF Goto
    <3>8. PICK str : str = Behind(t, c)
      OBVIOUS
    <3>9. str = SubSeq(t, e + 1, Len(t))
      BY <3>5, <3>8 DEF Behind
    <3>10. OperandsSoFar(str)'
      <4>1. CASE e = hi
        <5>1. Blank(str) /\ buf' = NULL
          BY <2>1, <3>4, <3>7, <3>8, <4>1
        <5> QED BY <1>1, <5>1 DEF OperandsSoFar
      <4>2. CASE e # hi
        <5>1. /\ t[hi] \notin SPACES /\ \A i \in hi + 1 .. Len(t) : t[i] \in SPACES
          BY <1>4, <1>5, InnerOf
        <5>2. t[e + 1] \in SEPARATORS /\ e \in 1 .. hi - 1
          BY <1>7, <2>1, <4>2 DEF IsToken
        <5>3. buf' = SubSeq(t, e + 2, hi)
          BY <2>1, <3>7, <4>2
        <5> QED BY <1>1, <1>4, <1>7, <3>9, <5>1, <5>2, <5>3, FirstOperands
      <4> QED BY <4>1, <4>2
    <3>11. OperandsSoFar(Behind(text, c))'
      BY <1>3, <3>7, <3>8, <3>10
    <3> QED BY <1>1, <1>3, <3>3, <3>6, <3>7, <3>11, ArgsStage
  <2> QED BY <2>2, <2>3
<1> QED BY <1>11, <1>12

(* The buffer holds what is behind the first operands. *)
LEMMA UpToReached ==
  ASSUME NEW str \in Text, NEW r \in 1 .. Len(str), NEW n \in Nat,
         Cardinality({i \in 1 .. r : str[i] = COMMA}) = n,
         str[r] = COMMA \/ (r = 1 /\ str[r] \in SPACES)
  PROVE  Reached(str, r, n)
<1>1. Len(str) \in Nat
  BY EmptyText
<1>2. {c \in Commas(str) : c < r + 1} = {i \in 1 .. r : str[i] = COMMA}
  BY <1>1 DEF Commas
<1> QED BY <1>2 DEF Reached, Before

LEMMA ReachedUpTo ==
  ASSUME NEW str \in Text, NEW r, NEW n, Reached(str, r, n)
  PROVE  Cardinality({i \in 1 .. r : str[i] = COMMA}) = n /\ (r = 1 \/ str[r] = COMMA)
<1>1. Len(str) \in Nat /\ r \in 1 .. Len(str)
  BY EmptyText DEF Reached
<1>2. {c \in Commas(str) : c < r + 1} = {i \in 1 .. r : str[i] = COMMA}
  BY <1>1 DEF Commas
<1> QED BY <1>2 DEF Reached, Before

LEMMA BehindIs ==
  ASSUME NEW t \in Text, NEW c \in Cuts(t), IsReading(t, c), NEW str, str = Behind(t, c)
  PROVE  str \in Text /\ (~ Blank(str) => str[1] \in SPACES)
<1>1. c.last \in 1 .. Len(t) /\ Len(t) \in Nat
  BY CutOf
<1>2. PICK a \in Int, b \in Int : a = c.last + 1 /\ b = Len(t)
  BY <1>1
<1>3. 1 <= a /\ a <= b + 1 /\ b <= Len(t) /\ str = SubSeq(t, a, b)
  BY <1>1, <1>2 DEF Behind
<1>4. IsPart(str, t, a, b)
  BY <1>3, PartHolds
<1>5. str \in Text
  BY <1>4 DEF IsPart
<1>6. ASSUME ~ Blank(str) PROVE str[1] \in SPACES
  <2>1. c.last < Len(t) /\ t[c.last + 1] \in SEPARATORS
    BY <1>6, ReadingAt
  <2>2. a \in a .. b /\ (a - a) + 1 = 1
    BY <1>1, <1>2, <2>1
  <2>3. str[(a - a) + 1] = t[a]
    BY <1>4, <2>2 DEF IsPart
  <2> QED BY <1>2, <2>1, <2>2, <2>3, SeparatorsAreSpaces
<1> QED BY <1>5, <1>6

LEMMA MoreOperands ==
  ASSUME NEW str \in Text, ~ Blank(str), args \in Seq(Text), NEW token, args' = Append(args, token),
         \A i \in DOMAIN args : args[i] = Pieces(str)[i], token = Pieces(str)[Len(args) + 1],
         \/ buf' = NULL /\ Len(args) + 1 = Len(Pieces(str))
         \/ /\ buf' # NULL
            /\ \E r : /\ Reached(str, r, Len(args) + 1) /\ r <= Max(Inner(str))
                      /\ buf' = SubSeq(str, r + 1, Max(Inner(str)))
  PROVE  OperandsSoFar(str)'
<1>1. args \in Seq(Text \cup {token}) /\ Len(args) \in Nat /\ DOMAIN args = 1 .. Len(args)
  <2>1. Seq(Text) \subseteq Seq(Text \cup {token})
    BY SeqMonotonic
  <2> QED BY <2>1
<1>2. /\ Len(args') = Len(args) + 1 /\ DOMAIN args' = 1 .. Len(args) + 1
      /\ args'[Len(args) + 1] = token /\ \A i \in 1 .. Len(args) : args'[i] = args[i]
  BY <1>1, AppendProperties
<1>3. \A i \in DOMAIN args' : args'[i] = Pieces(str)[i]
  <2>1. ASSUME NEW i \in 1 .. Len(args) + 1 PROVE args'[i] = Pieces(str)[i]
    <3>1. i \in 1 .. Len(args) \/ i = Len(args) + 1
      BY <1>1
    <3> QED BY <1>1, <1>2, <3>1
  <2> QED BY <1>2, <2>1
<1>4. CASE buf' = NULL
  <2>1. Len(args') = Len(Pieces(str))
    BY <1>2, <1>4
  <2> QED BY <1>3, <1>4, <2>1 DEF OperandsSoFar
<1>5. CASE buf' # NULL
  <2>1. PICK r : /\ Reached(str, r, Len(args) + 1) /\ r <= Max(Inner(str))
                 /\ buf' = SubSeq(str, r + 1, Max(Inner(str)))
    BY <1>5
  <2>2. Cardinality({i \in 1 .. r : str[i] = COMMA}) = Len(args') /\ (r = 1 \/ str[r] = COMMA)
    BY <1>2, <2>1, ReachedUpTo
  <2>3. buf' = Rest(str, r + 1)
    BY <2>1 DEF Rest
  <2>4. OperandsUpTo(str, r)'
    BY <2>1, <2>2, <2>3 DEF OperandsUpTo
  <2>5. r \in DOMAIN str
    BY <2>1 DEF Reached, Text
  <2> QED BY <1>3, <1>5, <2>4, <2>5 DEF OperandsSoFar
<1> QED BY <1>4, <1>5

LEMMA ArgumentParses ==
  ASSUME TypeOK, BuffersFit, LineIsRead, ParseArgument
  PROVE  LineIsRead' /\ LinesAreParsed'
<1>1. /\ pc = "args" /\ text \in Text /\ ~ IsComment(text) /\ buf # NULL
      /\ args \in Seq(Text) /\ label' = label /\ command' = command
  BY DEF ParseArgument, LineIsRead, TypeOK
<1>2. PICK cut \in Cuts(text) : /\ IsReading(text, cut) /\ label = NameAt(text, cut)
                                /\ command = SubSeq(text, cut.first, cut.last)
                                /\ OperandsSoFar(Behind(text, cut))
  BY <1>1 DEF LineIsRead
<1>3. PICK str : str = Behind(text, cut)
  OBVIOUS
<1>4. str \in Text /\ (~ Blank(str) => str[1] \in SPACES)
  BY <1>1, <1>2, <1>3, BehindIs
<1>5. /\ ~ Blank(str) /\ \A i \in DOMAIN args : args[i] = Pieces(str)[i]
      /\ \E comma \in DOMAIN str : OperandsUpTo(str, comma)
  BY <1>1, <1>2, <1>3 DEF OperandsSoFar
<1>6. PICK r \in DOMAIN str : OperandsUpTo(str, r)
  BY <1>5
<1>7. PICK n \in Nat : n = Len(args)
  BY <1>1
<1>8. PICK h : h = Max(Inner(str))
  OBVIOUS
<1>9. /\ r = 1 \/ str[r] = COMMA
      /\ r <= h /\ buf = SubSeq(str, r + 1, h)
      /\ Cardinality({i \in 1 .. r : str[i] = COMMA}) = n
  BY <1>6, <1>7, <1>8 DEF OperandsUpTo, Rest
<1>10. r \in 1 .. Len(str)
  BY <1>4, <1>6 DEF Text
<1>11. Reached(str, r, n)
  <2>1. str[r] = COMMA \/ (r = 1 /\ str[r] \in SPACES)
    BY <1>4, <1>5, <1>9
  <2> QED BY <1>4, <1>9, <1>10, <2>1, UpToReached
<1>12. PICK line, operand :
         /\ line = removeLeadingAndTrailingSpaces(buf) /\ operand = handleToken(line)
         /\ args' = Append(args, operand.token) /\ Goto("args", operand.rest)
  BY DEF ParseArgument
<1>13. operand = handleToken(removeLeadingAndTrailingSpaces(SubSeq(str, r + 1, h)))
  BY <1>9, <1>12
<1>14. pc' = "args" /\ text' = text /\ buf' = operand.rest
  BY <1>12 DEF Goto
<1>15. OperandsSoFar(str)'
  <2>1. CASE \A i \in r + 1 .. h : str[i] # COMMA
    <3>1. operand.token = Pieces(str)[n + 1] /\ operand.rest = NULL /\ n + 1 = Len(Pieces(str))
      BY <1>4, <1>5, <1>8, <1>9, <1>11, <1>13, <2>1, LastOperand
    <3> QED BY <1>1, <1>4, <1>5, <1>7, <1>12, <1>14, <3>1, MoreOperands
  <2>2. CASE \E i \in r + 1 .. h : str[i] = COMMA
    <3>1. operand.token = Pieces(str)[n + 1] /\ operand.rest # NULL
      BY <1>4, <1>5, <1>8, <1>9, <1>11, <1>13, <2>2, NextOperand
    <3>2. PICK m \in r + 1 .. h : Reached(str, m, n + 1) /\ operand.rest = SubSeq(str, m + 1, h)
      BY <1>4, <1>5, <1>8, <1>9, <1>11, <1>13, <2>2, NextOperand, SMTT(30)
    <3>3. m <= h
      BY <1>9, <1>10, <3>2, EmptyText
    <3> QED BY <1>1, <1>4, <1>5, <1>7, <1>8, <1>12, <1>14, <3>1, <3>2, <3>3, MoreOperands
  <2> QED BY <2>1, <2>2
<1>16. label' = NameAt(text, cut) /\ command' = SubSeq(text, cut.first, cut.last)
  BY <1>1, <1>2
<1>17. OperandsSoFar(Behind(text, cut))'
  BY <1>3, <1>14, <1>15
<1> QED BY <1>1, <1>2, <1>14, <1>16, <1>17, ArgsStage

LEMMA EndParses ==
  ASSUME TypeOK, BuffersFit, LineIsRead, ParseEnd
  PROVE  LineIsRead' /\ LinesAreParsed'
<1>1. /\ pc = "args" /\ text \in Text /\ ~ IsComment(text) /\ buf = NULL
      /\ args \in Seq(Text) /\ label' = label /\ command' = command /\ args' = args
      /\ Return("SUCCESS")
  BY DEF ParseEnd, LineIsRead, TypeOK, lineVars
<1>2. PICK cut \in Cuts(text) : /\ IsReading(text, cut) /\ label = NameAt(text, cut)
                                /\ command = SubSeq(text, cut.first, cut.last)
                                /\ OperandsSoFar(Behind(text, cut))
  BY <1>1 DEF LineIsRead
<1>3. PICK str : str = Behind(text, cut)
  OBVIOUS
<1>4. str \in Text
  BY <1>1, <1>2, <1>3, BehindIs
<1>5. args = IF Blank(str) THEN <<>> ELSE Pieces(str)
  <2>1. CASE Blank(str)
    BY <1>2, <1>3, <2>1 DEF OperandsSoFar
  <2>2. CASE ~ Blank(str)
    <3>1. /\ \A i \in DOMAIN args : args[i] = Pieces(str)[i]
          /\ Len(args) = Len(Pieces(str))
      BY <1>1, <1>2, <1>3, <2>2 DEF OperandsSoFar
    <3>2. PICK n \in Nat : n = Cardinality(Commas(str)) + 1
      <4>1. Cardinality(Commas(str)) \in Nat
        BY <1>4, BeforeIs
      <4> QED BY <4>1
    <3>3. PICK f : f = Pieces(str)
      OBVIOUS
    <3>4. Len(args) = n
      BY <1>4, <3>1, <3>2, PiecesAre
    <3>5. args = [i \in 1 .. n |-> args[i]]
      BY <1>1, <3>4
    <3>6. f = [i \in 1 .. n |-> f[i]]
      BY <1>4, <3>2, <3>3, PiecesAreFunction
    <3>7. \A i \in 1 .. n : args[i] = f[i]
      BY <1>1, <3>1, <3>3, <3>4
    <3>8. args = f
      BY <3>5, <3>6, <3>7, Zenon
    <3> QED BY <2>2, <3>3, <3>8
  <2> QED BY <2>1, <2>2
<1>6. ~ Blank(text)
  BY <1>1 DEF IsComment
<1>7. Readings(text) = {Reading(text, cut)}
  BY <1>1, <1>2, <1>6, OneReading
<1>8. ASSUME ~ HasCommaInString(text)
      PROVE  Reading(text, cut) = [label |-> label', command |-> command', args |-> args']
  <2>1. Fields(Behind(text, cut)) = Pieces(Behind(text, cut))
    BY <1>1, <1>2, <1>8, WholeStrings
  <2> QED BY <1>1, <1>2, <1>3, <1>5, <2>1 DEF Reading
<1>9. ~ HasCommaInString(text) =>
        Readings(text) = {[label |-> label', command |-> command', args |-> args']}
  BY <1>7, <1>8
<1> QED BY <1>1, <1>9, ReturnParses

(* The other steps neither read a line nor finish one. *)
LEMMA ReadingStays ==
  ASSUME LineIsRead, LinesAreParsed, UNCHANGED <<pc, text, buf, lineVars, results>>
  PROVE  LineIsRead' /\ LinesAreParsed'
<1>1. /\ pc' = pc /\ text' = text /\ buf' = buf /\ results' = results
      /\ label' = label /\ command' = command /\ args' = args
  BY DEF lineVars
<1>2. \A str : OperandsSoFar(str)' = OperandsSoFar(str)
  BY <1>1 DEF OperandsSoFar, OperandsUpTo
<1>3. LineIsRead'
  <2>1. pc = "args" =>
          \E cut \in Cuts(text) : /\ IsReading(text, cut) /\ label = NameAt(text, cut)
                                  /\ command = SubSeq(text, cut.first, cut.last)
                                  /\ OperandsSoFar(Behind(text, cut))
    BY DEF LineIsRead
  <2>2. pc' = "args" =>
          \E cut \in Cuts(text') : /\ IsReading(text', cut) /\ label' = NameAt(text', cut)
                                   /\ command' = SubSeq(text', cut.first, cut.last)
                                   /\ OperandsSoFar(Behind(text, cut))'
    <3>1. ASSUME NEW cut PROVE OperandsSoFar(Behind(text, cut))' = OperandsSoFar(Behind(text, cut))
      BY <1>1 DEF OperandsSoFar, OperandsUpTo
    <3> QED BY <1>1, <2>1, <3>1
  <2> QED BY <1>1, <2>2 DEF LineIsRead
<1>4. LinesAreParsed'
  BY <1>1 DEF LinesAreParsed, Returned, Latest
<1> QED BY <1>3, <1>4

LEMMA ReadingNext ==
  ASSUME TypeOK, LineIsRead, LinesAreParsed, ReadLine \/ ReadEnd \/ SkipChunk
  PROVE  LineIsRead' /\ LinesAreParsed'
<1>1. CASE ReadLine
  <2>1. command' = <<>> /\ (pc' = "skip" \/ (pc' = "parse" /\ buf' = text'))
    BY <1>1 DEF ReadLine, NewLine
  <2> QED BY <2>1, NotReturned DEF LineIsRead
<1>2. CASE ReadEnd
  <2>1. Return("ERR_EOF")
    BY <1>2 DEF ReadEnd
  <2> QED BY <2>1, ReturnParses
<1>3. CASE SkipChunk
  <2>1. Return("LINE_TOO_LONG") \/ pc' = "skip"
    BY <1>3 DEF SkipChunk
  <2>2. CASE Return("LINE_TOO_LONG")
    BY <2>2, ReturnParses
  <2>3. CASE pc' = "skip"
    BY <2>3, NotReturned DEF LineIsRead
  <2> QED BY <2>1, <2>2, <2>3
<1> QED BY <1>1, <1>2, <1>3

LEMMA InitReads == Init => LineIsRead /\ LinesAreParsed
BY DEF Init, LineIsRead, LinesAreParsed, Returned

LEMMA NextReads ==
  TypeOK /\ BuffersFit /\ LineIsRead /\ LinesAreParsed /\ [Next]_vars
    => LineIsRead' /\ LinesAreParsed'
<1>1. SUFFICES ASSUME TypeOK, BuffersFit, LineIsRead, LinesAreParsed, [Next]_vars
               PROVE  LineIsRead' /\ LinesAreParsed'
  OBVIOUS
<1>2. CASE ReadLine \/ ReadEnd \/ SkipChunk
  BY <1>1, <1>2, ReadingNext
<1>3. CASE ParseStart
  BY <1>1, <1>3, StartParses
<1>4. CASE ParseLabel
  BY <1>1, <1>4, LabelParses
<1>5. CASE ParseCommand
  BY <1>1, <1>5, CommandParses
<1>6. CASE ParseArgument
  BY <1>1, <1>6, ArgumentParses
<1>7. CASE ParseEnd
  BY <1>1, <1>7, EndParses
<1>8. CASE Break
  BY <1>1, <1>8, ReadingStays DEF Break
<1>9. CASE UNCHANGED vars
  BY <1>1, <1>9, ReadingStays DEF vars
<1> QED BY <1>1, <1>2, <1>3, <1>4, <1>5, <1>6, <1>7, <1>8, <1>9 DEF Next, Step, Terminated

-----------------------------------------------------------------------------
(***************************************************************************)
(* From the lines that the code comes to, to the lines of the file.        *)
(***************************************************************************)
LEMMA NoSkipTooFar ==
  ASSUME file \in Text, NEW e \in Ends, \A d \in Ends : d < e => SkipEndsWith(d)
  PROVE  ~ Swallowed(e)
<1>1. SUFFICES ASSUME NEW d \in Ends, d < e, ~ Fits(d),
                      \A c \in Ends : d <= c /\ c < e => EndsFull(c)
               PROVE  FALSE
  BY DEF Swallowed
<1>2. d <= d
  BY EndsOfLines
<1>3. EndsFull(d)
  BY <1>1, <1>2
<1> QED BY <1>1, <1>3 DEF SkipEndsWith

LEMMA NumberedAsDelivered ==
  ASSUME file \in Text, NEW e \in Ends, \A d \in Ends : d < e => SkipEndsWith(d)
  PROVE  e \in Delivered /\ DeliveredTo(e) = NumberOf(e)
<1>1. /\ Len(file) \in Nat
      /\ \A d \in Ends : d \in Nat /\ 1 <= d /\ d <= Len(file)
  BY EndsOfLines
<1>2. \A c \in Ends : c <= e => ~ Swallowed(c)
  <2>1. ASSUME NEW c \in Ends, c <= e PROVE ~ Swallowed(c)
    <3>1. \A d \in Ends : d < c => SkipEndsWith(d)
      BY <1>1, <2>1
    <3> QED BY <3>1, NoSkipTooFar
  <2> QED BY <2>1
<1>3. e <= e
  BY <1>1
<1>4. {d \in Delivered : d <= e} = {d \in Ends : d <= e}
  BY <1>2 DEF Delivered
<1> QED BY <1>2, <1>3, <1>4 DEF Delivered, DeliveredTo, NumberOf

LEMMA DeliveredAsTheyAre == TypeOK /\ ResultsAreDelivered => LinesAreDelivered
<1>1. SUFFICES ASSUME TypeOK, ResultsAreDelivered, Returned PROVE LinesAreDelivered
  BY DEF LinesAreDelivered
<1>2. file \in Text
  BY <1>1, FileIsText
<1>3. ASSUME NEW e \in Ends, NumberOf(e) = Len(results), Latest.error # "ERR_EOF",
             \A d \in Ends : d < e => SkipEndsWith(d)
      PROVE  /\ Fits(e) => Latest.text = Line(e) /\ Latest.error # "LINE_TOO_LONG"
             /\ Len(Line(e)) > MAX_LINE_LENGTH => Latest.error = "LINE_TOO_LONG"
  <2>1. IF Fits(e) THEN Latest.text = Line(e) /\ Latest.error # "LINE_TOO_LONG"
        ELSE Latest.error = "LINE_TOO_LONG"
    BY <1>1, <1>2, <1>3, NumberedAsDelivered DEF ResultsAreDelivered
  <2>2. Len(Line(e)) > MAX_LINE_LENGTH => ~ Fits(e)
    <3>1. Len(Line(e)) \in Nat
      BY <1>2, LineOf, EmptyText
    <3> QED BY <3>1, ReaderAssumption DEF Fits, MAX_LINE_LENGTH
  <2> QED BY <2>1, <2>2
<1>4. Latest.error = "ERR_EOF" <=> pc = "done"
  BY <1>1 DEF ResultsAreDelivered
<1>5. ASSUME pc = "done", ~ broken, \A d \in Ends : SkipEndsWith(d)
      PROVE  Len(results) = Cardinality(Ends) + 1
  <2>1. \A e \in Ends : ~ Swallowed(e)
    BY <1>2, <1>5, NoSkipTooFar
  <2>2. Delivered = Ends
    BY <2>1 DEF Delivered
  <2> QED BY <1>1, <1>5, <2>2 DEF ResultsAreDelivered
<1> QED BY <1>3, <1>4, <1>5 DEF LinesAreDelivered

-----------------------------------------------------------------------------
(* A line with its terminator fits into the buffer of parseLine and a label  *)
(* into the struct, whatever the file holds; and the fields have their types.*)
THEOREM ReaderTypes == Spec => []TypeOK
<1>1. Init => TypeOK /\ BuffersFit
  BY InitTypes
<1>2. TypeOK /\ BuffersFit /\ [Next]_vars => TypeOK' /\ BuffersFit'
  BY NextTypes
<1> QED BY <1>1, <1>2, PTL DEF Spec

(* At every stage of readline and parseLine it is known which line of the    *)
(* file is at hand, what of it fits the buffer, and how far it was read: the *)
(* inductive invariant.                                                      *)
THEOREM ReaderKeepsItsPlace == Spec => []ReaderInvariant
<1>1. Init => TypeOK /\ BuffersFit /\ LinesAreInOrder /\ ResultsAreDelivered
  BY InitTypes, InitInOrder
<1>2. TypeOK /\ BuffersFit /\ LinesAreInOrder /\ ResultsAreDelivered /\ [Next]_vars
        => TypeOK' /\ BuffersFit' /\ LinesAreInOrder' /\ ResultsAreDelivered'
  BY NextTypes, NextInOrder
<1>3. Init => LineIsRead /\ LinesAreParsed
  BY InitReads
<1>4. TypeOK /\ BuffersFit /\ LineIsRead /\ LinesAreParsed /\ [Next]_vars
        => LineIsRead' /\ LinesAreParsed'
  BY NextReads
<1>5. BuffersFit /\ LinesAreInOrder /\ LineIsRead => ReaderInvariant
  BY DEF ReaderInvariant
<1> QED BY <1>1, <1>2, <1>3, <1>4, <1>5, PTL DEF Spec

(* In the order of the file every line that fits is given to parseLine as it *)
(* is and every line above MAX_LINE_LENGTH is reported, as long as no skip   *)
(* in front of it ran into the next line.                                    *)
THEOREM LinesReachTheParser == Spec => []LinesAreDelivered
<1>1. Init => TypeOK /\ BuffersFit /\ LinesAreInOrder /\ ResultsAreDelivered
  BY InitTypes, InitInOrder
<1>2. TypeOK /\ BuffersFit /\ LinesAreInOrder /\ ResultsAreDelivered /\ [Next]_vars
        => TypeOK' /\ BuffersFit' /\ LinesAreInOrder' /\ ResultsAreDelivered'
  BY NextTypes, NextInOrder
<1>3. TypeOK /\ ResultsAreDelivered => LinesAreDelivered
  BY DeliveredAsTheyAre
<1> QED BY <1>1, <1>2, <1>3, PTL DEF Spec

(* parseLine accepts a line without a comma in a string exactly if it has a  *)
(* reading as a label, a command and operands, and fills the struct with it, *)
(* whatever its stages left in the buffer; the reading is the only one.      *)
THEOREM LinesAreReadRight == Spec => []LinesAreParsed
<1>1. Init => TypeOK /\ BuffersFit /\ LineIsRead /\ LinesAreParsed
  BY InitTypes, InitReads
<1>2. TypeOK /\ BuffersFit /\ LineIsRead /\ LinesAreParsed /\ [Next]_vars
        => TypeOK' /\ BuffersFit' /\ LineIsRead' /\ LinesAreParsed'
  BY NextTypes, NextReads
<1> QED BY <1>1, <1>2, PTL DEF Spec
=============================================================================
