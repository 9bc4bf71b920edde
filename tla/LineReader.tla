----------------------------- MODULE LineReader -----------------------------
(***************************************************************************)
(* The text of a source file on its way into AssemblyLine structs: readline*)
(* and the string functions of str_utils.c, and parseLine with what it     *)
(* calls (assembly_line.c), as the loop of firstPass drives them.          *)
(*                                                                         *)
(*   read     readline fetches a chunk of the file                         *)
(*   skip     the rest of a too long line is fetched in chunks             *)
(*   parse, label, command, args   the stages of parseLine                 *)
(*   done     the end of the file was reported                             *)
(*                                                                         *)
(* Text is a sequence of characters without NUL.  The allocations of the   *)
(* operands are those of TwoPass; here they succeed.                       *)
(***************************************************************************)
EXTENDS Integers, Sequences, SequencesExt

CONSTANTS
  CHARACTERS,
  Files,       \* the contents a source file may have
  BUFFER_SIZE, \* of the buffer of parseLine, 81
  LETTERS, DIGITS,
  SPACES,      \* what isspace holds of
  SEPARATORS,  \* what ends a command: a space or a tab
  COMMANDS,    \* the commands, and the directives with their dot
  RESERVED,    \* the names that cannot be labels
  MAX_LABEL,   \* the length of the longest label, 31
  NULL

NEWLINE == "\n"
COMMENT_CHAR == ";"
COMMA == ","
QUOTE == "\""

MAX_LINE_LENGTH == BUFFER_SIZE - 1

Text == Seq(CHARACTERS)

ASSUME ReaderAssumption ==
  /\ Files \subseteq Text /\ COMMANDS \subseteq Text /\ NULL \notin Text
  /\ BUFFER_SIZE \in Nat /\ BUFFER_SIZE > 2 /\ MAX_LABEL \in Nat
  /\ SEPARATORS \subseteq SPACES /\ NEWLINE \in SPACES \ SEPARATORS
  /\ {":", COMMA, COMMENT_CHAR} \cap (LETTERS \cup DIGITS \cup SPACES) = {}
  /\ (LETTERS \cup DIGITS) \cap SPACES = {}
  /\ \A name \in COMMANDS : name # <<>> /\ Range(name) \cap SPACES = {}

VARIABLES
  file,    \* what the file holds
  at,      \* how many of its characters were fetched
  broken,  \* reading it fails from now on
  pc,
  text,    \* the line that is parsed, as readline left it (history)
  buf,     \* *buf of parseLine: what is not parsed yet, or NULL
  label, command, args,  \* the fields of the AssemblyLine
  results  \* what parseLine returned for each line (history)

fileVars == <<file, broken>>
lineVars == <<label, command, args>>
vars == <<fileVars, at, pc, text, buf, lineVars, results>>

-----------------------------------------------------------------------------
(***************************************************************************)
(* str_utils.c.                                                            *)
(***************************************************************************)
IsSpace(c) == c \in SPACES
NotSpace(c) == ~ IsSpace(c)

removeLeadingSpaces(str) ==
  LET first == SelectInSeq(str, NotSpace)
  IN  IF first = 0 THEN <<>> ELSE SubSeq(str, first, Len(str))

(* The first character stays even if it is a space. *)
removeTrailingSpaces(str) ==
  LET last == SelectLastInSeq(str, NotSpace)
  IN  IF str = <<>> THEN str ELSE SubSeq(str, 1, IF last = 0 THEN 1 ELSE last)

removeLeadingAndTrailingSpaces(str) == removeTrailingSpaces(removeLeadingSpaces(str))

(* The positions of the characters that are left. *)
removeAllSpaces(str) == {i \in DOMAIN str : NotSpace(str[i])}

checkForEmptyLine(str) == Cardinality(removeAllSpaces(str))

containsChar(str, c) == c \in Range(str)

(* A split at the last of the delimiters. *)
splitStringAtLast(str, delimiters) ==
  LET end == SelectLastInSeq(str, LAMBDA c : c \in delimiters)
  IN  IF end = 0 THEN [token |-> str, rest |-> NULL]
      ELSE [token |-> SubSeq(str, 1, end - 1), rest |-> SubSeq(str, end + 1, Len(str))]

(* The text before the first of the delimiters, and what is behind it. *)
splitString(str, delimiters) ==
  LET end == SelectInSeq(str, LAMBDA c : c \in delimiters)
  IN  IF end = 0 THEN [token |-> str, rest |-> NULL]
      ELSE [token |-> SubSeq(str, 1, end - 1), rest |-> SubSeq(str, end + 1, Len(str))]

isLetter(c) == c \in LETTERS

isOnlyLettersAndNumbers(str) == Range(str) \subseteq LETTERS \cup DIGITS

-----------------------------------------------------------------------------
(***************************************************************************)
(* readline.                                                               *)
(***************************************************************************)
FULL == BUFFER_SIZE - 1

(* fgets stops behind a newline, or when the buffer is full; nothing comes  *)
(* at the end of the file or when reading fails, and readline does not tell *)
(* the two apart.                                                           *)
fgets ==
  LET rest == SubSeq(file, at + 1, Len(file))
      newline == SelectInSeq(rest, LAMBDA c : c = NEWLINE)
      length == IF newline = 0 THEN Len(rest) ELSE newline
  IN  IF broken THEN <<>> ELSE SubSeq(rest, 1, IF length < FULL THEN length ELSE FULL)

EndsLine(chunk) == chunk # <<>> /\ Last(chunk) = NEWLINE

Init ==
  /\ file \in Files /\ at = 0 /\ broken = FALSE
  /\ pc = "read" /\ text = <<>> /\ buf = <<>>
  /\ label = <<>> /\ command = <<>> /\ args = <<>>
  /\ results = <<>>

(* parseLine returns; firstPass goes on with the next line, but not at the  *)
(* end of the file.                                                         *)
Return(error) ==
  /\ results' = Append(results, [error |-> error, text |-> text, label |-> label',
                                 command |-> command', args |-> args'])
  /\ pc' = IF error = "ERR_EOF" THEN "done" ELSE "read"
  /\ text' = <<>> /\ buf' = <<>>

(* The file cannot be read any further. *)
Break ==
  /\ pc # "done" /\ ~ broken
  /\ broken' = TRUE
  /\ UNCHANGED <<file, at, pc, text, buf, lineVars, results>>

NewLine == label' = <<>> /\ command' = <<>> /\ args' = <<>>

ReadLine ==
  /\ pc = "read" /\ fgets # <<>>
  /\ at' = at + Len(fgets)
  /\ NewLine
  /\ LET fetched == fgets
         line    == IF EndsLine(fetched) THEN Front(fetched) ELSE fetched
     IN  IF ~ EndsLine(fetched) /\ Len(fetched) = FULL
         THEN pc' = "skip" /\ UNCHANGED <<text, buf>>
         ELSE pc' = "parse" /\ text' = line /\ buf' = line
  /\ UNCHANGED <<fileVars, results>>

ReadEnd ==
  /\ pc = "read" /\ fgets = <<>>
  /\ NewLine
  /\ Return("ERR_EOF")
  /\ UNCHANGED <<fileVars, at>>

(* A skip of one chunk. *)
SkipOneChunk ==
  /\ pc = "skip"
  /\ at' = at + Len(fgets)
  /\ UNCHANGED <<fileVars, lineVars>>
  /\ Return("LINE_TOO_LONG")

(* A skip that does not end at the end of the file. *)
SkipChunkForever ==
  /\ pc = "skip"
  /\ at' = at + Len(fgets)
  /\ UNCHANGED <<fileVars, lineVars>>
  /\ IF Len(fgets) \in {0, FULL}
     THEN UNCHANGED <<pc, text, buf, results>>
     ELSE Return("LINE_TOO_LONG")

(* Chunks are fetched until one does not fill the buffer. *)
SkipChunk ==
  /\ pc = "skip"
  /\ at' = at + Len(fgets)
  /\ UNCHANGED <<fileVars, lineVars>>
  /\ IF Len(fgets) = FULL
     THEN UNCHANGED <<pc, text, buf, results>>
     ELSE Return("LINE_TOO_LONG")

-----------------------------------------------------------------------------
(***************************************************************************)
(* parseLine.                                                              *)
(***************************************************************************)
Goto(stage, rest) == pc' = stage /\ buf' = rest /\ UNCHANGED <<text, results>>

ParseStart ==
  /\ pc = "parse"
  /\ UNCHANGED <<fileVars, at, lineVars>>
  /\ LET line == removeLeadingAndTrailingSpaces(buf)
     IN  IF checkForEmptyLine(line) = 0 \/ Head(line) = COMMENT_CHAR
         THEN Return("SUCCESS")
         ELSE Goto("label", line)

(* A limit without room for the terminator. *)
LabelErrorLong(name) ==
  IF name \in RESERVED THEN "ERR_INVALID_LABEL_USING_RESERVED_NAME"
  ELSE IF Len(name) > MAX_LABEL + 1 THEN "ERR_LABEL_TOO_LONG"
  ELSE IF ~ isOnlyLettersAndNumbers(name) THEN "ERR_LABEL_WITH_BAD_CHARACTERS"
  ELSE IF name = <<>> \/ ~ isLetter(Head(name)) THEN "ERR_LABEL_MUST_START_WITH_LETTERS"
  ELSE "SUCCESS"

LabelError(name) ==
  IF name \in RESERVED THEN "ERR_INVALID_LABEL_USING_RESERVED_NAME"
  ELSE IF Len(name) > MAX_LABEL THEN "ERR_LABEL_TOO_LONG"
  ELSE IF ~ isOnlyLettersAndNumbers(name) THEN "ERR_LABEL_WITH_BAD_CHARACTERS"
  ELSE IF name = <<>> \/ ~ isLetter(Head(name)) THEN "ERR_LABEL_MUST_START_WITH_LETTERS"
  ELSE "SUCCESS"

ParseLabel ==
  /\ pc = "label"
  /\ UNCHANGED <<fileVars, at, command, args>>
  /\ LET split == splitString(buf, {":"})
         error == LabelError(split.token)
     IN  IF ~ containsChar(buf, ":")
         THEN label' = <<>> /\ Goto("command", buf)
         ELSE IF error = "SUCCESS"
         THEN label' = split.token /\ Goto("command", split.rest)
         ELSE UNCHANGED label /\ Return(error)

ParseCommand ==
  /\ pc = "command"
  /\ UNCHANGED <<fileVars, at, label, args>>
  /\ LET split == splitString(removeLeadingSpaces(buf), SEPARATORS)
     IN  IF checkForEmptyLine(buf) = 0
         THEN UNCHANGED command /\ Return("ERR_INVALID_COMMAND_FORMAT")
         ELSE IF split.token \in COMMANDS
         THEN command' = split.token /\ Goto("args", split.rest)
         ELSE UNCHANGED command /\ Return("ERR_INVALID_COMMAND_NAME")

(* handleToken: the text up to the next comma.  handleStringToken finds the *)
(* opening quote twice, so it moves nothing, and a comma between the quotes *)
(* ends the operand as well.                                                *)
handleToken(str) ==
  LET split == splitString(removeLeadingSpaces(str), {COMMA})
  IN  [split EXCEPT !.token = removeTrailingSpaces(@)]

(* One round of the loop of parseArgs. *)
ParseArgument ==
  /\ pc = "args" /\ buf # NULL
  /\ \E line \in {removeLeadingAndTrailingSpaces(buf)} :
       \E operand \in {handleToken(line)} :
         args' = Append(args, operand.token) /\ Goto("args", operand.rest)
  /\ UNCHANGED <<fileVars, at, label, command>>

ParseEnd ==
  /\ pc = "args" /\ buf = NULL
  /\ UNCHANGED <<fileVars, at, lineVars>>
  /\ Return("SUCCESS")

Terminated == pc = "done" /\ UNCHANGED vars

Step ==
  \/ ReadLine \/ ReadEnd \/ SkipChunk
  \/ ParseStart \/ ParseLabel \/ ParseCommand \/ ParseArgument \/ ParseEnd

Next == Step \/ Break \/ Terminated

(* One thread, which reads on; the file is finite. *)
Spec == Init /\ [][Next]_vars /\ WF_vars(Step)

-----------------------------------------------------------------------------

Stages == {"read", "skip", "parse", "label", "command", "args", "done"}

Errors ==
  {"SUCCESS", "LINE_TOO_LONG", "ERR_EOF", "ERR_INVALID_COMMAND_NAME",
   "ERR_INVALID_COMMAND_FORMAT", "ERR_INVALID_LABEL_USING_RESERVED_NAME",
   "ERR_LABEL_TOO_LONG", "ERR_LABEL_WITH_BAD_CHARACTERS",
   "ERR_LABEL_MUST_START_WITH_LETTERS"}

Outcome ==
  [error : Errors, text : Text, label : Text, command : Text, args : Seq(Text)]

(* The types, with the buffers of the code: a line with its terminator fits  *)
(* into buf, a label with its terminator into the label of the struct.       *)
TypeOK ==
  /\ file \in Files /\ at \in 0 .. Len(file) /\ broken \in BOOLEAN /\ pc \in Stages
  /\ text \in Text /\ Len(text) < BUFFER_SIZE
  /\ buf = NULL \/ (buf \in Text /\ Len(buf) < BUFFER_SIZE)
  /\ label \in Text /\ Len(label) <= MAX_LABEL /\ command \in COMMANDS \cup {<<>>}
  /\ args \in Seq(Text) /\ Len(args) < BUFFER_SIZE
  /\ results \in Seq(Outcome)

-----------------------------------------------------------------------------
(* parseLine has just returned; what it returned stays as it is after that.  *)
Returned == pc \in {"read", "done"} /\ results # <<>>
Latest == Last(results)

(***************************************************************************)
(* The lines of the file, by the newlines in it.                           *)
(***************************************************************************)
Newlines == {i \in DOMAIN file : file[i] = NEWLINE}

(* The positions at which lines end: newlines, and the end of a file whose   *)
(* last line has none.  A line is named by its end.                          *)
Ends == IF file = <<>> THEN {} ELSE Newlines \cup {Len(file)}

Begin(e) == Max({0} \cup {d \in Ends : d < e})
Line(e)  == SubSeq(file, Begin(e) + 1, IF e \in Newlines THEN e - 1 ELSE e)

Fits(e) == Len(Line(e)) <= BUFFER_SIZE - 2

(* fgets fills the buffer with the last chunk of the line as well. *)
EndsFull(e) == (e - Begin(e)) % FULL = 0

(* How many lines there are up to the one that ends here. *)
NumberOf(e) == Cardinality({d \in Ends : d <= e})

(* The skip behind a too long line (str_utils.c:149) ends with the line only *)
(* if the last chunk of the line does not fill the buffer.                   *)
SkipEndsWith(e) == Fits(e) \/ ~ EndsFull(e)

(* Line by line the first pass is given what the file holds: each line that  *)
(* fits the buffer as it is, each line above MAX_LINE_LENGTH as too long, and*)
(* then the end.  It is stated for the lines behind which every skip ended   *)
(* where it should, and of a line of just MAX_LINE_LENGTH it claims nothing: *)
(* what goes wrong there is for LinesAreReadAsWritten.  A file that cannot   *)
(* be read any more ends early.                                              *)
LinesAreDelivered ==
  Returned =>
    /\ \A e \in Ends :
         /\ NumberOf(e) = Len(results) /\ Latest.error # "ERR_EOF"
         /\ \A d \in Ends : d < e => SkipEndsWith(d)
         => /\ Fits(e) => Latest.text = Line(e) /\ Latest.error # "LINE_TOO_LONG"
            /\ Len(Line(e)) > MAX_LINE_LENGTH => Latest.error = "LINE_TOO_LONG"
    /\ Latest.error = "ERR_EOF" <=> pc = "done"
    /\ pc = "done" /\ ~ broken /\ (\A d \in Ends : SkipEndsWith(d)) =>
         Len(results) = Cardinality(Ends) + 1

-----------------------------------------------------------------------------
(***************************************************************************)
(* The language of a line: spaces, a label and a colon if there is a colon *)
(* at all, spaces, a command, a separator and operands between commas.     *)
(***************************************************************************)
Blank(str) == Range(str) \subseteq SPACES

Inner(str) == {i \in DOMAIN str : str[i] \notin SPACES}

Trimmed(str) == IF Inner(str) = {} THEN <<>> ELSE SubSeq(str, Min(Inner(str)), Max(Inner(str)))

IsComment(line) == Blank(line) \/ Head(Trimmed(line)) = COMMENT_CHAR

(* What stands between some of the commas, without the spaces around it. *)
Between(str, commas) ==
  LET Field(k) == {i \in DOMAIN str \ commas : /\ str[i] \notin SPACES
                                               /\ Cardinality({c \in commas : c < i}) = k - 1}
  IN  [k \in 1 .. Cardinality(commas) + 1 |->
         IF Field(k) = {} THEN <<>> ELSE SubSeq(str, Min(Field(k)), Max(Field(k)))]

Commas(str) == {i \in 1 .. Len(str) : str[i] = COMMA}

(* A string runs from a quote to the next one, or to the end without it. *)
InString(str, i) == Cardinality({q \in 1 .. i - 1 : str[q] = QUOTE}) % 2 = 1

(* The operands: a string is kept whole, with its quotes and its commas, as  *)
(* the comment at assembly_line.c:115-118 says.                              *)
Fields(str) == Between(str, {c \in Commas(str) : ~ InString(str, c)})

IsLabel(name) ==
  /\ name # <<>> /\ Len(name) <= MAX_LABEL /\ name \notin RESERVED
  /\ Range(name) \subseteq LETTERS \cup DIGITS /\ Head(name) \in LETTERS

(* A way to read a line: a label from one position up to a colon, and a      *)
(* command from a first to a last position, with the operands behind it.     *)
Cuts(line) ==
  [from : DOMAIN line, colon : 0 .. Len(line), first : DOMAIN line, last : DOMAIN line]

NameAt(line, cut)   == SubSeq(line, cut.from, cut.colon - 1)
Behind(line, cut)   == SubSeq(line, cut.last + 1, Len(line))

IsLabelled(line, cut) ==
  IF cut.colon = 0 THEN ":" \notin Range(line)
  ELSE /\ line[cut.colon] = ":" /\ IsLabel(NameAt(line, cut))
       /\ Blank(SubSeq(line, 1, cut.from - 1))

IsReading(line, cut) ==
  /\ IsLabelled(line, cut)
  /\ cut.colon < cut.first /\ Blank(SubSeq(line, cut.colon + 1, cut.first - 1))
  /\ SubSeq(line, cut.first, cut.last) \in COMMANDS
  /\ Blank(Behind(line, cut)) \/ line[cut.last + 1] \in SEPARATORS

Reading(line, cut) ==
  [label |-> NameAt(line, cut), command |-> SubSeq(line, cut.first, cut.last),
   args |-> IF Blank(Behind(line, cut)) THEN <<>> ELSE Fields(Behind(line, cut))]

Readings(line) == {Reading(line, cut) : cut \in {c \in Cuts(line) : IsReading(line, c)}}

HasCommaInString(line) ==
  \E cut \in Cuts(line) :
    IsReading(line, cut) /\ \E c \in Commas(Behind(line, cut)) : InString(Behind(line, cut), c)

IsReadRight(result) ==
  IF IsComment(result.text)
  THEN result.error = "SUCCESS" /\ result.command = <<>>
  ELSE Readings(result.text) =
         IF result.error = "SUCCESS"
         THEN {[label |-> result.label, command |-> result.command, args |-> result.args]}
         ELSE {}

(* A line without a comma in a string is accepted with the label, the        *)
(* command and the operands that this language gives it, and rejected if it  *)
(* gives it none.  In particular there is one operand more than commas, and  *)
(* the first colon ends a label wherever it stands.                          *)
LinesAreParsed ==
  /\ Returned /\ Latest.error \notin {"LINE_TOO_LONG", "ERR_EOF"}
  /\ ~ HasCommaInString(Latest.text)
  => IsReadRight(Latest)

(* What the comments promise of every file that can be read to its end: one  *)
(* result for each line and one for the end, no line of up to                *)
(* MAX_LINE_LENGTH characters too long (assembly_line.h:11), the line behind *)
(* a too long one read like any other ("skip to next line",                  *)
(* str_utils.c:149), and strings kept whole (assembly_line.c:115-118).       *)
LinesAreReadAsWritten ==
  pc = "done" /\ ~ broken =>
    /\ Len(results) = Cardinality(Ends) + 1
    /\ \A e \in Ends :
         LET result == results[NumberOf(e)]
         IN  IF Len(Line(e)) > MAX_LINE_LENGTH THEN result.error = "LINE_TOO_LONG"
             ELSE result.text = Line(e) /\ IsReadRight(result)

(***************************************************************************)
(* What TypeOK, LinesAreDelivered and LinesAreParsed need in order to be   *)
(* inductive, for every file: what the buffer can hold at each stage, which*)
(* line the code is at, and how far the line has been read.  This describes*)
(* the code, also where it loses a line or cuts a string.                  *)
(***************************************************************************)
BuffersFit ==
  /\ pc \in {"parse", "label", "command"} => buf \in Text /\ args = <<>>
  /\ pc = "args" /\ buf # NULL => Len(args) + Len(buf) < BUFFER_SIZE - 1

(* A line that is fetched as the rest of a too long line before it: every    *)
(* line from that one to the one above fills its last chunk.                 *)
Swallowed(e) ==
  \E d \in Ends : d < e /\ ~ Fits(d) /\ \A c \in Ends : d <= c /\ c < e => EndsFull(c)

Delivered == {e \in Ends : ~ Swallowed(e)}

(* How many lines are delivered up to a position of the file. *)
DeliveredTo(e) == Cardinality({d \in Delivered : d <= e})

(* Everything up to here was delivered, and the next line will be. *)
BetweenLines ==
  /\ at \in {0} \cup Ends /\ Len(results) = DeliveredTo(at)
  /\ \A e \in Ends : Begin(e) = at => ~ Swallowed(e)

(* Line e is the next one to be delivered. *)
Delivering(e) == e \in Delivered /\ DeliveredTo(e) = Len(results) + 1

(* The chunks behind a too long line: each of them is full, also where they *)
(* run on into the lines behind it.                                         *)
Skipping(e) ==
  /\ Delivering(e) /\ ~ Fits(e) /\ Begin(e) < at
  /\ \A c \in Ends : e <= c /\ c < at => EndsFull(c)
  /\ EndsFull(at)

LinesAreInOrder ==
  /\ pc = "read" => Len(results) <= Cardinality(Delivered) /\ (broken \/ BetweenLines)
  /\ pc = "skip" => \E e \in Ends : Skipping(e)
  /\ pc \in {"parse", "label", "command", "args"} =>
       Delivering(at) /\ Fits(at) /\ text = Line(at)

(* Where the buffer starts in a line that is cut like this. *)
Start(line, cut) == IF cut.colon = 0 THEN Min(Inner(line)) ELSE cut.colon + 1

Rest(str, first) == SubSeq(str, first, Max(Inner(str)))

(* What the loop of parseArgs makes of the operands: it cuts at every comma. *)
Pieces(str) == Between(str, Commas(str))

(* The operands up to a comma, or up to the separator in front of them, are *)
(* there, and the buffer holds the others.                                  *)
OperandsUpTo(operands, comma) ==
  /\ comma = 1 \/ operands[comma] = COMMA
  /\ comma <= Max(Inner(operands)) /\ buf = Rest(operands, comma + 1)
  /\ Cardinality({i \in 1 .. comma : operands[i] = COMMA}) = Len(args)

OperandsSoFar(operands) ==
  IF Blank(operands) THEN buf = NULL /\ args = <<>>
  ELSE /\ \A i \in DOMAIN args : args[i] = Pieces(operands)[i]
       /\ IF buf = NULL THEN Len(args) = Len(Pieces(operands))
          ELSE \E comma \in DOMAIN operands : OperandsUpTo(operands, comma)

LineIsRead ==
  /\ pc = "parse" => buf = text
  /\ pc = "label" => buf = Trimmed(text)
  /\ pc \in {"label", "command", "args"} => ~ IsComment(text)
  /\ pc \in {"parse", "label", "command"} => command = <<>>
  /\ pc = "command" =>
       \E cut \in Cuts(text) : /\ IsLabelled(text, cut) /\ label = NameAt(text, cut)
                               /\ buf = Rest(text, Start(text, cut))
  /\ pc = "args" =>
       \E cut \in Cuts(text) : /\ IsReading(text, cut) /\ label = NameAt(text, cut)
                               /\ command = SubSeq(text, cut.first, cut.last)
                               /\ OperandsSoFar(Behind(text, cut))

ReaderInvariant == BuffersFit /\ LinesAreInOrder /\ LineIsRead

(* The end of every file is reached, however its lines fall into chunks, and *)
(* also when it cannot be read any more.                                     *)
ReadsToTheEnd == <>(pc = "done")
=============================================================================
