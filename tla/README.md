# A TLA+ model of the 20465 assembler

The repository holds a two-pass assembler in ANSI C. `main.c` assembles one source file
after another: the first pass reads the lines, fills the symbol table and the data image and
counts the instructions; the second pass encodes the instructions; then up to three files
are written. This directory models that program in TLA+, checks it with TLC on small
sources, and proves, for sources of any length, that its two passes implement an assembler that
has none, in which the text alone decides what is written, that its lists and arrays keep what they are given, and that its driver leaves the right
files and nothing else behind.

The program is sequential and keeps nothing between runs but its output files. What is hard
about it is not concurrency. It is that a fact computed in one pass is used in the other,
that both passes go on after an error, that any allocation may fail half way through a line,
and that numbers, distances and addresses meet fields of a fixed width.

Contents: [inventory](#inventory), [modules](#modules), [runs](#runs), [fairness](#fairness),
[proofs](#proofs), [findings](#findings), [what is not modelled](#what-is-not-modelled),
[plan](#plan).

## Inventory

| part | state | operations | correct if |
|---|---|---|---|
| two passes (`first_pass.c`, `second_pass.c`) | the instruction counter, `*err`, `errored` | `firstPassHandleLine` by type of line, `firstPass`, `secondPass` | what one pass counts is what the other writes; exactly the sources without a fault are assembled; both loops end |
| symbol table (`symtab.c`) | a list of symbols with value, section, external and entry flags, and the offsets where they are used; `has_external`, `has_entry` | insert, mark as entry, use, shift of the data symbols, the `.ext` and `.ent` listings, release | one symbol for a name, never disturbed by a later declaration; addresses are those of the object file; the listings are complete |
| assembly line (`assembly_line.c`) | label, type, command, operands and code position of a line | `parseLine`, `decodeDataLine`, `decodeInstructionLine` | each fault is reported under its code; what is accepted is encoded without loss |
| instruction tables (`instruction.c`) | none | look-ups of the opcode, funct and kind of a command | each command is in one table |
| bit utilities (`bit_utils.c`) | none | `number_fits_in_bits` | the signed numbers of a width, and no others, fit |
| memory image (`memory.c`) | the code and the data image, `data_counter` | `writeCode`, `writeData`, `toFile`, growth of the array | code begins at 100, data behind it |
| line queue (`line_queue.c`, nodes of `list.c`) | `head`, `tail` and the nodes | push, pop, free | FIFO; every line is freed once |
| text utilities (`str_utils.c`) | the position in the file | `readline`, splitting and trimming | each line reaches the parser once and as it stands; a line that is too long is reported and skipped |
| object file (`object_file.c`) | the bytes on the current line of text | append a byte, finish | four bytes on a line under their address |
| driver (`main.c`) | the output files | `handleAssemblyFile`, `saveOutput`, the loop of `main` | no output of a source with an error; the files of one name fit together; everything is released; a failure stops nothing but itself unless memory ran out |
| linked list (`list.c`) | nodes, an iterator | node, iterator, next, free | no step follows a pointer to what was freed |
| error messages (`err.c`) | none | `printErr` | not a property of behaviour |

How they interact: the driver creates a queue, a symbol table and a memory image for each
file and hands them to both passes by pointer. The first pass owns a line until it is pushed;
the queue owns it until it is popped; the second pass owns it until it frees it. Symbols
keep offsets in the data image until the shift at the end of the first pass, and addresses
from then on. `errno` is the one piece of state that outlives a file in the process; it is
written by the C library and read by `numberFromString`.

What is hard here, and where it bites, is the list of hazards in `PROJECT.json`: order
between the passes (a reference before its declaration, an `.entry` before or behind its
label, data symbols whose address is not known until the code is counted), error paths that
continue, allocations that fail unchecked, limits of ranges, stale `errno`, stale tail
pointer, a list that is freed under its iterator, lines that meet the end of a buffer, a
capacity that wraps, outputs that cannot be created or are older than the file beside them.

## Modules

```
the passes              PowersOfTwo <- BitUtils <- Tokens, Instruction
                        Tokens, Instruction <- AssemblyLine;  Tokens <- SymbolManager
                        AssemblyLine, SymbolManager <- Decoding
                        AssemblyLine <- SourceText <- Assembler
                        Decoding, Memory, LineFifo, SourceText <- TwoPass
                        TwoPass <- TwoPassProperties (implements Assembler) <- MCTwoPass
                        TwoPassProperties <- TwoPassProofs <- AddressProofs <- ReferenceProofs <- AcceptanceProofs

their heap              LineQueue (implements LineFifo), SymbolTable (implements SymbolManager)
                        LineQueue, SymbolTable <- SourceObjects <- MCLineQueue
                        SourceObjects <- HeapProofs

the text of a source    LineReader <- MCLineReader, ReaderProofs

the program             PowersOfTwo <- ManagedArray
                        ManagedArray, ObjectFile <- Driver (implements Batch) <- MCDriver
                        Driver <- DriverProofs

lemmas                  PowersOfTwo <- NaturalSets <- TwoPassProofs, HeapProofs, ReaderProofs, DriverProofs
```

`M <- N` says that `N` extends `M`. Three views of one program meet at two seams. `LineReader` ends
where a line has a label, a command and operands; `TwoPass` begins with such lines. `TwoPass`
decides which source is accepted; `Driver` sees a pass only by what it appends and returns, and
lets it return anything. `LineFifo` and `SymbolManager` are extended by `TwoPass` and
implemented by the heap, so the passes rely on exactly what the lists do.

| module | stands for | how it corresponds to the code |
|---|---|---|
| `BitUtils` | `bit_utils.c`, widths of `instruction.h` | `number_fits_in_bits` with its complement; `BitField` cuts a value to a field; `ByteBits` is the width of a byte, and every other width is the same multiple of it as in the code |
| `PowersOfTwo` | `1 << n` and the ranges of C types | a recursive function, so that it can be reasoned about |
| `Tokens` | the operands of a line | a token is a record: a register, a number, a name, a string or text with padding; `registerFromString` and `numberFromString` say what `sscanf` and `strtol` make of it, with `ERANGE` |
| `Instruction` | `instruction.c`, `instruction.h` | the tables are sequences, the look-ups search them; an instruction word is kept by field |
| `SymbolManager` | `symtab.c` | `symtab` is the list in order of insertion; insert keeps the code's order, the new symbol is created before the search for a duplicate; each operation takes the set of its allocations that fail |
| `AssemblyLine` | `assembly_line.c`, what depends on a line alone | a `RawLine` is what `readline` delivers; `parseLine` yields the line as far as it was filled in when an error ended the parsing; one operator each for the error of decoding data or operands, the effect on `errno` and the size |
| `Decoding` | `decodeInstructionLine` of `assembly_line.c`, which looks up the symbol table | the error of a reference and the instruction word of a line, one operator for each kind of command |
| `Memory` | `memory.c`, layout of `object_file.c` | an image holds, for each byte or word, the line it came from; `LineAt` is the layout of `toFile` |
| `LineFifo` | what `line_queue.h` promises | the lines that pop will return, and whether a line pushed now will be one of them |
| `LineQueue` | `line_queue.c` and the nodes of `list.c` | nodes are addresses with `next` and `data`; the phases push, pop and free as the passes and `cleanup` do |
| `TwoPass` | `first_pass.c`, `second_pass.c` | `pc` is the point the program has reached; one action for each line read, for each type of line handled or popped, and for the end of each pass |
| `SourceText` | | what a source says, read off its lines without passes, counters or a table: where each line goes, which sources are `Clean`, and what a clean one assembles to (`SourceOutputs`) |
| `Assembler` | what the two passes promise together | a source is read to its end, and then it is assembled into `SourceOutputs` or rejected; no more is promised when memory has run out |
| `TwoPassProperties` | | the properties, the refinement mapping to `Assembler`, and the inductive invariants |
| `SymbolTable` | `symtab.c` and the nodes and the iterator of `list.c` | a symbol is a number that is the address of its `Symbol`, its name, its offsets and its node; four sets say which of these blocks are allocated; the iterator of `SymbolTable_free` is a variable, a round of its loop an action |
| `SourceObjects` | the objects of one source in `first_pass.c`, `second_pass.c`, `cleanup` | the lines of a source declare, mark or use a symbol while they pass through the queue; both are released in turn |
| `LineReader` | `readline` and the functions on strings of `str_utils.c`; `parseLine`, `parseLabel`, `parseCommand`, `parseArgs`, `handleToken` | a file is a sequence of characters, `fgets` fetches chunks of it; `buf` is what is not parsed yet or `NULL`; an action for a chunk, for each stage of `parseLine` and for each operand |
| `ManagedArray` | the array of `memory.c` | size, capacity and block; sizes wrap at `SizeBits`; `memcpy` writes outside a block if it is told to |
| `ObjectFile` | `object_file.c`, `Memory_toFile` | a text is its header and its rows, each an address and up to four bytes |
| `Driver` | `main.c` | one action for each point where `handleAssemblyFile` goes on or returns, for each output file and for the loop of `main`; a file holds the turn it was written in, whether it is whole, and its text |
| `Batch` | what a user relies on | the outputs of each input appear in order or not at all |
| `MCTwoPass`, `MCLineQueue`, `MCLineReader`, `MCDriver` | | the inputs and bounds that TLC is given |
| `TwoPassProofs`, `AddressProofs`, `ReferenceProofs`, `AcceptanceProofs` | | theorems about the passes |
| `HeapProofs` | | theorems about their heap: the queue, then the symbol table |
| `ReaderProofs` | | theorems about reading and parsing the lines of a file |
| `DriverProofs` | | theorems about the array, the text of an object file and the driver |
| `NaturalSets` | | induction over sets of naturals, definition of functions by recursion, powers of two |

A step of `TwoPass` is a whole handler: `HandleData` declares the label, decodes the operands,
advances `data_counter` and appends the bytes, in that order and with every early return;
`PopCode` records the use of a symbol before the rest of the instruction is known to be
valid, as `decodeIBranch` and `decodeJInstruction` do. A handler that calls `malloc` picks the
set of its allocations that fail; what it has changed up to there stays changed. Where the
code dereferences the result unchecked, `Crash` ends the run (`NULL` from a node inserted
behind others, an iterator, the array of operands, the first line); where it goes on, so does
the model (a queue node, the first node of the symbol table, operands of the first line).

Beside some operations stands a second form with a plausible mistake, such as `useSymbolOnce`
before `useSymbol` or `HandledForgetting` before `Handled`. `Next` does not use them; put in the
place of the operation, each makes TLC report a property as violated, which confirms that the
property would notice the mistake.

## Runs

Widths are scaled: with `ByteBits = 3` an immediate has 6 bits, a `long` 12, and
`AddressBits = 8` bounds an address, while 100 stays the first address. All comparisons of
widths in the code (a byte, a half, a word, the immediate, a `long`) stay in the same order,
and both sides of each limit come up with sources of a few lines: a string of 40 bytes
already puts a label out of reach of a branch.

| run | question | bounds |
|---|---|---|
| `symbols` | Labels, references, listings: are all addresses in all outputs those of the object file, in whatever order code, data, `.entry` and `.extern` stand? Is each source assembled, into what its text says, or rejected as `Assembler` would? | sources of up to 4 lines out of `SymbolLines` |
| `operands` | Does each faulty label, command, operand or number end in a rejection, and are the accepted ones encoded without loss, into the fields that `Assembler` gives them? What is lost when allocations fail? | up to 2 lines of `OperandLines`, which meet both ends of each range, the errors of labels, commands and operands, and each kind of allocation; up to 2 allocations fail, anywhere |
| `line_queue` | Do the two linked lists implement the queue and the symbol table, and is everything freed once? | 4 nodes, 4 lines without symbols or 3 that declare, mark and use two symbols; 2 failures |
| `line_reader` | Does each line of a file reach the parser as it stands, and what does it make of it? | a buffer of 9; up to 3 lines with lengths on both sides of 1, 2 and 3 chunks, with and without the last newline; all lines of up to 4 to 6 characters over three alphabets; reading may fail at any point |
| `driver` | What is on disk, what is released and how does the program end, whatever fails? | no input or 2, whose names are equal, differ, just fit or are too long; an empty directory or one with older outputs; `size_t` of 6 bits; 2 failures |
| `first_line`, `branch`, `errno`, `numbers`, `register32`, `out_of_memory` | the findings below | 2 or 3 lines; TLC stops at the counterexample |
| `lines_as_written` | Are the lines read as the comments of the reader say? Three findings | files of a line of 8 characters, one of 15 with a short one behind it, one with a comma in a string and one without, in any order; TLC stops at the counterexample |

Why these bounds are enough to show what can go wrong: a relation between lines here involves
at most three of them (a label, its reference and something between that moves one of them),
and the fourth is there for a second reference or an `.entry` of the same symbol. An error
must survive the lines behind it and the end of a pass: `operands` has one line before or behind each
kind of error, and `symbols` up to three around those it has. The two lines of `operands` make three
pushes, since the end of the file is queued as well, so a queue can lose the middle one; two failures
are the first that cooperate: one disconnects the tail of the queue and a second one hits a later push
or an object of a later line. The proofs remove the bounds for the invariants they cover.

For the heap, three lines are the first that use a symbol twice behind its declaration (the
array of offsets grows) or have a duplicate between two symbols of a list; four lines without
symbols let the queue lose a line, run empty and go on. For the reader, a chunk holds eight
characters, so the lengths 7, 15 and 23 fill one, two and three chunks with their newline and
their neighbours do not, and 8 is the `MAX_LINE_LENGTH` of the run; three lines let a skip that ran into
the next line run on, which `ReaderInvariant` follows. For the driver,
a directive of 18 bytes needs two doublings at once, two of them make a capacity of 64 that wraps
in 6 bits; three instructions cross the growth of the code image from 8 to 16 bytes; two inputs
suffice for what one leaves to the next, because nothing but the directory and `err` passes from one
to the other.

What is checked, in the words of the properties:

- `LabelsPointAtTheirLines`: the value of a label is the address of the first byte of its line,
  for code and for data behind it, after the shift.
- `CodeIsWhereItWasCounted`: the words of the second pass stand at the addresses the first
  pass counted.
- `ReferencesReachTheirLabels`: the field of each instruction with a label leads back to the
  line that declares it, if the field is wide enough.
- `ExternalUsesAreListed`, `EntriesAreListed`: the contents and the existence of the `.ext` and
  `.ent` files.
- `ImplementsAssembler` (a refinement of `Assembler`): a source is decided only when all of it was
  read, and never again; it is assembled only if it is `Clean`, and then each field of each word, each
  byte of data and both listings are those of `SourceOutputs`; there is no output before that.
- `AcceptsExactlyCleanSource`: the part of it that is about the verdict, as an invariant.
- `SymbolsStayPut` (an action property): a duplicate never disturbs the first declaration.
- `ImmediatesAreEncoded`: an accepted number comes back out of its field.
- `QueueHasNoHole`, `Terminates` under failing allocations, and the inductive invariants
  `AddressInvariant`, `ReferenceInvariant` and `AcceptanceInvariant` of the proofs below.
- `ImplementsFifo`, `ImplementsTable` (refinements): each operation on the heap has the effect that
  `LineFifo` or `SymbolManager` states for it, also with a failing allocation.
- `PointersAreLive`, `SymbolsAreLive`: no pointer that will be followed leads to a freed block.
  `EverythingIsFreed`, `SymbolsAreFreed`: what is left at the end is bounded by what failed.
  `QueueInvariant`, `SymbolInvariant`: the inductive invariants from which these are proved.
- `LinesAreDelivered`: the n-th line that `parseLine` sees is the n-th line of the file, cut at its
  newlines, until a skip of a too long line ran into the next one; of a line of just `MAX_LINE_LENGTH`
  characters it claims nothing.
- `LinesAreParsed`: label, command and operands against a description of the language of a line in which
  a string is one piece, for lines without a comma in a string.
- `LinesAreReadAsWritten`: both without these exceptions, as the comments of the code have it. The code
  does not do that; the run `lines_as_written` shows where, see the findings.
- `ReaderInvariant`: the inductive invariant behind the first two. It says what the code does, for every
  line: which lines a skip takes along (`Swallowed`), and that operands are cut at every comma (`Pieces`).
  `ReadsToTheEnd`.
- `ImplementsBatch` (a refinement): the order of the outputs, none for a rejected source, one
  failed input does not stop the others, out of memory does.
- `NothingIsLeftBehind`: on each way out of `handleAssemblyFile` the objects and the file are released.
- `ArraysHoldWhatWasWritten`: through every growth, also one that wraps; `ObjectFileIsTheImage`: each
  byte of both images at one address of the file.
- `OutputsMatchResults`: the files on disk against what was reported for each input.

`ImplementsFifo` includes what no reader of `line_queue.h` would expect: after a node could
not be allocated, lines are dropped until the queue is empty again. `TwoPass` extends the same
`LineFifo`, so the passes are checked against exactly the queue that the heap implements.

`Terminates`, `IsFreed`, `TableIsFreed`, `ReadsToTheEnd` and `MainEnds` check the loops, `TypeOK` of each module its types. Deadlock is
checked in every run: the only state without a step of the program is a final one, which has an
explicit `Terminated` or `Released`.

### Behaviour that the properties describe exactly

These are oddities of the code that a property pins down, rather than findings: no comment or test
says otherwise, or the comment is about something else.

- A read error, or a directory given as an input, looks like the end of the file: the source is
  assembled as far as it was read (`LinesAreDelivered`).
- A colon anywhere, also between quotes, makes what is before it a label (`LinesAreParsed`); the comment
  at `assembly_line.c:115` is about operands only.
- An `.ext` or `.ent` file is left from an earlier assembly if the source needs none any more, and
  the `.ob` file is left when a listing cannot be created (`OutputsMatchResults`).
- A file that was cut short, or is empty because its text could not be allocated, counts as written.
- For a name of 251 characters the listing's name is written one byte past its buffer
  (`Overruns`); the model lets the program crash there or go on.
- `main` returns 0 whatever its inputs came to, unless memory ran out (`ImplementsBatch`).
- If one of the three objects of a source cannot be allocated the others are left, and the program
  exits (`NothingIsLeftBehind`).
- One failed allocation leaves at most one symbol: a name without its struct or the reverse, the
  first symbol of a table without a node, or the old offsets (`SymbolsAreFreed`).

## Fairness

The program is one thread without input other than its files, so the only assumption is that it
runs on: weak fairness of the disjunction of its steps, in each specification (`FirstPass \/
SecondPass` in `TwoPass`, `SourceStep`, `Step`). No single branch is fair: a step may take
whichever outcome it likes. What happens to the program is not fair: `Crash`, `ListingCrashes`, a
failing allocation or file, and `Break`, after which a file cannot be read. A file is finite,
which `MaxLines`, `Files`, `MaxData` and `MaxWords` express.

## Proofs

`tlapm` checks every proof. The constants are assumed to be what the modules declare:
`WidthAssumption` (the widths are positive), `TextAssumption` (the empty text is a string),
`SourceAssumption` (the source lines are any set of raw lines other than the end of the file, and
`MaxLines` is any natural), `FaultAssumption` (so is `MaxFaults`), `QueueAssumption` (finitely many nodes, at least one for each line), `SourcesAssumption`
(a source has between one and `MaxLines` lines), `SizeAssumption` (a `size_t` counts beyond the
first capacity), `NullAssumption` (`NULL` is not a block) and `DriverAssumption` (the inputs are
sequences, one append is at most half of what a `size_t` counts). The theorems about addresses,
words and acceptance use `AddressAssumption`: a source is so small that a `long` holds each of its
addresses. `ReaderAssumption` is about characters: the files and the commands are texts over
`CHARACTERS` and `NULL` is none, a buffer holds more than a newline and its terminator, a separator
is a space, a newline is a space but no separator, colon, comma and semicolon are neither letters nor
digits nor spaces, letters and digits are no spaces, and a command is a word without spaces. What
the files, the commands and the sizes are is left open. Failures are unbounded: every
theorem holds for any `MaxFaults`.

### The passes

| theorem | says |
|---|---|
| `TypeCorrect` | `TypeOK`: each field of each word fits its width, each error is one of `err.h` |
| `AddressesKeepStep`, `ReferencesKeepStep` | the inductive invariants `AddressInvariant` and `ReferenceInvariant` |
| `CodeAtItsAddress` | `CodeIsWhereItWasCounted` |
| `LabelsAtTheirLines` | `LabelsPointAtTheirLines` |
| `WordsReachTheirLabels` | `ReferencesReachTheirLabels` |
| `ExternalFileIsRight`, `EntryFileIsRight` | `ExternalUsesAreListed`, `EntriesAreListed` |
| `ImmediatesAreRight` | `ImmediatesAreEncoded` |
| `SymbolsAreNotDisturbed` | the action property `SymbolsStayPut` |
| `QueueIsConsecutive` | `QueueHasNoHole`, with any failures |
| `AcceptanceKeepsStep` | the inductive invariant `AcceptanceInvariant` |
| `AcceptanceIsRight` | `AcceptsExactlyCleanSource` |
| `PassesImplementAssembler` | `ImplementsAssembler`: every step is one of `Assembler` or changes nothing that it sees |

`TypeOK` is not inductive: a popped number has to be that of a line, and the encoders need a line
of type Code to name a command of a table. `TypeInvariant` adds `LinesAreKept` and
`KnownCommands`.

The address theorems rest on `AddressInvariant`: while no allocation failed and no error was
found (`Sound`),

- `CountersAgree`: the instruction counter is 100 plus four for each line of code handled so
  far, each line of code holds the counter of its turn, and `data_counter` is the length of the
  data image;
- `QueueIsTheRest`: the queue holds the consecutive numbers of the lines not yet popped;
- `CodeIsInOrder`: the n-th word comes from the n-th line of code that was popped;
- `LabelsAreDeclared`: each label handled so far has a local symbol with the right offset or
  address, relative to a base that moves from 0 to the instruction counter with the shift;

and always `UniqueSymbols`. Without `QueueIsTheRest` the second pass could write the words in
another order; without uniqueness the look-up of a label could find another symbol; the base is
what makes the shift preserve the invariant. `NoErrorIsForgotten` gives `Sound` in the
state `assembled`. There is one lemma for each action; counting lemmas about the lines of code up to a
line carry the arithmetic.

The theorems about words and listings add `ReferenceInvariant`, again while `Sound`:

- `DataIsInOrder`: the bytes of the data image come from lines of data, in their order;
- `SymbolsComeFromLines`: each symbol is the label of a line or named by an `.extern`, so that
  nothing can be listed, or referred to, that the source does not mention;
- `ExternsAreDeclared` and `EntriesAreMarked`: each directive is on record, each mark has its
  directive, and the flags that decide whether a listing is written agree with them;
- `UsesAreRecorded`: the offsets of a symbol are the positions of exactly the words that refer to
  its name. The use is recorded before the rest of the instruction is known to be valid; that this
  does no harm is because an error ends `Sound`;
- `WordsAreEncoded`: a word is what its line encodes to with the table as it is now. It is stable
  because no later step moves a symbol (`SymbolsAreNotDisturbed`).

`AcceptsExactlyCleanSource` is an equivalence between the run of a program, with a table, counters
and flags, and `Clean`, a predicate on the text. `AcceptanceInvariant` gives each direction its part:

- `LinesAreParses`: each stored line is what the text of its number parses to, as far as parsing got. A
  decoded line thus says something about the source;
- `SoFarClean`, while `Sound`: the lines the first pass has handled have no fault that it can see, no
  two of them name the same symbol, `BytesAreCounted` (the data image holds the bytes of these lines one
  behind the other), and what the second pass has popped fits its fields;
- `FaultFound`, once an error was reported and if no allocation failed: the source is at fault as far
  as the pass can know, or it holds the largest number of a `long`, which the code may reject because
  of a stale `errno` (the finding `errno`).

The first direction adds up the lines at the end of the second pass; for a branch it needs that the
look-up leads to the address in the source (`AddressInvariant`) and that what is not in the table is
named by no line (`ReferenceInvariant`). For the other, each of the errors of both passes is traced to a
conjunct of `Clean` that fails. The attempt found one mistake in the reference: `AcceptedNumbers`
left out 0 for a field of one bit, where no bounded run had looked.

`PassesImplementAssembler` rests on all of these. `SourceText` knows how a line is parsed and what the
tables say of a command; all else it states in its own way: the address of a line is 100 plus four for
each line of code before it, or, for data, for all lines of code, plus the bytes of data before it; a
word is a record whose fields are filled from the operands by a table of places (`OperandFields`); the
n-th word is that of the n-th line of code. The passes reach the same by counters, a shift, a search in the
table, three encoders and a queue. The proof has four parts:

- `OutputOfSource`: in the state `assembled` the images and the listings are `SourceOutputs`. A word is
  what its line encodes to (`WordsAreEncoded`), and `WordOfLine` shows, for each of the three encoders,
  that each field holds the operand that `OperandFields` puts there; a label operand is found in the
  table at the address of the one line that declares it (`SymbolOfName`). `BytesAreCounted` places each
  byte of data, `UsesAreRecorded` and `EntriesAreMarked` give the listings.
- `AbstractCommands` to `AbstractOutputs`: what the instance `Abstract` defines over the source is what
  `SourceText` defines. The provers do not know the two for one, so each operator takes a step.
- `StepShape` and `EndReached`: without a failing allocation a step reads a line or leaves the source
  as it is, a decision is final (`FinalStays`), and the first pass ends exactly when the end of the
  source was met, also behind lines in error.
- `StepSimulates`: a step with a failed allocation is `RunOutOfMemory`, a step that reads is `Read`, the
  end of a pass is `Assemble` or `Reject` or, like every other step, none.

`QueueIsConsecutive` cannot assume `Sound`: it is about failures. Its invariant adds
`QueueEndsWithLast`: as long as the tail is linked, the queue ends with the line read last.

### The heap

| theorem | says |
|---|---|
| `QueueTypes`, `QueuePointersAreLive`, `QueueIsReleased`, `QueueImplementsFifo` | of `LineQueue` alone: `TypeOK`, `PointersAreLive`, `EverythingIsFreed`, `ImplementsFifo` |
| `SourceTypes`, `SourcePointersAreLive`, `SourceLinesAreFreed`, `SourceImplementsFifo` | the same of the queue inside `SourceObjects`, the specification of the run `line_queue` |
| `SourceQueueInOrder`, `SourceSymbolsInOrder` | the inductive invariants `QueueInvariant`, `SymbolInvariant` |
| `SourceSymbolsAreLive`, `SourceSymbolsAreFreed` | `SymbolsAreLive`, `SymbolsAreFreed` |
| `SourceImplementsTable` | `ImplementsTable`: each operation on the list of symbols is one of `SymbolManager` |

`QueueInvariant` speaks of the sequence of nodes that the pointers lead along from the head:
`LeadsAlong` (it ends in `NULL` and has no cycle), `NodesHoldLines` (each node has a line of its own, also
the nodes that a failure cut off, which is what makes their number a bound for what is left),
`TailIsApart` (while lines are pushed the tail is the last node or outside the sequence: `pop`
leaves it at a freed node, but no push comes after a pop) and `NothingIsCutOff` (without a failure every
node is in the sequence). `NodeAt` is a recursive function along the pointers; a lemma shows that it
follows any sequence that `LeadsAlong`, so the step simulation is one about `Append` and `Tail`. A
push without a node disconnects the tail, which is what `tail_linked` says of the abstract queue.

`SymbolInvariant` has `SymbolTypeOK`; `ListedInOrder` (the allocated nodes are one list from the newest
symbol to the oldest, which is how an iterator meets them; a symbol lost to a failure leaves a gap in the
addresses); `IteratorIsAhead` (the loop of `SymbolTable_free` took the next node before it freed
this one); `PartsAreAllocated` (a node's symbol, name and offsets are allocated, and until the release
the count of the offsets is their number); and the bound `Cardinality(Lost) <= faults`, where `Lost`
is what no node leads to. `SymbolsAreFreed` is that bound once the list is empty. The refinement maps the list, oldest first, to `symtab`; a symbol's
position there is that of its node in the order, and `find`, which returns the newest
match on both sides, leads to the same symbol.

### The reader

| theorem | says |
|---|---|
| `ReaderTypes` | `TypeOK`: no text is longer than its buffer |
| `ReaderKeepsItsPlace` | the inductive invariant `ReaderInvariant` |
| `LinesReachTheParser` | `LinesAreDelivered` |
| `LinesAreReadRight` | `LinesAreParsed` |

`ReaderInvariant` says where in the file and where in the line the program is, also for the lines that
`LinesAreDelivered` and `LinesAreParsed` leave out:

- `BuffersFit`: what is left of a line and the operands cut from it together fit the buffer, because
  each operand costs at least the comma behind it;
- `LinesAreInOrder`: between two lines (`BetweenLines`) the position is the beginning of the file or the
  end of a line, and there are as many results as lines to deliver before it; while the rest of a too
  long line is skipped (`Skipping`), all lines that ended since did so at the end of a full chunk, which
  is the definition of the lines it swallows; otherwise the line at work is the one that ends here
  (`Delivering`);
- `LineIsRead`: at each stage of `parseLine` the buffer is exactly the rest of the line behind what was
  taken from it. There is a `Cut` of the line into label, command and operands such that `label` and
  `command` are its parts, and `OperandsSoFar` does the same for the operands: each in `args` is the piece
  of its number, and the buffer begins behind a comma that has as many commas up to it as there are
  operands.

`LinesAreParsed` compares the outcome with any way to read the line, so the invariant is not enough: the
lemma `OneReading` shows that a line can be read in one way only. `Pieces` and the code
agree by the number of commas in front of a position (`PiecesAre`), which needs no induction over the line;
without a comma in a string the pieces are the `Fields` of the language (`WholeStrings`).

`ResultsAreDelivered`, a definition of the proof module, is what is inductive about the results: it numbers
the lines that the code comes to. If each skip in front of a line ended with its line, no line up to there
was taken along (`NoSkipTooFar`), so that numbering is the one of the file, and `LinesAreDelivered` follows
(`DeliveredAsTheyAre`).

### The driver

| theorem | says |
|---|---|
| `DriverTypeCorrect` | `TypeOK`, among others that a block has as many bytes as its capacity says |
| `ReturnsRelease` | `NothingIsLeftBehind` |
| `ImagesHoldTheirBytes` | `ArraysHoldWhatWasWritten` |
| `ObjectFilesAreImages` | `ObjectFileIsTheImage` |
| `FilesMatchReports` | `OutputsMatchResults` |
| `DriverImplementsBatch` | `ImplementsBatch` |

`DriverInvariant` has a part for each thing the properties relate: `ControlOK` (which error and which flags are
possible at which point, and how many results there are), `HeldOK` (what is allocated and open at
each point of `handleAssemblyFile`, `main`'s early exit included), `MemoryOK` (each array holds the
bytes appended to it or was lost to a failed growth, and while there is no error both hold theirs), `DiskOK` and `FilesOK`
(each file belongs to an earlier run or to the input that `results` or the program counter says) and
`ObjectsOK` (a whole object file is the text of some image, and of the present one until the next input).

The two facts that are not a matter of control come first in `DriverProofs`. The capacity doubles until it fits
and wraps at `SizeBits`. A grown capacity has room for the bytes or has wrapped to 0, which `realloc`
answers with `NULL`, so that the array is lost and that is reported; this needs the bound on one append.
`Rows`, a recursive function, is shown to put byte number n in row `n \div 4`, across the seam
between code and data, for images of any length.

### What is not proved

- `LinesAreReadAsWritten` and the properties of the other findings, which do not hold.
- Liveness (`Terminates`, `IsFreed`, `TableIsFreed`, `ReadsToTheEnd`, `MainEnds`): fairness is beyond
  this prover. TLC checks them. Every other property of a passing run is stated by a theorem.
- `MaxLines`, `MaxData` and `MaxWords` stay bounds of the model in the theorems, for every value of them.

The provers know nothing of induction over data, so what a recursive function computes is derived in
`NaturalSets` from the least element of a set of naturals: `TwoTo`, the nodes along a list and the
rows of a file are handled in this way.


## Findings

Each of these runs ends in a counterexample of one property; `PROJECT.json` quotes the comment of the
code that it is taken from. The three findings about the reader share a run: every file of that run has
all three kinds of line, and its trace shows all three results.

| run | where | what |
|---|---|---|
| `first_line` | `first_pass.c:87` | the error of parsing line 1 is overwritten; a source with a bad first line is assembled without that line |
| `branch` | `assembly_line.c:465` | the distance of a branch is checked against one bit more than its signed field has |
| `errno` | `assembly_line.c:379` | `errno` is not cleared; after any number out of range, also in another file, the largest number is rejected |
| `numbers` | `bit_utils.c:13` | the two smallest numbers of a width (-128 and -127 for `.db`) are rejected |
| `register32` | `assembly_line.c:67` | `$32` is accepted and encoded as `$0`, also in `examples/our_example.as:41-44` |
| `out_of_memory` | `line_queue.c:5` | a queue node that cannot be allocated loses the lines behind it, and the source is assembled all the same |
| `lines_as_written` | `str_utils.c:150` | a too long line whose last chunk, newline included, fills the buffer takes the next line with it, and that may repeat; the comment says "skip to next line" |
| `lines_as_written` | `str_utils.c:147` | a line of exactly `MAX_LINE_LENGTH` characters is rejected as too long |
| `lines_as_written` | `assembly_line.c:130` | a comma between quotes ends the operand, so `.asciz "a,b"` has two; the comment says that the whole string is returned |

## What is not modelled

- Messages and the layout of text: `printErr`, hexadecimal digits, the spaces between bytes.
- The values of data bytes: an image of `Memory` holds, for each byte, the line it came from, so that
  sizes, order and addresses are checked, but not the contents of a string or how `decodeDataLine` splits
  a number into bytes, the lowest first.
- NUL characters in a source, for which `readline` would take a part of a line for the whole.
- `LineReader` assumes that the operands can be allocated; `TwoPass` lets these allocations fail.
- `SourceObjects` leaves the unchecked allocations that end the process to `TwoPass` and `Driver`.
- An input that is also an output of an earlier input.
- A single append of more than half of what a `size_t` counts, for which the loop that doubles the
  capacity may never end (`DriverAssumption`); a line of 80 characters cannot ask for it.
- `Memory_writeToFile` of a single array, `containsSpace` and others that are never called.
- The operand `$` alone, for which the code reads an uninitialised number, is any register number.
- `bool.h`, the `Makefile`, the `Dockerfile`; the sources under `examples/` are quoted in the findings.

## Plan

Done, in this order: instruction tables, tokens, symbol table, lines, memory, the two passes with
their properties; type correctness; the address theorems; the line queue with its refinement; the
driver with the array and the object file, implementing `Batch`; the reader and the tokenizer; the
symbol table on a heap, implementing `SymbolManager`.

Proved since: the listings, references and immediates; the heap; the driver; which sources are
accepted; the reader; the abstract assembler, implemented by the two passes.

What would be next: `Driver` lets a pass return anything, and `Batch` says nothing of the contents of
the files. With `Assembler` in the place of the passes, one specification could say of a whole run of
the program which files hold what; `LineReader`, likewise, could deliver the lines of `TwoPass`.
