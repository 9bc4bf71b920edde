CONSTANTS
  CHARACTERS <- Characters
  Files <- SourceFiles
  BUFFER_SIZE = 9
  LETTERS <- Letters
  DIGITS <- Digits
  SPACES <- Spaces
  SEPARATORS <- Separators
  COMMANDS <- Commands
  RESERVED <- Reserved
  MAX_LABEL = 2
  NULL = NULL

SPECIFICATION Spec

INVARIANTS
  TypeOK
  LinesAreDelivered
  LinesAreParsed
  ReaderInvariant
PROPERTIES
  ReadsToTheEnd
