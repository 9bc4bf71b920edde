CONSTANTS
  CHARACTERS <- Characters
  Files <- WrittenFiles
  BUFFER_SIZE = 9
  LETTERS <- Letters
  DIGITS <- Digits
  SPACES <- Spaces
  SEPARATORS <- Separators
  COMMANDS <- Commands
  RESERVED <- Reserved
  MAX_LABEL = 2
  NULL = NULL

SPECIFICATION Spec

INVARIANTS
  LinesAreReadAsWritten
