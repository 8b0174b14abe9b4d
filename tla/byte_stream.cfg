SPECIFICATION WireSpec
CONSTANTS
  Radix = 3
  Word = 27
  NumberBytes = 3
  Widths = {1, 3}
  Items <- MCItems
  Scripts <- MCScripts
  OpenFiles <- MCOpenFiles
  Files <- MCFiles
INVARIANTS
  TypeOK
  NoReadPastEnd
  ReadsWhatWasWritten
PROPERTIES
  ImplementsCursor
  CallsReturn
  ReadsWholeFile
CHECK_DEADLOCK FALSE
