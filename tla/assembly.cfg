SPECIFICATION Spec
CONSTANTS
  Width = 16
  made = made
  NewBlock = made
  Compare <- DeepCompare
  HashAlike <- SameHash
  Hashed <- DeepHashed
  Intact <- DeepIntact
  Encodable <- DeepEncodable
  Describe <- MCDescribe
  Parsed <- MCParsed
  Radix = 256
  NumberBytes = 2
  Widths = {1, 2, 4}
  Spelling <- MCSpelling
  CharBytes = 4
  CodeBytes = 4
  CharMax = 65535
  Version = 2
  DropsTail = TRUE
  Inputs <- MCInputs
  Spellings <- MCSpellings
  Counts = {0, 1}
  CommandLines <- MCCommandLines
  MaxDeclared = 2
INVARIANTS
  ImageHoldsTheStore
  RunnerGetsTheProgram
  CutLoadsPart
  StopsAreReported
  HangsInSlots
  ErrorsPointAtTheStop
  CommandLineIsTaken
CHECK_DEADLOCK FALSE
