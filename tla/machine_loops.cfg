SPECIFICATION FairSpec
CONSTANTS
  Width = 3
  b1 = b1
  b2 = b2
  b3 = b3
  made = made
  NewBlock = made
  Compare <- DeepCompare
  HashAlike <- SameHash
  Hashed <- DeepHashed
  Intact <- DeepIntact
  Encodable <- DeepEncodable
  Whole <- DeepWhole
  Describe <- MCDescribe
  Parsed <- MCParsed
  Names = {"main", "f"}
  Blocks = {b1, b2, b3, made}
  Programs <- MCLoopsAndBreaks
  Natives <- MCNatives
  MaxStack = 16
  MaxDepth = 4
  MaxTables = 12
  MaxRuns = 1
INVARIANTS
  LoopsKeepCount
  ErrorsAreExplained
PROPERTIES
  ImplementsCallStack
  Returns
  NullsHaveACause
CHECK_DEADLOCK FALSE
