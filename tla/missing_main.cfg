SPECIFICATION Spec
CONSTANTS
  Width = 3
  b1 = b1
  b2 = b2
  b3 = b3
  made = made
  NewBlock = made
  Compare <- DeepCompare
  HashAlike <- SameHash
  Hashed <- DeepHashed
  Intact <- DeepIntact
  Encodable <- DeepEncodable
  Whole <- DeepWhole
  Describe <- MCDescribe
  Parsed <- MCParsed
  Names = {"main"}
  Blocks = {b1, b2, b3, made}
  Programs <- MCNoMain
  Natives <- MCNatives
  MaxStack = 4
  MaxDepth = 2
  MaxTables = 2
  MaxRuns = 1
PROPERTIES
  MissingNameIsReported
CHECK_DEADLOCK FALSE
