SPECIFICATION Spec
CONSTANTS
  Width = 3
  b1 = b1
  b2 = b2
  b3 = b3
  made = made
  NewBlock = made
  Compare <- DeepCompare
  HashAlike <- SameHash
  Hashed <- DeepHashed
  Intact <- DeepIntact
  Encodable <- DeepEncodable
  Whole <- DeepWhole
  Describe <- MCDescribe
  Parsed <- MCParsed
  Names = {"main", "f"}
  Blocks = {b1, b2, b3, made}
  Programs <- MCControl
  Natives <- MCNatives
  MaxStack = 6
  MaxDepth = 4
  MaxTables = 8
  MaxRuns = 3
INVARIANTS
  TypeOK
  SlotsFollowActivations
  SlotTablesDistinct
PROPERTIES
  OnlyCurrentSlotChanges
  BlocksContainJumps
  BindingsAreImmutable
CHECK_DEADLOCK FALSE
