SPECIFICATION Spec
CONSTANTS
  Width = 2
  made = made
  NewBlock = made
  Compare <- DeepCompare
  HashAlike <- SameHash
  Hashed <- DeepHashed
  Intact <- DeepIntact
  Encodable <- DeepEncodable
  Describe <- DescribeValue
  Spelled <- MCSpelled
  Buffer = 100
  Parsed <- MCParsed
PROPERTY
  EqualValuesHashAlike
CHECK_DEADLOCK FALSE
