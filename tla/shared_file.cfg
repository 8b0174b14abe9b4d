SPECIFICATION Spec
CONSTANTS
  h1 = h1
  h2 = h2
  h3 = h3
  f1 = f1
  f2 = f2
  p1 = p1
  Handles <- MCHandles
  Files <- MCFiles
  Parsers <- MCParsers
SYMMETRY Symmetric
INVARIANTS
  OpenWhileHeld
  FilesCloseAsOwned
  ParserFilesAreSafe
CHECK_DEADLOCK FALSE
