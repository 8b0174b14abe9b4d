SPECIFICATION Spec
CONSTANTS
  Library <- MCLibrary
  Separate <- MCSeparate
  OwnNames <- MCOwnNames
  MaxHand = 1
INVARIANTS
  StoredNativesAreKnown
  LoadedLibrariesAreKnown
PROPERTIES
  FailuresHaveACause
  NothingIsReplaced
CHECK_DEADLOCK FALSE
