SPECIFICATION Spec
CONSTANTS
  Programs <- MCPrograms
  MaxBoxes <- MCMaxBoxes
  MaxStack = 2
PROPERTIES
  BoxesAreImmutable
  ImplementsValues
CHECK_DEADLOCK FALSE
