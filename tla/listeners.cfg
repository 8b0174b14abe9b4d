SPECIFICATION FairSpec
CONSTANTS
  t1 = t1
  t2 = t2
  b1 = b1
  Tracers <- MCTracers
  Blocks <- MCBlocks
  MaxIndex = 1
  MaxDepth = 2
  MaxListed = 4
INVARIANTS
  SlotsFollowTheBlocks
  TracersSeeTheirBlocks
PROPERTIES
  NullsAreFatal
CHECK_DEADLOCK FALSE
