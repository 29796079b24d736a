CONSTANTS
  MaxDepth = 2
  Nodes <- Values
SPECIFICATION Descent
INVARIANTS
  OnlyListedEvaluates
  OnlyPublicMetadata
  NothingElseReads
  EveryCollectionIsLookedUp
  WalkNeverPanics
  DepthIsBounded
CHECK_DEADLOCK FALSE
