CONSTANTS
  Setups <- MCSetups
  MaxHeightGapFactor = 1
  QueueSize = 1
  DefaultBlockHeightDiff = 1
  MaxKeys = 1
SPECIFICATION Spec
INVARIANTS TreeFollowsChain NoRowTwice 
PROPERTY CatchesUp
CHECK_DEADLOCK FALSE
