\* Two executors, a slow one, a failure or a crash, and a restart of the manager.
CONSTANTS
  e1 = e1
  e2 = e2
  NULL = NULL
  Executors = {e1, e2}
  Objects = {1, 2}
  DeleteAt <- OwnBlocks
  Interval = 2
  SafeDistance = 1
  QueueCap = 2
  ListLimit = 2
  MaxHeight = 3
  MaxFails = 1
  MaxRestarts = 1
SPECIFICATION GCFairSpec
INVARIANTS  RowIsTruthful
 
CHECK_DEADLOCK FALSE
