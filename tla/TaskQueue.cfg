SPECIFICATION Spec
CONSTANTS
  Keys <- MCKeys
  Times <- MCTimes
  Cap = 2
INVARIANTS
  CapacityInv
PROPERTIES
  NoLiveTaskLost
  BoundedBypass
