\* Tasks of every level, memory and connections in use at the same time, and a stop.
CONSTANTS
  sa = sa
  sb = sb
  p1 = p1
  p2 = p2
  p3 = p3
  SYS = SYS
  Services <- MCServices
  Callers <- MCCallers
  Executors <- MCExecutors
  Owner <- MCOwner
  Limits <- MCLimits
  Stats <- MCStats
  MemoryOps <- MCMemoryOps
  TaskOps = {"medium"}
  ConnOps = {"connsOut"}
  Stoppable = {sb}
  MaxRef = 2
SPECIFICATION Spec
SYMMETRY Symmetry
INVARIANTS TypeOK WithinLimits  LiveSpansCounted
CHECK_DEADLOCK FALSE
