\* A PutObject, a resumable parts; the PutObject has wrong data.
CONSTANTS
  a = a
  b = b
  c = c
  NULL = NULL
  Requests = {a, b, c}
  Plain = {a}
  Wrong = {a}
  NSeg = 2
  LastPartial = TRUE
  MaxRunning = 2
  MaxFails = 1
SPECIFICATION FairSpec
INVARIANTS  ErrorIsNotAccepted
 
CHECK_DEADLOCK FALSE
