CONSTANTS
  Objects = {1}
  Requests <- MCParts
  Attempts = 1
  e1 = e1  e2 = e2  h1 = h1  h2 = h2
  Executors = {e1, e2}
  Handlers = {h1, h2}
  TaskIds = {1, 2, 3, 4}
  MaxRetry <- MCRetryOnce
  Cap <- MCCapOne
  MaxUploading = 2
  Timeouts = {"replicate"}
  Watched = {"SEAL_OBJECT_DONE", "SEAL_OBJECT_ERROR"}
  DbFails = TRUE
  MaxRestarts = 1
  NULL = NULL
SPECIFICATION Spec
SYMMETRY Symmetry
INVARIANTS  RetryBounded
 
