CONSTANTS
  Objects = {1, 2}
  Requests <- MCPlain
  Attempts = 1
  e1 = e1  e2 = e2  h1 = h1  h2 = h2
  Executors = {e1}
  Handlers = {h1}
  TaskIds = {1, 2, 3, 4, 5, 6}
  MaxRetry <- MCRetryOnce
  Cap <- MCCap
  MaxUploading = 2
  Timeouts = {"replicate", "seal"}
  Watched = {}
  DbFails = FALSE
  MaxRestarts = 0
  NULL = NULL
SPECIFICATION FairSpec
PROPERTIES EveryUploadConcludes
