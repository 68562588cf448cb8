CONSTANTS
  Segments = {0, 1}
  ECPieces = {7}
  Secondaries = {s1}
  OtherContents = {"good"}
  DataShards = 1
  MaxRetry = 2
  RecoveryCap = 1
  Executors = {}
  MaxTasks = 0
  MaxLost = 1
  Requests = {r1, r2}
  Asks <- QuotaAsks
  PayloadSize = 3
  MaxSegmentSize = 2
  ChargedQuotas = {0, 4}
  FreeQuota = 1
  DownloadParallel = 2
  ChallengeParallel = 2
  CacheSize = 1
  MaxTicks = 1
  DbFails = TRUE
SPECIFICATION Spec
INVARIANTS BodyIsRange ConsumedWithinGrant
CHECK_DEADLOCK FALSE
SYMMETRY RequestSymmetry
