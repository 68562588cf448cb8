CONSTANTS
  Segments = {0}
  ECPieces = {7}
  Secondaries = {s1, s2, s3}
  OtherContents = {"good"}
  DataShards = 2
  MaxRetry = 2
  RecoveryCap = 1
  Executors = {e1}
  MaxTasks = 2
  MaxLost = 1
  Requests = {r1}
  Asks <- RecoveryAsks
  PayloadSize = 2
  MaxSegmentSize = 2
  ChargedQuotas = {4}
  FreeQuota = 1
  DownloadParallel = 2
  ChallengeParallel = 2
  CacheSize = 1
  MaxTicks = 1
  DbFails = FALSE
SPECIFICATION FairSpec
INVARIANTS NeverStoresBadPiece
PROPERTIES EveryRequestEnds RecoveryComesToRest
CHECK_DEADLOCK FALSE
