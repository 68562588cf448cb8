CONSTANTS
  r1 = r1  r2 = r2  r3 = r3
  Requests = {r1, r2, r3}
  Loads <- MCLoads
  MaxExpiryAge = 1
  SigExpiryAge = 1
  StartTime = 2
  MaxTime = 4
  MaxChanges = 1
  NULL = NULL
  ApprovalTimeoutHeight = 3
  ApprovalExpiredTimeout = 1
  Lag = 1
  Cap = 1
  Calls = {r1, r2, r3}
  BroadcastTxRetry = 2
  Free = Free
SPECIFICATION AccessSpec
SYMMETRY Symmetry
CHECK_DEADLOCK FALSE
INVARIANTS AllowedOnFacts  AcceptedByLiveKey AnswerNotExpired AnswerSigned
           NonceInStep NonceNotAhead
