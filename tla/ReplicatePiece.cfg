CONSTANTS
  a = a  b = b  c = c  e1 = e1  e2 = e2
  NULL = NULL
  Runs = {e1, e2}
  SPs = {a, b, c}
  NReplica = 2
  NSegment = 2
  Offers <- MCOffers
  EC = TRUE
  MaxFails = 1
SPECIFICATION FairSpec
INVARIANTS
 SealedIsStored IntegrityKept
CHECK_DEADLOCK FALSE
PROPERTY RunsConclude
