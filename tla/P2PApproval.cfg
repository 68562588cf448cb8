CONSTANTS
  r1 = r1  r2 = r2  n1 = n1  n2 = n2
  a = a  b = b  me = me  Nil = Nil
  Requests = {r1, r2}
  Obj <- MCObj
  Nodes = {n1, n2}
  SpOf <- MCSpOf
  Self = me
  SpLists <- MCSpLists
  MinAccept = 1
  MaxAccept = 2
  ChannelSize = 1
  Parallel = 2
  Expired = 0
  MaxHeight = 1
SPECIFICATION P2PFairSpec
INVARIANTS P2PTypeOK NoSendOnClosed WaiterIsRegistered
 
CHECK_DEADLOCK FALSE
