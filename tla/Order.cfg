SPECIFICATION FairSpec
CONSTANTS
  o1 = o1
  p1 = p1
  p2 = p2
  w1 = w1
  w2 = w2
  k1 = k1
  k2 = k2
  NoKey = NoKey
  None = None
  Unwritten = Unwritten
  Orders = {o1}
  Processes = {p1, p2}
  Workers = {w1, w2}
  ProcessOf <- Replicas
  Messages <- Everything
  Requests <- Retries
  Parsing = {p1}
  Subscribing = {p2}
  FaultKinds = {"crash", "close", "database"}
  MaxFaults = 1
INVARIANT IInv
INVARIANT NoOrderIsLost
INVARIANT CancelsArePublished
PROPERTY OrderNeverGoesBack
PROPERTY EveryOrderIsPersisted
CHECK_DEADLOCK FALSE
