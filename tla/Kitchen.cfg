SPECIFICATION FairSpec
CONSTANTS
  o1 = o1
  o2 = o2
  p1 = p1
  p2 = p2
  w1 = w1
  w2 = w2
  w3 = w3
  None = None
  Unwritten = Unwritten
  Orders = {o1, o2}
  Processes = {p1, p2}
  Workers = {w1, w2, w3}
  ProcessOf <- ThreeCallbacks
  Messages <- AllForms
  FaultKinds = {"crash", "close", "database"}
  MaxFaults = 2
INVARIANT IInv
INVARIANT NoOrderIsLost
PROPERTY ImplementsSagaStep
PROPERTY EveryOrderIsDecided
CHECK_DEADLOCK FALSE
