SPECIFICATION FairSpec
CONSTANTS
  o1 = o1
  p1 = p1
  p2 = p2
  w1 = w1
  w2 = w2
  None = None
  Unwritten = Unwritten
  Orders = {o1}
  Processes = {p1, p2}
  Workers = {w1, w2}
  ProcessOf <- Replicas
  Messages <- Everything
  FaultKinds = {"crash", "close", "database"}
  MaxFaults = 2
INVARIANT IInv
PROPERTY TrackedRefundsAreFinal
PROPERTY ImplementsSagaStep
PROPERTY EveryAcceptedOrderIsCharged
PROPERTY ChargedOrdersAreRefunded
CHECK_DEADLOCK FALSE
