SPECIFICATION Spec
CONSTANTS
  o1 = o1
  p1 = p1
  p2 = p2
  w1 = w1
  w2 = w2
  None = None
  Unwritten = Unwritten
  Orders = {o1}
  Processes = {p1, p2}
  Workers = {w1, w2}
  ProcessOf <- Replicas
  Messages <- JustOne
  FaultKinds = {}
  MaxFaults = 0
INVARIANT CancelledOrdersAreNotCharged
CHECK_DEADLOCK FALSE
