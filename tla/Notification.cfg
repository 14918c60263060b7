SPECIFICATION FairSpec
CONSTANTS
  o1 = o1
  p1 = p1
  p2 = p2
  w1 = w1
  w2 = w2
  w3 = w3
  None = None
  Processes = {p1, p2}
  Workers = {w1, w2, w3}
  ProcessOf <- ThreeCallbacks
  Messages <- Copies
  FaultKinds = {"crash", "close", "database"}
  MaxFaults = 1
INVARIANT IInv
INVARIANT NoNotificationIsLost
PROPERTY RecordedEventsAreFinal
PROPERTY EveryEventIsNotified
CHECK_DEADLOCK FALSE
