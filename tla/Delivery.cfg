SPECIFICATION FairCompensationSpec
CONSTANTS
  o1 = o1
  p1 = p1
  p2 = p2
  p3 = p3
  w1 = w1
  w2 = w2
  w3 = w3
  None = None
  Orders = {o1}
  KitchenOrders = {o1}
  Processes = {p1, p2, p3}
  Workers = {w1, w2, w3}
  Couriers = {w1, w2}
  Cooks = {w3}
  ProcessOf <- Replicas
  Messages <- CancelledOrder
  FaultKinds = {"crash", "close", "database"}
  MaxFaults = 1
INVARIANT IInv
INVARIANT AnnouncementsAreRecorded
PROPERTY TrackedAssignmentsAreFinal
PROPERTY EveryPaidOrderIsAssigned
PROPERTY FallbackReleasesTheDriver
CHECK_DEADLOCK FALSE
