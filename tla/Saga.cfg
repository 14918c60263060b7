SPECIFICATION FairSagaSpec
CONSTANTS
  o1 = o1
  Unwritten = Unwritten
  Orders = {o1}
  EmptyOrders = {}
  ExternalKeys = {"order.created", "payment.succeeded"}
  Cancellable = {o1}
  MaxCrashes = 1
INVARIANT SagaIInv
PROPERTY RoutedEventsAreHandled
CHECK_DEADLOCK FALSE
