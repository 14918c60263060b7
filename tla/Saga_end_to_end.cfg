SPECIFICATION FairSagaSpec
CONSTANTS
  o1 = o1
  Unwritten = Unwritten
  Orders = {o1}
  EmptyOrders = {}
  ExternalKeys = {"order.created"}
  Cancellable = {}
  MaxCrashes = 0
PROPERTY SagaCompletes
CHECK_DEADLOCK FALSE
