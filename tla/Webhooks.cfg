SPECIFICATION FairWebhookSpec
CONSTANTS
  h1 = h1
  h2 = h2
  d1 = d1
  Hooks = {h1, h2}
  Events = {"order.created", "order.cancelled"}
  TestEvent = "order.created"
  Dispatches = {d1}
  MaxRetries = 3
  MaxCrashes = 1
INVARIANT WebhookIInv
PROPERTY RemovedHooksFallSilent
PROPERTY EveryReadHookIsNotified
CHECK_DEADLOCK FALSE
