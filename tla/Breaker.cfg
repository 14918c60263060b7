SPECIFICATION FairRetrySpec
CONSTANTS
  c1 = c1
  c2 = c2
  Never = Never
  Calls = {c1, c2}
  FailureThreshold = 2
  SuccessThreshold = 2
  Timeout = 2
  MaxRetries = 1
INVARIANT IInv
INVARIANT EffectsAreAccountedFor
PROPERTY OnlyLateTrialsCutTheTimeout
PROPERTY RecoversAfterOutage
PROPERTY EveryCallIsAnswered
CHECK_DEADLOCK FALSE
