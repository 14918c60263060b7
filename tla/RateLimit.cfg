SPECIFICATION LimiterSpec
CONSTANTS
  u1 = u1
  r1 = r1
  r2 = r2
  r3 = r3
  NoBucket = NoBucket
  UserIds = {u1}
  RequestSlots = {r1, r2, r3}
  UserOf <- Owners
  Limit <- SmallPlan
  MaxConcurrent <- TwoAtOnce
  FreeTokens = 2
  Refill <- OneATick
  Length <- Calendar
  Weights = {1, 2}
  MaxClock = 9
SYMMETRY Slots
INVARIANT LimiterIInv
INVARIANT WindowsHold
INVARIANT ConcurrencyHoldsAtFirst
CHECK_DEADLOCK FALSE
