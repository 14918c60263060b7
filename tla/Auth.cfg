SPECIFICATION Spec
CONSTANTS
  u1 = u1
  r1 = r1
  r2 = r2
  NoToken = NoToken
  Users = {u1}
  Requests = {r1, r2}
  Lifetime = 2
  MaxTime = 3
  MaxFaults = 1
SYMMETRY InFlight
INVARIANT IInv
INVARIANT SessionsSurvive
PROPERTY RevokedTokensAreSpent
CHECK_DEADLOCK FALSE
