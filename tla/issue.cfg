\* Three deliveries that may carry the same request, two nonces, two challenges.
SPECIFICATION Spec
CONSTANTS
  d1 = d1  d2 = d2  d3 = d3  f1 = f1  f2 = f2  k1 = k1  k2 = k2
  Deliveries = {d1, d2, d3}
  Fetches = {f1, f2}
  Keys = {k1, k2}
  NoChallenge = NoChallenge
  ChallengeLifetime = 2
  ReplayTtl = 3
  MaxTime = 4
CONSTRAINT
  TwoDeliveriesOrNoChallenge
INVARIANTS
  TypeOK
  GrantedOnce
  NonceWindow
SYMMETRY Symmetry
