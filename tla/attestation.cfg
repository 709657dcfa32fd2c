\* One request at a time, while the registry and the challenge are replaced.
CONSTANTS
  c1 = c1
  c2 = c2
  d1 = d1
  d2 = d2
  k1 = k1
  k2 = k2
  Challenges = {c1, c2}
  NoNonce = NoNonce
  NoEntry = NoEntry
  NoRequest = NoRequest
  NoDevice = NoDevice
  NoProof = NoProof
  Nothing = Nothing
  Garbled = Garbled
  Entries <- MCEntries
  Requests <- MCRequests
  DefaultConfigTtl = 6
  DefaultSoftTtl = 3
  TtlMin = 1
  TtlMax = 9
SPECIFICATION Spec
INVARIANTS
  TypeOK
  StrictGrantIsBacked
  
  LeavesAddNothing
  FlatPoliciesDecide
