SPECIFICATION Spec
CONSTANTS
  tA = tA  tB = tB  cA = cA  cA2 = cA2  cB = cB  k1 = k1  k2 = k2
  None = None
  Caller = {h1, h2}
  Operator = {o1, o2}
  Tenant = {tA, tB}
  Consumer = {cA, cA2, cB}
  Token = {k1, k2}
  Onboardings <- TwoIntegrations
  Requests <- MixedRequests
  api_secret = "good"
  allowlist = {tA}
  TTL = 2
  MaxTTL = 2
  MaxLag = 1
  MaxRequests = 2
  MaxChanges = 3
SYMMETRY Processes
INVARIANTS RevocationBites LastWordStands
