SPECIFICATION Spec
CONSTANTS
  tA = tA  tB = tB  ns = ns  r1 = r1  p1 = p1  p2 = p2  w1 = w1  w2 = w2  w3 = w3
  None = None  Empty = Empty
  WriteId = {w1, w2}
  Tenant = {tA, tB}
  Platform = {ns}
  Record = {r1}
  Edited = {}
  Payload = {p1, p2}
  Proposals <- MixedProposals
  Compensations <- MixedCompensations
  Threshold = 2
  Cooldown = 1
  MaxFaults = 2
  MaxCrashes = 1
INVARIANTS ApprovalGate ProbeNeverWedged OpenBreakerShieldsErp OutageIsolated TripIsEscalated CaviRecordsAreAsked
PROPERTIES ImplementsGate
