SPECIFICATION FairSpec
CONSTANTS
  None = None
  c = c
  u = u
  h1 = h1
  w = w
  v = v
  Creator = c
  Users = {c, u}
  Hashes = {h1}
  Payer <- OneTransfer
  WellFormed = {h1}
  MaxRequests = 2
  Verifiers = {w, v}
  Worker = w
  Lifetime = 1
  Interval = 1
  Deadline = 2
  ClaimDuration = 1
  Elsewhere = {0}
INVARIANTS HashReserved PaidMeansSettled AcceptedHashBinds
PROPERTIES Lifecycle EveryPaymentResolves
CHECK_DEADLOCK FALSE
