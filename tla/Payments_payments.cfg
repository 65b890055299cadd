SPECIFICATION PaymentsSpec
CONSTANTS
  None = None
  c = c
  u = u
  h1 = h1
  h2 = h2
  w = w
  v = v
  Creator = c
  Users = {c, u}
  Hashes = {h1, h2}
  Payer <- TwoTransfers
  WellFormed = {h1, h2}
  ToMerchant = {h1, h2}
  MaxRequests = 1
  MaxPurchases = 1
  Elsewhere = {1}
  Verifiers = {v}
  Cashiers = {w}
  Worker = w
  Lifetime = 1
  Interval = 0
  Deadline = 1
  ClaimDuration = 0
  HoldDuration = 1
  Events = {e1}
  Capacities = {1}
INVARIANTS EachPaidByItsOwn
PROPERTIES ImplementsOneLedger
SYMMETRY AnyTransfer
CHECK_DEADLOCK FALSE
