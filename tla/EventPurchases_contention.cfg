SPECIFICATION ContentionSpec
CONSTANTS
  None = None
  u1 = u1
  u2 = u2
  h1 = h1
  h2 = h2
  w = w
  v = v
  Events = {e1}
  Users = {u1, u2}
  Hashes = {h1, h2}
  Payer <- TwoPayers
  WellFormed = {h1, h2}
  Capacities = {1}
  MaxPurchases = 2
  Verifiers = {w, v}
  HoldDuration = 1
  Interval = 0
  Deadline = 1
  ClaimDuration = 1
  Elsewhere = {0}
INVARIANTS HashReserved PaidWhenConfirmed OneActivePurchase
PROPERTIES Lifecycle ImplementsLedger
SYMMETRY AnyVerifier
CHECK_DEADLOCK FALSE
