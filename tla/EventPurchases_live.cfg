SPECIFICATION OrderlyFairSpec
CONSTANTS
  None = None
  u1 = u1
  u2 = u2
  h1 = h1
  h2 = h2
  w = w
  v = v
  Events = {e1}
  Users = {u1, u2}
  Hashes = {h1}
  Payer <- OneTransfer
  WellFormed = {h1}
  Capacities = {1}
  MaxPurchases = 2
  Verifiers = {w, v}
  HoldDuration = 1
  Interval = 0
  Deadline = 1
  ClaimDuration = 1
  Elsewhere = {0}
INVARIANTS NotOversold AttendeeCountExact
PROPERTIES EveryPaymentResolves
CHECK_DEADLOCK FALSE
