SPECIFICATION Spec
CONSTANTS
  None = None
  Cancelled = Cancelled
  Purchases = {a}
  Requests = {r}
  Jobs = {j, k}
  MaxPaid = 2
INVARIANTS OnePrompt SubmittedOnce
PROPERTIES KeptHashNotPaidAgain
SYMMETRY AnyJob
CHECK_DEADLOCK FALSE
