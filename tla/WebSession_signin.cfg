SPECIFICATION Spec
CONSTANTS
  None = None
  Wallets = {v, w}
  Networks = {test, main}
  MaxChallenges = 2
  Jobs = {j, k}
INVARIANTS OneSignRequest SignsForThisNetwork ChoosesOnce
SYMMETRY Alike
