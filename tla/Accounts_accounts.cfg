SPECIFICATION FairSpec
CONSTANTS
  None = None
  Users = {u1, u2}
  Wallets = {w1}
  Challenges = {c1, c2}
  Objects = {o1}
  Requests = {p, q}
INVARIANTS ChallengeUsedOnce
PROPERTIES NeverResumes EvidenceKept EveryTransactionEnds
CHECK_DEADLOCK FALSE
