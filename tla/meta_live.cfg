CONSTANTS
  Paths = {p1}
  Workers = {w1, w2}
  Tokens = {t1, t2}
  None = None
  MaxAttempts = 2
  ClaimBatch = 1
  MaxVer = 2
  MaxSide = 0
  Budget <- PairBudget
SPECIFICATION FairSpec
PROPERTIES JobsSettle NoLostUpdate
