CONSTANTS
  Paths = {p1, p2}
  Workers = {w1, w2}
  Tokens = {t1, t2, t3, t4}
  None = None
  MaxAttempts = 2
  ClaimBatch = 2
  MaxVer = 2
  MaxSide = 0
  Budget <- BatchBudget
SPECIFICATION Spec
SYMMETRY BatchSymmetry
INVARIANTS TypeOK SoleOwner OwnerViewIsCurrent
PROPERTIES LiveLeaseProtected StaleWorkerWritesNothing
