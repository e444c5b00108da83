CONSTANTS
  Assets = {a1}
  Variants <- TwoVariants
  MaxIdent = 2
  Quota = 2
  MaxAttempts = 2
  Workers = {w1}
  MaxClaims = 3
  Restores = FALSE
  Remainders <- LiveRemainders
  Orphans <- OneOrphan
  Budget <- LiveBudget
SPECIFICATION DFairSpec
INVARIANTS LedgerExact
PROPERTIES NoLostWork DerivativesSettle
CHECK_DEADLOCK FALSE
