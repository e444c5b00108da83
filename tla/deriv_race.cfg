CONSTANTS
  Assets = {a1}
  Variants <- OneVariant
  MaxIdent = 2
  Quota = 1
  MaxAttempts = 2
  Workers = {w1, w2}
  MaxClaims = 3
  Restores = FALSE
  Remainders <- RaceRemainders
  Orphans <- NoOrphans
  Budget <- RaceBudget
SPECIFICATION DSpec
SYMMETRY Symmetry
INVARIANTS DTypeOK ReadyHasPixels
PROPERTIES LeasesFence
CHECK_DEADLOCK FALSE
