CONSTANTS
  Assets = {a1}
  Variants <- OneVariant
  MaxIdent = 2
  Quota = 1
  MaxAttempts = 2
  Workers = {w1}
  MaxClaims = 2
  Restores = FALSE
  Remainders <- ServeRemainders
  Orphans <- NoOrphans
  Budget <- ServeBudget
  Requests = {q1, q2}
SPECIFICATION SSpec
SYMMETRY Symmetry
INVARIANTS ServedOnDisk CurrentPixelsServed DeferredIsServed
CHECK_DEADLOCK FALSE
