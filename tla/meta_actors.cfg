CONSTANTS
  Paths = {p1}
  Workers = {w1}
  Tokens = {t1, t2}
  None = None
  MaxAttempts = 2
  ClaimBatch = 1
  MaxVer = 2
  MaxSide = 1
  Budget <- ActorsBudget
SPECIFICATION Spec
SYMMETRY Symmetry
INVARIANTS CurrentMetadataIsFresh
PROPERTIES CompletionMaterializes
