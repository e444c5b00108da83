CONSTANTS
  a = a
  b = b
  Libraries = {l1}
  Folders = {a, b}
  Workers = {w1, w2}
  LibOf <- OneLibrary
  All = All
  None = None
  AtStart <- Configurations
  MaxJobs = 2
  MaxRevs = 1
  Budget <- CatalogBudget
  MaxEvents = 3
SYMMETRY Symmetry
SPECIFICATION CSpec
INVARIANTS CTypeOK ReadyIsComplete JobsMatchConfiguration
PROPERTIES CatalogWritesFenced LiveClaimProtected
CHECK_DEADLOCK FALSE
