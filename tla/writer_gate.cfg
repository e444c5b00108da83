CONSTANTS
  o1 = o1
  o2 = o2
  o3 = o3
  Threads = {c1, c2}
  None = None
  Ops <- TwoOps
  Lane <- TwoLanes
  QueueMax = 1
  BatchMax = 2
  Retries = 1
  Budget <- GateBudget
SPECIFICATION FairSpec
INVARIANTS GateExclusive
PROPERTIES MaintenanceHoldsBack AcceptedSettles CallsReturn
CHECK_DEADLOCK FALSE
