CONSTANTS
  o1 = o1
  o2 = o2
  o3 = o3
  Threads = {c1, c2}
  None = None
  Ops <- MCOps
  Lane <- MCLane
  QueueMax = 2
  BatchMax = 2
  Retries = 1
  Budget <- BatchBudget
SPECIFICATION Spec
SYMMETRY Symmetry
INVARIANTS TypeOK OkIsDurable AppliedOnce LaneOrder
PROPERTIES RefusedNeverApplied
CHECK_DEADLOCK FALSE
