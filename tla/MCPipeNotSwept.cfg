SPECIFICATION Spec
CONSTANTS
  d1 = d1
  d2 = d2
  Nobody = Nobody
  Common = Common
  Deployment <- One
  Plan <- MemoryPlan
  SharedKind = {}
  MaxAttempts = 1
  Faults = {"error", "store"}
CHECK_DEADLOCK FALSE
INVARIANTS FailedIsSwept
