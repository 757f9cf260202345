SPECIFICATION Spec
CONSTANTS
  d1 = d1
  d2 = d2
  Nobody = Nobody
  Common = Common
  Deployment <- One
  Plan <- KnowledgePlan
  SharedKind = {}
  MaxAttempts = 2
  Faults = {"start", "error", "delete", "kill", "exhaust", "crash"}
CHECK_DEADLOCK FALSE
PROPERTIES KeepsPromise
