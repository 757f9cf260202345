SPECIFICATION Spec
CONSTANTS
  d1 = d1
  d2 = d2
  Nobody = Nobody
  Common = Common
  Deployment <- One
  Plan <- GuardrailPlan
  SharedKind = {}
  MaxAttempts = 2
  Faults <- AllFaults
CHECK_DEADLOCK FALSE
INVARIANTS PipelineInv
