SPECIFICATION Spec
CONSTANTS
  d1 = d1
  d2 = d2
  Nobody = Nobody
  Common = Common
  Deployment <- Two
  Plan <- GuardrailPlans
  SharedKind = {"guardrail"}
  MaxAttempts = 2
  Faults = {"error", "kill"}
CHECK_DEADLOCK FALSE
PROPERTIES PrivateSurvives
