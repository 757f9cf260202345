CONSTANTS
  g1 = g1  g2 = g2  g3 = g3
  Gateway = {g1, g2}
  MaxDeploys = 2
  Recreations = 0
  Faults = {"poll"}
SPECIFICATION Spec
INVARIANT FailedHoldsNoGrant
CHECK_DEADLOCK FALSE
