CONSTANTS
  g1 = g1  g2 = g2  g3 = g3
  Gateway = {g1, g2, g3}
  MaxDeploys = 3
  Recreations = 1
  Faults <- AllFaults
SPECIFICATION Spec
SYMMETRY AlikeGateways
INVARIANTS ServedUnlessOvertaken GrantsAreBacked QuietIsClean LambdaInv
CHECK_DEADLOCK FALSE
