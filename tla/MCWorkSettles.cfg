SPECIFICATION WorkSpec
CONSTANTS
  d1 = d1
  d2 = d2
  f1 = f1  f2 = f2  k1 = k1  k2 = k2
  NoFlow = NoFlow
  Nobody = Nobody
  Common = Common
  Deployment <- One
  Plan <- HarnessPlan
  SharedKind = {}
  MaxAttempts = 2
  Faults = {"error", "record", "kill", "tail"}
  Flow = {f1, f2}
  Fetch = {k1, k2}
  FlowsThere <- SomeFlows
  EditorFaults = {"request", "answer"}
  MaxHistory = 1
  MaxDeeds = 2
  MaxAsks = 2
CHECK_DEADLOCK FALSE
INVARIANTS SucceededIsWhole SweptClean EditorInv
PROPERTIES Settles WorkIsSaved
