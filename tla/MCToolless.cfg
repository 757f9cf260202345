SPECIFICATION ToolsSpec
CONSTANTS
  i1 = i1
  warm = warm
  AgentHost = "memory"
  Invoker <- OneCaller
  Warm = warm
  MaxTries = 2
  MaxCalls = 3
CHECK_DEADLOCK FALSE
INVARIANTS ToolsOrError
