CONSTANTS
  d1 = d1  d2 = d2  alice = alice  root = root  bob = bob  bot = bot  botr = botr
  e1 = e1  e2 = e2  t1 = t1  t2 = t2  i1 = i1  i2 = i2  warm = warm
  Nobody = Nobody
  Common = Common
  Deployment <- One
  Plan <- RichPlan
  SharedKind = {}
  MaxAttempts = 1
  Faults = {"late", "start", "error"}
  Caller = {alice, root}
  Admins = {root}
  Slug = {bot, botr}
  Canvas = {c1, c2}
  Scope = {"org"}
  SuffixedSlug <- SuffixToBotr
  RegistryFaults = {"unreadable"}
  MaxRegistryCalls = 4
  TemplateId = {"custom", "customer-support-blueprint", "mcp-server-gateway-target"}
  CustomTool = {"my_tool", "mytool"}
  SafeName <- StrippedName
  MaxPolicies = 2
  Direct = {e1, e2}
  Wishes <- SomeDirectWishes
  DirectFaults = {"call", "record", "cut"}
  Sub = {alice, bob}
  NoSub = NoSub
  Doc = {w1, f1}
  FlowDoc = {f1}
  Saver = {h1, h2}
  Content = {t1, t2}
  Connects <- EdgesOfNodes
  NotGiven = NotGiven
  Edits <- SomeEdits
  Specs <- SomeSpecs
  Import <- SomeImports
  MaxSaves = 4
  CanvasOf <- Canvases
  AgentTool <- AllTools
  AgentHost = "gateway"
  Invoker = {i1, i2}
  Warm = warm
  MaxTries = 2
  MaxCalls = 3
  Asks <- SomeAsks
  MaxMishaps = 1
SPECIFICATION ServicesSpec
SYMMETRY DirectsAlike
INVARIANTS
  ServicesTypeOK
  OnlyUnguardedOrphans
  ApprovalHolds
  ExportResolves
  StackComesUp
  DirectIsRecorded
  DirectRunsItsCode
  DocsSayWhatWasAsked
  GeneratedRuns
  ConnectedIsInEffect
  ToolsOrError
  OneSession
  GatewayAccounted
PROPERTIES
  BackingOutlives
  OwnersKept
CHECK_DEADLOCK FALSE
