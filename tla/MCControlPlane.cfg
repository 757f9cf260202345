CONSTANTS
  alice = alice  v1 = v1  v2 = v2  r1 = r1  bot = bot  node = node
  t1 = t1  t2 = t2  p1 = p1  p2 = p2  a1 = a1  a2 = a2
  None = None  NoOwner = NoOwner  NoRow = NoRow
  Tenant = {alice}
  Version = {v1, v2}
  Request = {r1}
  Name = {bot}
  NameOf <- OneName
  NodeOf <- NodeIds
  MaxAttempts = 2
  Faults = {"put", "kill"}
  Teardown = {t1, t2}
  Records <- SomeRecords
  AsyncRetries = 1
  TeardownFaults <- TeardownFaultKinds
  MaxTroubles = 1
  Policy = {p1, p2}
  Sound = {p1}
  Wishes <- SomeWishes
  Promoter = {a1, a2}
  Recreates = 1
  PromotionFaults <- PromotionFaultKinds
  MaxSetbacks = 1
SPECIFICATION PlatformSpec
INVARIANTS
  PlatformTypeOK
  SlotsServable
  SuccessIsWhole
  StrandedIsTold
  RepeatSucceeds
  EnforcementAsTold
PROPERTIES
  PendingResolves
  DeleteSettles
  PendingConverges
CHECK_DEADLOCK FALSE
