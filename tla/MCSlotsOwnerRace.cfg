CONSTANTS
  alice = alice  bob = bob  v1 = v1  v2 = v2  r1 = r1
  bot = bot  node = node
  None = None  NoOwner = NoOwner  NoRow = NoRow
  Tenant = {alice, bob}
  Version = {v1, v2}
  Request = {}
  Name = {bot}
  NameOf <- OneName
  NodeOf <- NodeIds
  MaxAttempts = 1
  Faults = {}
SPECIFICATION Spec
PROPERTY SlotOwnerKept
CHECK_DEADLOCK FALSE
