CONSTANTS
  alice = alice  bob = bob  v1 = v1  v2 = v2  r1 = r1
  bot = bot  node = node
  None = None  NoOwner = NoOwner  NoRow = NoRow
  Tenant = {alice, bob}
  Version = {v1, v2}
  Request = {r1}
  Name = {bot}
  NameOf <- OneName
  NodeOf <- NodesLikeNames
  MaxAttempts = 1
  Faults <- AllFaults
SPECIFICATION Spec
SYMMETRY Alike
INVARIANTS SlotsInv SlotPointersOwned LineageWithinTenant SlotsPointAtStartedRuntimes
CHECK_DEADLOCK FALSE
