--------------------------- MODULE MCRuntimeSlots ---------------------------
(* Small instances of RuntimeSlots: tenants that deploy, promote, roll     *)
(* back and tear down under one friendly name.                             *)
EXTENDS RuntimeSlots, TLC

CONSTANTS alice, bob, v1, v2, r1, bot, node

OneName == [v \in Version |-> bot]

\* The canvas gives a node an id of its own; an API caller may use the name.
NodeIds == [v \in Version |-> node]
NodesLikeNames == [v \in Version |-> bot]

AllFaults == FaultKinds

\* Tenants are alike, and so are deploys that ask for one name from like nodes.
Alike == Permutations(Tenant) \cup Permutations(Version)

=============================================================================
