------------------------- MODULE MCSharedToolLambda -------------------------
(* Small instances of SharedToolLambda.                                    *)
EXTENDS SharedToolLambda, TLC

CONSTANTS g1, g2, g3

AllFaults == FaultKinds

\* Gateways differ only by name.
AlikeGateways == Permutations(Gateway)

=============================================================================
