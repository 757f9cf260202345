---------------------------- MODULE MCAgentTools ----------------------------
(* Instances of AgentTools for TLC.                                        *)
EXTENDS AgentTools

CONSTANTS i1, warm
OneCaller == {i1}
=============================================================================
