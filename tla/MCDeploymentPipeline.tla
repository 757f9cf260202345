------------------------ MODULE MCDeploymentPipeline ------------------------
(* Instances of DeploymentPipeline for TLC.                                *)
EXTENDS DeploymentPipeline

CONSTANTS d1, d2

One == {d1}
Two == {d1, d2}

\* Plans: what each of the deployments asks for.
MemoryPlan == [d \in One |-> {"memory", "per_agent"}]
GuardrailPlan == [d \in One |-> {"guardrails"}]
KnowledgePlan == [d \in One |-> {"knowledge_base", "gateway"}]
HarnessPlan == [d \in One |-> {"guardrails", "memory", "policy", "harness"}]
RichPlan == [d \in One |-> {"guardrails", "mcp_server", "knowledge_base",
                            "gateway", "memory", "policy", "evaluation",
                            "per_agent"}]
GuardrailPlans == [d \in Two |-> {"guardrails"}]

AllFaults == FaultKinds
=============================================================================
