---------------------------- MODULE StepPrograms ----------------------------
(***************************************************************************)
(* What the step Lambdas of a deployment do to AWS, to the manifest of the *)
(* deployment record and to its status, one program per handler.  A        *)
(* program is a sequence of instructions; DeploymentPipeline runs them and *)
(* decides what may come between two of them.                              *)
(*                                                                         *)
(*   begin       update_step: the record says in_progress                  *)
(*   call        calls that read, wait or configure, and that may raise    *)
(*   ensure k    create, or adopt what already has the name                *)
(*   create k    create, or raise when the name is taken                   *)
(*   fresh k     create another one, whatever exists                       *)
(*   found k     go to "join" when something has the name                  *)
(*   record k    append to created_resources                               *)
(*   record_new  append only what this invocation created                  *)
(*   drop k      the abort cleanup of the gateway deployer deletes k       *)
(*   return, raise                                                         *)
(***************************************************************************)
EXTENDS Naturals, Sequences

CONSTANTS
  Deployment,
  Plan,        \* the optional parts each deployment asks for
  SharedKind,  \* kinds whose name comes from the canvas and is the same in all
  Common       \* the label of those

Feature == {"guardrails", "mcp_server", "knowledge_base", "opensearch",
            "gateway", "memory", "policy", "harness", "per_agent",
            "evaluation"}

\* The order of the state machine, the failure handler aside.
Chain == <<"validate", "guardrails", "mcp_server", "knowledge_base", "gateway",
           "memory", "policy", "harness", "codegen", "iam",
           "runtime_configure", "runtime_launch", "evaluation", "auth",
           "status_update">>

TailPos == 15
Step == {Chain[i] : i \in 1 .. TailPos} \cup {"failure"}

Optional == {"guardrails", "mcp_server", "knowledge_base", "gateway", "memory",
             "policy", "harness", "evaluation"}
RuntimeOnly == {"codegen", "iam", "runtime_configure", "runtime_launch"}

Planned(d, s) ==
  /\ s \in Optional => s \in Plan[d]
  /\ s \in RuntimeOnly => "harness" \notin Plan[d]
  /\ s = "auth" => "gateway" \in Plan[d]

\* Kinds whose name may come from the canvas.
UserNamed == {"guardrail", "mcp_role", "mcp_runtime", "knowledge_base",
              "gateway_role", "gateway", "memory_role", "memory",
              "policy_engine", "eval_config"}

Kind == UserNamed \cup
  {"mcp_pool", "kb_role", "vector_bucket", "collection", "exec_role",
   "agent_runtime", "harness_role", "harness_provider", "harness", "eval_role"}

ASSUME PlanAssumption ==
  /\ Plan \in [Deployment -> SUBSET Feature]
  /\ SharedKind \subseteq UserNamed
  /\ Common \notin Deployment

\* Kinds that a manifest row names; the rows of the others hold an id.
ByName == {"mcp_role", "kb_role", "vector_bucket", "gateway_role",
           "memory_role", "exec_role", "harness_role", "harness_provider",
           "eval_role"}

-----------------------------------------------------------------------------
I(op, kind) == [op |-> op, kind |-> kind]
Call == I("call", "none")
Join == I("join", "none")

\* Mutant of GuardrailsBody: the guardrail is recorded once it is ready.
GuardrailsBodyLate == <<I("ensure", "guardrail"), Call, I("record", "guardrail")>>

GuardrailsBody == <<I("ensure", "guardrail"), I("record", "guardrail"), Call>>

\* The role's policy is put on it before the role is recorded.
McpServerBody ==
  <<Call, I("ensure", "mcp_role"), Call, I("record", "mcp_role"),
    I("fresh", "mcp_pool"), I("record", "mcp_pool"), Call,
    I("ensure", "mcp_runtime"), I("record", "mcp_runtime"), Call>>

\* The vector store that the handler provides when none is given.
CollectionBody == <<I("ensure", "collection"), I("record", "collection")>>
VectorBucketBody == <<I("ensure", "vector_bucket"), I("record", "vector_bucket")>>

StoreBody(d) == IF "opensearch" \in Plan[d] THEN CollectionBody ELSE VectorBucketBody

\* The role, and its policy when it is new.
KbRoleBody == <<I("ensure", "kb_role"), Call, I("record", "kb_role")>>

\* The data source, new or found, and its ingestion.
IngestBody == <<Call>>

KnowledgeBaseBody(d) ==
  KbRoleBody \o <<I("found", "knowledge_base")>> \o StoreBody(d) \o
  <<Call, I("create", "knowledge_base"), I("record", "knowledge_base"), Join>>
  \o IngestBody

GatewayBody ==
  <<I("ensure", "gateway_role"), Call, I("ensure", "gateway"), Call,
    I("record", "gateway"), I("record", "gateway_role")>>

\* A failed deploy_gateway cleans up, and the handler records the inventory.
GatewayAbort ==
  <<I("drop", "gateway"), I("drop", "gateway_role"), I("record", "gateway"),
    I("record", "gateway_role"), I("raise", "none")>>

\* Mutant of MemoryBody: an existing role is taken for an existing memory.
MemoryBodyByRole ==
  <<I("found", "memory_role"), I("ensure", "memory_role"), Call,
    I("record_new", "memory_role"), Call, I("ensure", "memory"),
    I("record", "memory"), Call, Join>>

MemoryBody ==
  <<I("found", "memory"), I("ensure", "memory_role"), Call,
    I("record_new", "memory_role"), Call, I("ensure", "memory"),
    I("record", "memory"), Call, Join>>

\* The policies, waited for, and the engine attached to the gateway.
PolicyRulesBody == <<Call>>

\* Without a gateway there is nothing to attach policies to.
PolicyBody(d) ==
  IF "gateway" \notin Plan[d] THEN <<>>
  ELSE <<I("found", "policy_engine"), I("create", "policy_engine"),
         I("record", "policy_engine"), Join>> \o PolicyRulesBody

\* Builds and uploads the package; nothing of it is in the manifest.
CodegenBody == <<Call>>

\* The shared execution role is not created by a deployment.
IamBody(d) ==
  IF "per_agent" \in Plan[d] THEN <<I("ensure", "exec_role"), Call>> ELSE <<>>

ConfigureBody(d) ==
  <<Call, I("ensure", "agent_runtime"), I("record", "agent_runtime")>>
  \o (IF "per_agent" \in Plan[d] THEN <<I("record", "exec_role")>> ELSE <<>>)

LaunchBody == <<I("record", "agent_runtime"), Call>>

HarnessBody(d) ==
  LET provider(op) == IF "gateway" \in Plan[d]
                      THEN <<I(op, "harness_provider")>> ELSE <<>>
  IN  <<I("ensure", "harness_role"), Call>> \o provider("ensure")
      \o <<I("ensure", "harness"), I("record", "harness"),
           I("record", "harness_role")>>
      \o provider("record") \o <<I("begin", "none"), Call>>

EvaluationBody == <<I("ensure", "eval_role"), Call, I("ensure", "eval_config")>>

\* Only looks at what the steps before it returned.
AuthBody == <<>>

\* Mutant of FailureBody: the record is marked once the cleanup is done.
FailureBodySweepFirst == <<I("snapshot", "none"), I("sweep", "none"), I("fail", "none")>>

\* status_update_step, as the failure handler.
FailureBody == <<I("fail", "none"), I("snapshot", "none"), I("sweep", "none")>>

Body(d, s) ==
  CASE s = "guardrails"        -> GuardrailsBody
    [] s = "mcp_server"        -> McpServerBody
    [] s = "knowledge_base"    -> KnowledgeBaseBody(d)
    [] s = "gateway"           -> GatewayBody
    [] s = "memory"            -> MemoryBody
    [] s = "policy"            -> PolicyBody(d)
    [] s = "harness"           -> HarnessBody(d)
    [] s = "codegen"           -> CodegenBody
    [] s = "iam"               -> IamBody(d)
    [] s = "runtime_configure" -> ConfigureBody(d)
    [] s = "runtime_launch"    -> LaunchBody
    [] s = "evaluation"        -> EvaluationBody
    [] s = "auth"              -> AuthBody
    [] s = "status_update"     -> <<I("succeed", "none")>>
    [] s = "failure"           -> FailureBody
    [] OTHER                   -> <<>>

ProgramOf(d, s) ==
  <<I("begin", "none")>> \o Body(d, s) \o <<I("return", "none")>>
  \o (IF s = "gateway" THEN GatewayAbort ELSE <<>>)

Program == [d \in Deployment |-> [s \in Step |-> ProgramOf(d, s)]]

\* Where the abort section of the gateway step starts.
AbortPc == Len(GatewayBody) + 3

\* Where a successful lookup goes on.
JoinPc(prog) == CHOOSE i \in DOMAIN prog : prog[i].op = "join"

-----------------------------------------------------------------------------
(* The order of the failure cleanup.                                       *)

\* Mutant of Priority: the vector bucket goes with the primary resources.
PriorityBucketEarly(k) == IF k \in {"knowledge_base", "vector_bucket"} THEN 0 ELSE 1

Priority(k) ==
  CASE k = "knowledge_base"                                -> 0
    [] k \in {"agent_runtime", "mcp_runtime", "harness"}   -> 1
    [] k \in {"gateway", "policy_engine"}                  -> 2
    [] k = "collection"                                    -> 4
    [] k \in {"memory", "guardrail"}                       -> 6
    [] k = "harness_provider"                              -> 7
    [] k = "vector_bucket"                                 -> 8
    [] OTHER                                               -> 9

\* The failure cleanup has no arm for an OpenSearch collection: it counts the
\* row as cleaned and deletes nothing.
HasArm(k) == k # "collection"

=============================================================================
