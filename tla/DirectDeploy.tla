---------------------------- MODULE DirectDeploy ----------------------------
(***************************************************************************)
(* WorkflowExecutor.deploy: the deployment POST /api/workflows/{id}/deploy *)
(* runs in one call, without the state machine.  It makes what the canvas  *)
(* asks for, one AWS call after the other, and after most of them appends  *)
(* what it made to a manifest under an identifier it has just drawn.  An   *)
(* exception in the policy, guardrail or memory part ends that part; any   *)
(* other ends the deployment.  The call may also be cut off anywhere.      *)
(*                                                                         *)
(* All deployments here are of canvases of one name, so they share the     *)
(* S3 key of the code and, because every create takes over what exists by  *)
(* its name, the resources.                                                *)
(***************************************************************************)
EXTENDS Naturals, Sequences

CONSTANTS
  Direct,       \* deployments
  Wishes,       \* what their canvases ask for, a subset of WishSpace
  DirectFaults  \* a subset of {"call", "record", "cut"}: an AWS call raises,
                \* the manifest refuses a row (once), the caller is cut off

WishSpace == [mcp : BOOLEAN, gateway : {"none", "agentcore", "litellm", "litellm_ref"},
              policy : BOOLEAN, guardrails : BOOLEAN, memory : BOOLEAN,
              harness : BOOLEAN]

ASSUME DirectAssumption ==
  /\ Wishes \subseteq WishSpace
  /\ DirectFaults \subseteq {"call", "record", "cut"}

VARIABLES
  wish,      \* the canvas of each deployment
  at,        \* the next step of each, 0 before it begins
  outcome,   \* how each ended; "failed" too when it was cut off
  live,      \* the resources there are
  madeBy,    \* which of them each deployment made, not found
  inManifest, \* created_resources of each
  refused,   \* what the manifest refused
  stored,    \* whose code is under the S3 key
  running,   \* whose code the runtime took from there
  disturbed, \* the deployments another one of the name ran beside or after
  lapsed     \* those whose update of the runtime they found failed

directVars == <<wish, at, outcome, live, madeBy, inManifest, refused, stored,
                running, disturbed, lapsed>>
directRest == <<wish, refused, stored, running, disturbed, lapsed>>

---------------------------------------------------------------------------
(* The deployment as a sequence of calls.  "make" creates or finds, "take" *)
(* creates a runtime or takes it over with an update, "find" looks for     *)
(* what to reuse, "new" creates and meets a conflict where the name is     *)
(* taken, "mint" creates whatever there is, "try" goes on when it raises,  *)
(* "call" changes nothing modelled here but may raise.                     *)

DirectStep(do, what, part) == [do |-> do, what |-> what, part |-> part]
If(condition, steps) == IF condition THEN steps ELSE << >>

(* A role is created or found, and granted what it needs.                  *)
GrantedRole(role, part) ==
  <<DirectStep("make", {role}, part), DirectStep("call", {"put_role_policy"}, part)>>

DirectMcp ==
  <<DirectStep("call", {"upload"}, "mcp")>> \o GrantedRole("mcp_role", "mcp") \o
  <<DirectStep("record", {"mcp_role"}, "mcp"),
    DirectStep("make", {"mcp_runtime"}, "mcp"), DirectStep("record", {"mcp_runtime"}, "mcp"),
    DirectStep("call", {"wait"}, "mcp")>>

(* deploy_gateway makes the gateway with its role, its pool and its tool   *)
(* Lambdas, or takes back what it made.                                    *)
GatewayGroup == {"gateway", "gateway_role", "user_pool", "tool_lambda"}
DirectGateway ==
  <<DirectStep("make", GatewayGroup, "gateway"), DirectStep("record", GatewayGroup, "gateway")>>

(* LiteLLM is the customer's: it is probed, and only then its key stored,  *)
(* unless the canvas names a stored one; either is recorded.               *)
LitellmGateway(stored_key) ==
  <<DirectStep("call", {"probe"}, "gateway")>>
  \o If(~stored_key, <<DirectStep("mint", {"secret"}, "gateway")>>)
  \o <<DirectStep("record", {"secret"}, "gateway")>>

DirectPolicy ==
  <<DirectStep("make", {"policy_engine"}, "policy"), DirectStep("try", {"policies"}, "policy"),
    DirectStep("call", {"update_gateway"}, "policy")>>

DirectGuardrail ==
  <<DirectStep("new", {"guardrail"}, "guardrails"), DirectStep("make", {"guardrail_version"}, "guardrails")>>

DirectMemory ==
  <<DirectStep("find", {"memory"}, "memory"), DirectStep("make", {"memory_role"}, "memory"),
    DirectStep("call", {"put_role_policy"}, "memory"), DirectStep("record", {"memory_role"}, "memory"),
    DirectStep("new", {"memory"}, "memory"), DirectStep("record", {"memory"}, "memory")>>

HarnessRole == GrantedRole("harness_role", "harness")
HarnessMade == <<DirectStep("make", {"harness"}, "harness")>>

\* Mutant of DirectHarness: the role is not recorded.
HarnessOnlyRecorded ==
  HarnessRole \o HarnessMade
  \o <<DirectStep("record", {"harness"}, "harness"), DirectStep("call", {"wait"}, "harness")>>

DirectHarness ==
  HarnessRole \o HarnessMade
  \o <<DirectStep("record", {"harness"}, "harness"), DirectStep("record", {"harness_role"}, "harness"),
       DirectStep("call", {"wait"}, "harness")>>

DirectRuntime ==
  <<DirectStep("upload", {"code"}, "runtime")>> \o GrantedRole("runtime_role", "runtime") \o
  <<DirectStep("record", {"runtime_role"}, "runtime"),
    DirectStep("take", {"runtime"}, "runtime"), DirectStep("record", {"runtime"}, "runtime"),
    DirectStep("call", {"wait"}, "runtime")>>

DirectProgram(w) ==
  If(w.mcp, DirectMcp)
  \o If(w.gateway = "agentcore", DirectGateway)
  \o If(w.gateway \in {"litellm", "litellm_ref"}, LitellmGateway(w.gateway = "litellm_ref"))
  \o If(w.policy /\ w.gateway = "agentcore", DirectPolicy)
  \o If(w.guardrails, DirectGuardrail)
  \o If(w.memory, DirectMemory)
  \o IF w.harness THEN DirectHarness ELSE DirectRuntime

Programs == [w \in Wishes |-> DirectProgram(w)]
Size(d) == Len(Programs[wish[d]])
At(d) == Programs[wish[d]][at[d]]
Deploying(d) == outcome[d] = "none" /\ at[d] > 0
DoesDirect(d, does) == Deploying(d) /\ At(d).do \in does

(* Where a part is left: behind its last step, or the end of everything.   *)
Lenient == {"policy", "guardrails", "memory"}
Behind(d) ==
  CHOOSE i \in at[d]..(Size(d) + 1) :
    /\ \A j \in at[d]..(i - 1) : Programs[wish[d]][j].part = At(d).part
    /\ i <= Size(d) => Programs[wish[d]][i].part # At(d).part

Reach(d, i) ==
  /\ at' = [at EXCEPT ![d] = i]
  /\ outcome' = IF i > Size(d) THEN [outcome EXCEPT ![d] = "success"] ELSE outcome

Advance(d) == Reach(d, at[d] + 1)

(* The resources are there, and d has made those that were not found.      *)
Obtain(d, things, found) ==
  /\ live' = live \cup things
  /\ madeBy' = [madeBy EXCEPT ![d] = @ \cup (things \ found)]

---------------------------------------------------------------------------
DirectInit ==
  /\ wish \in [Direct -> Wishes]
  /\ at = [d \in Direct |-> 0]
  /\ outcome = [d \in Direct |-> "none"]
  /\ live = {} /\ stored = {} /\ running = {} /\ disturbed = {} /\ lapsed = {}
  /\ madeBy = [d \in Direct |-> {}]
  /\ inManifest = [d \in Direct |-> {}]
  /\ refused = {}

BeginDirect(d) ==
  /\ at[d] = 0 /\ outcome[d] = "none"
  /\ at' = [at EXCEPT ![d] = 1]
  /\ disturbed' = disturbed \cup {o \in Direct \ {d} : at[o] > 0}
                  \cup {x \in {d} : \E o \in Direct \ {d} : Deploying(o)}
  /\ UNCHANGED <<wish, outcome, live, madeBy, inManifest, refused, stored, running, lapsed>>

(* What exists by its name is reused: a role, an engine, a harness.  A     *)
(* memory role that was found is neither granted nor recorded.             *)
MakeOrFind(d) ==
  /\ DoesDirect(d, {"make"})
  /\ Obtain(d, At(d).what, live)
  /\ IF "memory_role" \in At(d).what \cap live THEN Reach(d, at[d] + 3) ELSE Advance(d)
  /\ UNCHANGED inManifest /\ UNCHANGED directRest

(* A guardrail or a memory by the name of another is a conflict, which     *)
(* ends the part; a secret is a new one each time.                         *)
MakeNew(d) ==
  /\ DoesDirect(d, {"new", "mint"})
  /\ IF At(d).do = "new" /\ At(d).what \subseteq live
     THEN Reach(d, Behind(d)) /\ UNCHANGED <<live, madeBy>>
     ELSE Obtain(d, At(d).what, {}) /\ Advance(d)
  /\ UNCHANGED inManifest /\ UNCHANGED directRest

(* A memory by the name is used as it is, with nothing recorded; a list    *)
(* that fails finds none.                                                  *)
FindMemory(d) ==
  /\ DoesDirect(d, {"find"})
  /\ \/ IF At(d).what \subseteq live THEN Reach(d, Behind(d)) ELSE Advance(d)
     \/ "call" \in DirectFaults /\ Advance(d)
  /\ UNCHANGED <<live, madeBy, inManifest>> /\ UNCHANGED directRest

\* Mutant of UploadCode: a key that holds code is not written again.
UploadOnce(d) ==
  /\ DoesDirect(d, {"upload"})
  /\ stored' = IF stored = {} THEN {d} ELSE stored
  /\ Advance(d)
  /\ UNCHANGED <<wish, live, madeBy, inManifest, refused, running, disturbed, lapsed>>

UploadCode(d) ==
  /\ DoesDirect(d, {"upload"})
  /\ stored' = {d}
  /\ Advance(d)
  /\ UNCHANGED <<wish, live, madeBy, inManifest, refused, running, disturbed, lapsed>>

(* create_agent_runtime: on a conflict it updates the runtime it finds.    *)
TakeRuntime(d) ==
  /\ DoesDirect(d, {"take"})
  /\ running' = stored
  /\ Obtain(d, At(d).what, live)
  /\ Advance(d)
  /\ UNCHANGED <<wish, inManifest, refused, stored, disturbed, lapsed>>

(* A failure of that update is logged, and the runtime returned.           *)
UpdateLapses(d) ==
  /\ "call" \in DirectFaults
  /\ DoesDirect(d, {"take"}) /\ At(d).what \subseteq live
  /\ lapsed' = lapsed \cup {d}
  /\ Advance(d)
  /\ UNCHANGED <<wish, live, madeBy, inManifest, refused, stored, running, disturbed>>

RecordMade(d) ==
  /\ DoesDirect(d, {"record"})
  /\ inManifest' = [inManifest EXCEPT ![d] = @ \cup At(d).what]
  /\ Advance(d)
  /\ UNCHANGED <<live, madeBy>> /\ UNCHANGED directRest

(* The write of one row fails, which is logged.                            *)
RecordRefused(d) ==
  /\ "record" \in DirectFaults /\ refused = {}
  /\ DoesDirect(d, {"record"})
  /\ \E x \in At(d).what :
       /\ refused' = {<<d, x>>}
       /\ inManifest' = [inManifest EXCEPT ![d] = @ \cup (At(d).what \ {x})]
  /\ Advance(d)
  /\ UNCHANGED <<wish, live, madeBy, stored, running, disturbed, lapsed>>

PlainCall(d) ==
  /\ DoesDirect(d, {"call", "try"})
  /\ IF At(d).do = "try" THEN Obtain(d, At(d).what, live) ELSE UNCHANGED <<live, madeBy>>
  /\ Advance(d)
  /\ UNCHANGED inManifest /\ UNCHANGED directRest

(* A call raises: the step, the part or the deployment is given up.        *)
CallRaises(d) ==
  /\ "call" \in DirectFaults
  /\ DoesDirect(d, {"make", "new", "mint", "try", "take", "upload", "call"})
  /\ IF At(d).do = "try" THEN Advance(d)
     ELSE IF At(d).part \in Lenient THEN Reach(d, Behind(d))
     ELSE outcome' = [outcome EXCEPT ![d] = "failed"] /\ UNCHANGED at
  /\ UNCHANGED <<live, madeBy, inManifest>> /\ UNCHANGED directRest

CutOff(d) ==
  /\ "cut" \in DirectFaults
  /\ Deploying(d)
  /\ outcome' = [outcome EXCEPT ![d] = "failed"]
  /\ UNCHANGED <<at, live, madeBy, inManifest>> /\ UNCHANGED directRest

DirectNext ==
  \E d \in Direct :
    \/ BeginDirect(d) \/ MakeOrFind(d) \/ MakeNew(d) \/ FindMemory(d)
    \/ UploadCode(d) \/ TakeRuntime(d) \/ UpdateLapses(d)
    \/ RecordMade(d) \/ RecordRefused(d) \/ PlainCall(d)
    \/ CallRaises(d) \/ CutOff(d)

DirectSpec == DirectInit /\ [][DirectNext]_directVars

---------------------------------------------------------------------------
(* No deployment has made or recorded what is not there, and none runs off *)
(* the end of its program.                                                 *)
DirectTypeOK ==
  /\ wish \in [Direct -> Wishes]
  /\ \A d \in Direct : at[d] \in 0..(Size(d) + 1)
  /\ outcome \in [Direct -> {"none", "success", "failed"}]
  /\ \A d \in Direct : madeBy[d] \subseteq live
  /\ stored \subseteq Direct /\ running \subseteq Direct
  /\ disturbed \subseteq Direct /\ lapsed \subseteq Direct

(* What a deployment that ended well made is in its manifest, but for what *)
(* this path never records, the one row the manifest refused, and the      *)
(* memory role whose policy could not be put, which the deployment goes on *)
(* without.                                                                *)
DirectIsRecorded ==
  \A d \in Direct : outcome[d] = "success" =>
    \A x \in madeBy[d] \ inManifest[d] :
      \/ x \in {"policy_engine", "policies", "guardrail", "guardrail_version"}
      \/ <<d, x>> \in refused
      \/ x = "memory_role" /\ "memory" \notin madeBy[d]

(* A deployment that ended well left the runtime on its own code, unless   *)
(* another of the same name ran beside it or after it, or the runtime was  *)
(* there and could not be updated.                                         *)
DirectRunsItsCode ==
  \A d \in Direct :
    (outcome[d] = "success" /\ ~wish[d].harness) =>
      running = {d} \/ d \in disturbed \cup lapsed
=============================================================================
