-------------------------- MODULE SharedToolLambda --------------------------
(***************************************************************************)
(* A tool Lambda that every gateway of the platform shares under one fixed *)
(* name, and its resource policy: one invoke grant per gateway role.       *)
(* gateway_deployer creates or updates the function and grants the         *)
(* gateway's role; the teardown of a gateway drops its grant and deletes   *)
(* the function when it reads a policy without grants.  There is no lock:  *)
(* each AWS call is a step here, and what a call returned is kept until    *)
(* the step that uses it.                                                  *)
(*                                                                         *)
(* A gateway name is deployed again only once its earlier deployment was   *)
(* torn down or left behind; two deployments never run under one name.     *)
(***************************************************************************)
EXTENDS Naturals, FiniteSets

CONSTANTS
  Gateway,     \* gateway names; role and grant are named after them
  MaxDeploys,  \* bound on the deploys started, over all gateways
  Recreations, \* gateway_retry: recreations of a gateway that serves no tools
  Faults       \* which failures may happen, a subset of FaultKinds

FaultKinds == {"gateway", "principal", "poll", "target", "probe", "read",
               "remove", "delete", "role", "kill"}

ASSUME LambdaAssumption ==
  /\ MaxDeploys \in Nat
  /\ Recreations \in Nat
  /\ Faults \subseteq FaultKinds

VARIABLES
  function,  \* the shared function exists
  grant,     \* the AllowAgentCoreInvoke-<role> statement of each gateway
  roles,     \* the gateways whose execution role exists
  pc,        \* the next call of each gateway's deploy or teardown
  back,      \* the call to go on with after pruning
  todo,      \* statements read by the prune and not yet looked at
  doomed,    \* the statement whose role the prune found gone
  known,     \* lambda_function_name names the shared function
  tries,     \* recreations of the gateway so far
  deploys,   \* deploys started
  overtaken, \* gateways granted after another process decided to delete
  lapsed     \* a failure left something no teardown will look for

aws == <<function, grant, roles>>
prune == <<back, todo, doomed>>
history == <<overtaken, lapsed>>
vars == <<aws, pc, prune, known, tries, deploys, history>>

Deploying == {"role", "gateway", "create", "update", "get", "add", "poll",
              "target", "probe"}
Releasing == {"revoke", "count", "exists", "delete", "unrole"}
Pruning == {"prune", "check", "drop"}
Resting == {"idle", "live", "failed", "stranded", "gone"}

\* A statement whose principal was deleted stays, "dangling": it names the
\* deleted principal even when a role of the same name comes back.
Statement == {"none", "held", "dangling"}

Fault(kind) == kind \in Faults

Granted == {g \in Gateway : grant[g] # "none"}
Dangling == {g \in Gateway : grant[g] = "dangling"}

Init ==
  /\ function = FALSE /\ roles = {}
  /\ grant = [g \in Gateway |-> "none"]
  /\ pc = [g \in Gateway |-> "idle"]
  /\ back = [g \in Gateway |-> "add"]
  /\ todo = [g \in Gateway |-> {}] /\ doomed = [g \in Gateway |-> {}]
  /\ known = [g \in Gateway |-> FALSE]
  /\ tries = [g \in Gateway |-> 0]
  /\ deploys = 0
  /\ overtaken = {} /\ lapsed = FALSE

Goto(g, where) == pc' = [pc EXCEPT ![g] = where]

-----------------------------------------------------------------------------
(* deploy_gateway up to the shared function.                               *)

Deploy(g) ==
  /\ \/ pc[g] \in {"idle", "gone", "stranded"}
     \/ pc[g] = "failed" /\ ~known[g]
  /\ deploys < MaxDeploys
  /\ deploys' = deploys + 1
  /\ Goto(g, "role")
  /\ known' = [known EXCEPT ![g] = FALSE]
  /\ UNCHANGED <<aws, prune, tries, history>>

EnsureRole(g) ==
  /\ pc[g] = "role"
  /\ roles' = roles \cup {g}
  /\ Goto(g, "gateway")
  /\ UNCHANGED <<function, grant, prune, known, tries, deploys, history>>

\* A deploy that fails before lambda_function_name is set: neither its abort
\* nor its manifest rows name the shared function.
Unnamed(g) == function /\ (grant[g] # "none" \/ pc[g] = "add")

EndTries(g) == tries' = [tries EXCEPT ![g] = 0]

\* No gateway, no abort; the rows recorded name the role.
CreateGateway(g) ==
  /\ pc[g] = "gateway"
  /\ \/ Goto(g, "create") /\ UNCHANGED <<tries, lapsed>>
     \/ /\ Fault("gateway")
        /\ Goto(g, "failed")
        /\ EndTries(g)
        /\ lapsed' = (lapsed \/ Unnamed(g))
  /\ UNCHANGED <<aws, prune, known, deploys, overtaken>>

\* Mutant of Abort: the cleanup takes the gateway but not its release.
AbortUnreleased(g) ==
  /\ Goto(g, "unrole")
  /\ lapsed' = (lapsed \/ (~known[g] /\ Unnamed(g)))
  /\ EndTries(g)
  /\ UNCHANGED overtaken

\* The abort of a deploy that has a gateway.
Abort(g) ==
  /\ Goto(g, IF known[g] THEN "revoke" ELSE "unrole")
  /\ lapsed' = (lapsed \/ (~known[g] /\ Unnamed(g)))
  /\ EndTries(g)
  /\ UNCHANGED overtaken

\* cleanup_gateway_resources, or the manifest loop of a sweep or a delete.
Teardown(g) ==
  /\ pc[g] \in {"live", "failed", "gone"}
  /\ Goto(g, IF known[g] THEN "revoke" ELSE "unrole")
  /\ UNCHANGED <<aws, prune, known, tries, deploys, history>>

-----------------------------------------------------------------------------
(* _create_or_update_lambda.                                               *)

BeginPrune(g, next) ==
  /\ Goto(g, "prune")
  /\ back' = [back EXCEPT ![g] = next]
  /\ UNCHANGED <<todo, doomed>>

CreateFunction(g) ==
  /\ pc[g] = "create"
  /\ function' = TRUE
  /\ IF function THEN Goto(g, "update") /\ UNCHANGED prune
                 ELSE BeginPrune(g, "add")
  /\ UNCHANGED <<grant, roles, known, tries, deploys, history>>

UpdateFunction(g) ==
  /\ pc[g] = "update"
  /\ IF function THEN Goto(g, "get") /\ UNCHANGED <<tries, history>> ELSE Abort(g)
  /\ UNCHANGED <<aws, prune, known, deploys>>

GetFunction(g) ==
  /\ pc[g] = "get"
  /\ IF function THEN BeginPrune(g, "add") /\ UNCHANGED <<tries, history>>
                 ELSE Abort(g) /\ UNCHANGED prune
  /\ UNCHANGED <<aws, known, deploys>>

\* Another process has read that it may delete the function or this statement.
Overtaken(g) ==
  \E h \in Gateway : \/ pc[h] \in {"exists", "delete"}
                     \/ pc[h] = "drop" /\ g \in doomed[h]

\* A policy with a dangling principal rejects every call.  A statement of the
\* same role is a conflict and already permits the gateway.
AddPermission(g) ==
  /\ pc[g] = "add"
  /\ function /\ Dangling = {}
  /\ grant' = [grant EXCEPT ![g] = "held"]
  /\ overtaken' = IF grant[g] = "held" THEN overtaken
                  ELSE IF Overtaken(g) THEN overtaken \cup {g} ELSE overtaken \ {g}
  /\ Goto(g, "poll")
  /\ UNCHANGED <<function, roles, prune, known, tries, deploys, lapsed>>

\* The function is gone, or eight calls were rejected for the principal.
AddPermissionRaises(g) ==
  /\ pc[g] = "add"
  /\ ~function \/ Dangling # {} \/ Fault("principal")
  /\ Abort(g)
  /\ UNCHANGED <<aws, prune, known, deploys>>

PollFunction(g) ==
  /\ pc[g] = "poll"
  /\ \/ /\ function
        /\ Goto(g, "target")
        /\ known' = [known EXCEPT ![g] = TRUE]
        /\ UNCHANGED <<tries, history>>
     \/ (~function \/ Fault("poll")) /\ Abort(g) /\ UNCHANGED known
  /\ UNCHANGED <<aws, prune, deploys>>

-----------------------------------------------------------------------------
(* The rest of deploy_gateway.                                             *)

CreateTarget(g) ==
  /\ pc[g] = "target"
  /\ \/ Goto(g, "probe") /\ UNCHANGED <<tries, history>>
     \/ Fault("target") /\ Abort(g)
  /\ UNCHANGED <<aws, prune, known, deploys>>

Serves(g) == function /\ grant[g] = "held"

\* The probe lists the gateway's tools.  A gateway that serves none is recreated;
\* after the last try the deploy returns a failure without cleanup and without
\* an inventory.
ProbeGateway(g) ==
  /\ pc[g] = "probe"
  /\ \/ Serves(g) /\ Goto(g, "live") /\ EndTries(g) /\ UNCHANGED <<known, lapsed>>
     \/ /\ ~Serves(g) \/ Fault("probe")
        /\ tries[g] < Recreations
        /\ tries' = [tries EXCEPT ![g] = tries[g] + 1]
        /\ known' = [known EXCEPT ![g] = FALSE]
        /\ Goto(g, "role") /\ UNCHANGED lapsed
     \/ /\ ~Serves(g) \/ Fault("probe")
        /\ tries[g] = Recreations
        /\ Goto(g, "stranded") /\ lapsed' = TRUE
        /\ EndTries(g) /\ UNCHANGED known
  /\ UNCHANGED <<aws, prune, deploys, overtaken>>

-----------------------------------------------------------------------------
(* _prune_orphaned_lambda_permissions.                                     *)

\* A policy that cannot be read, or is not there, prunes nothing.
ReadStatements(g) ==
  /\ pc[g] = "prune"
  /\ \/ /\ todo' = [todo EXCEPT ![g] = Granted]
        /\ Goto(g, "check")
     \/ Fault("read") /\ Goto(g, back[g]) /\ UNCHANGED todo
  /\ UNCHANGED <<aws, back, doomed, known, tries, deploys, history>>

\* Mutant of CheckRole: an IAM error other than NoSuchEntity counts as gone.
CheckRoleLoosely(g) ==
  /\ pc[g] = "check"
  /\ \/ todo[g] = {} /\ Goto(g, back[g]) /\ UNCHANGED <<todo, doomed>>
     \/ \E s \in todo[g] :
          /\ todo' = [todo EXCEPT ![g] = todo[g] \ {s}]
          /\ Goto(g, "drop") /\ doomed' = [doomed EXCEPT ![g] = {s}]
  /\ UNCHANGED <<aws, back, known, tries, deploys, history>>

CheckRole(g) ==
  /\ pc[g] = "check"
  /\ \/ todo[g] = {} /\ Goto(g, back[g]) /\ UNCHANGED <<todo, doomed>>
     \/ \E s \in todo[g] :
          /\ todo' = [todo EXCEPT ![g] = todo[g] \ {s}]
          /\ IF s \in roles
             THEN UNCHANGED <<pc, doomed>>
             ELSE Goto(g, "drop") /\ doomed' = [doomed EXCEPT ![g] = {s}]
  /\ UNCHANGED <<aws, back, known, tries, deploys, history>>

DropStatement(g) ==
  /\ pc[g] = "drop"
  /\ \/ grant' = [s \in Gateway |-> IF s \in doomed[g] THEN "none" ELSE grant[s]]
     \/ Fault("remove") /\ UNCHANGED grant
  /\ doomed' = [doomed EXCEPT ![g] = {}]
  /\ Goto(g, "check")
  /\ UNCHANGED <<function, roles, back, todo, known, tries, deploys, history>>

-----------------------------------------------------------------------------
(* _release_shared_tool_lambda, and the role that is deleted after it.     *)

\* remove_permission; a failure is logged and the release goes on.
RevokeOwn(g) ==
  /\ pc[g] = "revoke"
  /\ \/ grant' = [grant EXCEPT ![g] = "none"] /\ UNCHANGED lapsed
     \/ Fault("remove") /\ lapsed' = (lapsed \/ grant[g] # "none") /\ UNCHANGED grant
  /\ BeginPrune(g, "count")
  /\ UNCHANGED <<function, roles, known, tries, deploys, overtaken>>

\* Mutant of CountGrants: a missing policy is taken for a missing function.
CountGrantsAmbiguous(g) ==
  /\ pc[g] = "count"
  /\ Goto(g, "unrole") /\ UNCHANGED lapsed
  /\ UNCHANGED <<aws, prune, known, tries, deploys, overtaken>>

\* Mutant of CountGrants: the function is deleted whoever still holds a grant.
CountGrantsIgnored(g) ==
  /\ pc[g] = "count"
  /\ Goto(g, "exists") /\ UNCHANGED lapsed
  /\ UNCHANGED <<aws, prune, known, tries, deploys, overtaken>>

\* get_policy raises the same error for no policy and for no function.
CountGrants(g) ==
  /\ pc[g] = "count"
  /\ \/ Goto(g, IF Granted = {} THEN "exists" ELSE "unrole") /\ UNCHANGED lapsed
     \/ Fault("read") /\ Goto(g, "unrole") /\ lapsed' = (lapsed \/ function)
  /\ UNCHANGED <<aws, prune, known, tries, deploys, overtaken>>

FunctionExists(g) ==
  /\ pc[g] = "exists"
  /\ Goto(g, IF function THEN "delete" ELSE "unrole")
  /\ UNCHANGED <<aws, prune, known, tries, deploys, history>>

\* The policy goes with its function.
DeleteFunction(g) ==
  /\ pc[g] = "delete"
  /\ \/ /\ function' = FALSE
        /\ grant' = [s \in Gateway |-> "none"]
        /\ UNCHANGED lapsed
     \/ Fault("delete") /\ lapsed' = TRUE /\ UNCHANGED <<function, grant>>
  /\ Goto(g, "unrole")
  /\ UNCHANGED <<roles, prune, known, tries, deploys, overtaken>>

\* Deleting a role leaves the statements that name it with a dangling principal.
DeleteRole(g) ==
  /\ pc[g] = "unrole"
  /\ \/ /\ roles' = roles \ {g}
        /\ grant' = [grant EXCEPT ![g] = IF grant[g] = "held" THEN "dangling" ELSE grant[g]]
     \/ Fault("role") /\ UNCHANGED <<roles, grant>>
  /\ Goto(g, "gone")
  /\ UNCHANGED <<function, prune, known, tries, deploys, history>>

\* The Lambda that runs the deploy or the teardown dies.  A deploy has recorded
\* nothing by then; a teardown can be asked for again.
Kill(g) ==
  /\ Fault("kill")
  /\ pc[g] \notin Resting
  /\ IF pc[g] \in Releasing \/ (pc[g] \in Pruning /\ back[g] = "count")
     THEN Goto(g, "failed") /\ UNCHANGED lapsed
     ELSE /\ Goto(g, "stranded")
          /\ lapsed' = (lapsed \/ pc[g] \notin {"role", "gateway"} \/ grant[g] # "none")
  /\ todo' = [todo EXCEPT ![g] = {}]
  /\ doomed' = [doomed EXCEPT ![g] = {}]
  /\ EndTries(g)
  /\ UNCHANGED <<aws, back, known, deploys, overtaken>>

Next == \E g \in Gateway :
  \/ Deploy(g) \/ EnsureRole(g) \/ CreateGateway(g) \/ Teardown(g)
  \/ CreateFunction(g) \/ UpdateFunction(g) \/ GetFunction(g)
  \/ AddPermission(g) \/ AddPermissionRaises(g) \/ PollFunction(g)
  \/ CreateTarget(g) \/ ProbeGateway(g)
  \/ ReadStatements(g) \/ CheckRole(g) \/ DropStatement(g)
  \/ RevokeOwn(g) \/ CountGrants(g) \/ FunctionExists(g)
  \/ DeleteFunction(g) \/ DeleteRole(g) \/ Kill(g)

Spec == Init /\ [][Next]_vars

-----------------------------------------------------------------------------
(* Properties.                                                             *)

\* Every value stays in its range.
LambdaTypeOK ==
  /\ function \in BOOLEAN /\ lapsed \in BOOLEAN
  /\ grant \in [Gateway -> Statement]
  /\ roles \subseteq Gateway /\ overtaken \subseteq Gateway
  /\ pc \in [Gateway -> Deploying \cup Releasing \cup Pruning \cup Resting]
  /\ back \in [Gateway -> {"add", "count"}]
  /\ todo \in [Gateway -> SUBSET Gateway]
  /\ doomed \in [Gateway -> SUBSET Gateway]
  /\ known \in [Gateway -> BOOLEAN]
  /\ tries \in [Gateway -> 0..Recreations]
  /\ deploys \in 0..MaxDeploys

\* A gateway that went live can call its tools: no other gateway's release or
\* prune takes the function or its grant away (Defect C, Bug 134), except from
\* a gateway granted while another process was between its read of the policy
\* or the role and its delete.
ServedUnlessOvertaken ==
  \A g \in Gateway : pc[g] = "live" /\ g \notin overtaken => Serves(g)

\* What the comment of the abort promises: once a deploy failed and its sweep
\* has run, no invoke grant of its gateway is left behind.
FailedHoldsNoGrant == \A g \in Gateway : pc[g] = "gone" => grant[g] = "none"

\* No statement names a deleted role, which would reject every later grant
\* (Bug 168), unless some failure was swallowed.
GrantsAreBacked == ~lapsed => Dangling = {}

\* Once every gateway is gone, so are the function and its grants, unless
\* some failure was swallowed.
QuietIsClean ==
  ~lapsed /\ (\A g \in Gateway : pc[g] \in {"idle", "gone"}) =>
    ~function /\ Granted = {}
-----------------------------------------------------------------------------
(* The inductive invariant of the proofs, part by part.                    *)

\* The policy is part of the function.
NoOrphanPolicy == ~function => \A g \in Gateway : grant[g] = "none"

WithRole == (Deploying \ {"role"}) \cup {"live"}

\* A deploy has its role, and only an existing role is held.
RolesExist ==
  \A g \in Gateway :
    /\ pc[g] \in WithRole \/ (pc[g] \in Pruning /\ back[g] = "add") => g \in roles
    /\ grant[g] = "held" => g \in roles

\* Decisions to delete are overtaken by every grant that is there.
DecisionsSound ==
  \A g \in Gateway :
    /\ doomed[g] # {} => pc[g] = "drop"
    /\ \A s \in doomed[g] : grant[s] = "held" => s \in overtaken
    /\ pc[g] \in {"exists", "delete"} =>
         \A s \in Gateway : grant[s] # "none" => s \in overtaken

\* A granted gateway is served from its grant on.
GrantedServed ==
  \A g \in Gateway :
    pc[g] \in {"poll", "target", "probe", "live"} /\ g \notin overtaken => Serves(g)

\* Where a teardown will release the function.
NamesKnown ==
  \A g \in Gateway :
    \/ pc[g] \in {"target", "probe", "live", "revoke", "count", "exists", "delete"}
    \/ pc[g] \in Pruning /\ back[g] = "count"
    => known[g]

Released(g) ==
  \/ pc[g] \in {"idle", "stranded", "gone", "unrole", "count", "exists", "delete"}
  \/ pc[g] \in Pruning /\ back[g] = "count"
  \/ pc[g] = "failed" /\ ~known[g]

\* A process that is past its revocation holds no grant, and none dangles.
ReleasedUngranted ==
  ~lapsed => \A g \in Gateway : /\ Released(g) => grant[g] = "none"
                                /\ grant[g] # "dangling"

Charged(g) ==
  \/ pc[g] \in Pruning \cup {"add", "revoke", "count", "exists", "delete"}
  \/ pc[g] = "failed" /\ known[g]

\* While the function exists, some gateway is granted or some process is
\* about to grant itself or to count the grants.
SomeoneCharged ==
  function /\ ~lapsed => \E g \in Gateway : grant[g] # "none" \/ Charged(g)

\* Why the function outlives no gateway and is deleted under none: the
\* invariant that the proofs carry through every step.
LambdaInv ==
  /\ LambdaTypeOK
  /\ NoOrphanPolicy /\ RolesExist /\ DecisionsSound /\ GrantedServed
  /\ NamesKnown /\ ReleasedUngranted /\ SomeoneCharged
=============================================================================
