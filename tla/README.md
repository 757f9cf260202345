# Verification of the agent deployment platform

TLA+ models, TLC runs and TLAPS proofs for the platform in `src/`: a web editor
in which users draw agents, and a backend that deploys a drawing as an AgentCore
runtime with its guardrail, memory, knowledge base, gateway, policy engine and
roles. Paths below are relative to the repository; `services/`, `routers/` and
`step_handlers/` stand for those directories of `src/backend/src/app/`, and
`step_functions.py` and `step_lambdas.py` are in `src/infra/stacks/platform/`.

    tlc -workers 2 -config MCSlotsRace.cfg MCRuntimeSlots      # one run
    tlapm RuntimeSlotsProofs.tla                               # one proof module

## 1. The system

### Components, their state and their operations

| Component | State | Operations |
|---|---|---|
| `deployment_handler.py` | none of its own | deploy (checks, version row, record, `start_execution`), delete (asynchronous teardown), test, promote to ENFORCE, list |
| state machine (`step_functions.py`, `step_lambdas.py`) | one execution per deployment | chain of step Lambdas with Choice states, retries, Catch to a failure handler, a timeout for the whole |
| step handlers (`step_handlers/*_step.py`) | the event they hand on | create or adopt AWS resources, record them, report the step |
| `services/deployment_state_store.py` | deployments table: status, current step, `created_resources` (the manifest), handles | `create`, `update_step`, `record_resource`, `update_status`, queries |
| `step_handlers/status_update_step.py` | none | the tail: success write, version and slots, registration; on Catch: failure write and cleanup from the manifest |
| `services/agent_versions_store.py`, `routers/versions.py` | version rows (owner, status, parent) and slots rows (production, staging, previous) | put, mark, promote, roll back, release of a name |
| `services/gateway_deployer.py` | nothing of its own; AWS gateways, roles, targets, providers, Cognito pools, tool Lambdas | `deploy_gateway`, abort cleanup, shared tool Lambdas with a reference-counted release |
| teardown (`handle_delete`, `_run_delete_cleanup` in `deployment_handler.py`) | `delete_status` on the record | dispatch (in the request or in a second invocation), deletes from the manifest or, for old records, from a few results, release of the name |
| policy promotion (`policy_step.py`, `services/policy_promoter.py`, `policy_sweep_step.py`) | `policy_result` of the record; engine and policies in AWS | by status polls, tests and a sweep every five minutes |
| registry (`routers/registry.py`, `services/registry*.py`) | entries in a table, servers in LiteLLM | publish, review, edit, clone, delete, choice of the provider |
| direct deployment (`services/deployment.py`) | nothing of its own | `POST /api/workflows/{id}/deploy`: the whole deployment in one call |
| CloudFormation export (`services/cfn_template_generator.py`) | none | one canvas to a template, packages and a script |
| generators (`services/code_generator.py`, `a2a_codegen.py`, `codegen_step.py`) | none; the written program: cached agent, tools, lock | write, post-process, configure; then warm up and answer |
| workflow and flow storage, workspaces, git synchronisation | two tables | create, import, edit, share, deploy, synchronise, delete |
| frontend editor (`useAutoSave.ts`, `flowStore.ts`, `workflowStore.ts`, `undoRedo.ts`) | canvas, undo history, autosave timer, list of flows | draw, undo, redo, open, create, rename, delete |
| prompts, triggers, human in the loop, permission requests, budgets | a table each | rows with a small life cycle each |
| catalogs, validation, observability | none | pure functions and read-only queries |

`PROJECT.json` lists all of them with their files, and for what is not modelled
the reason.

### How they interact

A deploy request runs in one Lambda: `handle_deploy` checks that the friendly
name is free or the caller's, writes a *pending* version row, creates the record,
starts the execution and returns. The execution runs one Lambda per step. The
steps share nothing but the event they pass on and the deployment record. When a
step gives up, Catch passes control to the same `status_update_step`, which marks
the record failed and deletes what the manifest lists. When all went well it
marks the record and the version succeeded and moves the production or staging
pointer of the name. Promotion, rollback and teardown are separate requests that
write the same rows. Different deployments meet in the version and slots tables,
in AWS resources whose name the user chose, and in the tool Lambdas that all
gateways share.

The policy step of an execution leaves an engine that may not be enforceable
yet; status polls, tests and the sweep finish it later, side by side. A teardown
works from the manifest that the steps have filled. The direct deployment, the
CloudFormation export and the generated program are three other ways from a canvas
to a running agent and share the deployers, not the record. The editor saves
through the flow routes; workflows, their sharing and their synchronisation are
rows of the other table.

### What is hard

* **No write is conditional.** Rows are read, checked and put back, in another
  Lambda or minutes later; two requests about one name interleave.
* **A Lambda may stop anywhere** and is then retried, from its beginning, up to
  three times; an invocation whose timer has fired may still be running.
* **Creation and record are two calls.** What is created but not recorded is in
  no manifest; what is adopted may be somebody else's.
* **The cleanup may fail as well**: one delete of several, its status write, or
  the whole, when its Lambda runs into 15 seconds.
* **Order matters when deleting**: a knowledge base before its bucket and role, a
  grant before its role, a gateway before its function.
* **Sharing without locks**: the tool Lambda is reference-counted by reading its
  resource policy and deleting it in a later call.
* **Two writers of the status**: `handle_deploy` writes PENDING after
  `start_execution`, when the steps may already have run.
* **AWS answers before it is done**: deletes go on for minutes, a policy is judged
  after the call that wrote it, a fresh gateway lists its tools only later. Waits
  run out.
* **A copy is put back minutes after it was read**: workflows by a deployment,
  registry rows by a publication, drawings by a late save.
* **Text is put together by several hands**: three post-processors rewrite the
  generated program without parsing it; a template refers to parts another branch
  adds.

### What makes each component correct

* *Versions and slots*: a slots row points only at versions of the tenant that
  owns it, at runtimes that came up and at rows marked succeeded; lineage stays
  within a tenant; a pending row does not stay pending.
* *Pipeline*: *succeeded* is said only of a deployment that has all it asked for;
  a failed one leaves nothing that its manifest lists, in an order in which the
  deletes work; no cleanup takes what another deployment made under a name of its
  own; every accepted deployment ends.
* *Shared tool Lambda*: a live gateway keeps the function and its grant; the last
  gateway to go takes the function along; no grant names a deleted role.
* *Teardown*: success is reported only when nothing of the manifest it read is
  left; a knowledge base is never stranded silently; asking again helps; a slow
  teardown is settled.
* *Promotion*: the record says of enforcement what the gateway does; what is
  pending is promoted in the end.
* *Registry*: what counts as approved was approved, and an entry keeps its owner.
* *Export*: a template refers only to what it defines, and its stack comes up.
* *Direct deployment*: what it made is in its manifest; a success runs the code
  that was just uploaded.
* *Workflows*: a row is what the requests, one after the other, made of it.
* *Generated program*: it loads, it looks up no name that is not bound (but for one
  stub, finding 12), and what the canvas connects is in effect; an agent with a gateway
  answers with its tools or with an error.
* *Gateway*: the caller is told of everything a deploy leaves behind, and a
  success has every target that was asked for and could be made; the code logs what
  it goes on without.
* *Editor*: a flow's row holds what was drawn in that flow, and in the end what a
  save keeps of what the canvas showed last.

## 2. The modules

| Module | Models | Runs |
|---|---|---|
| `RuntimeSlots` | the version and slots tables and all their writers | `MCRuntimeSlots`, `MCControlPlane` |
| `StepPrograms` | what each step Lambda does, as a sequence of instructions | through `DeploymentPipeline` |
| `DeploymentPipeline` | state machine, step Lambdas, record, manifest and AWS | `MCDeploymentPipeline`, `MCWorkSettles`, `MCServices` |
| `DeploymentPromise` | what a caller may rely on, the abstract specification | as a property of `DeploymentPipeline` |
| `SharedToolLambda` | one tool Lambda and its policy, and all gateways | `MCSharedToolLambda` |
| `RuntimeTeardown` | the teardown of a deployment from its record | `MCControlPlane` |
| `PolicyPromotion` | policy step, tail and promoters of one deployment's policies | `MCControlPlane` |
| `AgentRegistry` | the registry over its two providers | `MCServices` |
| `CfnTemplate` | the CloudFormation template of a canvas, its packages and its stack | `MCServices` |
| `DirectDeploy` | the deployment in one call | `MCServices` |
| `WorkflowStore` | workflows, flows, sharing and git synchronisation | `MCServices` |
| `GeneratedAgent` | the generated program: text, post-processors, environment, loading | `MCServices` |
| `AgentTools` | tool discovery inside a deployed program | `MCServices`, `MCAgentTools` |
| `GatewayTargets` | what one `deploy_gateway` makes and tells of | `MCServices` |
| `FlowEditor` | the editor in the browser and the flow routes | `MCWorkSettles` |
| `RuntimeSlotsProofs`, `DeploymentPipelineProofs`, `SharedProofs`, `RuntimeTeardownProofs`, `PolicyPromotionProofs`, `CanvasProofs`, `GeneratedAgentProofs`, `ServicesProofs` | theorems | |

`MCControlPlane`, `MCServices` and `MCWorkSettles` each put parts that share no
state into one run. A variable `focus`, chosen in the first state, says which
part moves; the others stay in one initial state of theirs, so the state space is
the sum of the parts' and not their product. A property that speaks of one part
is checked on exactly that part's behaviours, as it would be in a run of its
own. Where parts do share state they are in one module: the teardown's release
of a name is in `RuntimeSlots` (and as one step in `RuntimeTeardown`), the failure
cleanup in `DeploymentPipeline`, the policy step with its promoters in
`PolicyPromotion`, the flow routes with the editor in `FlowEditor`.

### RuntimeSlots

`versions` and `slots` are the two tables. A version id stands for one deploy
request and walks through `phase`: *idle*, *listing* (owner of the slots row
read), *putting* (no foreign claim found), *starting* (pending row put),
*running*, *marking*, *reading*, *writing*, *registering*, *done*, or one of the
exits. `seen` is the slots row the tail has read and not yet written; `req` are
promote and rollback requests, each cut into begin, read and write; `release` is
the last part of a teardown. Each read and each put is an action of its own,
because nothing holds them together in the code.

The mutation of a row is whole: `StatusWritten` adds the status to a row that may
not exist, as DynamoDB's `update_item` does in `update_status`; `PointAt` is the
code's move of `production` to `previous`. Runtime ids and timestamps are left
out.

### StepPrograms and DeploymentPipeline

A handler is a program over a small instruction set: `ensure` (create or adopt),
`create`, `fresh`, `found` (skip when it exists), `record`, `call` (anything that
may raise), `begin` (the step's status write), `return`. `StepPrograms` gives each
handler its program in the order of the source, and what depends on the plan
(knowledge base on OpenSearch, gateway, per-agent identity) depends on it there.
`DeploymentPipeline` executes the programs: one action per instruction, so that a
kill, a retry, a fault or another deployment may come between any two calls.

* `exec` is the execution: position in `Chain`, *running*, *failing* (in the
  failure handler), or ended. `Skip` is a Choice state, `Invoke` starts a step.
* `inv[d]["run"]` is the invocation that Step Functions waits for,
  `inv[d]["stray"]` one it has timed out and that still runs. `TimerFires` turns
  the first into the second and retries; `Crash` ends the first and retries;
  retries stop after `MaxAttempts`, then `Caught`.
* `status`, `manifest` are the record; `event` the handles that travel in the
  event; `aws` the resources, each with its kind, label and maker. The label is
  the name: a deployment's own, or `Common` for the kinds in `SharedKind`, which
  two deployments name alike.
* `handler` is `handle_deploy` around `start_execution`, the PENDING write
  after it included.
* The failure handler is a program too: `fail` (status write), `snapshot` (the
  manifest as read), `sweep` (one row after the other by `Priority`).

`DeploymentPromise` has two variables per deployment, what the caller sees of the
status and what is held in AWS: a status moves forward only, nothing is built
before *in progress* or after *failed*, and *succeeded* is said only when all that
was asked for is held.

### SharedToolLambda

`function` and `grant` are the Lambda and its policy, one statement per gateway;
`roles` the gateway roles. A statement is *held*, or *dangling* once its role was
deleted: AWS keeps the deleted principal, so a new role of the same name does not
revive it, and rejects every later grant (`gateway_deployer.py:1114-1118`). Each
gateway has one process, `pc`, whose steps are AWS calls: role, gateway, create or
update the function, prune, grant, poll, target, probe; and for the release:
revoke, prune, count the grants, look for the function, delete it, delete the
role. `todo` and `doomed` are what the prune has read; `known` is whether
`lambda_function_name` has been set, on which the abort depends.

Two variables are history and only properties read them: `overtaken`, the
gateways granted while another process had read that it may delete the function
or their statement; and `lapsed`, set by a failure that the code swallows and
after which no teardown looks for the function or the grant any more.

A gateway name is deployed again only after its earlier deployment was torn down
or was left behind. Two deployments that use one gateway at a time are not in this
module.

### RuntimeTeardown

`record` is one of a few shapes: rows of the manifest, results of a record older
than the manifest (`legacy`), rows a step may still add (`late`), things recorded
nowhere (`unlisted`), a harness, a canvas name. `remains` says what AWS has of each
resource: *here*, *going*, *gone*, *stuck*; a call that AWS answers later is the
answer *going* and the steps `PartsGone` and `BaseGone`. A teardown walks through
`stage`: look the record up, dispatch (a knowledge base goes to a second invocation
of the same Lambda, or inline when that invocation fails), release the name, take
the rows by priority, delete, wait for the knowledge base, report. Rows are the
manifest as read; `StepRecords` is a deployment that still fills it. `KillTeardown`
ends an asynchronous invocation, which Lambda runs again `AsyncRetries` times.

`Silent` names the kinds whose refusal the code does not notice. `disturbed`,
`hurried`, `warned` and `forsaken` are history that the properties read.

### PolicyPromotion

`cedar` has the status of each policy (absent, being validated, active, failed,
being deleted), `attached` the mode in which the gateway has the engine, `promise`
the `policy_result` on the record, `draft` what the step hands on. The policy step
creates the policies, awaits each, recreates what failed while the authorization
plane had not converged (`Recreates`), judges, attaches; the tail records. Each
promoter is one run of `try_promote_to_enforce`: read the record, list, look at one
policy after the other, remake, attach, persist. Polls, tests and the sweep are the
same code and the same process. `Regress` is a policy that AgentCore turns to failed
later.

### AgentRegistry

`entries` is the table's row under each slug, `servers` LiteLLM's list, `backend` and
`configured` the two settings rows, which are read apart from each other. `asks[c]` is
the request that caller `c` has under way, with the row it has *seen*. A put
replaces the row; an update sets attributes of whatever is there, and creates a
ghost row where nothing is. `blessed`, `lastVerdict`, `straddled` and `delivered` are
history.

### CfnTemplate

`template` maps the logical names of the resources to what each refers to, `outputs`
to what the outputs read. `Generate` puts it together with one operator for each part
of the generator, joined by `++` and, where a feature asks for them, `When`;
`DeployScript` uploads the packages; `CreateReady` is CloudFormation, which creates a
resource once what it refers to is there. The names of custom tools and policies are
derived; `NamesAssumption` says that a derived name is none of the others. The prefixes
and endings the generator gives them (`CustomTool...Lambda`, `...LambdaPermission`,
`...Target`, `Policy1`) make that so for any strings.

### DirectDeploy

Each deployment is a program over steps with one AWS call each; `at` is the next
one. A make that finds the name taken takes over what is there. `madeBy`,
`inManifest`, `refused` relate creations to records; `stored` is the S3 key that
deployments of one name share, `running` whose code the runtime took from it. A call
may raise, a record may be refused, the whole may be cut off.

### WorkflowStore

A row has its text (name, nodes, edges), the deployment status in its metadata, the
git connection and who may do what. `saves[h]` is one request: the copy it has read,
the change it is to make, and where it is: *work* until the storage looks again, then
*write*. The change of an update and of a git synchronisation is a *draft* of text and
status, and `Overlay` lays it over the copy: an update takes what it was given
(`workflows.py:267-270`), a synchronisation all that the repository has and of the rest
what the copy had (`git_sync.py:183-188`). `name` stands for description, version and
viewport too, which go the same way. An update is not validated, so it may write a row
that its model no longer accepts (`Whole`, `Readable`); such a row is not read again,
and a synchronisation is `Refused` that would make one.

`ideal` is what each document is to be: owner, text, status and roles as the requests,
one after the other, make them, each changing only what it says. `seen` is what the
document was to be when a request took its copy. A request that another one overtook
(`straddled`) makes of the document what it says to `seen`: it undoes the other, and
nothing else. So the property compares everywhere, in the overlap too.

### GeneratedAgent and AgentTools

A program is a sequence of parts; of a part the model keeps the names it binds,
those it evaluates while the module loads and those its functions look up.
`WriteAgent` is one of the generator's hosts (single agent, template, graph, swarm,
workflow) and then the post-processors for guardrails, telemetry and human approval,
in their order; `Configure` sets the environment; `LoadModule` binds the parts up to
the server's start; `FirstCall` resolves what the functions look up. `DenyTool` is the
first call of a tool that an approval policy matches: the hook builds a stub whose
class body reads `tool_name` (`StubReads`), which no module binds. It is the only place
where a program raises (finding 12).

`AgentTools` is the running program: the lock, the cached agent, the list of the
memory host, the attempts with their MCP sessions, the warm thread and the
invocations, each on a thread of its own. A `stop()` of an empty attempt's client always
closes its session; that it may raise, which the code swallows
(`code_generator.py:603-608`), is not modelled, and `OneSession` says nothing of it.

### GatewayTargets

`deploy_gateway` is sequential; `section` is its next part. `here` is what exists, each
thing with the attempt that made it; `refs` what the deploy's variables name; `answer`
what the caller gets: success, and an inventory. A call fails at any point
(`MaxMishaps` of them); `AbortDeploy` is the rollback, `Recreate` the second attempt on a
gateway without tools. `slipped` and `dropped` name what a swallowed failure or a
recreation left, so that the property can say that nothing else is missing.

Not every target that is asked for is made. `ask.void` are the families asked for without
what their target takes: tools of which none has a schema (`gateway_deployer.py:2751`), a
function without its ARN (4302), a specification without its text (4325, 4358). The code
skips these with a log and goes on to success (`Skipped`). And a target that AWS says
exists may not be in the list that is then searched for it:
`_create_gateway_target_with_retry` returns None (1817) and the deploy goes on without it
(`unseen`).

### FlowEditor

A handler in the browser runs up to the request it awaits; what follows the answer is
a step of its own, and so is the React effect that tells the autosave which flow
is open (`Follow`). `calls` are the requests under way, in any order; the server's
read and put are two steps. A drawing is the flow it was begun in, the change it was
left at, and whether it has something on it that no save keeps (`unkept`): a node without
a configuration, as most are when they are dropped on the canvas (`dragDrop.ts:120-143`),
a label, the kind of a tool connection. `ToBackend` is what is sent of it
(`useAutoSave.ts:54-108`), so a row never has the rest, and opening the flow shows the
drawing without it. `Change` records in the undo history, `Drag` does not. `crossed` are
flows into which undo or redo has put another flow's drawing; `lost` are flows whose last
drawing nothing will save any more, with each way it happens at the step where it
does.

## 3. What TLC checks

All runs check every reachable state of the instance. Fault kinds are named in
each module (`FaultKinds`, `TeardownFaultKinds`, ...) and chosen by a constant.

| Run | Instance | Question and result |
|---|---|---|
| `slots_race` | two tenants, two deploys of one name, one request, all faults, one attempt | `SlotPointersOwned`, `LineageWithinTenant`, `SlotsPointAtStartedRuntimes` hold in every interleaving, and so does the inductive invariant `SlotsInv` |
| `slots_owner_race` | two tenants, first deploys of one name | **violated**: `SlotOwnerKept` (finding 1) |
| `work_settles` | harness deployment with guardrail and memory (its plan names a policy engine, but without a gateway the policy step has nothing to do); errors, lost records, kills, failing tail; two attempts | `SucceededIsWhole`, `SweptClean`, and under fairness `Settles` |
| | the editor: one or two flows, two requests at a time, two drawn changes, two requests of the list, requests and answers that fail | `EditorInv` (types, and `FlowsKeepApart`), and under fairness `WorkIsSaved`: in the end a row has what a save keeps of what was shown last |
| `pipeline_shared` | two deployments whose guardrails share a name; errors and kills | `PrivateSurvives`: damage ends at the shared names |
| `pipeline_faults` | guardrail deployment, all faults, stray invocations included | the inductive invariant `PipelineInv`, types included |
| `pipeline_promise` | knowledge base and gateway; start failures, errors, failing deletes, kills, exhaustion, crashes | `KeepsPromise`: implements `DeploymentPromise` |
| `pipeline_not_swept` | memory deployment; one status write fails | **violated**: `FailedIsSwept` (finding 2) |
| `lambda_shared` | three gateways, three deploys among them, one recreation each, all faults | `ServedUnlessOvertaken`, `GrantsAreBacked`, `QuietIsClean`, and the inductive invariant `LambdaInv`, types included |
| `lambda_abort` | two gateways; the poll after the grant fails | **violated**: `FailedHoldsNoGrant` (finding 3) |
| `control_plane` | tables of a name: one tenant, two deploys, one request, lost puts and kills, two attempts | `SlotsServable`: a slot points at a row marked succeeded; `PendingResolves`: every pending row is settled |
| | two teardowns of one of five records, one retry, any one fault | `SuccessIsWhole`, `StrandedIsTold`, `RepeatSucceeds`, and under fairness `DeleteSettles` |
| | the policy step and two promoters over five configurations, any one fault | `EnforcementAsTold`, and under fairness `PendingConverges`; `PlatformTypeOK` is the type invariant of all three |
| `services` | a deployment that asks for everything; every call may raise | `OnlyUnguardedOrphans`: which kinds a step that raises can leave behind: roles (the MCP server's too, whose policy is put after it was created and before it is recorded), a harness' provider, evaluation, a collection; `BackingOutlives`: no store or role goes before its knowledge base |
| | registry: two callers, one an admin, two slugs, two canvases, four requests, both providers, settings that cannot be read | `ApprovalHolds`, `OwnersKept` |
| | export of every canvas with up to two policies, three templates, two custom tools | `ExportResolves`, `StackComesUp` |
| | two direct deployments of one name, each of three canvases, every fault | `DirectIsRecorded`, `DirectRunsItsCode` |
| | two users, a workflow and a flow, four requests, two at a time; updates and synchronisations with and without a status, and some whose edges do not fit the nodes | `DocsSayWhatWasAsked`: text, status, git connection and roles |
| | every canvas of one agent and its tools, of three templates, of teams of up to two agents | `GeneratedRuns`: only the stub of the approval hook looks up what is not bound; `ConnectedIsInEffect` |
| | a gateway host, two callers beside the warm thread, two attempts, three calls | `ToolsOrError`, `OneSession` |
| | every set of up to three of the eight target families and of seven and eight, with and without what their targets take, name free or taken, one failing call anywhere | `GatewayAccounted`: the caller is told of what is left, and a success has every target but those skipped with a log; `ServicesTypeOK` is the type invariant of these parts |
| `memory_toolless` | the memory host, one caller | **violated**: `ToolsOrError` (finding 4) |

Each property of a passing run has a mutant: a definition changed the way a bug
would change it (the definitions with a comment "Mutant of ..."), for which the
same run finds the property violated.

### Bounds, and why they are enough

* *Deploys of one name*: two. The tables relate a writer to one other writer: a
  row read by one and replaced by the other. A third deploy adds a second
  interloper of the same kind; the proofs cover any number.
* *Attempts* (`MaxAttempts`): two where retries matter, one elsewhere; the code
  has up to four. The second attempt is the first that meets what an earlier one
  left; what it leaves is what a third would meet.
* *Plans*: a full plan has too many interleavings with kills; each run takes the
  plan whose steps its question is about. `services` has the full plan, in one
  attempt.
* *Gateways*: three, since two processes that decided to prune one statement and
  the gateway it belongs to make three; one recreation (the code has two).
* *Teardowns, promoters, publishers, savers, direct deployments*: two. Each reads a
  row or asks AWS and acts on it later, so the second is the one that comes between.
  One fault at a time for teardown, promotion and gateway (`MaxTroubles`,
  `MaxSetbacks`, `MaxMishaps`): the code's handling of a fault is a branch of its
  own, and which single fault it survives is the question; the theorems about
  teardown and gateway cover any number.
* *Gateways asked for*: up to three families of targets, or at most one left out. Families
  meet in the role, the inventory and the rollback, in pairs; all but the MCP runtime are
  needed for a recreation with much on the gateway, as the runtime's provider ends it.
* *Policies of an export* (`MaxPolicies`): two, the first with a number in its name;
  all after it are added alike.
* *Records and wishes*: one for each branch of the code. The five records have a
  knowledge base with a role, one with a collection, a gateway whose manifest
  is still being filled, a harness, and one without manifest; the five
  configurations differ in whether AgentCore can ever validate the policy, whether
  unenforced tools were allowed, whether the target synchronisation was whole and
  whether a later step fails.
* *Requests* (`MaxRegistryCalls`, `MaxSaves`): four. One to create the row, one whose
  copy becomes stale, one that makes it so, and one that meets the result.
* *Editor*: one action of history (the code has fifty), two changes and two requests of
  the list: draw, open another flow, undo there and save takes one change and one
  request less.
* *Canvases*: a list of tools is a set, as connections are independent; the second
  agent of a team is the one whose provider can differ from the first's.
* *Discovery* (`MaxTries`, `MaxCalls`): the second attempt is the first with a session
  to close; three calls make a first, an overlapping and a later one.
* *Symmetry* is used in `slots_race`, `lambda_shared` and, for the direct
  deployments, `services`, where no liveness is checked and the sets are only compared for equality.

### Fairness

`work_settles` and `control_plane` assume weak fairness of the steps that a started
Lambda or Step Functions takes: an invocation goes on until it returns, raises or
is killed; an execution with nobody running moves on. Step Functions and Lambda
give that. In the composed runs each condition carries `focus`, so that it asks
something only of the part that moves. Beyond that:

* `DeleteSettles`: a delete that AWS has accepted ends (`PartsGone`, `BaseGone`).
* `PendingConverges`: the authorization plane converges, AgentCore judges a
  policy it was given and ends a delete it accepted, and some promoter starts
  again and again -- the sweep runs every five minutes.
* `WorkIsSaved`: React runs its effects, a timer that is set ends, the server handles
  what it received, and an answer or its failure arrives.

Nothing is assumed of users, of faults, or of retries succeeding. `Settles` and
`PendingResolves` exclude the timeout of the whole execution: `step_functions.py:328`
gives it no Catch, so an execution that meets it leaves its record in progress.

## 4. What is proved

TLAPS proves the following for every value of the constants: any tenants,
versions, names, deployments, plans, gateways, records, callers, threads, any number
of attempts, and any set of faults. Only the constants' assumptions are used
(`SlotsAssumption`, `NoRowAssumption`, `PlanAssumption`, the pipeline's own,
`LambdaAssumption`, `TeardownAssumption`, `PromotionAssumption`, `RegistryAssumption`,
`ToolsAssumption`, `GatewayAssumption`, `DirectAssumption`, `CanvasAssumption`,
`ExportAssumption`, and those of the editor and the store), which say that the
parameters are of the right kind, and `NamesAssumption` of the export; TLC evaluates
them. Nine theorems have hypotheses of their own, named below.

* **RuntimeSlotsProofs**: `TypeCorrect`, `SlotsInvariant`, and from it
  `SlotsOwned`, `LineageOwned`, `SlotsStarted`. `SlotPointersOwned` is not
  inductive: a tail writes a row it has read earlier, so the invariant must say of
  the row *in hand* what the property says of the table, that the owner test was
  passed for it, and that no version changes its owner in between. `SlotsInv` has
  these parts, for the tail and for promote, rollback and release. `SlotsServed`, from
  `ServedInv`: the pointers of every row in hand are marked too, and only a deploy in
  its tail or through has a runtime. It assumes `NothingLost`, that the faults `mark`,
  `exhaust` and `release` are off: with any of them the code does leave a slot on a
  version without a succeeded row, as the comment at `SlotsServable` says.
* **DeploymentPipelineProofs**: first, lemmas about `StepPrograms`: for any plan every
  program uses only instructions its step may contain, does not run off its end, and
  a lookup always has the place it jumps to. Then `TypeCorrect`, which rests on them;
  `RowsStayOwn`: whatever a deployment holds in its event, its manifest or a
  cleanup snapshot has a name of its own; `PipelineInvariant`: who may be running
  in which state of the execution; and from them `PrivateStays`: nothing made
  under a private name is deleted before its deployment is given up. The last
  needs the invariant because the failure handler runs beside strays, and what
  they hold must already be known to be their own.
  `SucceededWhole`, from `Building`: an execution has everything of the steps it has
  passed (`ChainBuilt`) and, of the one under way, everything up to its instruction
  (`StepBuilt`), a found knowledge base has its store and a found memory its role
  (`NeedsMet`), and whoever is still at work on a record that says succeeded leaves the
  resources alone (`AtRest`). `NeedsMet` is what makes a retry right that finds what the
  killed attempt made and jumps over the instructions that made the rest. The lemmas
  about the programs say what such a jump may pass over, instruction by instruction.
  It assumes that invocations do not overlap (else the abort of a gateway step that
  was timed out takes back the gateway its retry has built) and that no knowledge base or
  memory has a name several deployments share (else the lookup finds another's
  and the deployment has no role or store of its own). TLC finds `SucceededIsWhole`
  violated when either assumption is dropped.
  `PromiseKept` is the refinement `KeepsPromise`: every instruction maps to a `Provide`, a
  `TakeBack`, a step of the record or a stutter. It needs `Saying` beside `Building`: what the
  record says at each instruction of the last two handlers, and that the deploy handler
  writes only before anyone is at work. `Promised` excludes four faults; with
  each of them TLC finds the promise broken: a late PENDING write takes back what a
  step wrote (`ack`); steps that go on after a failed status write provide while the
  record still says pending (`store`); a status step that is killed after its write
  starts again and takes SUCCEEDED or FAILED back to in progress (`tail` with `kill`); and
  a stray invocation writes in progress after the failure handler's FAILED
  (`overlap`).
  Three more are about the failure handler. `SweepLeavesNothing` (`SweptClean`) rests on
  `Single` (one invocation at a time) and `Cleaning`: of each row of the manifest that
  has a delete of its own, the cleanup either still has it in its list or what the row
  names is gone. `OrphansAreUnguarded` (`OnlyUnguardedOrphans`) adds `Listed`: what a
  deployment made and the code guards (`Owed`) is in the manifest, or the next
  instruction of whoever made it records it (`Recording`, which knows the longer ways
  of the gateway step), or the execution as a whole timed out and there will be no
  cleanup (`Abandoned`); the lemmas behind it go through the programs and show for every
  guarded kind that its creation is followed by its record. `BackingStays` (`BackingOutlives`) follows, as
  what is listed with a higher priority is deleted first. `Unguarded` are the kinds that the
  theorem leaves out: those with a call that may raise between creation and record, as every role
  of the helpers that put a policy after `create_role`, those never recorded, and the
  collection, which the cleanup does not delete. Their hypotheses are sets of
  faults that are off: `delete` and `store` and no overlapping invocations for the
  first (a delete that fails is not tried again; a status write that fails skips the
  cleanup, finding 2); `record`, `delete`, `kill`, `exhaust` and `crash` for the others,
  and `store` too for the orphans (a creation that is never recorded is what these
  faults cause). With any one of them allowed TLC finds the property violated.
* **SharedProofs**, what deployments share. The tool Lambda: `LambdaInvariant`, and from it `LambdaServes`,
  `LambdaGrantsBacked`, `LambdaQuietIsClean`. The parts of `LambdaInv`: the policy
  is part of the function (`NoOrphanPolicy`); only an existing role is held
  (`RolesExist`); every grant that a process about to delete did not see is
  overtaken (`DecisionsSound`); a gateway is served from its grant on
  (`GrantedServed`); the name is known where a teardown needs it (`NamesKnown`);
  who is past its revocation holds nothing (`ReleasedUngranted`); and the function
  always has a gateway that is granted or a process that will grant itself or
  count (`SomeoneCharged`), the one that makes the last release work under any
  interleaving.
  The registry: `RegistryTyped`; `ApprovalKept`, from `RegistryInv`: the row a
  request has in hand is missing, its caller's own, or was reached by a suffix, and if
  it is approved that approval was given; `OwnersStay`, the action property, from the
  same facts.
* **RuntimeTeardownProofs**: `TeardownTyped`; `SuccessWhole`, from `SuccessInv`, which
  says of a teardown between two steps that each row it has read is left to take, in
  hand, counted as a failure, or already as the property wants it (`RowsInv`);
  `StrandedTold`, from `StrandInv`, which adds the order in which rows are taken and
  that a failed delete of the base was counted before its store goes. `StrandedTold`
  assumes `BaseListed`: a record that lists a store or role of a knowledge base also
  lists the base. Without it a manifest whose base was never recorded strands the
  base untold. `RepeatSucceeded`: a teardown that meets nothing runs alone, so what it
  deletes does not come back and what it waits for is gone. It assumes `FlowListed`,
  that a manifest lists the knowledge base of the record's flow: else the teardown
  by manifest can meet a base that an earlier one, by the flow, left going.
* **PolicyPromotionProofs**: `PromotionTypes`; `EnforcementHolds`, both halves of
  `EnforcementAsTold`, from `PromotionInvariant`, which says of every promoter at every
  step what its copy of the policies may still claim, so that a write of the record
  by a late promoter cannot say more than the gateway does.
* **CanvasProofs**, the canvas in the editor and as a saved document:
  `EditorTypesInvariant` and `EditorHolds`, from the invariant that the canvas, the
  history, the timer and each request on its way carry a drawing of their flow or of
  one that the history crossed into; what a save leaves out of a drawing does not change
  its flow. `StoreTypes` and `StoreHolds`: for each request
  under way, what its copy means is what the document was to be when it was read
  (`seen`, in `SaveOK`), and unless another wrote the document since, that is what it is
  to be now (`StoreInv`). `WrittenMeans` is the step: what `Applied` makes of a copy means
  what the request says to what the copy meant.
  And the canvas as a template: `ExportTypes`, `TemplatesResolve` (`ExportResolves`) and
  `StacksComeUp` (`StackComesUp`), for every canvas, any custom tools and any number of
  policies. Each name gets a height (`Height`: parameters at zero, the endpoint above the
  runtime above the gateway above its pool); a part is `Good` when each resource refers
  only to names below its own, and `++` keeps that. Hence no two resources wait for each
  other: the lowest name CloudFormation has not created is ready. Each part's
  references are found in the parts that the same flags add. `ExportInv` says of a
  generated template that it is the one its order asks for, and of what has been
  created that it lacks nothing it refers to.
* **GeneratedAgentProofs**: `GeneratedTypes`, `ProgramsRun` (`GeneratedRuns`) and
  `ConnectedHolds` (`ConnectedIsInEffect`), for every canvas, tools, providers and teams of
  any size. A `Piece` is a sequence of parts with bounds on what it binds, looks up and is
  marked with, and what it needs bound in front of it; `PiecesJoin` and `BegunGrows` join
  pieces, and each host is proved by adding its parts in order until `HostCloses` finds
  everything bound. `Program` is what a host hands on: the text loads, what its
  functions look up is bound, and the marks the post-processors look for are where they
  expect them. `ProgramsRun` has the model's one exception: where a run of the program raises, human
  approval is connected and a policy is set. Each post-processor keeps `Program` (`Guarded`,
  `Observed`, `Approved`),
  from lemmas about inserting a part into a sequence (`InsertedFits`: what was
  bound before a part still is; `InsertedOrder`). `HostMade` adds what a host owes its
  agents, and `Delivered` what is left of it behind the post-processors.
* **ServicesProofs**: `ToolsTyped`; for the gateway host `HostToolsOrError` and, for
  either host (it says nothing of the other), `HostKeepsOneSession`, from `HostInv`: who
  holds the lock is the only one in the discovery, and sessions are open only there
  or for the agent that is cached. `Accounted`, from `AccountInv`: at every section, what
  exists is named by a variable, slipped, dropped or known to be unlisted, and the
  sections passed have left their targets, except for families that lack what a target
  takes (`void`), whose existing target was not found (`unseen`), or which the recreation
  leaves out. `DirectTypes`, `DirectRecords` and
  `DirectRuns`, for every canvas: lemmas join the parts of a program (`Accounts`: what a
  step makes a later one records), find the memory and the runtime part in it, and
  show that every action goes on to the next step, out of a part that may fail, or past
  a found memory role (`Leap`). `DirectInv` then has a `Ledger` for each deployment, of
  what it made and where that is recorded, and `Held`, that past its upload the code
  under the key and past its take the runtime are its own while nobody disturbs it.

`SlotsInv`, `PipelineInv` and `LambdaInv` are also checked by runs, so that a change
of the model fails there first; the strengthenings of the other modules are stated
beside their proofs, and runs check what they imply.

**Only model-checked**: the liveness properties (`Settles`, `PendingResolves`,
`DeleteSettles`, `PendingConverges`, `WorkIsSaved`), which the prover does not reach
under fairness; `PlatformTypeOK` and `ServicesTypeOK`, which put the type invariants of
the parts side by side, each of which is a theorem of its part.

## 5. Findings

1. **`slots_owner_race`.** `status_update_step.py:481-514` reads the slots row,
   compares the owner, and puts a whole row later without a condition. When the
   first deploys of one name by two tenants overlap, both read "no row", and the
   second put replaces the first tenant's row. The comment at 483-486 says the
   test is there "in case a bug or race lets one through".
2. **`pipeline_not_swept`.** When a status write of the failure handler raises,
   the outer `except` of `status_update_step` (560-578) writes FAILED and returns
   normally. Step Functions sees success: no retry, and nothing is cleaned up.
3. **`lambda_abort`.** `deploy_gateway` sets `lambda_function_name` only when
   `create_dynamic_gateway_lambda` has returned (`gateway_deployer.py:2729-2730`).
   When that raises after `add_permission` the abort releases
   `AgentCoreLambdaTestFunction` instead and deletes the role: the grant stays and
   dangles. The comment at 3325-3326 says a failed deploy "leaves no orphan
   gateway/role/Lambda-grant behind".

4. **`memory_toolless`.** `_get_gateway_tools` of the memory host stores the empty
   list before the discovery and leaves it there when the discovery raises or finds
   nothing (`code_generator.py:1430`). The next call takes it for the tools and
   caches an agent without any; the text says it fails loudly instead (1432-1434).

`PROJECT.json` lists the others, each with the line it contradicts. 5 to 12, 15, 16 and
18 are behaviours of the models, without a run of their own: the properties are stated
around them, as named there. 13, 14 and 17 were met while reading the sources and are in no
model: what `call_a2a_peer` answers, which function the application calls, and what the
editor tells its user are abstracted.

5. A policy whose engine is enforced and that fails later is never looked at again:
   `_maybe_promote_policy` returns unless a promotion is pending
   (`deployment_handler.py:214`).
6. `publish` never compares the owner of the suffixed slug (`registry.py:303`).
7. An MCP server without a gateway exports a template that refers to resources it
   lacks (`cfn_template_generator.py:2389`).
8. A failed update of an existing runtime is answered as a success
   (`runtime_deployer.py:508`).
9. The direct path records neither policy engine, policies nor guardrail
   (`deployment.py:1091`).
10. `_persist_acl` puts the whole row it read (`workspaces.py:84`).
11. `LOOM_APPROVAL_POLICIES` is read only by programs with a `hitl` node
    (`runtime_configure_step.py:234`).
12. The deny-stub of the approval hook raises `NameError` (`code_generator.py:2477`):
    `StubReads` and `DenyTool` of `GeneratedAgent`, the exception in `GeneratedRuns`.
13. `call_a2a_peer` answers "unsupported scheme" to every URL it accepted
    (`a2a_codegen.py:354`).
14. The telemetry wrapper is bound after the entrypoint was registered and never
    called (`code_generator.py:2227`).
15. The recreation of a gateway drops connectors, external servers and the owner
    (`gateway_deployer.py:3260`).
16. The OAuth provider of an MCP runtime is in no inventory and conflicts with itself
    (`gateway_deployer.py:2784`).
17. A failed autosave never reaches the banner made for it: `saveFlow` catches every
    error (`useAutoSave.ts:199`).
18. Opening a flow keeps the undo history: undo puts one flow's drawing into another,
    and the autosave stores it there (`flowStore.ts:179`).

Seen while modelling and present in the models, without a run of their own.
Deployment, versions and gateway Lambdas:

* A deploy that is rejected late, after its pending version row was put
  (`deployment_handler.py:684-751`), keeps the name claimed: the ownership check
  counts pending rows as in flight (585-586).
* A tail that is retried after it wrote the slots makes the version its own
  predecessor; the rollback target is lost (`status_update_step.py:498-514`).
* A tail that exhausts its attempts after the success write is caught: the
  deployment that was announced as succeeded is marked failed and cleaned up.
* The release of a name looks under the canvas node's id, not the friendly name
  (`deployment_handler.py:2324-2335`), and usually releases nothing.
* A step killed between a creation and its record adopts the resource on its
  retry and, where only new resources are recorded, never records it
  (`memory_step.py:206`).
* An adopted guardrail is recorded like an own one; the cleanup of the adopter
  deletes it (`guardrails_step.py:363-366`).
* `BackingOutlives` is a property of the order only: when the delete of the
  knowledge base fails the loop goes on to its bucket and role.
* `docs/DEPLOYMENT_INTERNALS.md:130` describes failures as ending in the failure
  handler; the timeout of the execution (`step_functions.py:328`) does not.
* A stray invocation of the tail may write *succeeded* after the sweep.
* A shared tool Lambda can be deleted under a live gateway: the grant comes
  after the other gateway's release read the policy and its delete after the
  probe. `ServedUnlessOvertaken` says that this is the only way.
* A gateway that never serves its tools is given up after its last recreation
  without cleanup and without an inventory (`gateway_deployer.py:3273-3281`);
  gateway, role and grant stay.
* A gateway that is recreated and then fails before the shared Lambda leaves its
  grant and function, for the reason of finding 3.
* A dangling grant whose role name was created again is not pruned (the role
  exists) and rejects every grant until that role goes.

Teardown:

* The manifest path counts a row as done when `destroy` answered success False;
  a vector store's refusal is swallowed.
* When the lookup of the record fails, only the runtime is destroyed, and success is
  reported.
* When the second invocation cannot be started after *deleting* was written and the
  inline fallback is cut off, *deleting* stays.
* Two teardowns of one record can strand the knowledge base: one deletes its role
  while the other still waits. The wait of two minutes runs out and the loop goes on.
* Records without manifest: what is already gone counts as a failure, and the role of
  a knowledge base is deleted without a wait.
* A teardown beside a running deployment misses the rows added later.

Promotion:

* A promoter that started on a deployment which then failed writes SUCCEEDED over
  FAILED (`Persist`).
* The sweep looks at 200 records at most, and records with a healthy enforced engine
  match its filter forever.
* A promotion with some of the policies active clears what was pending of the others;
  policies that were made again leave the failed copy.

Registry:

* An update after a delete leaves a ghost row that later reads raise on. A verdict
  falls on content its reader did not see; a publish undoes a verdict given since its
  read. A publish whose canvas is unchanged keeps *approved* with other metadata.
* Use counts lose updates. Two admins can leave LiteLLM chosen and unconfigured.

Export and direct path:

* Custom tools whose names differ only in stripped characters overwrite each other;
  the exported handler calls a name that the tool's code does not define. A knowledge
  base or policy without a gateway is dropped silently.
* The direct path's `record_resource` makes a row that has nothing but a manifest,
  which no reader can load; the memory's role stays when its policy cannot be put.
* Deployments of one name share the code's S3 key, and the runtime may take the other's
  code. `DirectRunsItsCode` sets such deployments apart (`disturbed`): the code does lose
  there. It says that only that overlap, or the update of finding 8, can make a success
  run other code.

Workflows and editor:

* Any put of a whole row undoes what was written between its read and its write; an
  import keeps the owner and the sharing in the imported text.
* An update is copied over the row without validation (`workflows.py:270`): edges that do
  not fit the nodes make a row that is neither read, updated nor deleted any more, and
  that the list leaves out.
* An update may set the deployment status, and a synchronisation brings the one in the
  repository's file (`git_sync.py:183-188`).
* A save drops the nodes that have no configuration yet, labels and the kind of a tool
  connection, and keeps the edges of the dropped nodes (`useAutoSave.ts:54-108`); the flow
  routes store the drawing unvalidated, and opening the flow again shows it so.
* Opening another flow within five seconds of the last change drops that change: the
  load sets the timer anew. Undo and redo drop drags made in between.
* A late list answer hides a flow just created, whose autosave is then skipped
  silently. Two saves on their way may arrive in either order; a save on its way
  brings a deleted flow back; a rename may undo a save.
* Opening a flow saves it again five seconds later.

Generated programs:

* The guardrail reaches neither the forced execution of the code interpreter nor the
  judge of agentic retrieval, nor other providers than Bedrock. Memory, gateway and
  A2A hosts ignore the provider. A gateway host drops knowledge base, browser and
  interpreter; team and template hosts drop memory, knowledge base and gateway.
* Agents of a team whose ids differ only in `-` and `_` share a variable.

Gateway:

* An exhausted recreation returns no inventory; `kb_lambda_name` is in none. A custom
  tool's role stays when its function fails. A failed redeployment onto a gateway of the
  same name deletes that gateway; a connector's rollback deletes a secret the
  caller supplied.
* A target that exists already is kept with its old schema.
* A target that lacks its schema, text or ARN is skipped with a log, and so is one said to
  exist that the list does not show (`gateway_deployer.py:1817, 2751, 4302, 4325, 4358`);
  the deploy is a success.

Permission requests (not modelled): the role is widened before the decision is put,
and the put has no condition, so of an approval and a rejection at once the rejection
may be recorded and the role stay widened.

## 6. What is not modelled, and why

Components without a module are in `PROJECT.json` with their reasons: prompts,
triggers, approvals and budgets are rows that nothing else reads while they
change; observability, catalogs and tags are queries or lookups; views and
infrastructure have no state of their own. Within the modelled parts: the documents
resources are created with, prompts, schemas and code (data without control);
authentication, tags and cross-account targets, which contribute one late rejection;
the discovery of LiteLLM's tools; `configure_jwt_auth`, which nothing calls. Two deployments that use one gateway at the same time are in no
module: `SharedToolLambda` has several gateways and one Lambda, `GatewayTargets` one
deploy. AWS itself is modelled from how the code uses it: names are unique where the
code relies on a conflict, deletes of what is gone succeed or raise as the handlers
expect, and a call may raise whenever its fault is on.

## 7. Plan

The modules of the first plan are written, in its order: slots, pipeline, shared
Lambda; then teardown, promotion, gateway; then registry, export, direct path,
workflows, generated programs, and the editor. What would come next:

1. **Two deployments of one gateway name**, as a composition of `GatewayTargets` and
   `SharedToolLambda`, which share the roles.
2. **Decisions**: permission requests and human approvals against one abstract
   specification, one decision for each request.
3. **Teardown and deployment in one module**: `RuntimeTeardown` has the deployment that
   still fills the manifest as one step.
