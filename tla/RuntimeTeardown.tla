-------------------------- MODULE RuntimeTeardown --------------------------
(***************************************************************************)
(* DELETE /api/runtime: the teardown of one deployment from its record.    *)
(* The dispatcher runs it in the request, or, for a knowledge base, in a   *)
(* second invocation of its own Lambda.  The manifest of the record lists  *)
(* what to delete; records older than the manifest name a few results      *)
(* instead.  Nothing keeps two teardowns of one record apart, nor a        *)
(* teardown and the deployment that still fills the manifest, and a record *)
(* is never removed: a teardown can be asked for again.                    *)
(*                                                                         *)
(* A call that AWS answers later is two steps: the answer "going" and the  *)
(* step that ends it.  Waits are bounded in the code; they run out only    *)
(* when "lag" is among the faults.                                         *)
(***************************************************************************)
EXTENDS Naturals, FiniteSets

CONSTANTS
  Teardown,        \* the teardowns asked for, each at most once
  Records,         \* the deployment records to choose from
  AsyncRetries,    \* Lambda's retries of an asynchronous invocation
  TeardownFaults,  \* which failures may happen, a subset of TeardownFaultKinds
  MaxTroubles      \* how many of them in one behaviour

TeardownFaultKinds == {"lookup", "status", "invoke", "part", "lag", "row",
                       "refused", "release", "kill"}

\* What a record may list.  "extras" are the dashboard, evaluation and triggers
\* that go with a runtime, "kb_tool" the Lambda of a knowledge base's tool.
Listable == {"knowledge_base", "store", "collection", "kb_role", "runtime",
             "exec_role", "harness", "gateway", "policy_engine", "pool",
             "memory", "guardrail", "provider"}
Resource == Listable \cup {"extras", "kb_tool"}

\* What cannot be deleted while it has parts: targets, policies, domain, indexes.
Parent == {"gateway", "policy_engine", "pool", "store"}

\* manifest: the rows; legacy: what a record without rows names; late: rows that
\* the deployment still adds; flow: knowledge_base_result says created_by_flow.
RecordShape == [manifest : SUBSET Listable, legacy : SUBSET Listable,
                late : SUBSET Listable, unlisted : SUBSET {"extras", "kb_tool"},
                harness : BOOLEAN, flow : BOOLEAN]

ASSUME TeardownAssumption ==
  /\ Records \subseteq RecordShape
  /\ \A r \in Records : r.manifest \cap r.late = {} /\ r.legacy \cap r.late = {}
  /\ AsyncRetries \in Nat /\ MaxTroubles \in Nat
  /\ TeardownFaults \subseteq TeardownFaultKinds

VARIABLES
  record,      \* the record chosen
  listed,      \* its manifest now
  remains,     \* what AWS has of each resource
  parts,       \* and of the parts of the parents
  named,       \* the friendly name is taken
  stage,       \* the next step of each teardown
  mode,        \* "inline", or "async" in a second invocation
  runs,        \* retries of that invocation
  rows,        \* the manifest as the teardown read it
  left,        \* the rows it has not taken yet
  row,         \* the row in hand
  failures,    \* cleanup_failures
  outcome,     \* what it reported
  deleteStatus,\* delete_status on the record
  unread,      \* the teardowns whose lookup failed
  hurried,     \* some wait for the knowledge base ran out
  warned,      \* the kinds of which some teardown recorded a failure
  disturbed,   \* teardowns that met a fault, another teardown or its traces
  troubles,    \* the faults so far
  forsaken     \* nobody is left to settle delete_status

worldVars == <<record, listed, remains, parts, named>>
runVars == <<mode, runs, rows, left, row, failures, outcome>>
teardownHistory == <<unread, hurried, warned, disturbed, troubles, forsaken>>
teardownVars == <<worldVars, stage, runVars, deleteStatus, teardownHistory>>

\* A fault of that kind, or none.
TeardownFault(kind) ==
  /\ kind \in TeardownFaults /\ troubles < MaxTroubles
  /\ troubles' = troubles + 1
NoFault == UNCHANGED troubles

TeardownStage == {"idle", "invoke", "queued", "lookup", "rows", "clean", "delete",
          "await", "tool", "base", "base_role", "main", "name", "report",
          "done", "dead"}
AtRest == {"idle", "done", "dead"}

NoKind == "none"

\* _DELETE_PRIORITY.
Band(k) ==
  CASE k = "knowledge_base" -> 0
    [] k \in {"runtime", "harness"} -> 1
    [] k \in {"gateway", "policy_engine"} -> 2
    [] k \in {"memory", "guardrail"} -> 6
    [] k = "provider" -> 7
    [] k \in {"store", "collection"} -> 8
    [] OTHER -> 9

\* The order of the steps 0 to 1 for a record without a manifest.
LegacyBand(k) ==
  CASE k = "policy_engine" -> 1 [] k = "memory" -> 2 [] k = "guardrail" -> 3
    [] k = "gateway" -> 4 [] OTHER -> 5

ByManifest(t) == rows[t] # {}
BandFor(t, k) == IF ByManifest(t) THEN Band(k) ELSE LegacyBand(k)

SlowKinds == {"knowledge_base", "collection", "store"}
Slow == record.flow \/ listed \cap SlowKinds # {}

\* What Bedrock needs while it deletes a knowledge base's data.
BackingKinds == {"store", "collection", "kb_role"}
Backed == \A k \in BackingKinds \cap (record.manifest \cup record.legacy) :
            remains[k] = "here"

TeardownInit ==
  /\ record \in Records
  /\ listed = record.manifest
  /\ remains = [k \in Resource |->
       IF k \in record.manifest \cup record.legacy \cup record.unlisted
       THEN "here" ELSE "gone"]
  /\ parts = [k \in Parent |->
       IF k \in record.manifest \cup record.legacy THEN "here" ELSE "gone"]
  /\ named = TRUE
  /\ stage = [t \in Teardown |-> "idle"]
  /\ mode = [t \in Teardown |-> "inline"]
  /\ runs = [t \in Teardown |-> 0]
  /\ rows = [t \in Teardown |-> {}] /\ left = [t \in Teardown |-> {}]
  /\ row = [t \in Teardown |-> NoKind]
  /\ failures = [t \in Teardown |-> {}]
  /\ outcome = [t \in Teardown |-> "none"]
  /\ deleteStatus = "none"
  /\ unread = {} /\ hurried = FALSE /\ warned = {} /\ disturbed = {}
  /\ troubles = 0 /\ forsaken = FALSE

GoOn(t, where) == stage' = [stage EXCEPT ![t] = where]

\* The step met with nothing, or with something it is not to blame for.
Smooth == UNCHANGED <<disturbed, troubles>>
Met(t) == disturbed' = disturbed \cup {t}

Fail(t, k) ==
  /\ failures' = [failures EXCEPT ![t] = @ \cup {k}]
  /\ warned' = warned \cup {k}

NoFailure == UNCHANGED <<failures, warned>>

-----------------------------------------------------------------------------
(* handle_delete_runtime and _handle_async_delete.                         *)

Active(t) == stage[t] \notin AtRest

\* Best effort: a write that fails is logged.
SetDeleteStatus(s) ==
  \/ deleteStatus' = s /\ NoFault
  \/ TeardownFault("status") /\ UNCHANGED deleteStatus

\* The lookup that classifies may fail: then the teardown counts as fast.
AskDelete(t) ==
  /\ stage[t] = "idle"
  /\ \/ /\ Slow
        /\ GoOn(t, "invoke")
        /\ SetDeleteStatus("deleting")
     \/ /\ (~Slow /\ NoFault) \/ TeardownFault("lookup")
        /\ GoOn(t, "lookup") /\ UNCHANGED deleteStatus
  /\ disturbed' = IF \E u \in Teardown : Active(u)
                  THEN disturbed \cup {t} \cup {u \in Teardown : Active(u)}
                  ELSE disturbed
  /\ UNCHANGED <<worldVars, runVars, unread, hurried, warned, forsaken>>

\* When the invocation cannot be made the request does the work itself, and
\* nothing takes the status "deleting" back.
InvokeSelf(t) ==
  /\ stage[t] = "invoke"
  /\ \/ /\ GoOn(t, "queued")
        /\ mode' = [mode EXCEPT ![t] = "async"]
        /\ Smooth /\ UNCHANGED forsaken
     \/ /\ TeardownFault("invoke")
        /\ GoOn(t, "lookup") /\ UNCHANGED mode
        /\ Met(t) /\ forsaken' = TRUE
  /\ UNCHANGED <<worldVars, runs, rows, left, row, failures, outcome,
                 deleteStatus, unread, hurried, warned>>

BeginAsync(t) ==
  /\ stage[t] = "queued"
  /\ GoOn(t, "lookup")
  /\ UNCHANGED <<worldVars, runVars, deleteStatus, teardownHistory>>

\* Without a record only the runtime is destroyed, by the id in the request.
LookUp(t) ==
  /\ stage[t] = "lookup"
  /\ failures' = [failures EXCEPT ![t] = {}]
  /\ \/ /\ rows' = [rows EXCEPT ![t] = listed]
        /\ left' = [left EXCEPT ![t] = IF listed # {} THEN listed ELSE record.legacy]
        /\ GoOn(t, "rows")
        /\ unread' = unread \ {t} /\ Smooth
     \/ /\ TeardownFault("lookup")
        /\ rows' = [rows EXCEPT ![t] = {}] /\ left' = [left EXCEPT ![t] = {}]
        /\ GoOn(t, "main")
        /\ unread' = unread \cup {t} /\ Met(t)
  /\ UNCHANGED <<worldVars, mode, runs, row, outcome, deleteStatus, hurried,
                 warned, forsaken>>

-----------------------------------------------------------------------------
(* The loop over the rows, and _delete_managed_resource.                   *)

\* Mutant of TakeRow: the rows are taken as they were recorded.
TakeRowUnordered(t) ==
  /\ stage[t] = "rows" /\ left[t] # {}
  /\ \E k \in left[t] :
       /\ left' = [left EXCEPT ![t] = @ \ {k}]
       /\ row' = [row EXCEPT ![t] = k]
       /\ GoOn(t, IF k \in Parent THEN "clean" ELSE "delete")
  /\ UNCHANGED <<worldVars, mode, runs, rows, failures, outcome, deleteStatus,
                 teardownHistory>>

TakeRow(t) ==
  /\ stage[t] = "rows" /\ left[t] # {}
  /\ \E k \in left[t] :
       /\ \A j \in left[t] : BandFor(t, k) <= BandFor(t, j)
       /\ left' = [left EXCEPT ![t] = @ \ {k}]
       /\ row' = [row EXCEPT ![t] = k]
       /\ GoOn(t, IF k \in Parent THEN "clean" ELSE "delete")
  /\ UNCHANGED <<worldVars, mode, runs, rows, failures, outcome, deleteStatus,
                 teardownHistory>>

RowsDone(t) ==
  /\ stage[t] = "rows" /\ left[t] = {}
  /\ row' = [row EXCEPT ![t] = NoKind]
  /\ GoOn(t, "tool")
  /\ UNCHANGED <<worldVars, mode, runs, rows, left, failures, outcome,
                 deleteStatus, teardownHistory>>

\* Targets, policies and domains go later, indexes at once.  What could not be
\* listed or deleted stays, and the delete of the parent finds out.
CleanParts(t) ==
  /\ stage[t] = "clean"
  /\ LET k == row[t] IN
     \/ /\ parts' = [parts EXCEPT ![k] =
             IF @ = "here" THEN (IF k = "store" THEN "gone" ELSE "going") ELSE @]
        /\ Smooth
     \/ TeardownFault("part") /\ UNCHANGED parts /\ Met(t)
  /\ GoOn(t, "delete")
  /\ UNCHANGED <<record, listed, remains, named, runVars, deleteStatus, unread,
                 hurried, warned, forsaken>>

\* The retries of the delete run out while parts are there.
PartsRemain(t) ==
  /\ stage[t] = "delete" /\ row[t] \in Parent
  /\ remains[row[t]] = "here"
  /\ \/ parts[row[t]] = "here" /\ Smooth
     \/ parts[row[t]] = "going" /\ TeardownFault("lag") /\ Met(t)
  /\ Fail(t, row[t])
  /\ GoOn(t, "rows")
  /\ UNCHANGED <<worldVars, mode, runs, rows, left, row, outcome, deleteStatus,
                 unread, hurried, forsaken>>

\* Mutant of GoneAlready: not found is an error in the loop over the rows, too.
GoneAlreadyFails(t) ==
  /\ stage[t] = "delete" /\ remains[row[t]] = "gone"
  /\ Fail(t, row[t]) /\ Smooth
  /\ GoOn(t, "rows")
  /\ UNCHANGED <<worldVars, mode, runs, rows, left, row, outcome, deleteStatus,
                 unread, hurried, forsaken>>

\* A resource that is gone counts as deleted, except on the old path.
GoneAlready(t) ==
  /\ stage[t] = "delete" /\ remains[row[t]] = "gone"
  /\ IF ByManifest(t) THEN NoFailure ELSE Fail(t, row[t])
  /\ Smooth
  /\ GoOn(t, "rows")
  /\ UNCHANGED <<worldVars, mode, runs, rows, left, row, outcome, deleteStatus,
                 unread, hurried, forsaken>>

\* destroy_runtime takes the role and the extras along, destroy_harness its provider.
WithIt(k) ==
  CASE k = "runtime" -> {"runtime", "exec_role", "extras"}
    [] k = "harness" -> {"harness", "provider"}
    [] OTHER -> {k}

Destroyed(gone) == [k \in Resource |-> IF k \in gone THEN "gone" ELSE remains[k]]

\* Every kind but the knowledge base.
DeleteRow(t) ==
  /\ stage[t] = "delete"
  /\ row[t] # "knowledge_base" /\ remains[row[t]] = "here"
  /\ row[t] \in Parent => parts[row[t]] = "gone"
  /\ remains' = Destroyed(WithIt(row[t]))
  /\ GoOn(t, "rows")
  /\ UNCHANGED <<record, listed, parts, named, runVars, deleteStatus,
                 teardownHistory>>

\* Kinds whose delete answers instead of raising.
Silent == {"runtime", "harness", "collection"}

\* Mutant of RowFails: the gateway's retries end without raising.
RowFailsSilently(t) ==
  /\ stage[t] = "delete"
  /\ remains[row[t]] # "gone"
  /\ TeardownFault(IF row[t] \in Silent THEN "refused" ELSE "row")
  /\ IF row[t] \in Silent \cup {"gateway"} THEN NoFailure ELSE Fail(t, row[t])
  /\ Met(t)
  /\ GoOn(t, "rows")
  /\ UNCHANGED <<worldVars, mode, runs, rows, left, row, outcome, deleteStatus,
                 unread, hurried, forsaken>>

RowFails(t) ==
  /\ stage[t] = "delete"
  /\ remains[row[t]] # "gone"
  /\ TeardownFault(IF row[t] \in Silent THEN "refused" ELSE "row")
  /\ IF row[t] \in Silent THEN NoFailure ELSE Fail(t, row[t])
  /\ Met(t)
  /\ GoOn(t, "rows")
  /\ UNCHANGED <<worldVars, mode, runs, rows, left, row, outcome, deleteStatus,
                 unread, hurried, forsaken>>

\* A knowledge base that another teardown is deleting rejects the call or not.
DeleteBase(t) ==
  /\ stage[t] = "delete" /\ row[t] = "knowledge_base"
  /\ \/ /\ remains["knowledge_base"] # "gone"
        /\ remains' = [remains EXCEPT !["knowledge_base"] = "going"]
        /\ GoOn(t, "await")
        /\ NoFailure /\ Smooth
     \/ /\ remains["knowledge_base"] = "going"
        /\ UNCHANGED remains
        /\ Fail(t, "knowledge_base") /\ Met(t) /\ NoFault
        /\ GoOn(t, "rows")
  /\ UNCHANGED <<record, listed, parts, named, mode, runs, rows, left, row,
                 outcome, deleteStatus, unread, hurried, forsaken>>

AwaitBase(t) ==
  /\ stage[t] = "await"
  /\ \/ remains["knowledge_base"] = "gone" /\ Smooth /\ UNCHANGED hurried
     \/ /\ \/ remains["knowledge_base"] = "going" /\ TeardownFault("lag")
           \/ remains["knowledge_base"] = "stuck" /\ NoFault
        /\ hurried' = TRUE /\ Met(t)
  /\ GoOn(t, "rows")
  /\ UNCHANGED <<worldVars, runVars, deleteStatus, unread, warned, forsaken>>

-----------------------------------------------------------------------------
(* What follows the rows.                                                  *)

\* The tool's Lambda and role, by name; failures are passed over.
DeleteTool(t) ==
  /\ stage[t] = "tool"
  /\ \/ remains' = [remains EXCEPT !["kb_tool"] = "gone"] /\ Smooth
     \/ TeardownFault("row") /\ UNCHANGED remains /\ Met(t)
  /\ GoOn(t, IF record.flow THEN "base" ELSE "main")
  /\ UNCHANGED <<record, listed, parts, named, runVars, deleteStatus, unread,
                 hurried, warned, forsaken>>

\* The knowledge base again, or for the first time on the old path.
DeleteBaseAgain(t) ==
  /\ stage[t] = "base"
  /\ \/ /\ remains' = [remains EXCEPT !["knowledge_base"] =
             IF @ = "gone" THEN "gone" ELSE "going"]
        /\ GoOn(t, "base_role") /\ NoFailure /\ Smooth
     \/ /\ \/ TeardownFault("row") /\ Met(t)
           \/ remains["knowledge_base"] = "going" /\ Smooth
        /\ UNCHANGED remains
        /\ Fail(t, "knowledge_base")
        /\ GoOn(t, "main")
  /\ UNCHANGED <<record, listed, parts, named, mode, runs, rows, left, row,
                 outcome, deleteStatus, unread, hurried, forsaken>>

\* Its role, without a wait for the knowledge base.
DeleteBaseRole(t) ==
  /\ stage[t] = "base_role"
  /\ \/ /\ remains' = [remains EXCEPT !["kb_role"] = "gone"]
        /\ hurried' = (hurried \/ remains["knowledge_base"] # "gone")
        /\ NoFailure /\ Smooth
     \/ TeardownFault("row") /\ Fail(t, "kb_role") /\ Met(t) /\ UNCHANGED <<remains, hurried>>
  /\ GoOn(t, "main")
  /\ UNCHANGED <<record, listed, parts, named, mode, runs, rows, left, row,
                 outcome, deleteStatus, unread, forsaken>>

MainKind == IF record.harness THEN "harness" ELSE "runtime"

\* A refusal counts only when the record had no manifest.
DestroyMain(t) ==
  /\ stage[t] = "main"
  /\ LET k == IF t \in unread THEN "runtime" ELSE MainKind IN
     \/ remains' = Destroyed(WithIt(k)) /\ NoFailure /\ Smooth
     \/ /\ TeardownFault("refused") /\ remains[k] # "gone" /\ UNCHANGED remains
        /\ IF ByManifest(t) THEN NoFailure ELSE Fail(t, k)
        /\ Met(t)
  /\ GoOn(t, IF t \in unread THEN "report" ELSE "name")
  /\ UNCHANGED <<record, listed, parts, named, mode, runs, rows, left, row,
                 outcome, deleteStatus, unread, hurried, forsaken>>

ReleaseName(t) ==
  /\ stage[t] = "name"
  /\ \/ named' = FALSE /\ Smooth
     \/ TeardownFault("release") /\ UNCHANGED named /\ Met(t)
  /\ GoOn(t, "report")
  /\ UNCHANGED <<record, listed, remains, parts, runVars, deleteStatus, unread,
                 hurried, warned, forsaken>>

\* Mutant of Report: only a success is written.
ReportSuccess(t) ==
  /\ stage[t] = "report"
  /\ outcome' = [outcome EXCEPT ![t] = IF failures[t] = {} THEN "ok" ELSE "failed"]
  /\ deleteStatus' = IF mode[t] = "async" /\ failures[t] = {} THEN "deleted"
                     ELSE deleteStatus
  /\ GoOn(t, "done")
  /\ UNCHANGED <<worldVars, mode, runs, rows, left, row, failures, teardownHistory>>

\* An asynchronous teardown writes its outcome; the write may be lost.
Report(t) ==
  /\ stage[t] = "report"
  /\ outcome' = [outcome EXCEPT ![t] = IF failures[t] = {} THEN "ok" ELSE "failed"]
  /\ \/ /\ mode[t] = "async"
        /\ deleteStatus' = IF failures[t] = {} THEN "deleted" ELSE "delete_failed"
        /\ NoFault /\ UNCHANGED forsaken
     \/ mode[t] = "inline" /\ NoFault /\ UNCHANGED <<deleteStatus, forsaken>>
     \/ /\ mode[t] = "async" /\ TeardownFault("status")
        /\ forsaken' = TRUE /\ UNCHANGED deleteStatus
  /\ GoOn(t, "done")
  /\ UNCHANGED <<worldVars, mode, runs, rows, left, row, failures, unread,
                 hurried, warned, disturbed>>

-----------------------------------------------------------------------------
(* AWS, the deployment and the Lambda.                                     *)

PartsGone ==
  /\ \E k \in Parent :
       parts[k] = "going" /\ parts' = [parts EXCEPT ![k] = "gone"]
  /\ UNCHANGED <<record, listed, remains, named, stage, runVars, deleteStatus,
                 teardownHistory>>

\* Without its store or role a knowledge base does not go.
BaseGone ==
  /\ remains["knowledge_base"] = "going"
  /\ remains' = [remains EXCEPT !["knowledge_base"] = IF Backed THEN "gone" ELSE "stuck"]
  /\ UNCHANGED <<record, listed, parts, named, stage, runVars, deleteStatus,
                 teardownHistory>>

\* A step of the deployment creates and records while a teardown may run.
StepRecords ==
  /\ \E k \in record.late \ listed :
       /\ listed' = listed \cup {k}
       /\ remains' = [remains EXCEPT ![k] = "here"]
       /\ parts' = IF k \in Parent THEN [parts EXCEPT ![k] = "here"] ELSE parts
  /\ UNCHANGED <<record, named, stage, runVars, deleteStatus, teardownHistory>>

\* A Lambda that dies; an asynchronous invocation is made again.
KillTeardown(t) ==
  /\ TeardownFault("kill")
  /\ stage[t] \notin AtRest \cup {"queued"}
  /\ IF mode[t] = "async" /\ runs[t] < AsyncRetries
     THEN /\ GoOn(t, "queued")
          /\ runs' = [runs EXCEPT ![t] = @ + 1]
          /\ UNCHANGED forsaken
     ELSE GoOn(t, "dead") /\ forsaken' = TRUE /\ UNCHANGED runs
  /\ row' = [row EXCEPT ![t] = NoKind]
  /\ UNCHANGED <<worldVars, mode, rows, left, failures, outcome, deleteStatus,
                 unread, hurried, warned, disturbed>>

Work(t) ==
  \/ InvokeSelf(t) \/ BeginAsync(t) \/ LookUp(t) \/ TakeRow(t) \/ RowsDone(t)
  \/ CleanParts(t) \/ PartsRemain(t) \/ GoneAlready(t) \/ DeleteRow(t)
  \/ RowFails(t) \/ DeleteBase(t) \/ AwaitBase(t) \/ DeleteTool(t)
  \/ DeleteBaseAgain(t) \/ DeleteBaseRole(t) \/ DestroyMain(t)
  \/ ReleaseName(t) \/ Report(t)

TeardownNext ==
  \/ \E t \in Teardown : AskDelete(t) \/ Work(t) \/ KillTeardown(t)
  \/ PartsGone \/ BaseGone \/ StepRecords

TeardownSpec == TeardownInit /\ [][TeardownNext]_teardownVars

\* A started Lambda goes on, and AWS ends what it has begun.
TeardownFair ==
  /\ \A t \in Teardown : WF_teardownVars(Work(t))
  /\ WF_teardownVars(PartsGone) /\ WF_teardownVars(BaseGone)

-----------------------------------------------------------------------------
(* Properties.                                                             *)

Held == {"here", "going", "stuck", "gone"}

\* Every value stays in its range.
TeardownTypeOK ==
  /\ record \in Records /\ listed \subseteq Listable
  /\ remains \in [Resource -> Held] /\ parts \in [Parent -> Held \ {"stuck"}]
  /\ named \in BOOLEAN /\ hurried \in BOOLEAN /\ forsaken \in BOOLEAN
  /\ stage \in [Teardown -> TeardownStage]
  /\ mode \in [Teardown -> {"inline", "async"}]
  /\ runs \in [Teardown -> 0..AsyncRetries]
  /\ rows \in [Teardown -> SUBSET Listable]
  /\ left \in [Teardown -> SUBSET Listable]
  /\ row \in [Teardown -> Listable \cup {NoKind}]
  /\ failures \in [Teardown -> SUBSET Listable]
  /\ warned \subseteq Listable
  /\ outcome \in [Teardown -> {"none", "ok", "failed"}]
  /\ deleteStatus \in {"none", "deleting", "deleted", "delete_failed"}
  /\ unread \subseteq Teardown /\ disturbed \subseteq Teardown

\* A teardown that reports success left nothing of the manifest it read, but
\* for the kinds whose refusal the code does not notice and a knowledge base
\* that was not waited for (Bug 44, Bug 106, Bug 187).
SuccessIsWhole ==
  \A t \in Teardown : outcome[t] = "ok" =>
    \A k \in rows[t] : \/ remains[k] = "gone"
                       \/ k \in Silent
                       \/ k = "knowledge_base" /\ (remains[k] = "going" \/ hurried)

\* No knowledge base is stranded without its store or role unless a teardown
\* said that its delete failed, or did not wait (Bug 167).
StrandedIsTold ==
  remains["knowledge_base"] = "stuck" => hurried \/ "knowledge_base" \in warned

\* A teardown by manifest that meets no fault, no other teardown and no
\* knowledge base that is still going reports success, whatever earlier
\* teardowns did or left half done (Bug 159).
RepeatSucceeds ==
  \A t \in Teardown :
    outcome[t] = "failed" /\ ByManifest(t) => t \in disturbed

\* A slow delete is settled in the end, unless the request fell back to doing
\* it itself, its Lambda died for good or the write was lost.
DeleteSettles == (deleteStatus = "deleting") ~> (deleteStatus # "deleting" \/ forsaken)
=============================================================================
