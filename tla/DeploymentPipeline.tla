------------------------- MODULE DeploymentPipeline -------------------------
(***************************************************************************)
(* One deployment from POST /api/deploy to the end of its Step Functions   *)
(* execution: the deploy handler, the state machine with its retries, its  *)
(* Catch and its timeouts, the step Lambdas it invokes (their programs are *)
(* in StepPrograms), the deployment record they all write, and the cleanup *)
(* of what a failed deployment created.                                    *)
(*                                                                         *)
(* A Lambda may be killed between two instructions, and a step that Step   *)
(* Functions has given up on may still be running: its invocation is the   *)
(* deployment's "stray" then, beside the "run" the state machine waits     *)
(* for.  No write of the record is conditional.                            *)
(***************************************************************************)
EXTENDS StepPrograms

CONSTANTS
  MaxAttempts,  \* invocations of a step before its retries are used up
  Faults,       \* which failures may happen, a subset of FaultKinds
  Nobody

FaultKinds ==
  {"late",      \* the handler rejects the request after it created the record
   "start",     \* start_execution fails
   "ack",       \* the handler's PENDING write comes after the first step
   "error",     \* a step raises
   "store",     \* a status write or the read of the manifest fails
   "record",    \* record_resource fails, and is swallowed
   "delete",    \* a delete of the cleanup fails
   "kill",      \* an invocation times out and is retried
   "exhaust",   \* ... and its retries are used up
   "crash",     \* an invocation dies of something that is not retried
   "tail",      \* these three also hit status_update and the failure handler
   "overlap",   \* a timed-out invocation goes on beside its retry
   "machine"}   \* the execution reaches its 30 minutes

ASSUME PipelineAssumption ==
  /\ MaxAttempts \in Nat \ {0}
  /\ Faults \subseteq FaultKinds

VARIABLES
  handler,   \* where the deploy handler of each deployment is
  status,    \* the status on its record
  manifest,  \* created_resources on its record
  exec,      \* its execution: the state, the position in Chain, the attempt
  event,     \* the handles the finished steps put on the event
  inv,       \* its two invocations
  aws        \* the resources that exist

vars == <<handler, status, manifest, exec, event, inv, aws>>

Fault(kind) == kind \in Faults

Status == {"none", "pending", "in_progress", "succeeded", "failed"}
ExecState == {"none", "running", "failing", "succeeded", "failed", "timed_out"}
Ended == {"succeeded", "failed", "timed_out"}
Who == {"run", "stray"}

Resource == [kind : Kind, label : Deployment \cup {Common}, maker : Deployment,
             try : 1 .. MaxAttempts]

Invocation == [step : Step, try : 1 .. MaxAttempts, pc : Nat \ {0},
               got : SUBSET Resource, todo : SUBSET Resource]

ASSUME NobodyAssumption == Nobody \notin Invocation

Label(d, k) == IF k \in SharedKind THEN Common ELSE d

Existing(k, l) == {r \in aws : r.kind = k /\ r.label = l}

Invoked(s, n) == [step |-> s, try |-> n, pc |-> 1, got |-> {}, todo |-> {}]

-----------------------------------------------------------------------------
(* The deploy handler.                                                     *)

Handle(d, from, to) ==
  handler[d] = from /\ handler' = [handler EXCEPT ![d] = to]

CreateRecord(d) ==
  /\ Handle(d, "idle", "created")
  /\ status' = [status EXCEPT ![d] = "pending"]
  /\ UNCHANGED <<manifest, exec, event, inv, aws>>

RejectLate(d) ==
  /\ Fault("late") /\ Handle(d, "created", "rejected")
  /\ UNCHANGED <<status, manifest, exec, event, inv, aws>>

\* start_execution, and the second PENDING write that follows it.
StartExecution(d) ==
  /\ Handle(d, "created", IF Fault("ack") THEN "started" ELSE "replied")
  /\ exec' = [exec EXCEPT ![d] = [state |-> "running", pos |-> 1, try |-> 1]]
  /\ UNCHANGED <<status, manifest, event, inv, aws>>

WritePending(d) ==
  /\ Handle(d, "started", "replied")
  /\ status' = [status EXCEPT ![d] = "pending"]
  /\ UNCHANGED <<manifest, exec, event, inv, aws>>

StartFails(d) ==
  /\ Fault("start") /\ Handle(d, "created", "rejected")
  /\ status' = [status EXCEPT ![d] = "failed"]
  /\ UNCHANGED <<manifest, exec, event, inv, aws>>

-----------------------------------------------------------------------------
(* The state machine.                                                      *)

\* The step whose state the execution is in.
Current(d) == IF exec[d].state = "failing" THEN "failure" ELSE Chain[exec[d].pos]

Waiting(d) == exec[d].state \in {"running", "failing"} /\ inv[d]["run"] = Nobody

\* A Choice state whose condition is false leads to its Pass state.
Skip(d) ==
  /\ Waiting(d) /\ exec[d].state = "running" /\ ~Planned(d, Current(d))
  /\ exec' = [exec EXCEPT ![d].pos = @ + 1, ![d].try = 1]
  /\ UNCHANGED <<handler, status, manifest, event, inv, aws>>

Invoke(d) ==
  /\ Waiting(d) /\ (exec[d].state = "running" => Planned(d, Current(d)))
  /\ inv' = [inv EXCEPT ![d]["run"] = Invoked(Current(d), exec[d].try)]
  /\ UNCHANGED <<handler, status, manifest, exec, event, aws>>

\* Mutant of Caught: the step task has no Catch.
CaughtByNobody(d) == [exec[d] EXCEPT !.state = "failed"]

\* Where the execution goes when its step is given up: to the failure handler,
\* which has no Catch itself.
Caught(d) ==
  IF exec[d].state = "failing" THEN [exec[d] EXCEPT !.state = "failed"]
  ELSE [exec[d] EXCEPT !.state = "failing", !.try = 1]

\* Mutant of Stray: the machine still takes the answer of what it gave up.
StrayKept(d) == [inv[d] EXCEPT !["stray"] = inv[d]["run"]]

\* The invocations of d once the state machine no longer waits for its run,
\* which goes on or has died.
Stray(d) == [inv[d] EXCEPT !["stray"] = inv[d]["run"], !["run"] = Nobody]
Alone(d) == [inv[d] EXCEPT !["run"] = Nobody]

Killable(d) ==
  /\ inv[d]["run"] # Nobody
  /\ inv[d]["run"].step \in {"status_update", "failure"} => Fault("tail")

\* The task timer fires, or Lambda answers with a retryable error.
TimerFires(d) ==
  /\ Killable(d)
  /\ \/ /\ Fault("kill") /\ exec[d].try < MaxAttempts
        /\ exec' = [exec EXCEPT ![d].try = @ + 1]
     \/ /\ Fault("exhaust") /\ exec[d].try = MaxAttempts
        /\ exec' = [exec EXCEPT ![d] = Caught(d)]
  /\ inv' = [inv EXCEPT ![d] = IF Fault("overlap") THEN Stray(d) ELSE Alone(d)]
  /\ UNCHANGED <<handler, status, manifest, event, aws>>

\* The sandbox dies of its own timeout or memory limit: no retry lists that.
Crash(d) ==
  /\ Fault("crash") /\ Killable(d)
  /\ exec' = [exec EXCEPT ![d] = Caught(d)]
  /\ inv' = [inv EXCEPT ![d] = Alone(d)]
  /\ UNCHANGED <<handler, status, manifest, event, aws>>

\* The execution times out as a whole: there is no Catch, the invocation that
\* is under way goes on.
MachineTimeout(d) ==
  /\ Fault("machine") /\ exec[d].state \in {"running", "failing"}
  /\ exec' = [exec EXCEPT ![d].state = "timed_out"]
  /\ inv' = IF inv[d]["run"] = Nobody THEN inv ELSE [inv EXCEPT ![d] = Stray(d)]
  /\ UNCHANGED <<handler, status, manifest, event, aws>>

\* A Lambda nobody waits for reaches its own timeout.
StrayDies(d) ==
  /\ inv[d]["stray"] # Nobody
  /\ inv' = [inv EXCEPT ![d]["stray"] = Nobody]
  /\ UNCHANGED <<handler, status, manifest, exec, event, aws>>

-----------------------------------------------------------------------------
(* The instructions.                                                       *)

\* Invocation w of d is about to execute op on k.
Now(d, w, op, k) ==
  /\ inv[d][w] # Nobody
  /\ inv[d][w].pc \in DOMAIN Program[d][inv[d][w].step]
  /\ Program[d][inv[d][w].step][inv[d][w].pc] = I(op, k)

GoTo(d, w, pc) == inv' = [inv EXCEPT ![d][w].pc = pc]
GoOn(d, w) == GoTo(d, w, inv[d][w].pc + 1)

\* Go on at pc, or with the next instruction, with the handles in new.
GoToWith(d, w, pc, new) ==
  inv' = [inv EXCEPT ![d][w].pc = pc, ![d][w].got = @ \cup new]
GoOnWith(d, w, new) == GoToWith(d, w, inv[d][w].pc + 1, new)

\* The resource of kind k that invocation w creates, if it does.
New(d, w, k) ==
  [kind |-> k, label |-> Label(d, k), maker |-> d, try |-> inv[d][w].try]

Begin(d, w) ==
  /\ Now(d, w, "begin", "none")
  /\ status' = [status EXCEPT ![d] = "in_progress"]
  /\ GoOn(d, w)
  /\ UNCHANGED <<handler, manifest, exec, event, aws>>

\* Calls that leave nothing behind, and the join after a lookup.
Proceed(d, w) ==
  /\ Now(d, w, "call", "none") \/ Now(d, w, "join", "none")
  /\ GoOn(d, w)
  /\ UNCHANGED <<handler, status, manifest, exec, event, aws>>

Ensure(d, w) ==
  \E k \in Kind :
    LET there == Existing(k, Label(d, k))
        made == IF there = {} THEN {New(d, w, k)} ELSE {}
    IN  /\ Now(d, w, "ensure", k)
        /\ aws' = aws \cup made
        /\ GoOnWith(d, w, there \cup made)
        /\ UNCHANGED <<handler, status, manifest, exec, event>>

Create(d, w) ==
  \E k \in Kind :
    /\ \/ Now(d, w, "fresh", k)
       \/ Now(d, w, "create", k) /\ Existing(k, Label(d, k)) = {}
    /\ aws' = aws \cup {New(d, w, k)}
    /\ GoOnWith(d, w, {New(d, w, k)})
    /\ UNCHANGED <<handler, status, manifest, exec, event>>

Lookup(d, w) ==
  \E k \in Kind :
    LET there == Existing(k, Label(d, k)) IN
    /\ Now(d, w, "found", k)
    /\ IF there = {} THEN GoOn(d, w)
       ELSE GoToWith(d, w, JoinPc(Program[d][inv[d][w].step]), there)
    /\ UNCHANGED <<handler, status, manifest, exec, event, aws>>

\* The handles of kind k that invocation w knows.
Handles(d, w, k) == {r \in event[d] \cup inv[d][w].got : r.kind = k}

Record(d, w) ==
  \E k \in Kind :
    LET rows == {r \in Handles(d, w, k) :
                   Now(d, w, "record_new", k) => r = New(d, w, k)}
    IN  /\ Now(d, w, "record", k) \/ Now(d, w, "record_new", k)
        /\ \/ manifest' = [manifest EXCEPT ![d] = @ \cup rows]
           \/ Fault("record") /\ UNCHANGED manifest
        /\ GoOn(d, w)
        /\ UNCHANGED <<handler, status, exec, event, aws>>

\* What a manifest row stands for: the resource itself, or whatever has its name.
Hit(row) ==
  {r \in aws : \/ r = row
               \/ r.kind = row.kind /\ r.label = row.label /\ row.kind \in ByName}

HitOf(rows) == UNION {Hit(row) : row \in rows}

\* The abort cleanup runs only once there is a gateway.
Drop(d, w) ==
  \E k \in Kind :
    /\ Now(d, w, "drop", k)
    /\ \/ aws' = IF Handles(d, w, "gateway") = {} THEN aws
                 ELSE aws \ HitOf(Handles(d, w, k))
       \/ Fault("delete") /\ UNCHANGED aws
    /\ GoOn(d, w)
    /\ UNCHANGED <<handler, status, manifest, exec, event>>

\* The end of invocation w, after which the execution is in state next.
End(d, w, next) ==
  /\ inv' = [inv EXCEPT ![d][w] = Nobody]
  /\ exec' = IF w = "run" THEN [exec EXCEPT ![d] = next] ELSE exec

\* The execution once its current step has returned.
Returned(d) ==
  IF exec[d].state = "failing" THEN [exec[d] EXCEPT !.state = "failed"]
  ELSE IF exec[d].pos = TailPos THEN [exec[d] EXCEPT !.state = "succeeded"]
  ELSE [exec[d] EXCEPT !.pos = @ + 1, !.try = 1]

Return(d, w) ==
  /\ Now(d, w, "return", "none")
  /\ End(d, w, Returned(d))
  /\ event' = IF w = "run" THEN [event EXCEPT ![d] = @ \cup inv[d][w].got] ELSE event
  /\ UNCHANGED <<handler, status, manifest, aws>>

\* An instruction raises: the gateway step aborts first, every other one ends.
RaiseFrom(d, w) ==
  /\ IF inv[d][w].step = "gateway" /\ inv[d][w].pc \in 2 .. AbortPc - 1
     THEN GoTo(d, w, AbortPc) /\ UNCHANGED exec
     ELSE End(d, w, Caught(d))
  /\ UNCHANGED <<handler, status, manifest, event, aws>>

StepFails(d, w) ==
  /\ \/ Fault("error") /\ Now(d, w, "call", "none")
     \/ Fault("error") /\ \E k \in Kind :
          \E op \in {"ensure", "create", "fresh"} : Now(d, w, op, k)
     \/ \E k \in Kind : Now(d, w, "create", k) /\ Existing(k, Label(d, k)) # {}
     \/ Now(d, w, "raise", "none")
  /\ RaiseFrom(d, w)

\* A status write of a step fails: these go on, and so does the harness step
\* when it writes its handles; the others raise.
Tolerant == {"validate", "knowledge_base"}

BeginFails(d, w) ==
  /\ Fault("store") /\ Now(d, w, "begin", "none")
  /\ inv[d][w].step \notin {"status_update", "failure"}
  /\ IF inv[d][w].step \in Tolerant \/ inv[d][w].pc > 1
     THEN GoOn(d, w) /\ UNCHANGED <<handler, status, manifest, exec, event, aws>>
     ELSE RaiseFrom(d, w)

-----------------------------------------------------------------------------
(* status_update_step, at the end of the chain and as the failure handler. *)

WriteSucceeded(d, w) ==
  /\ Now(d, w, "succeed", "none")
  /\ status' = [status EXCEPT ![d] = "succeeded"]
  /\ GoOn(d, w)
  /\ UNCHANGED <<handler, manifest, exec, event, aws>>

WriteFailed(d, w) ==
  /\ Now(d, w, "fail", "none")
  /\ status' = [status EXCEPT ![d] = "failed"]
  /\ GoOn(d, w)
  /\ UNCHANGED <<handler, manifest, exec, event, aws>>

\* The outer except of the handler: it tries to write FAILED, which may fail
\* too, and returns normally.
LastResort(d, w) ==
  /\ Fault("store") /\ inv[d][w] # Nobody
  /\ inv[d][w].step \in {"status_update", "failure"}
  /\ \E op \in {"begin", "succeed", "fail"} : Now(d, w, op, "none")
  /\ status' \in {status, [status EXCEPT ![d] = "failed"]}
  /\ GoTo(d, w, Len(Program[d][inv[d][w].step]))
  /\ UNCHANGED <<handler, manifest, exec, event, aws>>

Snapshot(d, w) ==
  /\ Now(d, w, "snapshot", "none")
  /\ \/ inv' = [inv EXCEPT ![d][w].pc = @ + 1, ![d][w].todo = manifest[d]]
     \/ Fault("store") /\ GoTo(d, w, Len(Program[d][inv[d][w].step]))
  /\ UNCHANGED <<handler, status, manifest, exec, event, aws>>

\* Mutants of Cleanup: it deletes whatever has the kind of the row; it stops
\* at the first row of the last priority.
CleanupKind(row) == {r \in aws : r.kind = row.kind}
CleanupNotRoles(row) == IF Priority(row.kind) = 9 THEN {} ELSE Hit(row)

\* What deleting a row deletes.
Cleanup(row) == IF HasArm(row.kind) THEN Hit(row) ELSE {}

Sweep(d, w) ==
  /\ Now(d, w, "sweep", "none")
  /\ \E row \in inv[d][w].todo :
       /\ \A other \in inv[d][w].todo : Priority(row.kind) <= Priority(other.kind)
       /\ \/ aws' = aws \ Cleanup(row)
          \/ Fault("delete") /\ UNCHANGED aws
       /\ inv' = [inv EXCEPT ![d][w].todo = @ \ {row}]
  /\ UNCHANGED <<handler, status, manifest, exec, event>>

Swept(d, w) ==
  /\ Now(d, w, "sweep", "none") /\ inv[d][w].todo = {}
  /\ GoOn(d, w)
  /\ UNCHANGED <<handler, status, manifest, exec, event, aws>>

-----------------------------------------------------------------------------
Init ==
  /\ handler = [d \in Deployment |-> "idle"]
  /\ status = [d \in Deployment |-> "none"]
  /\ manifest = [d \in Deployment |-> {}]
  /\ exec = [d \in Deployment |-> [state |-> "none", pos |-> 1, try |-> 1]]
  /\ event = [d \in Deployment |-> {}]
  /\ inv = [d \in Deployment |-> [w \in Who |-> Nobody]]
  /\ aws = {}

HandlerStep(d) ==
  \/ CreateRecord(d) \/ RejectLate(d) \/ StartExecution(d) \/ WritePending(d)
  \/ StartFails(d)

Instruction(d, w) ==
  \/ Begin(d, w) \/ Proceed(d, w) \/ Ensure(d, w) \/ Create(d, w)
  \/ Lookup(d, w) \/ Record(d, w) \/ Drop(d, w) \/ Return(d, w)
  \/ WriteSucceeded(d, w) \/ WriteFailed(d, w) \/ Snapshot(d, w)
  \/ Sweep(d, w) \/ Swept(d, w)

Failure(d, w) == StepFails(d, w) \/ BeginFails(d, w) \/ LastResort(d, w)

MachineStep(d) == Skip(d) \/ Invoke(d)
Outage(d) == TimerFires(d) \/ Crash(d) \/ MachineTimeout(d) \/ StrayDies(d)

Next ==
  \E d \in Deployment :
    \/ HandlerStep(d) \/ MachineStep(d) \/ Outage(d)
    \/ \E w \in Who : Instruction(d, w) \/ Failure(d, w)

Spec == Init /\ [][Next]_vars

\* Step Functions goes on with an execution it has started, and an invocation
\* it waits for runs until it returns or is killed.
FairSpec ==
  /\ Spec
  /\ \A d \in Deployment : /\ WF_vars(MachineStep(d))
                           /\ WF_vars(Instruction(d, "run"))

-----------------------------------------------------------------------------
(* Properties.                                                             *)

TypeOK ==
  /\ handler \in [Deployment -> {"idle", "created", "rejected", "started", "replied"}]
  /\ status \in [Deployment -> Status]
  /\ manifest \in [Deployment -> SUBSET Resource]
  /\ exec \in [Deployment -> [state : ExecState, pos : 1 .. TailPos,
                              try : 1 .. MaxAttempts]]
  /\ event \in [Deployment -> SUBSET Resource]
  /\ inv \in [Deployment -> [Who -> Invocation \cup {Nobody}]]
  /\ aws \in SUBSET Resource

GivenUp == {"failing", "failed", "timed_out"}

\* The rows and handles that a deployment or one of its invocations refers to.
Rows(d) ==
  manifest[d] \cup event[d]
  \cup UNION {inv[d][w].got \cup inv[d][w].todo : w \in {v \in Who : inv[d][v] # Nobody}}

\* A deployment never takes hold of what carries the name of another one:
\* neither by a lookup nor through the event, the manifest or its snapshot.
RowsAreOwn == \A d \in Deployment : \A r \in Rows(d) : r.label = Label(d, r.kind)

\* The machine waits for the invocation of the step it is in, and nothing else;
\* a failure handler runs, waited for or not, only once the deployment is given
\* up; nothing runs before the execution is started.
PipelineInv ==
  /\ TypeOK
  /\ RowsAreOwn
  /\ \A d \in Deployment :
       /\ inv[d]["run"] # Nobody =>
            exec[d].state \in {"running", "failing"} /\ inv[d]["run"].step = Current(d)
       /\ \A w \in Who : inv[d][w] # Nobody /\ inv[d][w].step = "failure" =>
            exec[d].state \in GivenUp
       /\ exec[d].state = "none" => \A w \in Who : inv[d][w] = Nobody
       /\ handler[d] \in {"idle", "created"} => exec[d].state = "none"

Private(r) == r.label = r.maker

\* The kinds that the planned steps of each deployment provide under names of
\* its own.
Goals == [d \in Deployment |->
  {k \in Kind \ SharedKind : \E s \in Step :
     /\ Planned(d, s)
     /\ \E i \in DOMAIN Program[d][s] :
          Program[d][s][i] \in {I("ensure", k), I("create", k), I("fresh", k)}}]

\* The kinds that exist under d's own names.
HeldBy(d) == {r.kind : r \in {x \in aws : x.label = d}}

\* A record that says succeeded is of a deployment that is whole: everything
\* its plan provides under a name of its own exists, whatever was killed,
\* retried, adopted or lost on the way, and whatever other deployments delete.
SucceededIsWhole ==
  \A d \in Deployment : status[d] = "succeeded" => Goals[d] \subseteq HeldBy(d)

\* Until a deployment is given up, nothing deletes what it made under a name
\* of its own, no cleanup of another deployment either.  (Its own gateway step
\* may, when it aborts.)
PrivateSurvives ==
  [][\A r \in aws \ aws' :
       Private(r) /\ r.kind \notin {"gateway", "gateway_role"} =>
         exec[r.maker].state \in GivenUp]_vars

\* The failure handler of d is about to return, its cleanup behind it.
CleanedUp(d) ==
  inv[d]["run"] # Nobody /\ inv[d]["run"].step = "failure" /\ Now(d, "run", "return", "none")

\* When no delete fails, the cleanup of a failed deployment leaves nothing of
\* what the manifest lists, however often the cleanup was killed and run again.
SweptClean ==
  \A d \in Deployment : CleanedUp(d) =>
    \A row \in manifest[d] : Private(row) /\ HasArm(row.kind) => Hit(row) = {}

\* Kinds with a call that may raise between their creation and their record,
\* those that are never recorded, and the one the cleanup has no arm for.
Unguarded == {"mcp_role", "kb_role", "memory_role", "exec_role", "harness_role",
              "harness_provider", "eval_role", "eval_config", "collection"}

\* A step that raises leaves nothing of its deployment behind but resources of
\* these kinds: guardrails, gateways, knowledge bases, vector buckets, pools,
\* memories, policy engines, runtimes and harnesses are gone when it has failed.
OnlyUnguardedOrphans ==
  \A d \in Deployment : exec[d].state = "failed" =>
    \A r \in aws : r.maker = d /\ Private(r) => r.kind \in Unguarded

\* The vector bucket and the role outlive the knowledge base they serve, as
\* long as no delete fails.
BackingOutlives ==
  [][\A r \in aws \ aws' : r.kind \in {"vector_bucket", "kb_role"} =>
       Existing("knowledge_base", r.label) = {}]_vars

\* An execution that runs comes to an end, and the record says which.
Settles ==
  \A d \in Deployment :
    exec[d].state = "running"
      ~> exec[d].state \in Ended /\ status[d] \in {"succeeded", "failed"}

\* The pipeline keeps the promise of the record, when the status writes and the
\* status steps do not fail: the record never says more than is there.
Promise == INSTANCE DeploymentPromise WITH
  Goal <- Goals,
  Volatile <- {"gateway", "gateway_role"},
  phase <- status,
  held <- [d \in Deployment |-> HeldBy(d)]

KeepsPromise == Promise!Spec

(* What a comment of the code says and the code does not keep.             *)

Over(d) == exec[d].state \in Ended /\ inv[d] = [w \in Who |-> Nobody]

\* A failed deployment does not leave the resources of its manifest behind.
FailedIsSwept ==
  \A d \in Deployment : Over(d) /\ status[d] = "failed" =>
    \A row \in manifest[d] : Private(row) => Hit(row) = {}

=============================================================================
