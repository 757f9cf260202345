---------------------------- MODULE RuntimeSlots ----------------------------
(***************************************************************************)
(* The agent-version table and the runtime-slots table, and everything     *)
(* that reads and writes them: the deploy handler's name check and pending *)
(* row, the tail of the deployment (status_update_step), the promote and   *)
(* rollback endpoints, and the name release at the end of a teardown.      *)
(*                                                                         *)
(* No write of these tables is conditional.  A step that reads a row and   *)
(* writes it back is therefore two actions here, with the row it read kept *)
(* in between.                                                             *)
(***************************************************************************)
EXTENDS Naturals, FiniteSets

CONSTANTS
  Tenant,       \* Cognito subs
  Version,      \* version ids, one per deploy request
  Request,      \* promote and rollback requests, each made at most once
  Name,         \* friendly runtime names
  NameOf,       \* the friendly name a deploy asks for
  NodeOf,       \* the canvas node id of a deploy (workflow_id on its record)
  MaxAttempts,  \* runs of the tail Lambda before the state machine gives up
  Faults,       \* which failures may happen, a subset of FaultKinds
  None, NoOwner, NoRow

FaultKinds == {"read", "put", "mark", "slot", "late", "start", "timeout",
               "kill", "exhaust", "release"}

ASSUME SlotsAssumption ==
  /\ NameOf \in [Version -> Name]
  /\ DOMAIN NodeOf = Version
  /\ MaxAttempts \in Nat \ {0}
  /\ Faults \subseteq FaultKinds
  /\ None \notin Version
  /\ NoOwner \notin Tenant

Slot == {"production", "staging"}
Status == {"pending", "succeeded", "failed"}

VersionRow == [owner : Tenant \cup {NoOwner}, status : Status,
               parent : Version \cup {None}]
SlotRow == [owner : Tenant, production : Version \cup {None},
            staging : Version \cup {None}, previous : Version \cup {None}]

ASSUME NoRowAssumption == NoRow \notin VersionRow /\ NoRow \notin SlotRow

VARIABLES
  versions,   \* AgentVersionsTable, keyed by the version id
  slots,      \* RuntimeSlotsTable, keyed by the friendly name
  phase,      \* where each deploy is
  caller,     \* the tenant that submitted it
  target,     \* the slot it asks for
  parent,     \* the parent version its handler read
  attempt,    \* runs of its tail Lambda so far
  seen,       \* the slots row its tail has read
  release,    \* where the name release of its teardown is
  req         \* the promote and rollback requests

deployVars == <<phase, caller, target, parent, attempt, seen>>
vars == <<versions, slots, deployVars, release, req>>

Phase == {"idle", "refused", "listing", "putting", "starting", "rejected",
          "unstarted", "running", "abandoned", "marking", "reading",
          "writing", "registering", "done", "failing", "failed"}

Fault(kind) == kind \in Faults

-----------------------------------------------------------------------------
(* Rows.                                                                   *)

\* Mutant of OwnedByOther: the owner comparison is dropped.
OwnedByOtherUnchecked(row, t) == FALSE

OwnedByOther(row, t) == row # NoRow /\ row.owner \notin {t, NoOwner}

LiveClaim == {"pending", "succeeded"}

ForeignClaim(v, t) ==
  \E w \in Version : /\ NameOf[w] = NameOf[v]
                     /\ OwnedByOther(versions[w], t)
                     /\ versions[w].status \in LiveClaim

\* A row with owner t and nothing in its slots.
EmptySlots(t) == [owner |-> t, production |-> None, staging |-> None,
                  previous |-> None]

\* What a deploy or a promotion of v makes of the row it read.
PointAt(row, t, slot, v) ==
  LET base == IF row = NoRow THEN EmptySlots(t) ELSE row
  IN  IF slot = "production"
      THEN [base EXCEPT !.previous = base.production, !.production = v]
      ELSE [base EXCEPT !.staging = v]

\* Mutant of StatusWritten: an update that is lost when the row is absent.
StatusOfPresent(v, status) ==
  IF versions[v] = NoRow THEN NoRow ELSE [versions[v] EXCEPT !.status = status]

\* update_item creates the row when the key is absent: no owner, no parent.
StatusWritten(v, status) ==
  IF versions[v] = NoRow
  THEN [owner |-> NoOwner, status |-> status, parent |-> None]
  ELSE [versions[v] EXCEPT !.status = status]

-----------------------------------------------------------------------------
(* A deploy: the handler.                                                  *)

Move(v, from, to) == phase[v] = from /\ phase' = [phase EXCEPT ![v] = to]

\* The handler reads the slots row of the name; a read that fails is taken
\* for a first deploy.
CheckSlots(v) ==
  \E t \in Tenant, s \in Slot, row \in {slots[NameOf[v]]} \cup
                                       (IF Fault("read") THEN {NoRow} ELSE {}) :
    /\ caller' = [caller EXCEPT ![v] = t]
    /\ target' = [target EXCEPT ![v] = s]
    /\ IF OwnedByOther(row, t)
       THEN Move(v, "idle", "refused") /\ UNCHANGED parent
       ELSE /\ Move(v, "idle", "listing")
            /\ parent' = [parent EXCEPT ![v] =
                            IF row = NoRow THEN None ELSE row.production]
    /\ UNCHANGED <<versions, slots, attempt, seen, release, req>>

ListVersions(v) ==
  /\ \/ ForeignClaim(v, caller[v]) /\ Move(v, "listing", "refused")
     \/ ~ForeignClaim(v, caller[v]) /\ Move(v, "listing", "putting")
     \/ Fault("read") /\ Move(v, "listing", "putting")
  /\ UNCHANGED <<versions, slots, caller, target, parent, attempt, seen,
                 release, req>>

PutPending(v) ==
  /\ Move(v, "putting", "starting")
  /\ \/ versions' = [versions EXCEPT ![v] =
            [owner |-> caller[v], status |-> "pending", parent |-> parent[v]]]
     \/ Fault("put") /\ UNCHANGED versions
  /\ UNCHANGED <<slots, caller, target, parent, attempt, seen, release, req>>

\* A missing required tag or a bad deploy target: HTTP 400 after the put.
RejectLate(v) ==
  /\ Fault("late") /\ Move(v, "starting", "rejected")
  /\ UNCHANGED <<versions, slots, caller, target, parent, attempt, seen,
                 release, req>>

StartExecution(v) ==
  /\ \/ Move(v, "starting", "running")
     \/ Fault("start") /\ Move(v, "starting", "unstarted")
  /\ UNCHANGED <<versions, slots, caller, target, parent, attempt, seen,
                 release, req>>

-----------------------------------------------------------------------------
(* A deploy: the state machine's last states.                              *)

RunSteps(v) ==
  /\ \/ Move(v, "running", "marking") /\ attempt' = [attempt EXCEPT ![v] = 1]
     \/ Move(v, "running", "failing") /\ UNCHANGED attempt
     \/ Fault("timeout") /\ Move(v, "running", "abandoned") /\ UNCHANGED attempt
  /\ UNCHANGED <<versions, slots, caller, target, parent, seen, release, req>>

MarkSucceeded(v) ==
  /\ Move(v, "marking", "reading")
  /\ \/ versions' = [versions EXCEPT ![v] = StatusWritten(v, "succeeded")]
     \/ Fault("mark") /\ UNCHANGED versions
  /\ UNCHANGED <<slots, caller, target, parent, attempt, seen, release, req>>

ReadSlots(v) ==
  /\ IF OwnedByOther(slots[NameOf[v]], caller[v])
     THEN Move(v, "reading", "registering") /\ UNCHANGED seen
     ELSE /\ Move(v, "reading", "writing")
          /\ seen' = [seen EXCEPT ![v] = slots[NameOf[v]]]
  /\ UNCHANGED <<versions, slots, caller, target, parent, attempt, release, req>>

WriteSlots(v) ==
  /\ Move(v, "writing", "registering")
  /\ \/ slots' = [slots EXCEPT ![NameOf[v]] =
                    PointAt(seen[v], caller[v], target[v], v)]
     \/ Fault("slot") /\ UNCHANGED slots
  /\ seen' = [seen EXCEPT ![v] = NoRow]
  /\ UNCHANGED <<versions, caller, target, parent, attempt, release, req>>

\* The registration in the AWS registry, the last thing the tail does.
Register(v) ==
  /\ Move(v, "registering", "done")
  /\ UNCHANGED <<versions, slots, caller, target, parent, attempt, seen,
                 release, req>>

TailPhase == {"marking", "reading", "writing", "registering"}

\* The tail Lambda is killed: run again from its start, or caught when its
\* attempts are used up.
TailDies(v) ==
  /\ phase[v] \in TailPhase
  /\ \/ /\ Fault("kill") /\ attempt[v] < MaxAttempts
        /\ phase' = [phase EXCEPT ![v] = "marking"]
        /\ attempt' = [attempt EXCEPT ![v] = @ + 1]
     \/ /\ Fault("exhaust") /\ attempt[v] = MaxAttempts
        /\ phase' = [phase EXCEPT ![v] = "failing"] /\ UNCHANGED attempt
  /\ seen' = [seen EXCEPT ![v] = NoRow]
  /\ UNCHANGED <<versions, slots, caller, target, parent, release, req>>

\* Mutant of MarkFailed: the failure handler forgets the version row.
MarkFailedSilently(v) ==
  /\ Move(v, "failing", "failed")
  /\ UNCHANGED <<versions, slots, caller, target, parent, attempt, seen,
                 release, req>>

MarkFailed(v) ==
  /\ Move(v, "failing", "failed")
  /\ \/ versions' = [versions EXCEPT ![v] = StatusWritten(v, "failed")]
     \/ Fault("mark") /\ UNCHANGED versions
  /\ UNCHANGED <<slots, caller, target, parent, attempt, seen, release, req>>

-----------------------------------------------------------------------------
(* The name release at the end of a teardown.  The deployment record has   *)
(* no friendly name, so the rows it looks for are those of the node id.    *)

ReleaseRows(v) ==
  /\ Fault("release") /\ release[v] = "no"
  /\ phase[v] \notin {"idle", "refused", "listing", "putting"}
  /\ release' = [release EXCEPT ![v] = "slot"]
  /\ versions' = [w \in Version |->
        IF NameOf[w] = NodeOf[v] /\ ~OwnedByOther(versions[w], caller[v])
        THEN NoRow ELSE versions[w]]
  /\ UNCHANGED <<slots, deployVars, req>>

ReadReleasedSlot(v) ==
  /\ release[v] = "slot"
  /\ release' = [release EXCEPT ![v] =
        IF /\ NodeOf[v] \in Name /\ slots[NodeOf[v]] # NoRow
           /\ ~OwnedByOther(slots[NodeOf[v]], caller[v])
        THEN "drop" ELSE "done"]
  /\ UNCHANGED <<versions, slots, deployVars, req>>

DropSlot(v) ==
  /\ release[v] = "drop"
  /\ release' = [release EXCEPT ![v] = "done"]
  /\ slots' = [slots EXCEPT ![NodeOf[v]] = NoRow]
  /\ UNCHANGED <<versions, deployVars, req>>

-----------------------------------------------------------------------------
(* Promotion and rollback.                                                 *)

RequestState ==
  [phase : {"promote", "rollback", "write"}, by : Tenant, name : Name,
   slot : Slot, version : Version, seen : SlotRow \cup {NoRow}]

\* A request that is not under way.
Ended(ph) == [phase |-> ph]

\* Mutant of Promotable: any status will do.
PromotableAnyStatus(v, t) == versions[v] # NoRow /\ versions[v].owner = t

\* The row of v is t's and its deploy has succeeded.
Promotable(v, t) ==
  versions[v] # NoRow /\ versions[v].owner = t /\ versions[v].status = "succeeded"

RequestStep(r, next) == req' = [req EXCEPT ![r] = next]

BeginPromote(r) ==
  \E t \in Tenant, v \in Version, s \in Slot :
    /\ req[r].phase = "idle" /\ Promotable(v, t)
    /\ RequestStep(r, [phase |-> "promote", by |-> t, name |-> NameOf[v],
                       slot |-> s, version |-> v, seen |-> NoRow])
    /\ UNCHANGED <<versions, slots, deployVars, release>>

\* Mutant of ReadForPromote: the owner of the slots row is not asserted.
ReadForPromoteUnchecked(r) ==
  /\ req[r].phase = "promote"
  /\ RequestStep(r, [req[r] EXCEPT !.phase = "write", !.seen = slots[req[r].name]])
  /\ UNCHANGED <<versions, slots, deployVars, release>>

ReadForPromote(r) ==
  LET row == slots[req[r].name] IN
  /\ req[r].phase = "promote"
  /\ RequestStep(r, IF row = NoRow \/ row.owner = req[r].by
                    THEN [req[r] EXCEPT !.phase = "write", !.seen = row]
                    ELSE Ended("done"))
  /\ UNCHANGED <<versions, slots, deployVars, release>>

BeginRollback(r) ==
  \E n \in Name :
    LET row == slots[n] IN
    /\ req[r].phase = "idle" /\ row # NoRow /\ row.previous # None
    /\ RequestStep(r, [phase |-> "rollback", by |-> row.owner, name |-> n,
                       slot |-> "production", version |-> row.previous,
                       seen |-> row])
    /\ UNCHANGED <<versions, slots, deployVars, release>>

\* The target must still be a succeeded version of the name.
CheckRollback(r) ==
  LET row == versions[req[r].version] IN
  /\ req[r].phase = "rollback"
  /\ RequestStep(r, IF row # NoRow /\ NameOf[req[r].version] = req[r].name
                                   /\ row.status = "succeeded"
                    THEN [req[r] EXCEPT !.phase = "write"] ELSE Ended("done"))
  /\ UNCHANGED <<versions, slots, deployVars, release>>

\* Both endpoints end with one put of the whole row.
WriteRequest(r) ==
  /\ req[r].phase = "write"
  /\ slots' = [slots EXCEPT ![req[r].name] =
                 PointAt(req[r].seen, req[r].by, req[r].slot, req[r].version)]
  /\ RequestStep(r, Ended("done"))
  /\ UNCHANGED <<versions, deployVars, release>>

-----------------------------------------------------------------------------
Init ==
  /\ versions = [v \in Version |-> NoRow]
  /\ slots = [n \in Name |-> NoRow]
  /\ phase = [v \in Version |-> "idle"]
  /\ caller = [v \in Version |-> NoOwner]
  /\ target = [v \in Version |-> "production"]
  /\ parent = [v \in Version |-> None]
  /\ attempt = [v \in Version |-> 0]
  /\ seen = [v \in Version |-> NoRow]
  /\ release = [v \in Version |-> "no"]
  /\ req = [r \in Request |-> Ended("idle")]

DeployStep(v) ==
  \/ CheckSlots(v) \/ ListVersions(v) \/ PutPending(v) \/ StartExecution(v)
  \/ RunSteps(v) \/ MarkSucceeded(v) \/ ReadSlots(v) \/ WriteSlots(v)
  \/ Register(v) \/ MarkFailed(v)

ReleaseStep(v) == ReleaseRows(v) \/ ReadReleasedSlot(v) \/ DropSlot(v)

RequestNext(r) ==
  \/ BeginPromote(r) \/ ReadForPromote(r)
  \/ BeginRollback(r) \/ CheckRollback(r) \/ WriteRequest(r)

Next ==
  \/ \E v \in Version : DeployStep(v) \/ RejectLate(v) \/ TailDies(v)
                       \/ ReleaseStep(v)
  \/ \E r \in Request : RequestNext(r)

Spec == Init /\ [][Next]_vars

\* A handler that has begun goes on, and Step Functions runs what it started;
\* nobody has to begin a deploy.
FairSpec ==
  Spec /\ \A v \in Version : WF_vars(phase[v] # "idle" /\ DeployStep(v))

-----------------------------------------------------------------------------
(* Properties.                                                             *)

TypeOK ==
  /\ versions \in [Version -> VersionRow \cup {NoRow}]
  /\ slots \in [Name -> SlotRow \cup {NoRow}]
  /\ phase \in [Version -> Phase]
  /\ caller \in [Version -> Tenant \cup {NoOwner}]
  /\ \A v \in Version : phase[v] # "idle" => caller[v] \in Tenant
  /\ target \in [Version -> Slot]
  /\ parent \in [Version -> Version \cup {None}]
  /\ attempt \in [Version -> 0 .. MaxAttempts]
  /\ seen \in [Version -> SlotRow \cup {NoRow}]
  /\ release \in [Version -> {"no", "slot", "drop", "done"}]
  /\ req \in [Request -> RequestState \cup {Ended("idle"), Ended("done")}]

Pointers(row) ==
  IF row = NoRow THEN {} ELSE {row.production, row.staging, row.previous} \ {None}

\* A row of name n that points only at versions its owner deployed under n.
OwnPointers(row, n) ==
  \A v \in Pointers(row) : NameOf[v] = n /\ caller[v] = row.owner

\* Whatever the handlers, tails, promotions, rollbacks and releases of two
\* tenants do to one name at once, a slots row never mixes them: each of its
\* pointers is a version its owner deployed under that name (Bug 122).
SlotPointersOwned == \A n \in Name : OwnPointers(slots[n], n)

\* The lineage a version records stays in its tenant: its parent is another
\* deploy of the same caller and name.
LineageWithinTenant ==
  \A v \in Version : parent[v] # None =>
    caller[parent[v]] = caller[v] /\ NameOf[parent[v]] = NameOf[v]

\* No slot ever points at a version whose runtime did not come up, whatever
\* the version table says of it.
SlotsPointAtStartedRuntimes ==
  \A n \in Name : \A v \in Pointers(slots[n]) : attempt[v] > 0

\* Every version a slot points at can be invoked, promoted and rolled back to:
\* its row exists and is marked succeeded.  (Best-effort writes that get lost,
\* a tail that runs out of attempts and a release break this.)
SlotsServable ==
  \A n \in Name : \A v \in Pointers(slots[n]) :
    versions[v] # NoRow /\ versions[v].status = "succeeded"

\* A pending row is a deploy in flight: it is succeeded or failed in the end,
\* so that the claim it lays on its name is settled.
PendingResolves ==
  \A v \in Version :
    (versions[v] # NoRow /\ versions[v].status = "pending")
      ~> (versions[v] = NoRow \/ versions[v].status # "pending")

\* v came up as a deploy of t under n.
CameUp(v, n, t) == NameOf[v] = n /\ caller[v] = t /\ attempt[v] > 0

\* A row, stored or read, that is t's and points only at what t brought up.
RowOf(row, n, t) ==
  row # NoRow => row.owner = t /\ \A v \in Pointers(row) : CameUp(v, n, t)

\* A deploy that has not begun has left nothing.
BegunInv ==
  \A v \in Version : phase[v] = "idle" =>
    attempt[v] = 0 /\ versions[v] = NoRow /\ seen[v] = NoRow /\ parent[v] = None

VersionsInv ==
  \A v \in Version :
    /\ phase[v] \in TailPhase => attempt[v] > 0
    /\ versions[v] # NoRow =>
         /\ versions[v].owner \in {caller[v], NoOwner}
         /\ versions[v].status = "succeeded" => attempt[v] > 0

StoredInv ==
  \A n \in Name : slots[n] # NoRow => RowOf(slots[n], n, slots[n].owner)

\* What the deploys have read.
SeenInv ==
  \A v \in Version :
    /\ RowOf(seen[v], NameOf[v], caller[v])
    /\ parent[v] # None => CameUp(parent[v], NameOf[v], caller[v])

\* What the requests have read.
RequestInv ==
  \A r \in Request : req[r] \in RequestState =>
    /\ CameUp(req[r].version, req[r].name, req[r].by)
    /\ RowOf(req[r].seen, req[r].name, req[r].by)

\* Why no interleaving mixes tenants: what a handler has read is as much its
\* own tenant's as what is stored, and a version that is pointed at has begun,
\* so that its caller is settled.  This is inductive; the rest follows from it.
SlotsInv == BegunInv /\ VersionsInv /\ StoredInv /\ SeenInv /\ RequestInv

(* What a comment of the code says and the code does not keep.             *)

\* status_update_step refuses to overwrite a slot row of a different sub.
SlotOwnerKept ==
  [][\A n \in Name : slots[n] # NoRow /\ slots'[n] # NoRow
                       => slots'[n].owner = slots[n].owner]_vars

=============================================================================
