------------------------- MODULE RuntimeSlotsProofs -------------------------
(* Proofs about RuntimeSlots for every number of tenants, deploys, names,  *)
(* requests and attempts, and every set of faults.                         *)
EXTENDS RuntimeSlots, TLAPS

\* The slots row a deploy or a promotion writes: what it keeps is in the row it
\* read, and the version it adds is the one it was asked to point at.
LEMMA PointAtRow ==
  ASSUME NEW row \in SlotRow \cup {NoRow}, NEW t \in Tenant, NEW s \in Slot,
         NEW v \in Version
  PROVE  /\ PointAt(row, t, s, v) \in SlotRow
         /\ PointAt(row, t, s, v).owner = IF row = NoRow THEN t ELSE row.owner
         /\ Pointers(PointAt(row, t, s, v)) \subseteq Pointers(row) \cup {v}
<1> DEFINE base == IF row = NoRow THEN EmptySlots(t) ELSE row
           out == PointAt(row, t, s, v)
<1>1. /\ base \in SlotRow
      /\ base.owner = IF row = NoRow THEN t ELSE row.owner
      /\ {base.production, base.staging, base.previous} \ {None} = Pointers(row)
  BY DEF SlotRow, EmptySlots, Pointers
<1>2. CASE s = "production"
  <2>1. out = [base EXCEPT !.previous = base.production, !.production = v]
    BY <1>2 DEF PointAt
  <2>2. /\ out \in SlotRow /\ out.owner = base.owner
        /\ {out.production, out.staging, out.previous}
             \subseteq {v, base.production, base.staging}
    BY <2>1, <1>1 DEF SlotRow
  <2>3. out # NoRow
    BY <2>2, NoRowAssumption
  <2> QED BY <1>1, <2>2, <2>3 DEF Pointers
<1>3. CASE s = "staging"
  <2>1. out = [base EXCEPT !.staging = v]
    BY <1>3 DEF PointAt
  <2>2. /\ out \in SlotRow /\ out.owner = base.owner
        /\ {out.production, out.staging, out.previous}
             \subseteq {v, base.production, base.previous}
    BY <2>1, <1>1 DEF SlotRow
  <2>3. out # NoRow
    BY <2>2, NoRowAssumption
  <2> QED BY <1>1, <2>2, <2>3 DEF Pointers
<1> QED BY <1>2, <1>3 DEF Slot

\* Writing a status keeps the row's owner, or leaves it without one.
LEMMA StatusWrittenRow ==
  ASSUME NEW v \in Version, versions[v] \in VersionRow \cup {NoRow},
         NEW st \in Status
  PROVE  /\ StatusWritten(v, st) \in VersionRow
         /\ StatusWritten(v, st).status = st
         /\ StatusWritten(v, st).owner =
              IF versions[v] = NoRow THEN NoOwner ELSE versions[v].owner
  BY DEF StatusWritten, VersionRow

LEMMA TypeInit == Init => TypeOK
<1> SUFFICES ASSUME Init PROVE TypeOK
  OBVIOUS
<1> USE SlotsAssumption
<1> QED BY DEF Init, TypeOK, Phase, Slot, Ended

\* The deploy's own steps.
LEMMA TypeDeploy ==
  ASSUME TypeOK, NEW v \in Version,
         DeployStep(v) \/ RejectLate(v) \/ TailDies(v)
  PROVE  TypeOK'
<1> USE SlotsAssumption DEF TypeOK, Move
<1>1. CASE CheckSlots(v)
  <2>1. \A row \in SlotRow \cup {NoRow} :
           (IF row = NoRow THEN None ELSE row.production) \in Version \cup {None}
    BY DEF SlotRow
  <2> QED BY <1>1, <2>1 DEF CheckSlots, Phase
<1>2. CASE ListVersions(v)
  BY <1>2 DEF ListVersions, Phase
<1>3. CASE PutPending(v)
  BY <1>3 DEF PutPending, Phase, VersionRow, Status
<1>4. CASE StartExecution(v) \/ RejectLate(v)
  BY <1>4 DEF StartExecution, RejectLate, Phase
<1>5. CASE RunSteps(v)
  BY <1>5 DEF RunSteps, Phase
<1>6. CASE MarkSucceeded(v) \/ MarkFailed(v)
  <2>1. \A st \in Status : StatusWritten(v, st) \in VersionRow
    BY StatusWrittenRow
  <2> QED BY <1>6, <2>1 DEF MarkSucceeded, MarkFailed, Phase, Status
<1>7. CASE ReadSlots(v)
  BY <1>7 DEF ReadSlots, Phase
<1>8. CASE WriteSlots(v)
  <2>1. PointAt(seen[v], caller[v], target[v], v) \in SlotRow
    BY <1>8, PointAtRow DEF WriteSlots
  <2>2. NameOf[v] \in Name
    OBVIOUS
  <2> QED BY <1>8, <2>1, <2>2 DEF WriteSlots, Phase
<1>9. CASE Register(v)
  BY <1>9 DEF Register, Phase
<1>10. CASE TailDies(v)
  BY <1>10 DEF TailDies, Phase, TailPhase
<1> QED BY <1>1, <1>2, <1>3, <1>4, <1>5, <1>6, <1>7, <1>8, <1>9, <1>10
        DEF DeployStep

LEMMA TypeRelease ==
  ASSUME TypeOK, NEW v \in Version, ReleaseStep(v) PROVE TypeOK'
  BY DEF TypeOK, ReleaseStep, ReleaseRows, ReadReleasedSlot, DropSlot, deployVars

LEMMA TypeRequest ==
  ASSUME TypeOK, NEW r \in Request, RequestNext(r) PROVE TypeOK'
<1> USE SlotsAssumption DEF TypeOK, deployVars, RequestStep
<1>1. CASE BeginPromote(r)
  BY <1>1 DEF BeginPromote, RequestState
<1>2. CASE ReadForPromote(r)
  <2>1. req[r] \in RequestState /\ slots[req[r].name] \in SlotRow \cup {NoRow}
    BY <1>2 DEF ReadForPromote, RequestState, Ended
  <2>2. [req[r] EXCEPT !.phase = "write", !.seen = slots[req[r].name]] \in RequestState
    BY <2>1 DEF RequestState
  <2> QED BY <1>2, <2>2 DEF ReadForPromote
<1>3. CASE BeginRollback(r)
  BY <1>3 DEF BeginRollback, RequestState, SlotRow, Slot
<1>4. CASE CheckRollback(r)
  BY <1>4 DEF CheckRollback, RequestState, Ended
<1>5. CASE WriteRequest(r)
  <2>1. req[r] \in RequestState
    BY <1>5 DEF WriteRequest, Ended
  <2>2. PointAt(req[r].seen, req[r].by, req[r].slot, req[r].version) \in SlotRow
    BY <2>1, PointAtRow DEF RequestState
  <2> QED BY <1>5, <2>1, <2>2 DEF WriteRequest
<1> QED BY <1>1, <1>2, <1>3, <1>4, <1>5 DEF RequestNext

LEMMA TypeStep == TypeOK /\ [Next]_vars => TypeOK'
<1> SUFFICES ASSUME TypeOK, [Next]_vars PROVE TypeOK'
  OBVIOUS
<1>1. CASE UNCHANGED vars
  BY <1>1 DEF TypeOK, vars, deployVars
<1>2. CASE Next
  BY <1>2, TypeDeploy, TypeRelease, TypeRequest DEF Next
<1> QED BY <1>1, <1>2

\* The tables and the handlers' local state keep their shape.
THEOREM TypeCorrect == Spec => []TypeOK
  BY TypeInit, TypeStep, PTL DEF Spec

-----------------------------------------------------------------------------
\* What has come up stays up, and keeps its caller.
LEMMA Settled ==
  ASSUME TypeOK, BegunInv, [Next]_vars, NEW v \in Version, attempt[v] > 0
  PROVE  attempt'[v] > 0 /\ caller'[v] = caller[v]
<1> USE DEF TypeOK, Move
<1>1. CASE UNCHANGED vars
  BY <1>1 DEF vars, deployVars
<1>2. ASSUME NEW w \in Version,
             DeployStep(w) \/ RejectLate(w) \/ TailDies(w) \/ ReleaseStep(w)
      PROVE  attempt'[v] > 0 /\ caller'[v] = caller[v]
  <2>1. CASE CheckSlots(w)
    BY <2>1 DEF CheckSlots, BegunInv
  <2>2. CASE ~CheckSlots(w)
    BY <1>2, <2>2 DEF DeployStep, ListVersions, PutPending, RejectLate,
         StartExecution, RunSteps, MarkSucceeded, ReadSlots, WriteSlots,
         Register, TailDies, MarkFailed, ReleaseStep, ReleaseRows,
         ReadReleasedSlot, DropSlot, deployVars
  <2> QED BY <2>1, <2>2
<1>3. ASSUME NEW r \in Request, RequestNext(r)
      PROVE  attempt'[v] > 0 /\ caller'[v] = caller[v]
  BY <1>3 DEF RequestNext, BeginPromote, ReadForPromote, BeginRollback,
       CheckRollback, WriteRequest, deployVars
<1> QED BY <1>1, <1>2, <1>3 DEF Next

\* A row that was a tenant's stays its own, wherever it is kept.
LEMMA RowKept ==
  ASSUME TypeOK, BegunInv, [Next]_vars,
         NEW row \in SlotRow \cup {NoRow}, NEW n, NEW t, RowOf(row, n, t)
  PROVE  RowOf(row, n, t)'
<1>1. Pointers(row) \subseteq Version
  BY DEF Pointers, SlotRow
<1> QED BY <1>1, Settled DEF RowOf, CameUp

\* The row that is put is its tenant's when the row that was read was, and the
\* version that is added is.
LEMMA RowPut ==
  ASSUME NEW row \in SlotRow \cup {NoRow}, NEW t \in Tenant, NEW s \in Slot,
         NEW v \in Version, NEW n, RowOf(row, n, t), CameUp(v, n, t)
  PROVE  RowOf(PointAt(row, t, s, v), n, t)
<1> DEFINE out == PointAt(row, t, s, v)
<1>1. out.owner = t /\ Pointers(out) \subseteq Pointers(row) \cup {v}
  BY PointAtRow DEF RowOf
<1>2. \A p \in Pointers(row) : CameUp(p, n, t)
  BY DEF RowOf, Pointers
<1> QED BY <1>1, <1>2 DEF RowOf

LEMMA InvInit == Init => SlotsInv
<1> SUFFICES ASSUME Init PROVE SlotsInv
  OBVIOUS
<1>1. BegunInv /\ VersionsInv
  BY DEF Init, BegunInv, VersionsInv, TailPhase
<1>2. StoredInv /\ SeenInv
  BY DEF Init, StoredInv, SeenInv, RowOf
<1>3. RequestInv
  BY DEF Init, RequestInv, RequestState, Ended
<1> QED BY <1>1, <1>2, <1>3 DEF SlotsInv

\* Each conjunct of the invariant is kept; the first two by every deploy step.
LEMMA VersionsDeploy ==
  ASSUME TypeOK, TypeOK', SlotsInv, [Next]_vars, NEW v \in Version,
         DeployStep(v) \/ RejectLate(v) \/ TailDies(v)
  PROVE  BegunInv' /\ VersionsInv'
<1> USE SlotsAssumption DEF TypeOK, Move, SlotsInv, BegunInv, VersionsInv, TailPhase
<1>1. CASE CheckSlots(v)
  BY <1>1 DEF CheckSlots
<1>2. CASE ListVersions(v)
  BY <1>2 DEF ListVersions
<1>3. CASE PutPending(v)
  BY <1>3 DEF PutPending
<1>4. CASE StartExecution(v) \/ RejectLate(v)
  BY <1>4 DEF StartExecution, RejectLate
<1>5. CASE RunSteps(v)
  BY <1>5 DEF RunSteps
<1>6. CASE MarkSucceeded(v) \/ MarkFailed(v)
  BY <1>6, StatusWrittenRow DEF MarkSucceeded, MarkFailed, Status
<1>7. CASE ReadSlots(v)
  BY <1>7 DEF ReadSlots
<1>8. CASE WriteSlots(v)
  BY <1>8 DEF WriteSlots
<1>9. CASE Register(v)
  BY <1>9 DEF Register
<1>10. CASE TailDies(v)
  BY <1>10 DEF TailDies
<1> QED BY <1>1, <1>2, <1>3, <1>4, <1>5, <1>6, <1>7, <1>8, <1>9, <1>10
        DEF DeployStep

LEMMA VersionsStep ==
  ASSUME TypeOK, TypeOK', SlotsInv, [Next]_vars
  PROVE  BegunInv' /\ VersionsInv'
<1>1. CASE UNCHANGED vars
  BY <1>1 DEF SlotsInv, BegunInv, VersionsInv, vars, deployVars
<1>2. ASSUME NEW v \in Version, ReleaseStep(v) PROVE BegunInv' /\ VersionsInv'
  BY <1>2 DEF SlotsInv, BegunInv, VersionsInv, ReleaseStep, ReleaseRows,
       ReadReleasedSlot, DropSlot, deployVars
<1>3. ASSUME NEW r \in Request, RequestNext(r) PROVE BegunInv' /\ VersionsInv'
  BY <1>3 DEF SlotsInv, BegunInv, VersionsInv, RequestNext, BeginPromote,
       ReadForPromote, BeginRollback, CheckRollback, WriteRequest, deployVars
<1> QED BY <1>1, <1>2, <1>3, VersionsDeploy DEF Next

\* Who may change a stored row, and into what.
LEMMA StoredStep ==
  ASSUME TypeOK, TypeOK', SlotsInv, [Next]_vars
  PROVE  StoredInv'
<1> SUFFICES ASSUME NEW n \in Name, slots'[n] # NoRow
             PROVE  RowOf(slots[n], n, slots[n].owner)'
  BY DEF StoredInv
<1>1. CASE slots'[n] = slots[n]
  <2>1. slots[n] \in SlotRow /\ RowOf(slots[n], n, slots[n].owner)
    BY <1>1 DEF TypeOK, SlotsInv, StoredInv
  <2> QED BY <1>1, <2>1, RowKept DEF SlotsInv, RowOf, CameUp
<1>2. ASSUME NEW v \in Version, WriteSlots(v), n = NameOf[v], slots'[n] # slots[n]
      PROVE  RowOf(slots[n], n, slots[n].owner)'
  <2> DEFINE row == PointAt(seen[v], caller[v], target[v], v)
  <2>1. phase[v] = "writing" /\ slots'[n] = row
    BY <1>2 DEF WriteSlots, TypeOK, Move
  <2>2. caller[v] \in Tenant /\ CameUp(v, n, caller[v]) /\ RowOf(seen[v], n, caller[v])
    BY <1>2, <2>1 DEF TypeOK, SlotsInv, VersionsInv, SeenInv, TailPhase, CameUp
  <2>3. RowOf(row, n, caller[v]) /\ row \in SlotRow
    BY <2>2, RowPut, PointAtRow DEF TypeOK
  <2> QED BY <2>1, <2>2, <2>3, RowKept DEF SlotsInv, RowOf, CameUp
<1>3. ASSUME NEW r \in Request, WriteRequest(r), n = req[r].name, slots'[n] # slots[n]
      PROVE  RowOf(slots[n], n, slots[n].owner)'
  <2> DEFINE row == PointAt(req[r].seen, req[r].by, req[r].slot, req[r].version)
  <2>1. req[r] \in RequestState
    BY <1>3 DEF WriteRequest, TypeOK, Ended
  <2>2. slots'[n] = row
    BY <1>3, <2>1 DEF WriteRequest, TypeOK
  <2>3. RowOf(row, n, req[r].by) /\ row \in SlotRow
    BY <1>3, <2>1, RowPut, PointAtRow DEF SlotsInv, RequestInv, RequestState
  <2> QED BY <2>2, <2>3, RowKept DEF SlotsInv, RowOf, CameUp
<1>4. \/ slots'[n] = slots[n]
      \/ slots'[n] = NoRow
      \/ \E v \in Version : WriteSlots(v) /\ n = NameOf[v]
      \/ \E r \in Request : WriteRequest(r) /\ n = req[r].name
  BY DEF Next, vars, deployVars, TypeOK, DeployStep, CheckSlots, ListVersions,
     PutPending, RejectLate, StartExecution, RunSteps, MarkSucceeded, ReadSlots,
     WriteSlots, Register, TailDies, MarkFailed, ReleaseStep, ReleaseRows,
     ReadReleasedSlot, DropSlot, RequestNext, BeginPromote, ReadForPromote,
     BeginRollback, CheckRollback, WriteRequest
<1> QED BY <1>1, <1>2, <1>3, <1>4

\* What a deploy's handler and tail have read.
LEMMA SeenStep ==
  ASSUME TypeOK, TypeOK', SlotsInv, [Next]_vars
  PROVE  SeenInv'
<1> SUFFICES ASSUME NEW v \in Version
             PROVE  /\ RowOf(seen[v], NameOf[v], caller[v])'
                    /\ parent'[v] # None => CameUp(parent[v], NameOf[v], caller[v])'
  BY DEF SeenInv
<1> USE SlotsAssumption
<1>1. /\ seen[v] \in SlotRow \cup {NoRow} /\ RowOf(seen[v], NameOf[v], caller[v])
      /\ parent[v] # None => CameUp(parent[v], NameOf[v], caller[v])
  BY DEF TypeOK, SlotsInv, SeenInv
<1>2. slots[NameOf[v]] # NoRow =>
        /\ slots[NameOf[v]] \in SlotRow
        /\ RowOf(slots[NameOf[v]], NameOf[v], slots[NameOf[v]].owner)
  BY DEF TypeOK, SlotsInv, StoredInv
<1>3. CASE CheckSlots(v)
  <2>1. seen'[v] = NoRow
    BY <1>3 DEF CheckSlots, TypeOK, Move, SlotsInv, BegunInv
  <2>2. ASSUME parent'[v] # None PROVE CameUp(parent[v], NameOf[v], caller[v])'
    <3> DEFINE row == slots[NameOf[v]]
    <3>1. row \in SlotRow /\ parent'[v] = row.production /\ caller'[v] = row.owner
      BY <1>3, <2>2, <1>2 DEF CheckSlots, OwnedByOther, TypeOK, Move, SlotsInv,
         BegunInv, SlotRow
    <3>2. parent'[v] \in Version /\ CameUp(parent'[v], NameOf[v], row.owner)
      BY <1>2, <2>2, <3>1, NoRowAssumption DEF RowOf, Pointers, SlotRow
    <3> QED BY <3>1, <3>2, Settled DEF CameUp, SlotsInv
  <2> QED BY <2>1, <2>2 DEF RowOf
<1>4. CASE ReadSlots(v) /\ seen'[v] # seen[v]
  <2> DEFINE row == slots[NameOf[v]]
  <2>1. /\ seen'[v] = row
        /\ row # NoRow => row.owner = caller[v]
        /\ parent' = parent /\ caller' = caller
    BY <1>4, <1>2 DEF ReadSlots, TypeOK, OwnedByOther, SlotRow
  <2>2. row \in SlotRow \cup {NoRow} /\ RowOf(row, NameOf[v], caller[v])
    BY <2>1, <1>2 DEF RowOf
  <2>3. RowOf(seen[v], NameOf[v], caller[v])'
    BY <2>1, <2>2, RowKept DEF SlotsInv, RowOf, CameUp
  <2>4. parent'[v] # None => CameUp(parent[v], NameOf[v], caller[v])'
    BY <1>1, <2>1, Settled DEF CameUp, TypeOK, SlotsInv
  <2> QED BY <2>3, <2>4
<1> DEFINE Forgotten == /\ parent'[v] = parent[v] /\ caller'[v] = caller[v]
                        /\ seen'[v] \in {seen[v], NoRow}
<1>5. CASE Forgotten
  <2>1. seen'[v] = NoRow \/ RowOf(seen'[v], NameOf[v], caller'[v])
    BY <1>1, <1>5
  <2>2. parent'[v] # None => CameUp(parent[v], NameOf[v], caller[v])'
    BY <1>1, <1>5, Settled DEF CameUp, TypeOK, SlotsInv
  <2>3. RowOf(seen[v], NameOf[v], caller[v])'
    BY <1>1, <1>5, RowKept DEF SlotsInv, RowOf, CameUp
  <2> QED BY <2>2, <2>3
<1>6. CheckSlots(v) \/ (ReadSlots(v) /\ seen'[v] # seen[v]) \/ Forgotten
  <2>1. ASSUME NEW w \in Version, DeployStep(w) \/ RejectLate(w) \/ TailDies(w)
        PROVE  CheckSlots(v) \/ (ReadSlots(v) /\ seen'[v] # seen[v]) \/ Forgotten
    <3>1. CASE CheckSlots(w) /\ w # v
      <4>1. Forgotten
        BY <3>1 DEF TypeOK, CheckSlots
      <4> QED BY <4>1
    <3>3. CASE ReadSlots(w) /\ w # v
      <4>1. Forgotten
        BY <3>3 DEF TypeOK, ReadSlots
      <4> QED BY <4>1
    <3>4. CASE ReadSlots(v)
      <4>1. (seen'[v] = seen[v]) => Forgotten
        BY <3>4 DEF TypeOK, ReadSlots
      <4> QED BY <3>4, <4>1
    <3>2. CASE WriteSlots(w) \/ TailDies(w)
      BY <3>2 DEF TypeOK, WriteSlots, TailDies
    <3> QED BY <2>1, <3>1, <3>2, <3>3, <3>4 DEF DeployStep, ListVersions, PutPending,
         RejectLate, StartExecution, RunSteps, MarkSucceeded, Register, MarkFailed
  <2>2. ASSUME NEW w \in Version, ReleaseStep(w) PROVE Forgotten
    BY <2>2 DEF ReleaseStep, ReleaseRows, ReadReleasedSlot, DropSlot, deployVars
  <2>3. ASSUME NEW r \in Request, RequestNext(r) PROVE Forgotten
    BY <2>3 DEF RequestNext, BeginPromote, ReadForPromote, BeginRollback,
       CheckRollback, WriteRequest, deployVars
  <2> QED BY <2>1, <2>2, <2>3 DEF Next, vars, deployVars
<1> QED BY <1>3, <1>4, <1>5, <1>6

\* What a promotion or a rollback has read.
LEMMA RequestsStep ==
  ASSUME TypeOK, TypeOK', SlotsInv, [Next]_vars
  PROVE  RequestInv'
<1> SUFFICES ASSUME NEW r \in Request, req'[r] \in RequestState
             PROVE  /\ CameUp(req[r].version, req[r].name, req[r].by)'
                    /\ RowOf(req[r].seen, req[r].name, req[r].by)'
  BY DEF RequestInv
<1> USE SlotsAssumption
<1> DEFINE q == req'[r]
           Held == /\ CameUp(q.version, q.name, q.by)
                   /\ RowOf(q.seen, q.name, q.by)
<1>1. ASSUME Held
      PROVE  /\ CameUp(req[r].version, req[r].name, req[r].by)'
             /\ RowOf(req[r].seen, req[r].name, req[r].by)'
  <2>1. q.version \in Version /\ q.seen \in SlotRow \cup {NoRow}
    BY DEF RequestState
  <2>2. CameUp(req[r].version, req[r].name, req[r].by)'
    BY <1>1, <2>1, Settled DEF SlotsInv, CameUp
  <2>3. RowOf(req[r].seen, req[r].name, req[r].by)'
    BY <1>1, <2>1, RowKept DEF SlotsInv, RowOf, CameUp
  <2> QED BY <2>2, <2>3
<1>2. CASE req'[r] = req[r]
  BY <1>1, <1>2 DEF SlotsInv, RequestInv
<1>3. CASE BeginPromote(r)
  <2>1. PICK t \in Tenant, v \in Version, s \in Slot :
          /\ Promotable(v, t)
          /\ q = [phase |-> "promote", by |-> t, name |-> NameOf[v],
                  slot |-> s, version |-> v, seen |-> NoRow]
    BY <1>3 DEF BeginPromote, RequestStep, TypeOK
  <2>2. CameUp(v, NameOf[v], t)
    BY <2>1 DEF Promotable, SlotsInv, VersionsInv, CameUp
  <2> QED BY <1>1, <2>1, <2>2 DEF RowOf
<1>4. CASE ReadForPromote(r)
  <2> DEFINE row == slots[req[r].name]
  <2>1. req[r] \in RequestState
    BY <1>4 DEF ReadForPromote, TypeOK, Ended
  <2>2. /\ q = [req[r] EXCEPT !.phase = "write", !.seen = row]
        /\ row # NoRow => row.owner = req[r].by
    BY <1>4 DEF ReadForPromote, RequestStep, TypeOK, Ended, RequestState
  <2>3. RowOf(row, req[r].name, req[r].by)
    BY <2>1, <2>2 DEF SlotsInv, StoredInv, RowOf, RequestState
  <2>4. CameUp(req[r].version, req[r].name, req[r].by)
    BY <2>1 DEF SlotsInv, RequestInv
  <2>5. /\ q.version = req[r].version /\ q.name = req[r].name
        /\ q.by = req[r].by /\ q.seen = row
    BY <2>1, <2>2 DEF RequestState
  <2> QED BY <1>1, <2>3, <2>4, <2>5
<1>5. CASE BeginRollback(r)
  <2>1. PICK n \in Name :
          /\ slots[n] # NoRow /\ slots[n].previous # None
          /\ q = [phase |-> "rollback", by |-> slots[n].owner, name |-> n,
                  slot |-> "production", version |-> slots[n].previous,
                  seen |-> slots[n]]
    BY <1>5 DEF BeginRollback, RequestStep, TypeOK
  <2>2. RowOf(slots[n], n, slots[n].owner) /\ slots[n].previous \in Pointers(slots[n])
    BY <2>1 DEF SlotsInv, StoredInv, Pointers
  <2> QED BY <1>1, <2>1, <2>2 DEF RowOf
<1>6. CASE CheckRollback(r)
  <2>1. req[r] \in RequestState
    BY <1>6 DEF CheckRollback, TypeOK, Ended
  <2>2. q = [req[r] EXCEPT !.phase = "write"]
    BY <1>6 DEF CheckRollback, RequestStep, TypeOK, Ended, RequestState
  <2>3. /\ q.version = req[r].version /\ q.name = req[r].name
        /\ q.by = req[r].by /\ q.seen = req[r].seen
    BY <2>1, <2>2 DEF RequestState
  <2> QED BY <1>1, <2>1, <2>3 DEF SlotsInv, RequestInv
<1>7. req'[r] = req[r] \/ BeginPromote(r) \/ ReadForPromote(r)
        \/ BeginRollback(r) \/ CheckRollback(r)
  <2>1. ASSUME NEW w \in Version,
               DeployStep(w) \/ RejectLate(w) \/ TailDies(w) \/ ReleaseStep(w)
        PROVE  req' = req
    BY <2>1 DEF DeployStep, CheckSlots, ListVersions, PutPending, RejectLate,
       StartExecution, RunSteps, MarkSucceeded, ReadSlots, WriteSlots, Register,
       TailDies, MarkFailed, ReleaseStep, ReleaseRows, ReadReleasedSlot, DropSlot
  <2>2. ASSUME NEW p \in Request, RequestNext(p), p # r PROVE req'[r] = req[r]
    BY <2>2 DEF RequestNext, BeginPromote, ReadForPromote, BeginRollback,
       CheckRollback, WriteRequest, RequestStep, TypeOK
  <2>3. ~WriteRequest(r)
    BY DEF WriteRequest, RequestStep, TypeOK, Ended, RequestState
  <2> QED BY <2>1, <2>2, <2>3 DEF Next, vars, RequestNext
<1> QED BY <1>2, <1>3, <1>4, <1>5, <1>6, <1>7

\* The invariant, for every number of tenants, deploys, names and requests.
THEOREM SlotsInvariant == Spec => []SlotsInv
<1>1. TypeOK /\ TypeOK' /\ SlotsInv /\ [Next]_vars => SlotsInv'
  BY VersionsStep, StoredStep, SeenStep, RequestsStep DEF SlotsInv
<1> QED BY <1>1, InvInit, TypeCorrect, PTL DEF Spec

\* No interleaving of two tenants' handlers mixes them in a slots row.
THEOREM SlotsOwned == Spec => []SlotPointersOwned
<1>1. SlotsInv => SlotPointersOwned
  BY DEF SlotsInv, StoredInv, RowOf, CameUp, SlotPointersOwned, OwnPointers, Pointers
<1> QED BY <1>1, SlotsInvariant, PTL

\* Lineage never leads into another tenant.
THEOREM LineageOwned == Spec => []LineageWithinTenant
<1>1. SlotsInv => LineageWithinTenant
  BY DEF SlotsInv, SeenInv, CameUp, LineageWithinTenant
<1> QED BY <1>1, SlotsInvariant, PTL

\* A slot only ever points at a version whose runtime came up.
THEOREM SlotsStarted == Spec => []SlotsPointAtStartedRuntimes
<1>1. SlotsInv => SlotsPointAtStartedRuntimes
  BY DEF SlotsInv, StoredInv, RowOf, CameUp, SlotsPointAtStartedRuntimes, Pointers
<1> QED BY <1>1, SlotsInvariant, PTL

-----------------------------------------------------------------------------
(* What a slot points at can be served.  A best-effort write that is lost, *)
(* a tail that runs out of attempts after it wrote the slots, and a name   *)
(* release take the row of a version away from the slots that point at it; *)
(* the theorem is about all other faults.                                  *)

NothingLost == Faults \cap {"mark", "exhaust", "release"} = {}

Marked(v) == versions[v] # NoRow /\ versions[v].status = "succeeded"
AllMarked(row) == \A v \in Pointers(row) : Marked(v)

\* A deploy whose runtime came up is in its tail or through.
UpInv == \A v \in Version : attempt[v] > 0 => phase[v] \in TailPhase \cup {"done"}

\* Past its first write the tail has marked its version.
MarkInv ==
  \A v \in Version :
    phase[v] \in {"reading", "writing", "registering", "done"} => Marked(v)

\* Only marked versions are pointed at, in the table and in what was read.
MarkedInv ==
  /\ \A n \in Name : AllMarked(slots[n])
  /\ \A v \in Version : AllMarked(seen[v])
  /\ \A r \in Request : req[r] \in RequestState =>
       Marked(req[r].version) /\ AllMarked(req[r].seen)

ServedInv == UpInv /\ MarkInv /\ MarkedInv

LEMMA ServedInit == Init => ServedInv
<1> SUFFICES ASSUME Init PROVE ServedInv
  OBVIOUS
<1>1. UpInv /\ MarkInv
  BY DEF Init, UpInv, MarkInv
<1>2. MarkedInv
  BY DEF Init, MarkedInv, AllMarked, Pointers, RequestState, Ended
<1> QED BY <1>1, <1>2 DEF ServedInv

\* Where a deploy is, and what its row says of it.
LEMMA UpStep ==
  ASSUME NothingLost, TypeOK, SlotsInv, ServedInv, [Next]_vars
  PROVE  UpInv' /\ MarkInv'
<1> USE SlotsAssumption
    DEF TypeOK, ServedInv, UpInv, MarkInv, Marked, TailPhase, Move
<1>1. CASE UNCHANGED vars
  BY <1>1 DEF vars, deployVars
<1>2. ASSUME NEW w \in Version, DeployStep(w) \/ RejectLate(w) \/ TailDies(w)
      PROVE  UpInv' /\ MarkInv'
  <2>1. CASE CheckSlots(w)
    BY <2>1 DEF CheckSlots, SlotsInv, BegunInv
  <2>2. CASE ListVersions(w) \/ StartExecution(w) \/ RejectLate(w)
    BY <2>2 DEF ListVersions, StartExecution, RejectLate
  <2>3. CASE PutPending(w)
    BY <2>3 DEF PutPending
  <2>4. CASE RunSteps(w)
    BY <2>4 DEF RunSteps
  <2>5. CASE MarkSucceeded(w)
    <3>1. /\ StatusWritten(w, "succeeded") \in VersionRow
          /\ StatusWritten(w, "succeeded").status = "succeeded"
      BY StatusWrittenRow DEF Status
    <3>2. StatusWritten(w, "succeeded") # NoRow
      BY <3>1, NoRowAssumption
    <3>3. versions' = [versions EXCEPT ![w] = StatusWritten(w, "succeeded")]
      BY <2>5 DEF MarkSucceeded, Fault, NothingLost
    <3> QED BY <2>5, <3>1, <3>2, <3>3 DEF MarkSucceeded
  <2>6. CASE ReadSlots(w) \/ WriteSlots(w) \/ Register(w)
    BY <2>6 DEF ReadSlots, WriteSlots, Register
  <2>7. CASE MarkFailed(w)
    BY <2>7 DEF MarkFailed
  <2>8. CASE TailDies(w)
    BY <2>8 DEF TailDies, Fault, NothingLost
  <2> QED BY <1>2, <2>1, <2>2, <2>3, <2>4, <2>5, <2>6, <2>7, <2>8 DEF DeployStep
<1>3. ASSUME NEW w \in Version, ReleaseStep(w) PROVE UpInv' /\ MarkInv'
  BY <1>3 DEF ReleaseStep, ReleaseRows, ReadReleasedSlot, DropSlot, deployVars,
       Fault, NothingLost
<1>4. ASSUME NEW r \in Request, RequestNext(r) PROVE UpInv' /\ MarkInv'
  BY <1>4 DEF RequestNext, BeginPromote, ReadForPromote, BeginRollback,
       CheckRollback, WriteRequest, deployVars
<1> QED BY <1>1, <1>2, <1>3, <1>4 DEF Next

\* A version that came up and is marked stays marked.
LEMMA MarkedStays ==
  ASSUME NothingLost, TypeOK, ServedInv, [Next]_vars,
         NEW v \in Version, attempt[v] > 0, Marked(v)
  PROVE  Marked(v)'
<1> USE DEF TypeOK, Marked, Move
<1>1. phase[v] \in TailPhase \cup {"done"}
  BY DEF ServedInv, UpInv
<1>2. ASSUME NEW w \in Version, PutPending(w) \/ MarkFailed(w)
      PROVE  versions'[v] = versions[v]
  BY <1>1, <1>2 DEF PutPending, MarkFailed, TailPhase
<1>3. ASSUME NEW w \in Version, MarkSucceeded(w) PROVE Marked(v)'
  <2>1. /\ StatusWritten(w, "succeeded") \in VersionRow
        /\ StatusWritten(w, "succeeded").status = "succeeded"
    BY StatusWrittenRow DEF Status
  <2>2. StatusWritten(w, "succeeded") # NoRow
    BY <2>1, NoRowAssumption
  <2> QED BY <1>3, <2>1, <2>2 DEF MarkSucceeded
<1>4. ASSUME NEW w \in Version, DeployStep(w) \/ RejectLate(w) \/ TailDies(w),
             ~PutPending(w), ~MarkFailed(w), ~MarkSucceeded(w)
      PROVE  versions' = versions
  BY <1>4 DEF DeployStep, CheckSlots, ListVersions, StartExecution, RejectLate,
       RunSteps, ReadSlots, WriteSlots, Register, TailDies
<1>5. ASSUME NEW w \in Version, ReleaseStep(w) PROVE versions' = versions
  BY <1>5 DEF ReleaseStep, ReleaseRows, ReadReleasedSlot, DropSlot, Fault, NothingLost
<1>6. ASSUME NEW r \in Request, RequestNext(r) PROVE versions' = versions
  BY <1>6 DEF RequestNext, BeginPromote, ReadForPromote, BeginRollback,
       CheckRollback, WriteRequest
<1>7. CASE UNCHANGED vars
  BY <1>7 DEF vars
<1> QED BY <1>2, <1>3, <1>4, <1>5, <1>6, <1>7 DEF Next

\* The rows that the next state holds: a row that was stored or read, the
\* empty row, or one that was put.
LEMMA MarkedStep ==
  ASSUME NothingLost, TypeOK, TypeOK', SlotsInv, ServedInv, [Next]_vars
  PROVE  MarkedInv'
<1> USE SlotsAssumption
<1>0. AllMarked(NoRow)'
  BY DEF AllMarked, Pointers
<1>a. \A n \in Name : slots[n] \in SlotRow \cup {NoRow} /\ AllMarked(slots[n])
                      /\ RowOf(slots[n], n, slots[n].owner)
  BY DEF TypeOK, ServedInv, MarkedInv, SlotsInv, StoredInv, RowOf
<1>b. \A v \in Version : seen[v] \in SlotRow \cup {NoRow} /\ AllMarked(seen[v])
                         /\ RowOf(seen[v], NameOf[v], caller[v])
  BY DEF TypeOK, ServedInv, MarkedInv, SlotsInv, SeenInv
<1>c. \A r \in Request : req[r] \in RequestState =>
        /\ req[r].seen \in SlotRow \cup {NoRow} /\ AllMarked(req[r].seen)
        /\ RowOf(req[r].seen, req[r].name, req[r].by)
        /\ req[r].version \in Version /\ Marked(req[r].version)
        /\ attempt[req[r].version] > 0
  BY DEF TypeOK, ServedInv, MarkedInv, SlotsInv, RequestInv, RequestState, CameUp
<1>1. ASSUME NEW n \in Name PROVE AllMarked(slots[n])'
  <2>1. CASE slots'[n] = slots[n]
    <3> DEFINE row == slots[n]
    <3>1. AllMarked(row)
      BY <1>a
    <3>2. \A p \in Pointers(row) : Marked(p)'
      <4>1. \A p \in Pointers(row) : p \in Version /\ attempt[p] > 0
        BY <1>a DEF Pointers, SlotRow, RowOf, CameUp
      <4> QED BY <3>1, <4>1, MarkedStays DEF AllMarked
    <3> QED BY <2>1, <3>2 DEF AllMarked, Pointers
  <2>2. ASSUME NEW v \in Version, WriteSlots(v), n = NameOf[v],
               slots'[n] = PointAt(seen[v], caller[v], target[v], v)
        PROVE  AllMarked(slots[n])'
    <3> DEFINE row == PointAt(seen[v], caller[v], target[v], v)
    <3>1. phase[v] = "writing" /\ caller[v] \in Tenant /\ target[v] \in Slot
      BY <2>2 DEF WriteSlots, Move, TypeOK
    <3>2. Marked(v) /\ attempt[v] > 0
      BY <3>1 DEF ServedInv, MarkInv, SlotsInv, VersionsInv, TailPhase
    <3>3. row \in SlotRow /\ Pointers(row) \subseteq Pointers(seen[v]) \cup {v}
      BY <3>1, <1>b, PointAtRow
    <3>4. \A p \in Pointers(row) : p \in Version /\ attempt[p] > 0 /\ Marked(p)
      BY <3>2, <3>3, <1>b DEF AllMarked, RowOf, CameUp, Pointers, SlotRow
    <3>5. \A p \in Pointers(row) : Marked(p)'
      BY <3>4, MarkedStays
    <3> QED BY <2>2, <3>5 DEF AllMarked, Pointers
  <2>3. ASSUME NEW r \in Request, WriteRequest(r), n = req[r].name,
               slots'[n] = PointAt(req[r].seen, req[r].by, req[r].slot, req[r].version)
        PROVE  AllMarked(slots[n])'
    <3> DEFINE row == PointAt(req[r].seen, req[r].by, req[r].slot, req[r].version)
    <3>1. req[r] \in RequestState
      BY <2>3 DEF WriteRequest, TypeOK, Ended
    <3>a. /\ req[r].seen \in SlotRow \cup {NoRow} /\ req[r].by \in Tenant
          /\ req[r].slot \in Slot /\ req[r].version \in Version
      BY <3>1 DEF RequestState
    <3>b. PICK x, t, s, v : x = req[r].seen /\ t = req[r].by /\ s = req[r].slot
                              /\ v = req[r].version
      OBVIOUS
    <3>c. PointAt(x, t, s, v) \in SlotRow
          /\ Pointers(PointAt(x, t, s, v)) \subseteq Pointers(x) \cup {v}
      BY <3>a, <3>b, PointAtRow
    <3>2. row \in SlotRow /\ Pointers(row) \subseteq Pointers(req[r].seen) \cup {req[r].version}
      BY <3>b, <3>c
    <3>3. \A p \in Pointers(row) : p \in Version /\ attempt[p] > 0 /\ Marked(p)
      BY <3>1, <3>2, <1>c DEF AllMarked, RowOf, CameUp, Pointers, SlotRow
    <3>4. \A p \in Pointers(row) : Marked(p)'
      BY <3>3, MarkedStays
    <3> QED BY <2>3, <3>4 DEF AllMarked, Pointers
  <2>4. ASSUME NEW v \in Version, DropSlot(v), slots'[n] = NoRow
        PROVE  AllMarked(slots[n])'
    BY <2>4, <1>0 DEF AllMarked, Pointers
  <2>5. \/ slots'[n] = slots[n]
        \/ \E v \in Version : /\ WriteSlots(v) /\ n = NameOf[v]
                              /\ slots'[n] = PointAt(seen[v], caller[v], target[v], v)
        \/ \E v \in Version : DropSlot(v) /\ slots'[n] = NoRow
        \/ \E r \in Request :
             /\ WriteRequest(r) /\ n = req[r].name
             /\ slots'[n] = PointAt(req[r].seen, req[r].by, req[r].slot, req[r].version)
    <3>1. ASSUME NEW v \in Version, WriteSlots(v)
          PROVE  \/ slots'[n] = slots[n]
                 \/ n = NameOf[v] /\ slots'[n] = PointAt(seen[v], caller[v], target[v], v)
      BY <3>1 DEF WriteSlots, TypeOK
    <3>2. ASSUME NEW r \in Request, WriteRequest(r)
          PROVE  \/ slots'[n] = slots[n]
                 \/ /\ n = req[r].name
                    /\ slots'[n] = PointAt(req[r].seen, req[r].by, req[r].slot, req[r].version)
      BY <3>2 DEF WriteRequest, TypeOK
    <3>3. ASSUME NEW v \in Version, DropSlot(v)
          PROVE  slots'[n] = slots[n] \/ slots'[n] = NoRow
      BY <3>3 DEF DropSlot, TypeOK
    <3>4. ASSUME NEW v \in Version, DeployStep(v) \/ RejectLate(v) \/ TailDies(v),
                 ~WriteSlots(v)
          PROVE  slots' = slots
      BY <3>4 DEF DeployStep, CheckSlots, ListVersions, PutPending, RejectLate,
         StartExecution, RunSteps, MarkSucceeded, ReadSlots, Register, MarkFailed,
         TailDies
    <3>5. ASSUME NEW v \in Version, ReleaseStep(v), ~DropSlot(v) PROVE slots' = slots
      BY <3>5 DEF ReleaseStep, ReleaseRows, ReadReleasedSlot
    <3>6. ASSUME NEW r \in Request, RequestNext(r), ~WriteRequest(r) PROVE slots' = slots
      BY <3>6 DEF RequestNext, BeginPromote, ReadForPromote, BeginRollback, CheckRollback
    <3> QED BY <3>1, <3>2, <3>3, <3>4, <3>5, <3>6 DEF Next, vars
  <2> QED BY <2>1, <2>2, <2>3, <2>4, <2>5
<1>2. ASSUME NEW v \in Version PROVE AllMarked(seen[v])'
  <2>1. ASSUME NEW row \in SlotRow \cup {NoRow}, NEW n, NEW t,
               RowOf(row, n, t), AllMarked(row), seen'[v] = row
        PROVE  AllMarked(seen[v])'
    <3>1. \A p \in Pointers(row) : p \in Version /\ attempt[p] > 0 /\ Marked(p)
      BY <2>1 DEF AllMarked, RowOf, CameUp, Pointers, SlotRow
    <3>2. \A p \in Pointers(row) : Marked(p)'
      BY <3>1, MarkedStays
    <3> QED BY <2>1, <3>2 DEF AllMarked, Pointers
  <2>2. seen'[v] = seen[v] \/ seen'[v] = slots[NameOf[v]] \/ seen'[v] = NoRow
    <3>1. ASSUME NEW w \in Version, ReadSlots(w) \/ WriteSlots(w) \/ TailDies(w)
          PROVE  seen'[v] = seen[v] \/ seen'[v] = slots[NameOf[v]] \/ seen'[v] = NoRow
      BY <3>1 DEF ReadSlots, WriteSlots, TailDies, TypeOK
    <3>2. ASSUME NEW w \in Version, DeployStep(w) \/ RejectLate(w),
                 ~ReadSlots(w), ~WriteSlots(w)
          PROVE  seen' = seen
      BY <3>2 DEF DeployStep, CheckSlots, ListVersions, PutPending, RejectLate,
         StartExecution, RunSteps, MarkSucceeded, Register, MarkFailed
    <3>3. ASSUME NEW w \in Version, ReleaseStep(w) PROVE seen' = seen
      BY <3>3 DEF ReleaseStep, ReleaseRows, ReadReleasedSlot, DropSlot, deployVars
    <3>4. ASSUME NEW r \in Request, RequestNext(r) PROVE seen' = seen
      BY <3>4 DEF RequestNext, BeginPromote, ReadForPromote, BeginRollback,
         CheckRollback, WriteRequest, deployVars
    <3> QED BY <3>1, <3>2, <3>3, <3>4 DEF Next, vars, deployVars
  <2>3. NameOf[v] \in Name
    OBVIOUS
  <2>4. CASE seen'[v] = NoRow
    BY <2>4 DEF AllMarked, Pointers
  <2> QED BY <2>1, <2>2, <2>3, <2>4, <1>a, <1>b
<1>3. ASSUME NEW r \in Request, req'[r] \in RequestState
      PROVE  Marked(req[r].version)' /\ AllMarked(req[r].seen)'
  <2> DEFINE q == req'[r]
  <2>1. \/ req[r] \in RequestState /\ q.version = req[r].version
           /\ q.seen \in {req[r].seen, NoRow, slots[req[r].name]}
           /\ req[r].name \in Name
        \/ /\ q.version \in Version /\ Marked(q.version) /\ attempt[q.version] > 0
           /\ q.seen = NoRow \/ \E n \in Name : q.seen = slots[n]
    <3>1. CASE req'[r] = req[r]
      BY <3>1, <1>3 DEF RequestState
    <3>2. CASE BeginPromote(r)
      <4>1. PICK t \in Tenant, v \in Version, s \in Slot :
              /\ Promotable(v, t)
              /\ q = [phase |-> "promote", by |-> t, name |-> NameOf[v],
                      slot |-> s, version |-> v, seen |-> NoRow]
        BY <3>2 DEF BeginPromote, RequestStep, TypeOK
      <4> QED BY <4>1 DEF Promotable, Marked, SlotsInv, VersionsInv
    <3>3. CASE ReadForPromote(r)
      <4>1. req[r] \in RequestState
        BY <3>3 DEF ReadForPromote, TypeOK, Ended
      <4>2. q = [req[r] EXCEPT !.phase = "write", !.seen = slots[req[r].name]]
        BY <3>3, <1>3 DEF ReadForPromote, RequestStep, TypeOK, Ended, RequestState
      <4> QED BY <4>1, <4>2 DEF RequestState
    <3>4. CASE BeginRollback(r)
      <4>1. PICK n \in Name :
              /\ slots[n] # NoRow /\ slots[n].previous # None
              /\ q = [phase |-> "rollback", by |-> slots[n].owner, name |-> n,
                      slot |-> "production", version |-> slots[n].previous,
                      seen |-> slots[n]]
        BY <3>4 DEF BeginRollback, RequestStep, TypeOK
      <4>2. slots[n].previous \in Pointers(slots[n]) /\ slots[n].previous \in Version
        BY <4>1, <1>a DEF Pointers, SlotRow
      <4> QED BY <4>1, <4>2, <1>a DEF AllMarked, RowOf, CameUp
    <3>5. CASE CheckRollback(r)
      <4>1. req[r] \in RequestState
        BY <3>5 DEF CheckRollback, TypeOK, Ended
      <4>2. q = [req[r] EXCEPT !.phase = "write"]
        BY <3>5, <1>3 DEF CheckRollback, RequestStep, TypeOK, Ended, RequestState
      <4> QED BY <4>1, <4>2 DEF RequestState
    <3>6. ASSUME NEW w \in Version,
                 DeployStep(w) \/ RejectLate(w) \/ TailDies(w) \/ ReleaseStep(w)
          PROVE  req' = req
      BY <3>6 DEF DeployStep, CheckSlots, ListVersions, PutPending, RejectLate,
         StartExecution, RunSteps, MarkSucceeded, ReadSlots, WriteSlots, Register,
         TailDies, MarkFailed, ReleaseStep, ReleaseRows, ReadReleasedSlot, DropSlot
    <3>7. ASSUME NEW p \in Request, RequestNext(p), p # r PROVE req'[r] = req[r]
      BY <3>7 DEF RequestNext, BeginPromote, ReadForPromote, BeginRollback,
         CheckRollback, WriteRequest, RequestStep, TypeOK
    <3>8. ~WriteRequest(r)
      BY <1>3 DEF WriteRequest, RequestStep, TypeOK, Ended, RequestState
    <3> QED BY <3>1, <3>2, <3>3, <3>4, <3>5, <3>6, <3>7, <3>8 DEF Next, vars, RequestNext
  <2>2. q.version \in Version /\ Marked(q.version) /\ attempt[q.version] > 0
    BY <2>1, <1>c
  <2>3. Marked(req[r].version)'
    <3>1. \A p \in Version : attempt[p] > 0 /\ Marked(p) => Marked(p)'
      BY MarkedStays
    <3> QED BY <2>2, <3>1 DEF Marked
  <2>4. \A p \in Pointers(q.seen) : p \in Version /\ attempt[p] > 0 /\ Marked(p)
    <3>1. \A n \in Name : \A p \in Pointers(slots[n]) : p \in Version /\ attempt[p] > 0 /\ Marked(p)
      BY <1>a DEF AllMarked, RowOf, CameUp, Pointers, SlotRow
    <3>2. req[r] \in RequestState =>
            \A p \in Pointers(req[r].seen) : p \in Version /\ attempt[p] > 0 /\ Marked(p)
      BY <1>c DEF AllMarked, RowOf, CameUp, Pointers, SlotRow
    <3>3. Pointers(NoRow) = {}
      BY DEF Pointers
    <3> QED BY <2>1, <3>1, <3>2, <3>3
  <2>5. \A p \in Pointers(q.seen) : Marked(p)'
    BY <2>4, MarkedStays
  <2> QED BY <2>3, <2>5 DEF AllMarked, Pointers
<1> QED BY <1>1, <1>2, <1>3 DEF MarkedInv

\* The inductive invariant behind SlotsServable.
THEOREM ServedInvariant ==
  ASSUME NothingLost PROVE Spec => []ServedInv
<1>1. TypeOK /\ TypeOK' /\ SlotsInv /\ ServedInv /\ [Next]_vars => ServedInv'
  BY UpStep, MarkedStep DEF ServedInv
<1> QED BY <1>1, ServedInit, TypeCorrect, SlotsInvariant, PTL DEF Spec

\* Whatever is killed, put back to the start, refused or timed out, each
\* version that a slot points at has a row that says it succeeded.
THEOREM SlotsServed ==
  ASSUME NothingLost PROVE Spec => []SlotsServable
<1>1. ServedInv => SlotsServable
  BY DEF ServedInv, MarkedInv, AllMarked, Marked, SlotsServable
<1> QED BY <1>1, ServedInvariant, PTL

=============================================================================
