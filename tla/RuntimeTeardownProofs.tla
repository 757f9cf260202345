----------------------- MODULE RuntimeTeardownProofs -----------------------
(* Proofs about RuntimeTeardown for any records, any number of teardowns of *)
(* one record and of retries, and every set of faults.                      *)
EXTENDS RuntimeTeardown, TLAPS

InHand == {"clean", "delete", "await"}
Behind == {"tool", "base", "base_role", "main", "name", "report"}

\* A teardown has its row in hand where it works on one.
HandInv == \A t \in Teardown : stage[t] \in InHand => row[t] \in Listable

ShapeInv == TeardownTypeOK /\ HandInv

LEMMA KindFacts ==
  /\ Parent \subseteq Listable /\ BackingKinds \subseteq Listable
  /\ Listable \subseteq Resource /\ NoKind \notin Resource
  /\ "kb_tool" \in Resource /\ "knowledge_base" \in Listable /\ "kb_role" \in Listable
  /\ "kb_tool" \notin Listable /\ MainKind \in Listable
  /\ \A k \in Listable : WithIt(k) \subseteq Resource /\ k \in WithIt(k)
  /\ "knowledge_base" \notin Silent /\ "knowledge_base" \notin Parent
  BY DEF Parent, Listable, Resource, NoKind, BackingKinds, WithIt, Silent, MainKind

LEMMA ShapeInit == TeardownInit => ShapeInv
<1> SUFFICES ASSUME TeardownInit PROVE ShapeInv
  OBVIOUS
<1> USE DEF TeardownInit
<1>1. record \in Records /\ listed \subseteq Listable
  BY TeardownAssumption DEF RecordShape
<1>2. remains \in [Resource -> Held] /\ parts \in [Parent -> Held \ {"stuck"}]
  BY DEF Held
<1>3. /\ stage \in [Teardown -> TeardownStage] /\ mode \in [Teardown -> {"inline", "async"}]
      /\ outcome \in [Teardown -> {"none", "ok", "failed"}]
      /\ row \in [Teardown -> Listable \cup {NoKind}]
      /\ HandInv
  BY DEF TeardownStage, HandInv, InHand
<1>4. runs \in [Teardown -> 0..AsyncRetries]
  BY TeardownAssumption
<1>5. /\ rows \in [Teardown -> SUBSET Listable] /\ left \in [Teardown -> SUBSET Listable]
      /\ failures \in [Teardown -> SUBSET Listable] /\ warned \subseteq Listable
      /\ unread \subseteq Teardown /\ disturbed \subseteq Teardown
  OBVIOUS
<1>6. /\ named \in BOOLEAN /\ hurried \in BOOLEAN /\ forsaken \in BOOLEAN
      /\ deleteStatus \in {"none", "deleting", "deleted", "delete_failed"}
  OBVIOUS
<1> QED BY <1>1, <1>2, <1>3, <1>4, <1>5, <1>6 DEF ShapeInv, TeardownTypeOK

-----------------------------------------------------------------------------
(* Every step is one of a teardown, or of the world beside it.             *)

\* Two parts of the type invariant, by what their steps need.
Local ==
  /\ stage \in [Teardown -> TeardownStage]
  /\ mode \in [Teardown -> {"inline", "async"}]
  /\ runs \in [Teardown -> 0..AsyncRetries]
  /\ rows \in [Teardown -> SUBSET Listable]
  /\ left \in [Teardown -> SUBSET Listable]
  /\ row \in [Teardown -> Listable \cup {NoKind}]
  /\ failures \in [Teardown -> SUBSET Listable]
  /\ outcome \in [Teardown -> {"none", "ok", "failed"}]
World ==
  /\ record \in Records /\ listed \subseteq Listable
  /\ remains \in [Resource -> Held] /\ parts \in [Parent -> Held \ {"stuck"}]
Flags ==
  /\ named \in BOOLEAN /\ hurried \in BOOLEAN /\ forsaken \in BOOLEAN
  /\ warned \subseteq Listable
  /\ deleteStatus \in {"none", "deleting", "deleted", "delete_failed"}
  /\ unread \subseteq Teardown /\ disturbed \subseteq Teardown

LEMMA TypeParts == TeardownTypeOK <=> Local /\ World /\ Flags
<1>1. TeardownTypeOK => Local
  BY DEF TeardownTypeOK, Local
<1>2. TeardownTypeOK => World /\ Flags
  BY DEF TeardownTypeOK, World, Flags
<1>3. Local /\ World /\ Flags => TeardownTypeOK
  BY DEF TeardownTypeOK, Local, World, Flags
<1> QED BY <1>1, <1>2, <1>3

LEMMA LocalStep ==
  ASSUME ShapeInv, NEW t \in Teardown, AskDelete(t) \/ Work(t) \/ KillTeardown(t)
  PROVE  Local' /\ HandInv'
<1> USE DEF GoOn, Local, HandInv, InHand
<1>1. Local /\ HandInv /\ World
  BY TypeParts DEF ShapeInv
<1>2. row[t] = "none" => row[t] \notin Listable
  BY DEF Listable
<1>3. CASE AskDelete(t)
  BY <1>1, <1>3 DEF AskDelete, runVars, TeardownStage
<1>4. CASE InvokeSelf(t) \/ BeginAsync(t)
  BY <1>1, <1>4 DEF InvokeSelf, BeginAsync, runVars, TeardownStage
<1>5. CASE LookUp(t)
  <2>1. record.legacy \subseteq Listable /\ listed \subseteq Listable
    BY <1>1, TeardownAssumption DEF World, RecordShape
  <2> QED BY <1>1, <1>5, <2>1 DEF LookUp, TeardownStage
<1>6. CASE TakeRow(t)
  BY <1>1, <1>6 DEF TakeRow, TeardownStage
<1>7. CASE RowsDone(t)
  BY <1>1, <1>7 DEF RowsDone, TeardownStage
<1>8. CASE CleanParts(t)
  BY <1>1, <1>8 DEF CleanParts, runVars, TeardownStage
<1>9. CASE PartsRemain(t) \/ GoneAlready(t) \/ RowFails(t)
  <2>1. row[t] \in Listable
    BY <1>1, <1>9 DEF PartsRemain, GoneAlready, RowFails
  <2>2. /\ stage' = [stage EXCEPT ![t] = "rows"]
        /\ \/ failures' = failures
           \/ failures' = [failures EXCEPT ![t] = @ \cup {row[t]}]
        /\ UNCHANGED <<mode, runs, rows, left, row, outcome>>
    BY <1>9 DEF PartsRemain, GoneAlready, RowFails, Fail, NoFailure
  <2> QED BY <1>1, <2>1, <2>2 DEF TeardownStage
<1>10. CASE DeleteRow(t) \/ AwaitBase(t)
  BY <1>1, <1>10 DEF DeleteRow, AwaitBase, runVars, TeardownStage
<1>11. CASE DeleteBase(t)
  <2>1. /\ \/ stage' = [stage EXCEPT ![t] = "rows"]
           \/ stage' = [stage EXCEPT ![t] = "await"]
        /\ row[t] = "knowledge_base"
        /\ \/ failures' = failures
           \/ failures' = [failures EXCEPT ![t] = @ \cup {"knowledge_base"}]
        /\ UNCHANGED <<mode, runs, rows, left, row, outcome>>
    BY <1>11 DEF DeleteBase, Fail, NoFailure
  <2> QED BY <1>1, <2>1, KindFacts DEF TeardownStage
<1>12. CASE DeleteTool(t) \/ ReleaseName(t)
  BY <1>1, <1>12 DEF DeleteTool, ReleaseName, runVars, TeardownStage
<1>13. CASE DeleteBaseAgain(t) \/ DeleteBaseRole(t) \/ DestroyMain(t)
  <2>1. \E there \in {"base_role", "main", "report", "name"} :
          stage' = [stage EXCEPT ![t] = there]
    BY <1>13 DEF DeleteBaseAgain, DeleteBaseRole, DestroyMain
  <2>2. "runtime" \in Listable
    BY DEF Listable
  <2>3. \/ failures' = failures
        \/ \E k \in Listable : failures' = [failures EXCEPT ![t] = @ \cup {k}]
    BY <1>13, <2>2, KindFacts
    DEF DeleteBaseAgain, DeleteBaseRole, DestroyMain, Fail, NoFailure
  <2>4. UNCHANGED <<mode, runs, rows, left, row, outcome>>
    BY <1>13 DEF DeleteBaseAgain, DeleteBaseRole, DestroyMain
  <2> QED BY <1>1, <2>1, <2>3, <2>4 DEF TeardownStage
<1>14. CASE Report(t)
  BY <1>1, <1>14 DEF Report, TeardownStage
<1>15. CASE KillTeardown(t)
  <2>1. runs' \in [Teardown -> 0..AsyncRetries]
    BY <1>1, <1>15, TeardownAssumption DEF KillTeardown
  <2>2. stage' \in [Teardown -> TeardownStage] /\ HandInv'
    BY <1>1, <1>15 DEF KillTeardown, TeardownStage
  <2> QED BY <1>1, <1>15, <2>1, <2>2 DEF KillTeardown
<1> QED BY <1>3, <1>4, <1>5, <1>6, <1>7, <1>8, <1>9, <1>10, <1>11, <1>12, <1>13,
           <1>14, <1>15 DEF Work

\* What a step of a teardown does to the resources.
LEMMA WorldStep ==
  ASSUME ShapeInv, NEW t \in Teardown, AskDelete(t) \/ Work(t) \/ KillTeardown(t)
  PROVE  /\ World' /\ UNCHANGED <<record, listed>>
         /\ \A k \in Resource : remains[k] = "gone" => remains'[k] = "gone"
<1>1. World /\ HandInv /\ Local
  BY TypeParts DEF ShapeInv
<1>2. UNCHANGED <<record, listed>>
  BY DEF AskDelete, Work, KillTeardown, InvokeSelf, BeginAsync, LookUp, TakeRow,
     RowsDone, CleanParts, PartsRemain, GoneAlready, DeleteRow, RowFails, DeleteBase,
     AwaitBase, DeleteTool, DeleteBaseAgain, DeleteBaseRole, DestroyMain, ReleaseName,
     Report, worldVars
<1>3. parts' \in [Parent -> Held \ {"stuck"}]
  <2>1. CASE CleanParts(t)
    <3>1. \/ parts' = parts
          \/ \E h \in Held \ {"stuck"} : parts' = [parts EXCEPT ![row[t]] = h]
      <4>1. CASE row[t] \in Parent
        BY <1>1, <2>1, <4>1 DEF CleanParts, World, Held
      <4>2. CASE row[t] \notin Parent
        BY <1>1, <2>1, <4>2 DEF CleanParts, World, Held
      <4> QED BY <4>1, <4>2
    <3> QED BY <1>1, <3>1 DEF World
  <2>2. CASE ~CleanParts(t)
    <3>1. parts' = parts
      BY <2>2 DEF AskDelete, Work, KillTeardown, InvokeSelf, BeginAsync, LookUp, TakeRow,
       RowsDone, PartsRemain, GoneAlready, DeleteRow, RowFails, DeleteBase,
       AwaitBase, DeleteTool, DeleteBaseAgain, DeleteBaseRole, DestroyMain, ReleaseName,
       Report, worldVars
    <3> QED BY <1>1, <3>1 DEF World
  <2> QED BY <2>1, <2>2
<1>4. /\ remains' \in [Resource -> Held]
      /\ \A k \in Resource : remains[k] = "gone" => remains'[k] = "gone"
  <2> USE DEF World, Held
  <2>1. CASE DeleteRow(t) \/ DestroyMain(t)
    <3>1. remains' = remains \/ \E S : remains' = Destroyed(S)
      BY <2>1 DEF DeleteRow, DestroyMain
    <3> QED BY <1>1, <3>1 DEF Destroyed
  <2>2. CASE DeleteBase(t)
    BY <1>1, <2>2, KindFacts DEF DeleteBase
  <2>3. CASE DeleteTool(t)
    BY <1>1, <2>3, KindFacts DEF DeleteTool
  <2>4. CASE DeleteBaseAgain(t)
    BY <1>1, <2>4, KindFacts DEF DeleteBaseAgain
  <2>5. CASE DeleteBaseRole(t)
    BY <1>1, <2>5, KindFacts DEF DeleteBaseRole
  <2>6. CASE ~(DeleteRow(t) \/ DestroyMain(t) \/ DeleteBase(t) \/ DeleteTool(t)
                 \/ DeleteBaseAgain(t) \/ DeleteBaseRole(t))
    <3>1. remains' = remains
      BY <2>6 DEF AskDelete, Work, KillTeardown, InvokeSelf, BeginAsync, LookUp, TakeRow,
       RowsDone, CleanParts, PartsRemain, GoneAlready, RowFails, AwaitBase, ReleaseName,
       Report, worldVars
    <3> QED BY <1>1, <3>1
  <2> QED BY <2>1, <2>2, <2>3, <2>4, <2>5, <2>6
<1> QED BY <1>1, <1>2, <1>3, <1>4 DEF World

\* Steps that may record a failure.
Reporting(t) ==
  \/ PartsRemain(t) \/ GoneAlready(t) \/ RowFails(t) \/ DeleteBase(t)
  \/ DeleteBaseAgain(t) \/ DeleteBaseRole(t) \/ DestroyMain(t)

\* A failure is recorded, and remembered in warned.
LEMMA FailuresStep ==
  ASSUME ShapeInv, NEW t \in Teardown, AskDelete(t) \/ Work(t) \/ KillTeardown(t)
  PROVE  \/ failures' = failures /\ warned' = warned
         \/ LookUp(t) /\ failures' = [failures EXCEPT ![t] = {}] /\ warned' = warned
         \/ \E k \in Listable : Fail(t, k)
<1>1. HandInv
  BY DEF ShapeInv
<1>2. CASE Reporting(t)
  <2>1. "runtime" \in Listable
    BY DEF Listable
  <2>2. stage[t] = "delete" => row[t] \in Listable
    BY <1>1 DEF HandInv, InHand
  <2>3. NoFailure \/ \E k \in Listable : Fail(t, k)
    BY <1>2, <2>1, <2>2, KindFacts DEF Reporting, PartsRemain, GoneAlready, RowFails,
       DeleteBase, DeleteBaseAgain, DeleteBaseRole, DestroyMain
  <2> QED BY <2>3 DEF NoFailure
<1>3. CASE LookUp(t)
  BY <1>3 DEF LookUp
<1>4. CASE ~Reporting(t) /\ ~LookUp(t)
  BY <1>4 DEF Reporting, AskDelete, Work, KillTeardown, InvokeSelf, BeginAsync, TakeRow,
     RowsDone, CleanParts, DeleteRow, AwaitBase, DeleteTool, ReleaseName, Report,
     runVars, teardownHistory
<1> QED BY <1>2, <1>3, <1>4

LEMMA FlagsStep ==
  ASSUME ShapeInv, NEW t \in Teardown, AskDelete(t) \/ Work(t) \/ KillTeardown(t)
  PROVE  Flags' /\ (hurried => hurried')
<1>1. Flags
  BY TypeParts DEF ShapeInv
<1>2. warned' \subseteq Listable
  BY <1>1, FailuresStep DEF Flags, Fail
<1>3. unread' \subseteq Teardown
  BY <1>1 DEF Flags, AskDelete, Work, KillTeardown, InvokeSelf, BeginAsync, LookUp, TakeRow,
     RowsDone, CleanParts, PartsRemain, GoneAlready, DeleteRow, RowFails, DeleteBase,
     AwaitBase, DeleteTool, DeleteBaseAgain, DeleteBaseRole, DestroyMain, ReleaseName,
     Report, teardownHistory
<1>4. disturbed' \subseteq Teardown
  BY <1>1 DEF Flags, Smooth, Met, AskDelete, Work, KillTeardown, InvokeSelf, BeginAsync, LookUp, TakeRow,
     RowsDone, CleanParts, PartsRemain, GoneAlready, DeleteRow, RowFails, DeleteBase,
     AwaitBase, DeleteTool, DeleteBaseAgain, DeleteBaseRole, DestroyMain, ReleaseName,
     Report, teardownHistory
<1>5. named' \in BOOLEAN /\ forsaken' \in BOOLEAN
  BY <1>1 DEF Flags, AskDelete, Work, KillTeardown, InvokeSelf, BeginAsync, LookUp, TakeRow,
     RowsDone, CleanParts, PartsRemain, GoneAlready, DeleteRow, RowFails, DeleteBase,
     AwaitBase, DeleteTool, DeleteBaseAgain, DeleteBaseRole, DestroyMain, ReleaseName,
     Report, worldVars, teardownHistory
<1>6. hurried' \in BOOLEAN /\ (hurried => hurried')
  BY <1>1 DEF Flags, AskDelete, Work, KillTeardown, InvokeSelf, BeginAsync, LookUp, TakeRow,
     RowsDone, CleanParts, PartsRemain, GoneAlready, DeleteRow, RowFails, DeleteBase,
     AwaitBase, DeleteTool, DeleteBaseAgain, DeleteBaseRole, DestroyMain, ReleaseName,
     Report, teardownHistory
<1>7. deleteStatus' \in {"none", "deleting", "deleted", "delete_failed"}
  BY <1>1 DEF Flags, SetDeleteStatus, AskDelete, Work, KillTeardown, InvokeSelf, BeginAsync, LookUp, TakeRow,
     RowsDone, CleanParts, PartsRemain, GoneAlready, DeleteRow, RowFails, DeleteBase,
     AwaitBase, DeleteTool, DeleteBaseAgain, DeleteBaseRole, DestroyMain, ReleaseName,
     Report
<1> QED BY <1>2, <1>3, <1>4, <1>5, <1>6, <1>7 DEF Flags

\* AWS and the deployment.
LEMMA BesideStep ==
  ASSUME ShapeInv, PartsGone \/ BaseGone \/ StepRecords
  PROVE  /\ ShapeInv'
         /\ UNCHANGED <<record, stage, runVars, hurried, warned>>
         /\ listed \subseteq listed'
         /\ \A k \in listed : remains[k] = "gone" => remains'[k] = "gone"
<1>1. Local /\ World /\ Flags /\ HandInv
  BY TypeParts DEF ShapeInv
<1>2. UNCHANGED <<record, stage, runVars, deleteStatus, named, teardownHistory>>
  BY DEF PartsGone, BaseGone, StepRecords
<1>3. Local' /\ Flags' /\ HandInv'
  BY <1>1, <1>2 DEF Local, Flags, HandInv, runVars, teardownHistory
<1>4. World' /\ listed \subseteq listed'
      /\ \A k \in listed : remains[k] = "gone" => remains'[k] = "gone"
  <2> USE DEF World, Held
  <2>1. CASE PartsGone
    BY <1>1, <2>1 DEF PartsGone
  <2>2. CASE BaseGone
    BY <1>1, <2>2, KindFacts DEF BaseGone
  <2>3. CASE StepRecords
    <3>1. record.late \subseteq Listable
      BY <1>1, TeardownAssumption DEF RecordShape
    <3>2. PICK k \in record.late \ listed :
             /\ listed' = listed \cup {k}
             /\ remains' = [remains EXCEPT ![k] = "here"]
             /\ parts' = IF k \in Parent THEN [parts EXCEPT ![k] = "here"] ELSE parts
      BY <2>3 DEF StepRecords
    <3>3. record' = record
      BY <1>2
    <3>4. parts' \in [Parent -> Held \ {"stuck"}]
      BY <1>1, <3>2
    <3> QED BY <1>1, <3>1, <3>2, <3>3, <3>4, KindFacts
  <2> QED BY <2>1, <2>2, <2>3
<1>5. TeardownTypeOK'
  BY <1>3, <1>4 DEF TeardownTypeOK, Local, World, Flags
<1> QED BY <1>2, <1>3, <1>4, <1>5 DEF ShapeInv, teardownHistory

LEMMA ShapeStep == ShapeInv /\ [TeardownNext]_teardownVars => ShapeInv'
<1> SUFFICES ASSUME ShapeInv, [TeardownNext]_teardownVars PROVE ShapeInv'
  OBVIOUS
<1>1. CASE UNCHANGED teardownVars
  BY <1>1 DEF ShapeInv, TeardownTypeOK, HandInv, teardownVars, worldVars, runVars,
              teardownHistory
<1>2. ASSUME NEW t \in Teardown, AskDelete(t) \/ Work(t) \/ KillTeardown(t)
      PROVE  ShapeInv'
  <2>1. Local' /\ HandInv' /\ World' /\ Flags'
    BY <1>2, LocalStep, WorldStep, FlagsStep
  <2>2. TeardownTypeOK'
    BY <2>1 DEF TeardownTypeOK, Local, World, Flags
  <2> QED BY <2>1, <2>2 DEF ShapeInv
<1>3. CASE TeardownNext
  BY <1>2, <1>3, BesideStep DEF TeardownNext
<1> QED BY <1>1, <1>3

\* The record, what AWS has and every teardown's progress stay in their ranges.
THEOREM TeardownTyped == TeardownSpec => []TeardownTypeOK
<1>1. ShapeInv => TeardownTypeOK
  BY DEF ShapeInv
<1> QED BY <1>1, ShapeInit, ShapeStep, PTL DEF TeardownSpec

-----------------------------------------------------------------------------
(* Success.  What a teardown has behind it is settled and stays settled:   *)
(* it is gone, or of a kind whose refusal nobody notices, or the knowledge *)
(* base nobody waited for, or among the failures.                          *)

Accepted(k) ==
  \/ remains[k] = "gone" \/ k \in Silent
  \/ k = "knowledge_base" /\ hurried
Settled(t, k) == Accepted(k) \/ k \in failures[t]

\* A row not settled is still to be taken or in hand.
Pending(t, k) == k \in left[t] \/ (k = row[t] /\ stage[t] \in InHand)

RowsInv(t) ==
  /\ rows[t] \subseteq listed
  /\ stage[t] = "await" => row[t] = "knowledge_base"
  /\ stage[t] \in {"rows"} \cup InHand \cup Behind =>
       \A k \in rows[t] : Settled(t, k) \/ Pending(t, k)
  /\ stage[t] \in Behind => left[t] = {} \/ rows[t] = {}
  /\ outcome[t] # "none" => stage[t] = "done"
  /\ outcome[t] = "ok" => \A k \in rows[t] : Accepted(k)

SuccessInv == ShapeInv /\ \A t \in Teardown : RowsInv(t)

LEMMA SuccessInit == TeardownInit => SuccessInv
<1> SUFFICES ASSUME TeardownInit PROVE \A t \in Teardown : RowsInv(t)
  BY ShapeInit DEF SuccessInv
<1> QED BY DEF TeardownInit, RowsInv, InHand, Behind

\* The world moves on, and no settled row comes back.
LEMMA StaysAccepted ==
  ASSUME listed \subseteq Listable, hurried => hurried',
         \A k \in listed : remains[k] = "gone" => remains'[k] = "gone",
         NEW k \in listed, Accepted(k)
  PROVE  Accepted(k)'
  BY DEF Accepted

\* A teardown that does nothing in this step keeps what it has.
LEMMA OtherRows ==
  ASSUME SuccessInv, NEW t \in Teardown,
         hurried => hurried', listed \subseteq listed',
         \A k \in listed : remains[k] = "gone" => remains'[k] = "gone",
         stage'[t] = stage[t], row'[t] = row[t], rows'[t] = rows[t], left'[t] = left[t],
         failures'[t] = failures[t], outcome'[t] = outcome[t]
  PROVE  RowsInv(t)'
<1>1. RowsInv(t) /\ listed \subseteq Listable
  BY DEF SuccessInv, ShapeInv, TeardownTypeOK
<1>2. \A k \in rows[t] : Accepted(k) => Accepted(k)'
  BY <1>1, StaysAccepted DEF RowsInv
<1> QED BY <1>1, <1>2 DEF RowsInv, Settled, Pending

\* A teardown changes nothing of another.
LEMMA OwnStep ==
  ASSUME ShapeInv, NEW t \in Teardown, AskDelete(t) \/ Work(t) \/ KillTeardown(t),
         NEW u \in Teardown \ {t}
  PROVE  /\ stage'[u] = stage[u] /\ row'[u] = row[u] /\ rows'[u] = rows[u]
         /\ left'[u] = left[u] /\ failures'[u] = failures[u] /\ outcome'[u] = outcome[u]
<1> USE DEF ShapeInv, TeardownTypeOK
<1>1. failures'[u] = failures[u]
  BY FailuresStep DEF Fail
<1>2. stage'[u] = stage[u] /\ row'[u] = row[u]
  BY DEF GoOn, AskDelete, Work, KillTeardown, InvokeSelf, BeginAsync, LookUp, TakeRow,
     RowsDone, CleanParts, PartsRemain, GoneAlready, DeleteRow, RowFails, DeleteBase,
     AwaitBase, DeleteTool, DeleteBaseAgain, DeleteBaseRole, DestroyMain, ReleaseName,
     Report, runVars
<1>3. rows'[u] = rows[u] /\ left'[u] = left[u] /\ outcome'[u] = outcome[u]
  BY DEF AskDelete, Work, KillTeardown, InvokeSelf, BeginAsync, LookUp, TakeRow,
     RowsDone, CleanParts, PartsRemain, GoneAlready, DeleteRow, RowFails, DeleteBase,
     AwaitBase, DeleteTool, DeleteBaseAgain, DeleteBaseRole, DestroyMain, ReleaseName,
     Report, runVars
<1> QED BY <1>1, <1>2, <1>3

\* The rows a teardown has in progress stay, but for a lookup and the end.
LEMMA RowsKept ==
  ASSUME SuccessInv, NEW t \in Teardown, Work(t), ~LookUp(t), ~Report(t)
  PROVE  /\ rows' = rows /\ outcome'[t] = "none" /\ outcome[t] = "none"
         /\ rows[t] \subseteq listed /\ listed' = listed
         /\ \A k \in rows[t] : Settled(t, k) => Settled(t, k)'
<1>1. RowsInv(t) /\ stage[t] # "done" /\ ShapeInv
  BY DEF SuccessInv, Work, InvokeSelf, BeginAsync, TakeRow, RowsDone, CleanParts,
     PartsRemain, GoneAlready, DeleteRow, RowFails, DeleteBase, AwaitBase, DeleteTool,
     DeleteBaseAgain, DeleteBaseRole, DestroyMain, ReleaseName
<1>2. rows' = rows /\ outcome' = outcome
  BY DEF Work, InvokeSelf, BeginAsync, TakeRow, RowsDone, CleanParts,
     PartsRemain, GoneAlready, DeleteRow, RowFails, DeleteBase, AwaitBase, DeleteTool,
     DeleteBaseAgain, DeleteBaseRole, DestroyMain, ReleaseName, runVars
<1>3. /\ listed' = listed /\ (hurried => hurried')
      /\ \A k \in Resource : remains[k] = "gone" => remains'[k] = "gone"
  BY <1>1, WorldStep, FlagsStep
<1>4. listed \subseteq Listable /\ listed \subseteq Resource
  BY <1>1, KindFacts DEF ShapeInv, TeardownTypeOK
<1>5. failures[t] \subseteq failures'[t]
  BY <1>1, FailuresStep DEF Fail, ShapeInv, TeardownTypeOK
<1>6. \A k \in listed : Accepted(k) => Accepted(k)'
  BY <1>3, <1>4, StaysAccepted
<1> QED BY <1>1, <1>2, <1>3, <1>5, <1>6 DEF RowsInv, Settled

\* A step that takes no row out of hand leaves a settled or pending row so.
LEMMA WorkRows ==
  ASSUME SuccessInv, NEW t \in Teardown, Work(t), ~LookUp(t), ~Report(t)
  PROVE  RowsInv(t)'
<1>1. /\ RowsInv(t) /\ ShapeInv /\ rows' = rows /\ listed' = listed
      /\ outcome'[t] = "none" /\ rows[t] \subseteq listed /\ rows[t] \subseteq Listable
      /\ \A k \in rows[t] : Settled(t, k) => Settled(t, k)'
  BY RowsKept DEF SuccessInv, ShapeInv, TeardownTypeOK
<1>2. /\ stage \in [Teardown -> TeardownStage] /\ left \in [Teardown -> SUBSET Listable]
      /\ row \in [Teardown -> Listable \cup {NoKind}]
      /\ failures \in [Teardown -> SUBSET Listable]
      /\ remains \in [Resource -> Held]
  BY <1>1 DEF ShapeInv, TeardownTypeOK
<1> USE DEF GoOn, InHand, Behind
<1>3. ASSUME stage'[t] = "await" => row'[t] = "knowledge_base",
             stage'[t] \in {"rows"} \cup InHand \cup Behind =>
               \A k \in rows[t] : Settled(t, k)' \/ Pending(t, k)',
             stage'[t] \in Behind => left'[t] = {} \/ rows[t] = {}
      PROVE  RowsInv(t)'
  BY <1>1, <1>3 DEF RowsInv
<1>4. CASE InvokeSelf(t) \/ BeginAsync(t)
  BY <1>1, <1>2, <1>3, <1>4 DEF InvokeSelf, BeginAsync
<1>5. CASE TakeRow(t)
  <2>1. PICK k \in left[t] : /\ left' = [left EXCEPT ![t] = @ \ {k}]
                             /\ row' = [row EXCEPT ![t] = k]
                             /\ stage' = [stage EXCEPT ![t] = IF k \in Parent THEN "clean"
                                                              ELSE "delete"]
    BY <1>5 DEF TakeRow
  <2>2. stage[t] = "rows" /\ stage'[t] \in {"clean", "delete"}
        /\ row'[t] = k /\ left'[t] = left[t] \ {k}
    BY <1>2, <1>5, <2>1 DEF TakeRow
  <2>3. \A j \in rows[t] : Settled(t, j) \/ j \in left[t]
    BY <1>1, <2>2 DEF RowsInv, Pending
  <2> QED BY <1>1, <1>3, <2>2, <2>3 DEF Pending
<1>6. CASE RowsDone(t)
  <2>1. stage[t] = "rows" /\ left[t] = {} /\ left' = left /\ stage'[t] = "tool"
    BY <1>2, <1>6 DEF RowsDone
  <2>2. \A j \in rows[t] : Settled(t, j)
    BY <1>1, <2>1 DEF RowsInv, Pending
  <2> QED BY <1>1, <1>3, <2>1, <2>2
<1>7. CASE CleanParts(t)
  <2>1. stage[t] = "clean" /\ stage'[t] = "delete" /\ left' = left /\ row' = row
    BY <1>2, <1>7 DEF CleanParts, runVars
  <2>2. \A j \in rows[t] : Settled(t, j) \/ Pending(t, j)
    BY <1>1, <2>1 DEF RowsInv
  <2> QED BY <1>1, <1>3, <2>1, <2>2 DEF Pending
\* The row in hand is settled when the teardown goes back to the rows.
<1>8. ASSUME stage[t] \in InHand, stage'[t] = "rows", left' = left,
             \A k \in rows[t] : k = row[t] => Settled(t, k)'
      PROVE  RowsInv(t)'
  <2>1. \A j \in rows[t] : Settled(t, j) \/ Pending(t, j)
    BY <1>1, <1>8 DEF RowsInv
  <2>2. \A j \in rows[t] : Settled(t, j)' \/ Pending(t, j)'
    BY <1>1, <1>8, <2>1 DEF Pending
  <2> QED BY <1>3, <1>8, <2>2
<1>9. CASE PartsRemain(t)
  BY <1>2, <1>8, <1>9 DEF PartsRemain, Fail, Settled
<1>10. CASE GoneAlready(t)
  <2>1. remains[row[t]] = "gone" /\ remains' = remains
    BY <1>10 DEF GoneAlready, worldVars
  <2> QED BY <1>2, <1>8, <1>10, <2>1 DEF GoneAlready, Settled, Accepted
<1>11. CASE RowFails(t)
  <2>1. \/ row[t] \in Silent
        \/ failures' = [failures EXCEPT ![t] = @ \cup {row[t]}]
    BY <1>11 DEF RowFails, Fail
  <2>2. row' = row
    BY <1>11 DEF RowFails
  <2> QED BY <1>2, <1>8, <1>11, <2>1, <2>2 DEF RowFails, Settled, Accepted
<1>12. CASE DeleteRow(t)
  <2>1. row[t] \in Listable
    BY <1>1, <1>12 DEF DeleteRow, ShapeInv, HandInv
  <2>2. remains'[row[t]] = "gone" /\ row' = row
    BY <1>12, <2>1, KindFacts DEF DeleteRow, Destroyed, runVars
  <2> QED BY <1>2, <1>8, <1>12, <2>2 DEF DeleteRow, Settled, Accepted, runVars
<1>13. CASE DeleteBase(t)
  <2>1. row[t] = "knowledge_base" /\ stage[t] = "delete" /\ row' = row /\ left' = left
    BY <1>13 DEF DeleteBase
  <2>2. CASE stage' = [stage EXCEPT ![t] = "await"]
    <3>1. stage'[t] = "await" /\ \A j \in rows[t] : Settled(t, j) \/ Pending(t, j)
      BY <1>1, <1>2, <2>1, <2>2 DEF RowsInv
    <3>2. \A j \in rows[t] : Settled(t, j)' \/ Pending(t, j)'
      BY <1>1, <2>1, <3>1 DEF Pending
    <3> QED BY <1>3, <2>1, <3>1, <3>2
  <2>3. CASE /\ failures' = [failures EXCEPT ![t] = @ \cup {"knowledge_base"}]
             /\ stage' = [stage EXCEPT ![t] = "rows"]
    BY <1>2, <1>8, <2>1, <2>3 DEF Settled
  <2> QED BY <1>13, <2>2, <2>3 DEF DeleteBase, Fail
<1>14. CASE AwaitBase(t)
  <2>1. /\ stage[t] = "await" /\ row[t] = "knowledge_base" /\ row' = row /\ left' = left
        /\ stage'[t] = "rows" /\ remains' = remains
        /\ remains["knowledge_base"] = "gone" \/ hurried'
    BY <1>1, <1>2, <1>14 DEF AwaitBase, RowsInv, worldVars, runVars
  <2> QED BY <1>8, <2>1 DEF Settled, Accepted
\* What follows the rows takes nothing of them up again.
<1>15. ASSUME stage[t] \in Behind, stage'[t] \in Behind, left' = left
       PROVE  RowsInv(t)'
  <2>1. left[t] = {} \/ rows[t] = {}
    BY <1>1, <1>15 DEF RowsInv
  <2>2. \A j \in rows[t] : Settled(t, j)
    BY <1>1, <1>15, <2>1 DEF RowsInv, Pending
  <2> QED BY <1>1, <1>3, <1>15, <2>1, <2>2
<1>16. CASE DeleteTool(t) \/ ReleaseName(t)
  BY <1>2, <1>15, <1>16 DEF DeleteTool, ReleaseName, runVars
<1>17. CASE DeleteBaseAgain(t) \/ DeleteBaseRole(t) \/ DestroyMain(t)
  BY <1>2, <1>15, <1>17 DEF DeleteBaseAgain, DeleteBaseRole, DestroyMain
<1> QED BY <1>4, <1>5, <1>6, <1>7, <1>9, <1>10, <1>11, <1>12, <1>13, <1>14, <1>16,
           <1>17 DEF Work

LEMMA OwnRows ==
  ASSUME SuccessInv, NEW t \in Teardown, AskDelete(t) \/ Work(t) \/ KillTeardown(t)
  PROVE  RowsInv(t)'
<1> USE DEF GoOn, InHand, Behind
<1>1. /\ RowsInv(t) /\ ShapeInv
      /\ stage \in [Teardown -> TeardownStage] /\ row \in [Teardown -> Listable \cup {NoKind}]
      /\ rows \in [Teardown -> SUBSET Listable] /\ left \in [Teardown -> SUBSET Listable]
      /\ outcome \in [Teardown -> {"none", "ok", "failed"}]
  BY DEF SuccessInv, ShapeInv, TeardownTypeOK
<1>2. CASE AskDelete(t)
  BY <1>1, <1>2 DEF AskDelete, RowsInv, worldVars, runVars
<1>3. CASE KillTeardown(t)
  BY <1>1, <1>3 DEF KillTeardown, RowsInv, worldVars, AtRest
<1>4. CASE LookUp(t)
  <2>1. listed' = listed /\ outcome' = outcome /\ outcome[t] = "none"
    BY <1>1, <1>4 DEF LookUp, RowsInv, worldVars
  <2>2. \/ /\ rows'[t] = listed /\ stage'[t] = "rows"
           /\ listed # {} => left'[t] = listed
        \/ rows'[t] = {} /\ stage'[t] = "main"
    BY <1>1, <1>4 DEF LookUp
  <2> QED BY <2>1, <2>2 DEF RowsInv, Pending
<1>5. CASE Report(t)
  <2>1. /\ stage[t] = "report" /\ stage'[t] = "done"
        /\ rows' = rows /\ failures' = failures /\ listed' = listed /\ remains' = remains
        /\ hurried' = hurried
        /\ outcome'[t] = "ok" => failures[t] = {}
    BY <1>1, <1>5 DEF Report, worldVars
  <2>2. left[t] = {} \/ rows[t] = {}
    BY <1>1, <2>1 DEF RowsInv
  <2>3. \A k \in rows[t] : Settled(t, k)
    BY <1>1, <2>1, <2>2 DEF RowsInv, Pending
  <2> QED BY <1>1, <2>1, <2>3 DEF RowsInv, Settled, Accepted
<1> QED BY <1>2, <1>3, <1>4, <1>5, WorkRows

LEMMA SuccessStep == SuccessInv /\ [TeardownNext]_teardownVars => SuccessInv'
<1> SUFFICES ASSUME SuccessInv, [TeardownNext]_teardownVars
             PROVE  \A u \in Teardown : RowsInv(u)'
  BY ShapeStep DEF SuccessInv
<1> TAKE u \in Teardown
<1>1. ShapeInv /\ RowsInv(u)
  BY DEF SuccessInv
<1>2. CASE UNCHANGED teardownVars
  BY <1>1, <1>2 DEF RowsInv, Settled, Accepted, Pending, teardownVars, worldVars, runVars,
                    teardownHistory
<1>3. CASE PartsGone \/ BaseGone \/ StepRecords
  <2>1. /\ UNCHANGED <<record, stage, runVars, hurried, warned>> /\ listed \subseteq listed'
        /\ \A k \in listed : remains[k] = "gone" => remains'[k] = "gone"
    BY <1>1, <1>3, BesideStep
  <2> QED BY <2>1, OtherRows DEF runVars
<1>4. ASSUME NEW t \in Teardown, AskDelete(t) \/ Work(t) \/ KillTeardown(t)
      PROVE  RowsInv(u)'
  <2>1. CASE u = t
    BY <1>4, <2>1, OwnRows
  <2>2. CASE u # t
    <3>1. /\ stage'[u] = stage[u] /\ row'[u] = row[u] /\ rows'[u] = rows[u]
          /\ left'[u] = left[u] /\ failures'[u] = failures[u] /\ outcome'[u] = outcome[u]
      BY <1>1, <1>4, <2>2, OwnStep
    <3>2. listed' = listed /\ (hurried => hurried')
          /\ \A k \in Resource : remains[k] = "gone" => remains'[k] = "gone"
      BY <1>1, <1>4, WorldStep, FlagsStep
    <3>3. listed \subseteq Resource
      BY <1>1, KindFacts DEF ShapeInv, TeardownTypeOK
    <3> QED BY <3>1, <3>2, <3>3, OtherRows
  <2> QED BY <2>1, <2>2
<1> QED BY <1>2, <1>3, <1>4 DEF TeardownNext

\* A success leaves nothing of the manifest it read but what the code does not
\* notice: a refusal it swallows, a knowledge base it did not wait for.
THEOREM SuccessWhole == TeardownSpec => []SuccessIsWhole
<1>1. SuccessInv => SuccessIsWhole
  BY DEF SuccessInv, RowsInv, Accepted, SuccessIsWhole
<1> QED BY <1>1, SuccessInit, SuccessStep, PTL DEF TeardownSpec

-----------------------------------------------------------------------------
(* The stranded knowledge base.  A store or role goes only in its turn,    *)
(* when the knowledge base is settled, or by the last step, that does not  *)
(* wait.                                                                   *)

\* A record that lists what a knowledge base leans on lists the knowledge base.
Leaning(r) == BackingKinds \cap (r.manifest \cup r.legacy) # {}
BaseListed == \A r \in Records : Leaning(r) => "knowledge_base" \in r.manifest

Told == hurried \/ "knowledge_base" \in warned

InOrder(t) ==
  /\ failures[t] \subseteq warned
  /\ Leaning(record) =>
       /\ stage[t] \in {"rows"} \cup InHand => "knowledge_base" \in rows[t]
       /\ stage[t] \in InHand /\ row[t] \in BackingKinds => "knowledge_base" \notin left[t]

BaseInv ==
  /\ record.manifest \subseteq listed
  /\ remains["knowledge_base"] # "gone" /\ ~Backed => Told
  /\ StrandedIsTold

StrandInv == SuccessInv /\ BaseInv /\ \A t \in Teardown : InOrder(t)

LEMMA StrandInit == TeardownInit => StrandInv
<1> SUFFICES ASSUME TeardownInit PROVE BaseInv /\ \A t \in Teardown : InOrder(t)
  BY SuccessInit DEF StrandInv
<1>1. record.manifest \subseteq listed
  BY DEF TeardownInit
<1>2. \A k \in Resource : remains[k] \in {"here", "gone"}
  BY DEF TeardownInit
<1>3. Backed
  BY KindFacts DEF TeardownInit, Backed
<1>4. StrandedIsTold
  BY <1>2, KindFacts DEF StrandedIsTold
<1>5. \A t \in Teardown : InOrder(t)
  BY DEF TeardownInit, InOrder, InHand
<1> QED BY <1>1, <1>3, <1>4, <1>5 DEF BaseInv

\* What a teardown deletes, and when it deletes what a knowledge base leans on.
LEMMA RemainsStep ==
  ASSUME ShapeInv, NEW t \in Teardown, AskDelete(t) \/ Work(t) \/ KillTeardown(t)
  PROVE  /\ remains'["knowledge_base"] = "stuck" => remains["knowledge_base"] = "stuck"
         /\ \A k \in BackingKinds :
              \/ remains'[k] = remains[k]
              \/ DeleteRow(t) /\ row[t] = k
              \/ DeleteBaseRole(t) /\ (remains["knowledge_base"] # "gone" => hurried')
<1>1. /\ remains \in [Resource -> Held] /\ HandInv /\ hurried \in BOOLEAN
      /\ BackingKinds \subseteq Resource /\ "knowledge_base" \in Resource
  BY KindFacts DEF ShapeInv, TeardownTypeOK
<1>2. \A j : "knowledge_base" \notin BackingKinds /\ WithIt(j) \cap BackingKinds \subseteq {j}
  BY DEF WithIt, BackingKinds
<1>3. CASE DeleteRow(t)
  <2>1. remains' = Destroyed(WithIt(row[t]))
    BY <1>3 DEF DeleteRow
  <2> QED BY <1>1, <1>2, <1>3, <2>1 DEF Destroyed
<1>4. CASE DestroyMain(t)
  <2>1. remains' = remains \/ \E k \in {"runtime", "harness"} : remains' = Destroyed(WithIt(k))
    BY <1>4 DEF DestroyMain, MainKind
  <2>2. "runtime" \notin BackingKinds /\ "harness" \notin BackingKinds
    BY DEF BackingKinds
  <2> QED BY <1>1, <1>2, <2>1, <2>2 DEF Destroyed
<1>5. CASE DeleteBase(t)
  BY <1>1, <1>2, <1>5 DEF DeleteBase
<1>6. CASE DeleteTool(t)
  <2>1. "kb_tool" \notin BackingKinds /\ "kb_tool" # "knowledge_base"
    BY DEF BackingKinds
  <2> QED BY <1>1, <1>6, <2>1 DEF DeleteTool
<1>7. CASE DeleteBaseAgain(t)
  BY <1>1, <1>2, <1>7 DEF DeleteBaseAgain
<1>8. CASE DeleteBaseRole(t)
  BY <1>1, <1>8 DEF DeleteBaseRole
<1>9. CASE ~(DeleteRow(t) \/ DestroyMain(t) \/ DeleteBase(t) \/ DeleteTool(t)
               \/ DeleteBaseAgain(t) \/ DeleteBaseRole(t))
  <2>1. remains' = remains
    BY <1>9 DEF AskDelete, Work, KillTeardown, InvokeSelf, BeginAsync, LookUp, TakeRow,
     RowsDone, CleanParts, PartsRemain, GoneAlready, RowFails, AwaitBase, ReleaseName,
     Report, worldVars
  <2> QED BY <2>1
<1> QED BY <1>3, <1>4, <1>5, <1>6, <1>7, <1>8, <1>9

\* A row in hand that a knowledge base leans on has it settled before.
LEMMA TurnOfBacking ==
  ASSUME StrandInv, NEW t \in Teardown, DeleteRow(t), row[t] \in BackingKinds,
         Leaning(record)
  PROVE  remains["knowledge_base"] = "gone" \/ Told
<1>1. RowsInv(t) /\ InOrder(t) /\ stage[t] \in InHand
  BY DEF StrandInv, SuccessInv, DeleteRow, InHand
<1>2. "knowledge_base" \in rows[t] /\ "knowledge_base" \notin left[t]
  BY <1>1 DEF InOrder
<1>3. row[t] # "knowledge_base"
  BY DEF DeleteRow
<1>4. Settled(t, "knowledge_base")
  BY <1>1, <1>2, <1>3 DEF RowsInv, Pending
<1> QED BY <1>1, <1>4, KindFacts DEF Settled, Accepted, InOrder, Told

LEMMA BaseStep ==
  ASSUME StrandInv, NEW t \in Teardown, AskDelete(t) \/ Work(t) \/ KillTeardown(t)
  PROVE  BaseInv'
<1>1. ShapeInv /\ BaseInv /\ remains \in [Resource -> Held]
  BY DEF StrandInv, SuccessInv, ShapeInv, TeardownTypeOK
<1>2. /\ UNCHANGED <<record, listed>> /\ (Told => Told')
      /\ remains'["knowledge_base"] # "gone" => remains["knowledge_base"] # "gone"
  BY <1>1, WorldStep, FlagsStep, FailuresStep, KindFacts DEF Told, Fail
<1>3. StrandedIsTold'
  BY <1>1, <1>2, RemainsStep DEF BaseInv, StrandedIsTold, Told
<1>4. ASSUME remains'["knowledge_base"] # "gone", ~Backed' PROVE Told'
  <2>1. PICK k \in BackingKinds \cap (record.manifest \cup record.legacy) :
          remains'[k] # "here"
    BY <1>2, <1>4 DEF Backed
  <2>2. CASE remains[k] # "here"
    BY <1>1, <1>2, <1>4, <2>1, <2>2 DEF BaseInv, Backed
  <2>3. CASE DeleteRow(t) /\ row[t] = k
    BY <1>2, <1>4, <2>1, <2>3, TurnOfBacking DEF Leaning
  <2>4. CASE remains["knowledge_base"] # "gone" => hurried'
    BY <1>2, <1>4, <2>4 DEF Told
  <2> QED BY <1>1, <2>1, <2>2, <2>3, <2>4, RemainsStep
<1> QED BY <1>1, <1>2, <1>3, <1>4 DEF BaseInv

LEMMA OrderStep ==
  ASSUME BaseListed, StrandInv, NEW t \in Teardown,
         AskDelete(t) \/ Work(t) \/ KillTeardown(t), NEW u \in Teardown
  PROVE  InOrder(u)'
<1> USE DEF GoOn, InHand
<1>1. /\ ShapeInv /\ BaseInv /\ InOrder(u) /\ InOrder(t) /\ RowsInv(t)
      /\ stage \in [Teardown -> TeardownStage] /\ row \in [Teardown -> Listable \cup {NoKind}]
      /\ rows \in [Teardown -> SUBSET Listable] /\ left \in [Teardown -> SUBSET Listable]
      /\ failures \in [Teardown -> SUBSET Listable]
  BY DEF StrandInv, SuccessInv, ShapeInv, TeardownTypeOK
<1>2. failures'[u] \subseteq warned'
  BY <1>1, FailuresStep DEF InOrder, Fail
<1>3. record' = record /\ listed' = listed
  BY <1>1, WorldStep
<1>4. CASE u # t
  <2>1. /\ stage'[u] = stage[u] /\ row'[u] = row[u] /\ rows'[u] = rows[u]
        /\ left'[u] = left[u]
    BY <1>1, <1>4, OwnStep
  <2> QED BY <1>1, <1>2, <1>3, <2>1 DEF InOrder
<1>5. ASSUME u = t, Leaning(record)
      PROVE  /\ stage'[t] \in {"rows"} \cup InHand => "knowledge_base" \in rows'[t]
             /\ stage'[t] \in InHand /\ row'[t] \in BackingKinds =>
                  "knowledge_base" \notin left'[t]
  <2>1. "knowledge_base" \in listed
    BY <1>1, <1>5 DEF BaseListed, BaseInv, ShapeInv, TeardownTypeOK
  <2>2. CASE LookUp(t)
    BY <1>1, <2>1, <2>2 DEF LookUp
  <2>3. CASE TakeRow(t)
    <3>1. PICK k \in left[t] :
            /\ \A j \in left[t] : BandFor(t, k) <= BandFor(t, j)
            /\ left' = [left EXCEPT ![t] = @ \ {k}]
            /\ row' = [row EXCEPT ![t] = k]
      BY <2>3 DEF TakeRow
    <3>2. "knowledge_base" \in rows[t] /\ rows' = rows
      BY <1>1, <1>5, <2>3 DEF TakeRow, InOrder
    <3>3. BandFor(t, "knowledge_base") = 0
      BY <3>2 DEF BandFor, ByManifest, Band
    <3>4. k \in BackingKinds => BandFor(t, k) \in {8, 9}
      BY <3>2 DEF BandFor, ByManifest, Band, BackingKinds
    <3>5. k \in BackingKinds => "knowledge_base" \notin left[t]
      BY <3>1, <3>3, <3>4
    <3> QED BY <1>1, <3>1, <3>2, <3>5
  <2>4. CASE KillTeardown(t) \/ AskDelete(t)
    BY <1>1, <2>4 DEF KillTeardown, AskDelete
  <2>5. CASE InvokeSelf(t) \/ BeginAsync(t) \/ RowsDone(t) \/ Report(t) \/ DeleteTool(t)
               \/ ReleaseName(t) \/ DeleteBaseAgain(t) \/ DeleteBaseRole(t) \/ DestroyMain(t)
    <3>1. stage'[t] \notin {"rows"} \cup InHand
      BY <1>1, <2>5 DEF InvokeSelf, BeginAsync, RowsDone, Report, DeleteTool, ReleaseName,
         DeleteBaseAgain, DeleteBaseRole, DestroyMain
    <3> QED BY <3>1
  <2>6. CASE CleanParts(t) \/ PartsRemain(t) \/ GoneAlready(t) \/ DeleteRow(t)
               \/ RowFails(t) \/ DeleteBase(t) \/ AwaitBase(t)
    <3>1. stage[t] \in InHand /\ rows' = rows /\ row' = row /\ left' = left
      BY <2>6 DEF CleanParts, PartsRemain, GoneAlready, DeleteRow, RowFails, DeleteBase,
         AwaitBase, runVars
    <3> QED BY <1>1, <1>5, <3>1 DEF InOrder
  <2> QED BY <2>2, <2>3, <2>4, <2>5, <2>6 DEF Work
<1> QED BY <1>2, <1>3, <1>4, <1>5 DEF InOrder

\* AWS and the deployment strand no knowledge base that was not told of.
LEMMA StrandBeside ==
  ASSUME BaseListed, StrandInv, PartsGone \/ BaseGone \/ StepRecords
  PROVE  BaseInv' /\ \A u \in Teardown : InOrder(u)'
<1>1. /\ ShapeInv /\ BaseInv /\ remains \in [Resource -> Held] /\ record \in Records
      /\ \A u \in Teardown : InOrder(u)
  BY DEF StrandInv, SuccessInv, ShapeInv, TeardownTypeOK
<1>2. /\ UNCHANGED <<record, stage, runVars, hurried, warned>> /\ listed \subseteq listed'
  BY <1>1, BesideStep
<1>3. \A u \in Teardown : InOrder(u)'
  BY <1>1, <1>2 DEF InOrder, runVars
<1>4. record' = record /\ record'.manifest \subseteq listed' /\ (Told' <=> Told)
  BY <1>1, <1>2 DEF BaseInv, Told
<1>5. ASSUME remains'["knowledge_base"] # "gone" /\ ~Backed' => Told,
             remains'["knowledge_base"] = "stuck" => Told
      PROVE  BaseInv'
  BY <1>4, <1>5 DEF BaseInv, StrandedIsTold, Told
<1>6. CASE PartsGone
  <2>1. remains' = remains
    BY <1>6 DEF PartsGone
  <2> QED BY <1>1, <1>3, <1>4, <1>5, <2>1 DEF BaseInv, StrandedIsTold, Backed, Told
<1>7. CASE BaseGone
  <2>1. /\ remains["knowledge_base"] = "going"
        /\ \A k \in BackingKinds : remains'[k] = remains[k]
        /\ remains'["knowledge_base"] = (IF Backed THEN "gone" ELSE "stuck")
    BY <1>1, <1>7, KindFacts DEF BaseGone, BackingKinds
  <2>2. Backed' <=> Backed
    BY <1>2, <2>1 DEF Backed
  <2> QED BY <1>1, <1>3, <1>5, <2>1, <2>2 DEF BaseInv
<1>8. CASE StepRecords
  <2>1. PICK k \in record.late : remains' = [remains EXCEPT ![k] = "here"]
    BY <1>8 DEF StepRecords
  <2>2. k \notin record.manifest /\ k \notin record.legacy
    BY <1>1, <2>1, TeardownAssumption
  <2>3. BackingKinds \cap (record.manifest \cup record.legacy) \subseteq Resource
    BY KindFacts
  <2>4. Backed' <=> Backed
    BY <1>1, <1>2, <2>1, <2>2, <2>3 DEF Backed
  <2>5. Leaning(record) => remains'["knowledge_base"] = remains["knowledge_base"]
    BY <1>1, <2>1, <2>2 DEF BaseListed
  <2>6. ~Leaning(record) => Backed
    BY DEF Leaning, Backed
  <2>7. remains'["knowledge_base"] = "stuck" => remains["knowledge_base"] = "stuck"
    BY <1>1, <2>1, KindFacts
  <2> QED BY <1>1, <1>3, <1>5, <2>4, <2>5, <2>6, <2>7 DEF BaseInv, StrandedIsTold, Told
<1> QED BY <1>3, <1>6, <1>7, <1>8

LEMMA StrandStep ==
  ASSUME BaseListed
  PROVE  StrandInv /\ [TeardownNext]_teardownVars => StrandInv'
<1> SUFFICES ASSUME StrandInv, [TeardownNext]_teardownVars
             PROVE  BaseInv' /\ \A u \in Teardown : InOrder(u)'
  BY SuccessStep DEF StrandInv
<1>1. CASE UNCHANGED teardownVars
  BY <1>1 DEF StrandInv, BaseInv, InOrder, StrandedIsTold, Told, Backed,
              teardownVars, worldVars, runVars, teardownHistory
<1>2. ASSUME NEW t \in Teardown, AskDelete(t) \/ Work(t) \/ KillTeardown(t)
      PROVE  BaseInv' /\ \A u \in Teardown : InOrder(u)'
  BY <1>2, BaseStep, OrderStep
<1> QED BY <1>1, <1>2, StrandBeside DEF TeardownNext

\* Where every record that lists a store or role of a knowledge base lists the
\* knowledge base, none is stranded untold, however teardowns, their retries,
\* the deployment and the faults fall.
THEOREM StrandedTold ==
  ASSUME BaseListed
  PROVE  TeardownSpec => []StrandedIsTold
<1>1. StrandInv => StrandedIsTold
  BY DEF StrandInv, BaseInv
<1> QED BY <1>1, StrandInit, StrandStep, PTL DEF TeardownSpec
-----------------------------------------------------------------------------
(* A repeated teardown.  One that meets nothing runs alone, so what it has *)
(* deleted does not come back, and what it waited for is gone.             *)

\* A record that gets a manifest names its knowledge base there.
FlowListed ==
  \A r \in Records : r.flow /\ "knowledge_base" \in r.legacy =>
    "knowledge_base" \in r.manifest \/ r.manifest \cup r.late = {}

\* Two teardowns that run at once have both met one another.
Alone ==
  \A t, u \in Teardown : t # u /\ Active(t) /\ Active(u) =>
    t \in disturbed /\ u \in disturbed

\* The manifest only takes up what the deployment records.
ListedInv ==
  /\ listed \subseteq record.manifest \cup record.late
  /\ record.flow /\ record.manifest \cup record.late # {} /\ "knowledge_base" \notin listed
       => remains["knowledge_base"] = "gone"

\* A teardown by manifest that met nothing has failed nowhere: the row in hand
\* has no parts in the way, and the knowledge base is not still going when
\* the teardown comes to delete it again.
Clear(t) ==
  t \notin disturbed /\ rows[t] # {} =>
    /\ failures[t] = {} /\ outcome[t] # "failed"
    /\ left[t] \subseteq rows[t]
    /\ stage[t] \in InHand => row[t] \in rows[t]
    /\ stage[t] = "delete" /\ row[t] \in Parent => parts[row[t]] # "here"
    /\ stage[t] = "base" => record.flow
    /\ record.flow /\ stage[t] \in {"rows", "tool", "base"} \cup InHand =>
         remains["knowledge_base"] # "going" \/ Pending(t, "knowledge_base")

RepeatInv == SuccessInv /\ Alone /\ ListedInv /\ \A t \in Teardown : Clear(t)

LEMMA RepeatInit ==
  ASSUME FlowListed PROVE TeardownInit => RepeatInv
<1> SUFFICES ASSUME TeardownInit PROVE Alone /\ ListedInv /\ \A t \in Teardown : Clear(t)
  BY SuccessInit DEF RepeatInv
<1>1. Alone
  BY DEF TeardownInit, Alone, Active, AtRest
<1>2. record \in RecordShape /\ record \in Records
  BY TeardownAssumption DEF TeardownInit
<1>3. "knowledge_base" \notin record.unlisted /\ "knowledge_base" \in Resource
  BY <1>2, KindFacts DEF RecordShape
<1>4. ListedInv
  BY <1>2, <1>3 DEF TeardownInit, ListedInv, FlowListed
<1>5. \A t \in Teardown : Clear(t)
  BY DEF TeardownInit, Clear
<1> QED BY <1>1, <1>4, <1>5

\* Who has met something has met it, and who is at rest only asks.
LEMMA MetStays ==
  ASSUME NEW t \in Teardown, AskDelete(t) \/ Work(t) \/ KillTeardown(t)
  PROVE  /\ disturbed \subseteq disturbed'
         /\ Active(t) \/ AskDelete(t)
<1>1. disturbed \subseteq disturbed'
  BY DEF Smooth, Met, AskDelete, Work, KillTeardown, InvokeSelf, BeginAsync, LookUp,
     TakeRow, RowsDone, CleanParts, PartsRemain, GoneAlready, DeleteRow, RowFails,
     DeleteBase, AwaitBase, DeleteTool, DeleteBaseAgain, DeleteBaseRole, DestroyMain,
     ReleaseName, Report, teardownHistory
<1>2. Active(t) \/ AskDelete(t)
  BY DEF Active, AtRest, Work, KillTeardown, InvokeSelf, BeginAsync, LookUp,
     TakeRow, RowsDone, CleanParts, PartsRemain, GoneAlready, DeleteRow, RowFails,
     DeleteBase, AwaitBase, DeleteTool, DeleteBaseAgain, DeleteBaseRole, DestroyMain,
     ReleaseName, Report
<1> QED BY <1>1, <1>2

LEMMA AloneStep ==
  ASSUME RepeatInv, NEW t \in Teardown, AskDelete(t) \/ Work(t) \/ KillTeardown(t)
  PROVE  Alone'
<1> SUFFICES ASSUME NEW a \in Teardown, NEW b \in Teardown, a # b, Active(a)', Active(b)'
             PROVE  a \in disturbed'
  BY DEF Alone
<1>1. ShapeInv /\ Alone
  BY DEF RepeatInv, SuccessInv
<1>2. \A u \in Teardown \ {t} : Active(u)' <=> Active(u)
  BY <1>1, OwnStep DEF Active
<1>3. CASE Active(t)
  BY <1>1, <1>2, <1>3, MetStays DEF Alone
<1>4. CASE AskDelete(t)
  <2>1. \A u \in Teardown : Active(u) => u \in disturbed' /\ t \in disturbed'
    BY <1>4 DEF AskDelete
  <2> QED BY <1>2, <2>1
<1> QED BY <1>3, <1>4, MetStays

LEMMA ListedStep ==
  ASSUME RepeatInv, TeardownNext
  PROVE  ListedInv'
<1>1. ShapeInv /\ ListedInv /\ listed \subseteq Listable /\ remains \in [Resource -> Held]
      /\ "knowledge_base" \in Resource
  BY KindFacts DEF RepeatInv, SuccessInv, ShapeInv, TeardownTypeOK
<1>2. ASSUME NEW t \in Teardown, AskDelete(t) \/ Work(t) \/ KillTeardown(t)
      PROVE  ListedInv'
  BY <1>1, <1>2, WorldStep DEF ListedInv
<1>3. CASE PartsGone
  BY <1>1, <1>3 DEF PartsGone, ListedInv
<1>4. CASE BaseGone
  BY <1>1, <1>4 DEF BaseGone, ListedInv
<1>5. CASE StepRecords
  <2>1. PICK k \in record.late \ listed : /\ listed' = listed \cup {k}
                                          /\ remains' = [remains EXCEPT ![k] = "here"]
                                          /\ record' = record
    BY <1>5 DEF StepRecords
  <2> QED BY <1>1, <2>1 DEF ListedInv
<1> QED BY <1>2, <1>3, <1>4, <1>5 DEF TeardownNext

\* A teardown that runs alone is not in the way of another: of what it does the
\* others, at rest, keep nothing that it touches.
LEMMA ClearOther ==
  ASSUME RepeatInv, NEW t \in Teardown, AskDelete(t) \/ Work(t) \/ KillTeardown(t),
         NEW u \in Teardown \ {t}
  PROVE  Clear(u)'
<1> SUFFICES ASSUME u \notin disturbed' PROVE Clear(u)'
  BY DEF Clear
<1>1. ShapeInv /\ Alone /\ Clear(u) /\ u \notin disturbed
  BY MetStays DEF RepeatInv, SuccessInv
<1>2. ~Active(u)
  <2>1. CASE Active(t)
    BY <1>1, <2>1 DEF Alone
  <2>2. CASE AskDelete(t)
    BY <2>2 DEF AskDelete
  <2> QED BY <2>1, <2>2, MetStays
<1>3. stage[u] \in AtRest /\ stage'[u] = stage[u]
  BY <1>1, <1>2, OwnStep DEF Active
<1>4. stage'[u] \notin {"rows", "tool", "base"} \cup InHand
  BY <1>3 DEF AtRest, InHand
<1>5. stage'[u] \notin InHand /\ stage'[u] # "delete"
  BY <1>4 DEF InHand
<1>6. /\ rows'[u] = rows[u] /\ left'[u] = left[u] /\ failures'[u] = failures[u]
      /\ outcome'[u] = outcome[u]
  BY <1>1, OwnStep
<1> QED BY <1>1, <1>4, <1>5, <1>6 DEF Clear

LEMMA ClearBeside ==
  ASSUME RepeatInv, PartsGone \/ BaseGone \/ StepRecords, NEW u \in Teardown
  PROVE  Clear(u)'
<1>1. /\ ShapeInv /\ Clear(u) /\ RowsInv(u) /\ remains \in [Resource -> Held]
      /\ parts \in [Parent -> Held \ {"stuck"}] /\ "knowledge_base" \in Resource
  BY KindFacts DEF RepeatInv, SuccessInv, ShapeInv, TeardownTypeOK
<1>2. UNCHANGED <<record, stage, runVars, disturbed>>
  BY DEF PartsGone, BaseGone, StepRecords, teardownHistory
<1>3. Pending(u, "knowledge_base")' <=> Pending(u, "knowledge_base")
  BY <1>2 DEF Pending, runVars
<1>4. SUFFICES ASSUME u \notin disturbed, rows[u] # {}
               PROVE  /\ stage[u] = "delete" /\ row[u] \in Parent => parts'[row[u]] # "here"
                      /\ remains'["knowledge_base"] = "going" =>
                           remains["knowledge_base"] = "going"
  BY <1>1, <1>2, <1>3 DEF Clear, runVars
<1>5. /\ stage[u] = "delete" /\ row[u] \in Parent => parts[row[u]] # "here"
      /\ stage[u] = "delete" => row[u] \in listed
  BY <1>1, <1>4 DEF Clear, RowsInv, InHand
<1>6. CASE PartsGone
  BY <1>1, <1>5, <1>6 DEF PartsGone
<1>7. CASE BaseGone
  BY <1>1, <1>5, <1>7 DEF BaseGone
<1>8. CASE StepRecords
  <2>1. PICK k \in record.late \ listed :
          /\ remains' = [remains EXCEPT ![k] = "here"]
          /\ parts' = IF k \in Parent THEN [parts EXCEPT ![k] = "here"] ELSE parts
    BY <1>8 DEF StepRecords
  <2> QED BY <1>1, <1>5, <2>1
<1> QED BY <1>6, <1>7, <1>8

\* What a step of an undisturbed teardown does to the knowledge base.
LEMMA BaseSettles ==
  ASSUME RepeatInv, NEW t \in Teardown, AskDelete(t) \/ Work(t) \/ KillTeardown(t),
         remains'["knowledge_base"] = "going"
  PROVE  remains["knowledge_base"] = "going" \/ DeleteBase(t) \/ DeleteBaseAgain(t)
<1>1. remains \in [Resource -> Held] /\ "knowledge_base" \in Resource
  BY KindFacts DEF RepeatInv, SuccessInv, ShapeInv, TeardownTypeOK
<1>2. CASE DeleteRow(t) \/ DestroyMain(t)
  <2>1. remains' = remains \/ \E S : remains' = Destroyed(S)
    BY <1>2 DEF DeleteRow, DestroyMain
  <2> QED BY <1>1, <2>1 DEF Destroyed
<1>3. CASE DeleteTool(t) \/ DeleteBaseRole(t)
  BY <1>1, <1>3 DEF DeleteTool, DeleteBaseRole
<1>4. CASE ~(DeleteRow(t) \/ DestroyMain(t) \/ DeleteBase(t) \/ DeleteTool(t)
               \/ DeleteBaseAgain(t) \/ DeleteBaseRole(t))
  BY <1>4 DEF AskDelete, Work, KillTeardown, InvokeSelf, BeginAsync, LookUp, TakeRow,
     RowsDone, CleanParts, PartsRemain, GoneAlready, RowFails, AwaitBase, ReleaseName,
     Report, worldVars
<1> QED BY <1>2, <1>3, <1>4

LEMMA ClearOwn ==
  ASSUME RepeatInv, NEW t \in Teardown, AskDelete(t) \/ Work(t) \/ KillTeardown(t)
  PROVE  Clear(t)'
<1> SUFFICES ASSUME t \notin disturbed', rows'[t] # {} PROVE Clear(t)'
  BY DEF Clear
<1> USE DEF GoOn, InHand
<1>1. /\ ShapeInv /\ ListedInv /\ RowsInv(t) /\ Clear(t) /\ t \notin disturbed
      /\ stage \in [Teardown -> TeardownStage] /\ row \in [Teardown -> Listable \cup {NoKind}]
      /\ rows \in [Teardown -> SUBSET Listable] /\ left \in [Teardown -> SUBSET Listable]
      /\ failures \in [Teardown -> SUBSET Listable]
      /\ outcome \in [Teardown -> {"none", "ok", "failed"}]
      /\ remains \in [Resource -> Held] /\ parts \in [Parent -> Held \ {"stuck"}]
  BY MetStays DEF RepeatInv, SuccessInv, ShapeInv, TeardownTypeOK
<1>2. record' = record /\ listed' = listed
  BY <1>1, WorldStep
<1>3. CASE LookUp(t)
  <2>1. /\ failures'[t] = {} /\ rows'[t] = listed /\ left'[t] = listed /\ stage'[t] = "rows"
        /\ outcome'[t] = outcome[t] /\ remains' = remains
    BY <1>1, <1>3 DEF LookUp, worldVars
  <2>2. outcome[t] = "none"
    BY <1>1, <1>3 DEF LookUp, RowsInv
  <2>3. record.manifest \cup record.late # {}
    BY <1>1, <2>1 DEF ListedInv
  <2>4. record.flow => remains["knowledge_base"] # "going" \/ "knowledge_base" \in listed
    BY <1>1, <2>3 DEF ListedInv
  <2> QED BY <1>2, <2>1, <2>2, <2>4 DEF Clear, Pending
<1>4. CASE ~LookUp(t)
  <2>1. rows' = rows /\ ByManifest(t)
    BY <1>4 DEF ByManifest, AskDelete, Work, KillTeardown, InvokeSelf, BeginAsync, TakeRow,
       RowsDone, CleanParts, PartsRemain, GoneAlready, DeleteRow, RowFails, DeleteBase,
       AwaitBase, DeleteTool, DeleteBaseAgain, DeleteBaseRole, DestroyMain, ReleaseName,
       Report, runVars
  <2>2. /\ failures[t] = {} /\ outcome[t] # "failed" /\ left[t] \subseteq rows[t]
        /\ stage[t] \in InHand => row[t] \in rows[t]
        /\ stage[t] = "delete" /\ row[t] \in Parent => parts[row[t]] # "here"
        /\ stage[t] = "base" => record.flow
        /\ record.flow /\ stage[t] \in {"rows", "tool", "base"} \cup InHand =>
             remains["knowledge_base"] # "going" \/ Pending(t, "knowledge_base")
    BY <1>1, <2>1 DEF Clear
  <2>3. row[t] \in Listable \/ stage[t] \notin InHand
    BY <1>1 DEF ShapeInv, HandInv
  <2>4. ~PartsRemain(t) /\ ~RowFails(t)
    <3>1. row[t] \in Parent /\ parts[row[t]] = "going" => parts[row[t]] # "here"
      OBVIOUS
    <3> QED BY <1>1, <2>2 DEF PartsRemain, RowFails, Met
  <2>5. DeleteBase(t) => /\ stage' = [stage EXCEPT ![t] = "await"] /\ failures' = failures
                         /\ row[t] = "knowledge_base"
    BY <1>1 DEF DeleteBase, Met, NoFailure
  <2>6. DeleteBaseAgain(t) => stage' = [stage EXCEPT ![t] = "base_role"] /\ failures' = failures
    <3>1. ASSUME DeleteBaseAgain(t), remains["knowledge_base"] = "going" PROVE FALSE
      <4>1. stage[t] = "base" /\ record.flow
        BY <3>1, <1>1, <2>2 DEF DeleteBaseAgain
      <4>2. left[t] = {}
        BY <1>1, <2>1, <4>1 DEF RowsInv, Behind, ByManifest
      <4> QED BY <2>2, <3>1, <4>1, <4>2 DEF Pending
    <3> QED BY <1>1, <3>1 DEF DeleteBaseAgain, Met, NoFailure
  <2>7. failures'[t] = {}
    <3>1. CASE GoneAlready(t)
      BY <2>1, <2>2, <3>1 DEF GoneAlready, NoFailure
    <3>2. CASE DeleteBaseRole(t)
      BY <1>1, <2>2, <3>2 DEF DeleteBaseRole, Met, NoFailure
    <3>3. CASE DestroyMain(t)
      BY <2>1, <2>2, <3>3 DEF DestroyMain, NoFailure
    <3>4. CASE ~Reporting(t)
      BY <1>4, <2>2, <3>4 DEF Reporting, AskDelete, Work, KillTeardown, InvokeSelf, BeginAsync,
         TakeRow, RowsDone, CleanParts, DeleteRow, AwaitBase, DeleteTool, ReleaseName, Report,
         runVars
    <3> QED BY <2>2, <2>4, <2>5, <2>6, <3>1, <3>2, <3>3, <3>4 DEF Reporting
  <2>8. outcome'[t] # "failed"
    <3>1. CASE Report(t)
      BY <1>1, <2>2, <3>1 DEF Report
    <3>2. CASE ~Report(t)
      BY <1>4, <2>2, <3>2 DEF AskDelete, Work, KillTeardown, InvokeSelf, BeginAsync, TakeRow,
       RowsDone, CleanParts, PartsRemain, GoneAlready, DeleteRow, RowFails, DeleteBase,
       AwaitBase, DeleteTool, DeleteBaseAgain, DeleteBaseRole, DestroyMain, ReleaseName,
       runVars
    <3> QED BY <3>1, <3>2
  <2>9. ASSUME left'[t] \subseteq rows[t],
               stage'[t] \in InHand => row'[t] \in rows[t],
               stage'[t] = "delete" /\ row'[t] \in Parent => parts'[row'[t]] # "here",
               stage'[t] = "base" => record.flow,
               record.flow /\ stage'[t] \in {"rows", "tool", "base"} \cup InHand =>
                 remains'["knowledge_base"] # "going" \/ Pending(t, "knowledge_base")'
        PROVE  Clear(t)'
    BY <1>2, <2>1, <2>7, <2>8, <2>9 DEF Clear
  <2>10. CASE TakeRow(t)
    <3>1. PICK k \in left[t] : /\ left' = [left EXCEPT ![t] = @ \ {k}]
                               /\ row' = [row EXCEPT ![t] = k]
                               /\ stage' = [stage EXCEPT ![t] = IF k \in Parent THEN "clean"
                                                                ELSE "delete"]
      BY <2>10 DEF TakeRow
    <3>2. /\ stage[t] = "rows" /\ left'[t] = left[t] \ {k} /\ row'[t] = k
          /\ stage'[t] = IF k \in Parent THEN "clean" ELSE "delete"
          /\ remains' = remains
      BY <1>1, <2>10, <3>1 DEF TakeRow, worldVars
    <3>3. Pending(t, "knowledge_base") => Pending(t, "knowledge_base")'
      BY <3>2 DEF Pending
    <3> QED BY <2>2, <2>9, <3>2, <3>3
  <2>11. CASE CleanParts(t)
    <3>1. /\ stage[t] = "clean" /\ stage'[t] = "delete" /\ left' = left /\ row' = row
          /\ remains' = remains /\ row[t] \in rows[t]
      BY <1>1, <2>2, <2>11 DEF CleanParts, runVars
    <3>2. row[t] \in Parent => parts'[row[t]] # "here"
      BY <1>1, <2>11 DEF CleanParts, Met
    <3>3. Pending(t, "knowledge_base") => Pending(t, "knowledge_base")'
      BY <3>1 DEF Pending
    <3> QED BY <2>2, <2>9, <3>1, <3>2, <3>3
\* Back at the rows, the row in hand is done with.
  <2>12. CASE GoneAlready(t) \/ DeleteRow(t) \/ AwaitBase(t)
    <3>1. /\ stage[t] \in {"delete", "await"} /\ stage'[t] = "rows" /\ left' = left /\ row' = row
      BY <1>1, <2>12 DEF GoneAlready, DeleteRow, AwaitBase, runVars
    <3>2. row[t] = "knowledge_base" => remains'["knowledge_base"] = "gone"
      BY <1>1, <2>12, <3>1 DEF GoneAlready, DeleteRow, AwaitBase, worldVars, Met, RowsInv
    <3>3. remains'["knowledge_base"] = "going" => remains["knowledge_base"] = "going"
      <4>1. ~DeleteBase(t) /\ ~DeleteBaseAgain(t)
        BY <1>1, <2>5, <2>6, <3>1
      <4> QED BY <4>1, BaseSettles
    <3>4. Pending(t, "knowledge_base") /\ row[t] # "knowledge_base" =>
            Pending(t, "knowledge_base")'
      BY <3>1 DEF Pending
    <3> QED BY <2>2, <2>9, <3>1, <3>2, <3>3, <3>4
  <2>13. CASE DeleteBase(t)
    <3>1. /\ stage[t] = "delete" /\ stage'[t] = "await" /\ left' = left /\ row' = row
          /\ row[t] = "knowledge_base"
      BY <1>1, <2>5, <2>13 DEF DeleteBase
    <3> QED BY <2>2, <2>9, <3>1 DEF Pending
  <2>14. CASE RowsDone(t) \/ DeleteTool(t)
    <3>1. /\ stage[t] \in {"rows", "tool"} /\ stage'[t] \in {"tool", "base", "main"}
          /\ left' = left
      BY <1>1, <2>14 DEF RowsDone, DeleteTool, runVars
    <3>5. stage'[t] = "base" => record.flow
      BY <1>1, <2>14 DEF RowsDone, DeleteTool
    <3>2. left[t] = {}
      BY <1>1, <2>1, <2>14 DEF RowsDone, DeleteTool, RowsInv, Behind, ByManifest
    <3>3. remains'["knowledge_base"] = "going" => remains["knowledge_base"] = "going"
      BY <2>14, <3>1, BaseSettles DEF DeleteBase, DeleteBaseAgain
    <3>4. ~Pending(t, "knowledge_base")
      BY <3>1, <3>2 DEF Pending
    <3> QED BY <2>2, <2>9, <3>1, <3>3, <3>4, <3>5
\* Anywhere else the teardown has no row in hand and is past the base, or before
\* its lookup.
  <2>15. CASE AskDelete(t) \/ InvokeSelf(t) \/ BeginAsync(t) \/ DeleteBaseAgain(t)
               \/ DeleteBaseRole(t) \/ DestroyMain(t) \/ ReleaseName(t) \/ Report(t)
               \/ KillTeardown(t)
    <3>1. stage'[t] \notin {"rows", "tool", "base"} \cup InHand /\ left' = left
      <4>1. CASE AskDelete(t) \/ InvokeSelf(t) \/ BeginAsync(t) \/ KillTeardown(t)
        BY <1>1, <4>1 DEF AskDelete, InvokeSelf, BeginAsync, KillTeardown, runVars
      <4>2. CASE DeleteBaseAgain(t)
        BY <1>1, <2>6, <4>2 DEF DeleteBaseAgain
      <4>3. CASE DeleteBaseRole(t) \/ DestroyMain(t) \/ ReleaseName(t) \/ Report(t)
        BY <1>1, <4>3 DEF DeleteBaseRole, DestroyMain, ReleaseName, Report, runVars
      <4> QED BY <2>15, <4>1, <4>2, <4>3
    <3> QED BY <2>2, <2>9, <3>1
  <2> QED BY <1>4, <2>4, <2>10, <2>11, <2>12, <2>13, <2>14, <2>15 DEF Work
<1> QED BY <1>3, <1>4

LEMMA RepeatStep == RepeatInv /\ [TeardownNext]_teardownVars => RepeatInv'
<1> SUFFICES ASSUME RepeatInv, [TeardownNext]_teardownVars
             PROVE  Alone' /\ ListedInv' /\ \A u \in Teardown : Clear(u)'
  BY SuccessStep DEF RepeatInv
<1>1. CASE UNCHANGED teardownVars
  BY <1>1 DEF RepeatInv, Alone, Active, ListedInv, Clear, Pending,
              teardownVars, worldVars, runVars, teardownHistory
<1>2. ASSUME NEW t \in Teardown, AskDelete(t) \/ Work(t) \/ KillTeardown(t)
      PROVE  Alone' /\ \A u \in Teardown : Clear(u)'
  BY <1>2, AloneStep, ClearOwn, ClearOther
<1>3. CASE PartsGone \/ BaseGone \/ StepRecords
  <2>1. stage' = stage /\ disturbed' = disturbed
    BY <1>3 DEF PartsGone, BaseGone, StepRecords, teardownHistory
  <2>2. Alone'
    BY <2>1 DEF RepeatInv, Alone, Active
  <2>3. \A u \in Teardown : Clear(u)'
    BY <1>3, ClearBeside
  <2>4. ListedInv'
    BY <1>3, ListedStep DEF TeardownNext
  <2> QED BY <2>2, <2>3, <2>4
<1>4. TeardownNext => ListedInv'
  BY ListedStep
<1> QED BY <1>1, <1>2, <1>3, <1>4 DEF TeardownNext

\* Where a record with a manifest lists its knowledge base there, a teardown by
\* manifest that meets no fault and no other teardown reports success, whatever
\* earlier ones, killed or failed half way, left behind.
THEOREM RepeatSucceeded ==
  ASSUME FlowListed
  PROVE  TeardownSpec => []RepeatSucceeds
<1>1. RepeatInv => RepeatSucceeds
  BY DEF RepeatInv, Clear, RepeatSucceeds, ByManifest
<1> QED BY <1>1, RepeatInit, RepeatStep, PTL DEF TeardownSpec
=============================================================================
