----------------------- MODULE PolicyPromotionProofs -----------------------
(***************************************************************************)
(* Proofs about PolicyPromotion: every value stays in its range, and what  *)
(* the record says of enforcement is how the gateway behaves, for any      *)
(* number of overlapping promoters, any policies and configurations, and   *)
(* every fault.                                                            *)
(***************************************************************************)
EXTENDS PolicyPromotion, TLAPS

(* Types, in groups. *)

PlaneOK ==
  /\ wish \in Wishes /\ converged \in BOOLEAN
  /\ engine \in {"none", "here", "gone"} /\ cedar \in [Policy -> CedarStatus]
  /\ attached \in {"none", "LOG_ONLY", "ENFORCE"}

RecordOK ==
  /\ verdict \in {"in_progress", "succeeded", "failed"} /\ promise \in Result
  /\ draft \in Result
  /\ handling \in {"start", "create", "await", "attach", "raised", "tail",
                   "clean", "ended"}

AwaitedOK ==
  /\ made \subseteq own /\ own \subseteq Policy
  /\ unsound \subseteq own /\ remade \subseteq own

CountsOK ==
  /\ tries \in 0..Recreates /\ setbacks \in 0..MaxSetbacks
  /\ disturbedPolicies \subseteq Policy

PromoterRecord ==
  [at : {"idle", "list", "policies", "poll", "persist"}, read : Result,
   seen : [Policy -> CedarStatus], undone : SUBSET Policy,
   hand : Policy \cup {NoPolicy}, serving : SUBSET Policy]

PromotersOK == promoter \in [Promoter -> PromoterRecord]

\* A promoter that polls does it for a policy in hand.
HandOK == \A r \in Promoter : promoter[r].at = "poll" => promoter[r].hand \in Policy

\* The type invariant with what it needs to be inductive.
TypesInv == PromotionTypeOK /\ HandOK

\* The type invariant is its groups.
LEMMA TypeParts ==
  PromotionTypeOK <=> PlaneOK /\ RecordOK /\ AwaitedOK /\ CountsOK /\ PromotersOK
BY DEF PromotionTypeOK, PlaneOK, RecordOK, AwaitedOK, CountsOK, PromotersOK, PromoterRecord

\* A promoter that does not run is a promoter.
LEMMA OffType == Off \in PromoterRecord /\ Off.at = "idle" /\ Off.seen \in [Policy -> CedarStatus]
BY DEF Off, NoResult, PromoterRecord, Result, CedarStatus, InFlight

\* One promoter goes on, and stays one.
LEMMA PromoterPut ==
  ASSUME PromotersOK, HandOK, NEW r \in Promoter, NEW v \in PromoterRecord,
         v.at = "poll" => v.hand \in Policy,
         promoter' = [promoter EXCEPT ![r] = v]
  PROVE  PromotersOK' /\ HandOK'
BY DEF PromotersOK, HandOK

\* The parts of a promoter that went past a policy.
LEMMA PassedParts ==
  ASSUME PromotersOK, NEW r \in Promoter, NEW p \in Policy
  PROVE  /\ Passed(r, p) \in PromoterRecord
         /\ Passed(r, p).at = promoter[r].at
         /\ Passed(r, p).read = promoter[r].read
         /\ Passed(r, p).hand = promoter[r].hand
         /\ Passed(r, p).serving = promoter[r].serving
         /\ Passed(r, p).undone = promoter[r].undone \ {p}
         /\ \A q \in Policy : Passed(r, p).seen[q] = "active" => promoter[r].seen[q] = "active"
<1> DEFINE x == promoter[r]
           u == x.undone \ {p}
           s == [x.seen EXCEPT ![p] = "absent"]
<1>1. x \in PromoterRecord  BY DEF PromotersOK
<1>2. s \in [Policy -> CedarStatus] /\ u \in SUBSET Policy
  BY <1>1 DEF PromoterRecord, CedarStatus
<1>3. \A q \in Policy : s[q] = "active" => x.seen[q] = "active"
  BY <1>1 DEF PromoterRecord
<1>4. Passed(r, p) = [x EXCEPT !.undone = u, !.seen = s]
  BY <1>1 DEF Passed, PromoterRecord
<1> HIDE DEF x, u, s
<1>5. /\ Passed(r, p) \in PromoterRecord
      /\ Passed(r, p).at = x.at /\ Passed(r, p).read = x.read
      /\ Passed(r, p).hand = x.hand /\ Passed(r, p).serving = x.serving
      /\ Passed(r, p).undone = u /\ Passed(r, p).seen = s
  BY <1>1, <1>2, <1>4 DEF PromoterRecord
<1> QED  BY <1>3, <1>5 DEF x, u

\* Every promoter is one.
LEMMA TypesInit == PromotionInit => TypesInv
<1> SUFFICES ASSUME PromotionInit PROVE TypesInv
  OBVIOUS
<1> USE DEF PromotionInit
<1>1. PlaneOK  BY DEF PlaneOK, CedarStatus
<1>2. RecordOK  BY DEF RecordOK, Result, NoResult
<1>3. AwaitedOK /\ CountsOK  BY PromotionAssumption DEF AwaitedOK, CountsOK
<1>4. PromotersOK /\ HandOK  BY OffType DEF PromotersOK, HandOK
<1> QED  BY <1>1, <1>2, <1>3, <1>4, TypeParts DEF TypesInv

\* Counting a fault keeps the bound.
LEMMA SetbackCounts ==
  ASSUME setbacks \in 0..MaxSetbacks
  PROVE  /\ \A kind : Setback(kind) => setbacks' \in 0..MaxSetbacks
         /\ NoSetback => setbacks' \in 0..MaxSetbacks
BY PromotionAssumption DEF Setback, NoSetback

\* The policy step, its tail and AgentCore leave promoters alone.
LEMMA StepTypes ==
  ASSUME TypesInv, PolicyStep \/ KillPolicyStep
  PROVE  TypesInv'
<1>0. PlaneOK /\ RecordOK /\ AwaitedOK /\ CountsOK /\ PromotersOK /\ HandOK
  BY TypeParts DEF TypesInv
<1>s. /\ \A kind : Setback(kind) => setbacks' \in 0..MaxSetbacks
      /\ NoSetback => setbacks' \in 0..MaxSetbacks
  BY <1>0, SetbackCounts DEF CountsOK
<1>w. wish \in Wish  BY <1>0, PromotionAssumption DEF PlaneOK
<1>1. CASE EnsureEngine
  <2> USE <1>0, <1>1 DEF EnsureEngine, Proceed
  <2>1. PlaneOK'  BY DEF PlaneOK
  <2>2. RecordOK'  BY DEF RecordOK
  <2>3. AwaitedOK'  BY DEF AwaitedOK
  <2>4. CountsOK'  BY <1>s, PromotionAssumption DEF CountsOK
  <2>5. PromotersOK' /\ HandOK'  BY DEF PromotersOK, HandOK
  <2> QED  BY <2>1, <2>2, <2>3, <2>4, <2>5, TypeParts, PTL DEF TypesInv
<1>2. CASE CreatePolicy
  <2> USE <1>0, <1>2 DEF CreatePolicy, Proceed
  <2>1. PlaneOK'  BY DEF PlaneOK, CedarStatus, InFlight
  <2>2. RecordOK'  BY DEF RecordOK
  <2>3. AwaitedOK'
    BY <1>w DEF AwaitedOK, Wish
  <2>4. CountsOK'  BY <1>s DEF CountsOK
  <2>5. PromotersOK' /\ HandOK'  BY DEF PromotersOK, HandOK
  <2> QED  BY <2>1, <2>2, <2>3, <2>4, <2>5, TypeParts, PTL DEF TypesInv
<1>3. CASE AwaitPolicy
  <2> USE <1>0, <1>3 DEF AwaitPolicy
  <2>1. PlaneOK'  BY DEF PlaneOK, CedarStatus, InFlight
  <2>2. RecordOK'  BY DEF RecordOK
  <2>3. AwaitedOK'  BY DEF AwaitedOK
  <2>4. CountsOK'  BY <1>s, PromotionAssumption DEF CountsOK, MayRemake
  <2>5. PromotersOK' /\ HandOK'  BY DEF PromotersOK, HandOK
  <2> QED  BY <2>1, <2>2, <2>3, <2>4, <2>5, TypeParts, PTL DEF TypesInv
<1>4. CASE Judge
  <2> USE <1>0, <1>4 DEF Judge, Proceed
  <2>1. PlaneOK'  BY DEF PlaneOK, CedarStatus, InFlight
  <2>a. \E m \in {"LOG_ONLY", "ENFORCE"}, a \in BOOLEAN, b \in BOOLEAN :
          draft' = [mode |-> m, pending |-> a, validating |-> b]
    <3>1. wish.open \in BOOLEAN  BY <1>w DEF Wish
    <3>2. \/ draft' = [mode |-> IF wish.open THEN "LOG_ONLY" ELSE "ENFORCE",
                       pending |-> TRUE, validating |-> ~wish.open]
          \/ draft' = [mode |-> "ENFORCE", pending |-> FALSE, validating |-> FALSE]
      OBVIOUS
    <3> QED  BY <3>1, <3>2, Zenon
  <2>b. draft' \in Result  BY <2>a DEF Result
  <2>2. RecordOK'  BY <2>b DEF RecordOK
  <2>3. AwaitedOK'  BY DEF AwaitedOK
  <2>4. CountsOK'  BY <1>s DEF CountsOK
  <2>5. PromotersOK' /\ HandOK'  BY DEF PromotersOK, HandOK
  <2> QED  BY <2>1, <2>2, <2>3, <2>4, <2>5, TypeParts, PTL DEF TypesInv
<1>5. CASE Attach
  <2> USE <1>0, <1>5 DEF Attach, Proceed
  <2>1. PlaneOK'  BY DEF PlaneOK, RecordOK, Result
  <2>a. \A m \in {"none", "LOG_ONLY", "ENFORCE"} :
          [draft EXCEPT !.mode = m] \in Result /\ draft.mode \in {"none", "LOG_ONLY", "ENFORCE"}
    BY DEF RecordOK, Result
  <2>b. NoResult \in Result  BY DEF Result, NoResult
  <2>2. RecordOK'  BY <2>a, <2>b DEF RecordOK
  <2>3. AwaitedOK'  BY DEF AwaitedOK
  <2>4. CountsOK'  BY <1>s DEF CountsOK
  <2>5. PromotersOK' /\ HandOK'  BY DEF PromotersOK, HandOK
  <2> QED  BY <2>1, <2>2, <2>3, <2>4, <2>5, TypeParts, PTL DEF TypesInv
<1>6. CASE WriteVerdict
  <2> USE <1>0, <1>6 DEF WriteVerdict, Proceed, planeVars
  <2>1. PlaneOK'  BY DEF PlaneOK
  <2>2. RecordOK'  BY DEF RecordOK
  <2>3. AwaitedOK' /\ CountsOK'  BY DEF AwaitedOK, CountsOK
  <2>5. PromotersOK' /\ HandOK'  BY DEF PromotersOK, HandOK
  <2> QED  BY <2>1, <2>2, <2>3, <2>5, TypeParts, PTL DEF TypesInv
<1>7. CASE CleanUp
  <2> USE <1>0, <1>7 DEF CleanUp, Proceed
  <2>1. PlaneOK'  BY DEF PlaneOK, CedarStatus
  <2>2. RecordOK'  BY DEF RecordOK
  <2>3. AwaitedOK'  BY DEF AwaitedOK
  <2>4. CountsOK'  BY <1>s DEF CountsOK
  <2>5. PromotersOK' /\ HandOK'  BY DEF PromotersOK, HandOK
  <2> QED  BY <2>1, <2>2, <2>3, <2>4, <2>5, TypeParts, PTL DEF TypesInv
<1>8. CASE KillPolicyStep
  <2> USE <1>0, <1>8 DEF KillPolicyStep, Proceed, planeVars
  <2>1. PlaneOK'  BY DEF PlaneOK
  <2>2. RecordOK'  BY DEF RecordOK, Result, NoResult
  <2>3. AwaitedOK'  BY DEF AwaitedOK
  <2>4. CountsOK'  BY <1>s DEF CountsOK
  <2>5. PromotersOK' /\ HandOK'  BY DEF PromotersOK, HandOK
  <2> QED  BY <2>1, <2>2, <2>3, <2>4, <2>5, TypeParts, PTL DEF TypesInv
<1> QED  BY <1>1, <1>2, <1>3, <1>4, <1>5, <1>6, <1>7, <1>8 DEF PolicyStep

\* So does AgentCore.
LEMMA CoreTypes ==
  ASSUME TypesInv,
         Converge \/ \E p \in Policy : Validate(p) \/ DeleteEnds(p) \/ Regress(p)
  PROVE  TypesInv'
<1>0. PlaneOK /\ RecordOK /\ AwaitedOK /\ CountsOK /\ PromotersOK /\ HandOK
  BY TypeParts DEF TypesInv
<1>1. PlaneOK'
  BY <1>0 DEF PlaneOK, Converge, Validate, DeleteEnds, Regress, CedarStatus
<1>2. RecordOK'
  BY <1>0 DEF RecordOK, Converge, Validate, DeleteEnds, Regress, stepVars
<1>3. AwaitedOK'
  BY <1>0 DEF AwaitedOK, Converge, Validate, DeleteEnds, Regress, stepVars
<1>4. CountsOK'
  BY <1>0, SetbackCounts DEF CountsOK, Converge, Validate, DeleteEnds, Regress, stepVars
<1>5. PromotersOK' /\ HandOK'
  BY <1>0 DEF PromotersOK, HandOK, Converge, Validate, DeleteEnds, Regress
<1> QED  BY <1>1, <1>2, <1>3, <1>4, <1>5, TypeParts, PTL DEF TypesInv

\* A promoter's step changes the promoter, and of the rest only the policies,
\* the mode the gateway has, and the record.
LEMMA PromoterTypes ==
  ASSUME TypesInv, NEW r \in Promoter, Promote(r) \/ StopPromoter(r)
  PROVE  TypesInv'
<1>0. PlaneOK /\ RecordOK /\ AwaitedOK /\ CountsOK /\ PromotersOK /\ HandOK
  BY TypeParts DEF TypesInv
<1>s. /\ \A kind : Setback(kind) => setbacks' \in 0..MaxSetbacks
      /\ NoSetback => setbacks' \in 0..MaxSetbacks
  BY <1>0, SetbackCounts DEF CountsOK
<1>w. wish \in Wish  BY <1>0, PromotionAssumption DEF PlaneOK
<1>x. promoter[r] \in PromoterRecord  BY <1>0 DEF PromotersOK
<1>b. UNCHANGED stepVars
  <2>1. Touch(r) \/ ListPolicies(r) \/ PassActive(r) \/ PassBusy(r) \/ PollPolicy(r)
          => UNCHANGED stepVars
    BY DEF Touch, ListPolicies, PassActive, PassBusy, PollPolicy
  <2>2. DrivePolicy(r) => UNCHANGED stepVars
    BY Zenon DEF DrivePolicy
  <2>3. GiveUp(r) \/ Flip(r) \/ Persist(r) \/ StopPromoter(r) => UNCHANGED stepVars
    BY DEF GiveUp, Flip, Persist, StopPromoter
  <2> QED  BY <2>1, <2>2, <2>3 DEF Promote
<1>a. AwaitedOK'
  BY <1>0, <1>b DEF AwaitedOK, stepVars
<1>1. CASE Touch(r)
  <2> USE <1>0, <1>1 DEF Touch, planeVars, stepVars
  <2>1. PlaneOK' /\ RecordOK' /\ CountsOK'  BY DEF PlaneOK, RecordOK, CountsOK
  <2>2. [Off EXCEPT !.at = "list", !.read = promise] \in PromoterRecord
    BY OffType DEF RecordOK, PromoterRecord
  <2>3. [Off EXCEPT !.at = "list", !.read = promise].at = "list"
    BY OffType DEF PromoterRecord
  <2>4. PromotersOK' /\ HandOK'
    BY <2>2, <2>3, PromoterPut
  <2> QED  BY <1>a, <2>1, <2>4, TypeParts, PTL DEF TypesInv
<1>2. CASE ListPolicies(r)
  <2> USE <1>0, <1>2 DEF ListPolicies, planeVars, stepVars
  <2>1. PlaneOK' /\ RecordOK' /\ CountsOK'  BY <1>s DEF PlaneOK, RecordOK, CountsOK
  <2>2. PICK listed \in {cedar, Off.seen} :
          promoter' = [promoter EXCEPT ![r] =
            [@ EXCEPT !.at = "policies", !.seen = listed, !.undone = wish.policies]]
    OBVIOUS
  <2>3. listed \in [Policy -> CedarStatus] /\ wish.policies \in SUBSET Policy
    BY OffType, <1>w DEF PlaneOK, Wish
  <2> DEFINE v == [promoter[r] EXCEPT !.at = "policies", !.seen = listed,
                                      !.undone = wish.policies]
  <2>4. v \in PromoterRecord /\ v.at = "policies"
    BY <1>x, <2>3 DEF PromoterRecord
  <2>5. promoter' = [promoter EXCEPT ![r] = v]  BY <2>2
  <2> HIDE DEF v
  <2>6. PromotersOK' /\ HandOK'  BY <2>4, <2>5, PromoterPut
  <2> QED  BY <1>a, <2>1, <2>6, TypeParts, PTL DEF TypesInv
<1>3. CASE PassActive(r)
  <2> USE <1>0, <1>3 DEF PassActive, planeVars, stepVars
  <2>1. PlaneOK' /\ RecordOK' /\ CountsOK'  BY DEF PlaneOK, RecordOK, CountsOK
  <2>2. PICK p \in Policy :
          /\ Looks(r, p, {"active"})
          /\ promoter' = [promoter EXCEPT ![r] = [Passed(r, p) EXCEPT !.serving = @ \cup {p}]]
    OBVIOUS
  <2> DEFINE v == [Passed(r, p) EXCEPT !.serving = @ \cup {p}]
  <2>4. v \in PromoterRecord /\ v.at = "policies"
    BY <2>2, PassedParts DEF PromoterRecord, Looks
  <2>5. promoter' = [promoter EXCEPT ![r] = v]  BY <2>2
  <2> HIDE DEF v
  <2>6. PromotersOK' /\ HandOK'  BY <2>4, <2>5, PromoterPut
  <2> QED  BY <1>a, <2>1, <2>6, TypeParts, PTL DEF TypesInv
<1>4. CASE PassBusy(r)
  <2> USE <1>0, <1>4 DEF PassBusy, planeVars, stepVars
  <2>1. PlaneOK' /\ RecordOK' /\ CountsOK'  BY DEF PlaneOK, RecordOK, CountsOK
  <2>2. PICK p \in Policy :
          /\ promoter[r].at = "policies"
          /\ promoter' = [promoter EXCEPT ![r] = Passed(r, p)]
    BY DEF Looks
  <2>4. Passed(r, p) \in PromoterRecord /\ Passed(r, p).at = "policies"
    BY <2>2, PassedParts
  <2>6. PromotersOK' /\ HandOK'  BY <2>2, <2>4, PromoterPut
  <2> QED  BY <1>a, <2>1, <2>6, TypeParts, PTL DEF TypesInv
<1>5. CASE DrivePolicy(r)
  <2> USE <1>0, <1>5 DEF DrivePolicy, stepVars
  <2>1. PlaneOK' /\ RecordOK'  BY DEF PlaneOK, RecordOK, CedarStatus, InFlight
  <2>3. CountsOK'  BY DEF CountsOK
  <2>2. PICK p \in Policy :
          promoter' = [promoter EXCEPT ![r] = [Passed(r, p) EXCEPT !.at = "poll", !.hand = p]]
    BY Zenon
  <2> DEFINE v == [Passed(r, p) EXCEPT !.at = "poll", !.hand = p]
  <2>4. v \in PromoterRecord /\ v.hand = p
    <3> DEFINE x == Passed(r, p)
    <3>1. x \in PromoterRecord  BY PassedParts
    <3> HIDE DEF x
    <3>2. [x EXCEPT !.at = "poll", !.hand = p] \in PromoterRecord
      BY <3>1 DEF PromoterRecord
    <3>3. [x EXCEPT !.at = "poll", !.hand = p].hand = p
      BY <3>1 DEF PromoterRecord
    <3> QED  BY <3>2, <3>3 DEF x
  <2>5. promoter' = [promoter EXCEPT ![r] = v]  BY <2>2
  <2> HIDE DEF v
  <2>6. PromotersOK' /\ HandOK'  BY <2>4, <2>5, PromoterPut
  <2> QED  BY <1>a, <2>1, <2>3, <2>6, TypeParts, PTL DEF TypesInv
<1>6. CASE PollPolicy(r)
  <2>1. PlaneOK' /\ RecordOK' /\ CountsOK'
    BY <1>0, <1>6, <1>s DEF PollPolicy, planeVars, stepVars, PlaneOK, RecordOK, CountsOK
  <2>2. promoter[r].hand \in Policy  BY <1>0, <1>6 DEF HandOK, PollPolicy
  <2> DEFINE s == promoter[r].serving \cup {q \in {promoter[r].hand} : cedar[q] = "active"}
             v == [promoter[r] EXCEPT !.at = "policies", !.hand = NoPolicy, !.serving = s]
  <2>3. s \in SUBSET Policy  BY <1>x, <2>2 DEF PromoterRecord
  <2>5. promoter' = [promoter EXCEPT ![r] = v]  BY <1>6 DEF PollPolicy
  <2> HIDE DEF s
  <2>4. v \in PromoterRecord /\ v.at = "policies"
    BY <1>x, <2>3 DEF PromoterRecord
  <2> HIDE DEF v
  <2>6. PromotersOK' /\ HandOK'  BY <1>0, <2>4, <2>5, PromoterPut
  <2> QED  BY <1>a, <2>1, <2>6, TypeParts, PTL DEF TypesInv
<1>7. CASE GiveUp(r)
  <2> USE <1>0, <1>7 DEF GiveUp, planeVars, stepVars
  <2>1. PlaneOK' /\ RecordOK' /\ CountsOK'  BY DEF PlaneOK, RecordOK, CountsOK
  <2>6. PromotersOK' /\ HandOK'  BY OffType, PromoterPut
  <2> QED  BY <1>a, <2>1, <2>6, TypeParts, PTL DEF TypesInv
<1>8. CASE Flip(r)
  <2> USE <1>0, <1>8 DEF Flip, stepVars
  <2>1. PlaneOK' /\ RecordOK' /\ CountsOK'  BY <1>s DEF PlaneOK, RecordOK, CountsOK
  <2> DEFINE v == [promoter[r] EXCEPT !.at = "persist"]
  <2>4. v \in PromoterRecord /\ v.at = "persist"
    BY <1>x DEF PromoterRecord
  <2>5. promoter' = [promoter EXCEPT ![r] = v] \/ promoter' = [promoter EXCEPT ![r] = Off]
    OBVIOUS
  <2> HIDE DEF v
  <2>6. PromotersOK' /\ HandOK'  BY <2>4, <2>5, OffType, PromoterPut
  <2> QED  BY <1>a, <2>1, <2>6, TypeParts, PTL DEF TypesInv
<1>9. CASE Persist(r)
  <2> USE <1>0, <1>9 DEF Persist, planeVars, stepVars
  <2>a. [mode |-> "ENFORCE", pending |-> FALSE, validating |-> FALSE] \in Result
    BY DEF Result
  <2>1. PlaneOK' /\ RecordOK' /\ CountsOK'
    BY <1>s, <2>a DEF PlaneOK, RecordOK, CountsOK
  <2>6. PromotersOK' /\ HandOK'  BY OffType, PromoterPut
  <2> QED  BY <1>a, <2>1, <2>6, TypeParts, PTL DEF TypesInv
<1>10. CASE StopPromoter(r)
  <2> USE <1>0, <1>10 DEF StopPromoter, planeVars, stepVars
  <2>1. PlaneOK' /\ RecordOK' /\ CountsOK'  BY <1>s DEF PlaneOK, RecordOK, CountsOK
  <2>6. PromotersOK' /\ HandOK'  BY OffType, PromoterPut
  <2> QED  BY <1>a, <2>1, <2>6, TypeParts, PTL DEF TypesInv
<1> QED
  BY <1>1, <1>2, <1>3, <1>4, <1>5, <1>6, <1>7, <1>8, <1>9, <1>10 DEF Promote

\* Every value stays in its range, whatever overlaps and fails.
THEOREM PromotionTypes == PromotionSpec => []TypesInv
<1>1. TypesInv /\ [PromotionNext]_promotionVars => TypesInv'
  <2> SUFFICES ASSUME TypesInv, [PromotionNext]_promotionVars PROVE TypesInv'
    OBVIOUS
  <2>1. CASE UNCHANGED promotionVars
    BY <2>1 DEF TypesInv, PromotionTypeOK, HandOK, promotionVars, planeVars, stepVars
  <2>2. CASE PromotionNext
    BY <2>2, StepTypes, CoreTypes, PromoterTypes DEF PromotionNext
  <2> QED  BY <2>1, <2>2
<1> QED  BY <1>1, TypesInit, PTL DEF PromotionSpec

-----------------------------------------------------------------------------
(* What the record says of enforcement.                                    *)

Active(p) == cedar[p] = "active"

\* The engine went with the deployment's resources.
Gone == engine = "gone"

\* Some policy lets tools through, or one that did was touched again or
\* regressed.
Serving == (\E p \in wish.policies : Active(p)) \/ disturbedPolicies # {} \/ Gone

\* The gateway enforces.
Forcing == attached = "ENFORCE" \/ Gone

\* The step and its tail are past the verdict.
Written == {"clean", "ended"}

\* Policies are those the configuration names.
PolicyInv ==
  /\ own \subseteq wish.policies
  /\ \A p \in Policy : cedar[p] # "absent" => p \in wish.policies

\* Until the verdict is written there is nothing for a promoter to act on, and
\* the engine goes only afterwards.
OrderInv ==
  /\ handling \notin Written =>
       /\ promise = NoResult /\ verdict = "in_progress"
       /\ \A r \in Promoter : promoter[r] = Off
  /\ handling \in {"start", "create", "await", "attach"} => attached = "none"
  /\ handling \in {"start", "create", "await"} => draft = NoResult
  /\ Gone => handling = "ended" /\ attached = "none"

\* What the step hands on to the tail.
DraftInv ==
  /\ draft.mode = "ENFORCE" /\ ~draft.pending => Serving
  /\ handling \in {"tail", "raised"} => attached = draft.mode
  /\ handling = "attach" /\ Enforcing =>
       \/ draft.mode = "ENFORCE"
       \/ draft.mode = "LOG_ONLY" /\ wish.open /\ draft.pending

\* What the record says, and that an engine left in LOG_ONLY is on its way to
\* the record as pending.
PromiseInv ==
  /\ promise.mode = "ENFORCE" => Forcing
  /\ promise.mode = "ENFORCE" /\ ~promise.pending => Serving
  /\ Enforcing /\ attached = "LOG_ONLY" =>
       /\ wish.open
       /\ \/ handling \in {"tail", "raised"} /\ draft.pending
          \/ handling \in Written /\ promise.pending

\* What a promoter has read and seen still holds, what it has yet to look at is
\* intended, and what it is about to write is so.
ReaderOK(x) ==
  /\ x.undone \subseteq wish.policies
  /\ x.read.mode = "ENFORCE" => Forcing
  /\ x.serving # {} => Serving
  /\ \A p \in Policy : x.seen[p] = "active" => Serving
  /\ x.at = "persist" => Serving /\ Forcing

ReadersInv == \A r \in Promoter : ReaderOK(promoter[r])

\* The inductive invariant behind EnforcementAsTold.
PromotionInv == PolicyInv /\ OrderInv /\ DraftInv /\ PromiseInv /\ ReadersInv

\* At the beginning nothing is promised.
LEMMA PromotionInvInit == PromotionInit => PromotionInv
<1> SUFFICES ASSUME PromotionInit PROVE PromotionInv
  OBVIOUS
<1> USE DEF PromotionInit
<1>1. ReaderOK(Off)
  BY DEF ReaderOK, Off, NoResult
<1>2. PolicyInv /\ OrderInv /\ DraftInv /\ PromiseInv
  BY DEF PolicyInv, OrderInv, DraftInv, PromiseInv, Gone, Written, NoResult
<1>3. ReadersInv  BY <1>1 DEF ReadersInv
<1> QED  BY <1>2, <1>3 DEF PromotionInv

\* The configuration is one with a set of policies among those there are.
LEMMA WishPolicies == TypesInv => wish.policies \subseteq Policy
BY PromotionAssumption DEF TypesInv, PromotionTypeOK, Wish

\* A promoter is only there once the verdict is written.
LEMMA PromoterComesLate ==
  ASSUME OrderInv, NEW r \in Promoter, Promote(r) \/ StopPromoter(r)
  PROVE  handling \in Written
<1>1. promoter[r] # Off \/ promise # NoResult
  <2>1. Touch(r) => promise # NoResult  BY DEF Touch, NoResult
  <2>2. ListPolicies(r) \/ PollPolicy(r) \/ GiveUp(r) \/ Flip(r) \/ Persist(r) \/ StopPromoter(r)
          => promoter[r] # Off
    BY DEF ListPolicies, PollPolicy, GiveUp, Flip, Passes, Persist, StopPromoter, Off
  <2>3. (\E p \in Policy : \E s : Looks(r, p, s)) => promoter[r] # Off
    BY DEF Looks, Off
  <2>4. PassActive(r) \/ PassBusy(r) => promoter[r] # Off
    BY <2>3 DEF PassActive, PassBusy
  <2>5. DrivePolicy(r) => promoter[r] # Off
    BY <2>3, Zenon DEF DrivePolicy
  <2> QED  BY <2>1, <2>2, <2>4, <2>5 DEF Promote
<1> QED  BY <1>1 DEF OrderInv

\* The configuration stays, an engine that is gone stays gone, and a policy
\* that was active is, unless it was disturbed.
LEMMA ServingKept ==
  ASSUME TypesInv, wish' = wish, Gone => Gone',
         disturbedPolicies \subseteq disturbedPolicies',
         \A p \in Policy : Active(p) => Active(p)' \/ disturbedPolicies' # {} \/ Gone'
  PROVE  Serving => Serving'
BY WishPolicies DEF Serving

\* The policy step loses no active policy, and no mode but its own.
LEMMA StepKeeps ==
  ASSUME TypesInv, OrderInv, PolicyStep \/ KillPolicyStep
  PROVE  wish' = wish /\ (Serving => Serving') /\ (Forcing => Forcing')
<1>c. cedar \in [Policy -> CedarStatus]  BY DEF TypesInv, PromotionTypeOK
<1>m. made \subseteq Policy  BY DEF TypesInv, PromotionTypeOK
<1>w. wish.policies \subseteq Policy  BY WishPolicies
<1>1. CASE EnsureEngine
  <2>1. ~Gone  BY <1>1 DEF OrderInv, EnsureEngine
  <2>2. attached # "ENFORCE"  BY <1>1 DEF OrderInv, EnsureEngine
  <2>3. wish' = wish /\ disturbedPolicies' = disturbedPolicies /\ cedar' = cedar
    BY <1>1 DEF EnsureEngine
  <2>4. Serving => Serving'  BY <2>1, <2>3, ServingKept DEF Active
  <2> QED  BY <2>1, <2>2, <2>3, <2>4 DEF Forcing
<1>2. CASE CreatePolicy
  <2>1. wish' = wish /\ disturbedPolicies' = disturbedPolicies
        /\ engine' = engine /\ attached' = attached
    BY <1>2 DEF CreatePolicy
  <2>2. \A p \in Policy : Active(p) => Active(p)'
    BY <1>2, <1>c, <1>w DEF CreatePolicy, Active
  <2> QED  BY <2>1, <2>2, ServingKept DEF Gone, Forcing
<1>3. CASE AwaitPolicy
  <2>1. wish' = wish /\ disturbedPolicies' = disturbedPolicies
        /\ engine' = engine /\ attached' = attached
    BY <1>3 DEF AwaitPolicy
  <2>2. \A p \in Policy : Active(p) => Active(p)'
    BY <1>3, <1>c, <1>m DEF AwaitPolicy, Active
  <2> QED  BY <2>1, <2>2, ServingKept DEF Gone, Forcing
<1>4. CASE Judge
  <2>1. wish' = wish /\ disturbedPolicies' = disturbedPolicies
        /\ engine' = engine /\ attached' = attached
    BY <1>4 DEF Judge
  <2>2. \A p \in Policy : Active(p) => Active(p)'
    BY <1>4, <1>c DEF Judge, Active
  <2> QED  BY <2>1, <2>2, ServingKept DEF Gone, Forcing
<1>5. CASE Attach
  <2>1. /\ wish' = wish /\ disturbedPolicies' = disturbedPolicies /\ cedar' = cedar
        /\ engine' = engine
    BY <1>5 DEF Attach
  <2>2. attached # "ENFORCE"  BY <1>5 DEF OrderInv, Attach
  <2>3. Serving => Serving'  BY <2>1, ServingKept DEF Active, Gone
  <2> QED  BY <2>1, <2>2, <2>3 DEF Gone, Forcing
<1>6. CASE CleanUp
  <2>1. wish' = wish /\ disturbedPolicies' = disturbedPolicies
    BY <1>6 DEF CleanUp
  <2>2. Gone' \/ (engine' = engine /\ attached' = attached /\ cedar' = cedar)
    BY <1>6 DEF CleanUp, Gone
  <2> QED  BY <2>1, <2>2, ServingKept DEF Gone, Forcing, Active
<1>7. CASE WriteVerdict \/ KillPolicyStep
  <2>1. /\ wish' = wish /\ disturbedPolicies' = disturbedPolicies /\ cedar' = cedar
        /\ engine' = engine /\ attached' = attached
    BY <1>7 DEF WriteVerdict, KillPolicyStep, planeVars
  <2> QED  BY <2>1, ServingKept DEF Gone, Forcing, Active
<1> QED  BY <1>1, <1>2, <1>3, <1>4, <1>5, <1>6, <1>7 DEF PolicyStep

\* The policy step, its restart and the tail keep the invariant.
LEMMA StepKeepsInv ==
  ASSUME TypesInv, PromotionInv, PolicyStep \/ KillPolicyStep
  PROVE  PromotionInv'
<1>0. PolicyInv /\ OrderInv /\ DraftInv /\ PromiseInv /\ ReadersInv  BY DEF PromotionInv
<1>k. wish' = wish /\ (Serving => Serving') /\ (Forcing => Forcing')
  BY <1>0, StepKeeps
<1>p. promoter' = promoter
  BY DEF PolicyStep, KillPolicyStep, EnsureEngine, CreatePolicy, AwaitPolicy, Judge, Attach,
         WriteVerdict, CleanUp
<1>r. ReadersInv'
  BY <1>0, <1>k, <1>p DEF ReadersInv, ReaderOK
<1>c. cedar \in [Policy -> CedarStatus]  BY DEF TypesInv, PromotionTypeOK
<1>d. draft \in Result  BY DEF TypesInv, PromotionTypeOK
<1>w. wish.policies \subseteq Policy  BY WishPolicies
<1>o. own \subseteq Policy /\ made \subseteq own
  BY DEF TypesInv, PromotionTypeOK
<1>1. CASE EnsureEngine
  <2> USE <1>0, <1>1, <1>k DEF EnsureEngine, Proceed
  <2>1. PolicyInv'  BY DEF PolicyInv
  <2>2. OrderInv'  BY <1>p DEF OrderInv, Gone, Written
  <2>3. DraftInv'  BY DEF DraftInv, OrderInv, NoResult, Enforcing
  <2>4. PromiseInv'  BY DEF PromiseInv, OrderInv, NoResult, Enforcing
  <2> QED  BY <1>r, <2>1, <2>2, <2>3, <2>4 DEF PromotionInv
<1>2. CASE CreatePolicy
  <2> USE <1>0, <1>2, <1>k DEF CreatePolicy, Proceed
  <2>1. PolicyInv'  BY <1>c, <1>w DEF PolicyInv
  <2>2. OrderInv'  BY <1>p DEF OrderInv, Gone, Written
  <2>3. DraftInv'  BY DEF DraftInv, OrderInv, NoResult, Enforcing
  <2>4. PromiseInv'  BY DEF PromiseInv, OrderInv, NoResult, Enforcing
  <2> QED  BY <1>r, <2>1, <2>2, <2>3, <2>4 DEF PromotionInv
<1>3. CASE AwaitPolicy
  <2> USE <1>0, <1>3, <1>k DEF AwaitPolicy
  <2>1. PolicyInv'  BY <1>c, <1>o DEF PolicyInv
  <2>2. OrderInv'  BY <1>p DEF OrderInv, Gone
  <2>3. DraftInv'  BY DEF DraftInv, Enforcing
  <2>4. PromiseInv'  BY DEF PromiseInv, Enforcing
  <2> QED  BY <1>r, <2>1, <2>2, <2>3, <2>4 DEF PromotionInv
<1>4. CASE Judge
  <2> USE <1>0, <1>4, <1>k DEF Judge, Proceed
  <2>1. PolicyInv'  BY <1>c DEF PolicyInv
  <2>2. OrderInv'  BY <1>p DEF OrderInv, Gone, Written
  <2>3. DraftInv'
    <3>1. \/ /\ draft' = [mode |-> IF wish.open THEN "LOG_ONLY" ELSE "ENFORCE",
                          pending |-> TRUE, validating |-> ~wish.open]
          \/ /\ draft' = [mode |-> "ENFORCE", pending |-> FALSE, validating |-> FALSE]
             /\ (\E p \in Policy : cedar[p] = "active") /\ cedar' = cedar
      OBVIOUS
    <3>2. CASE draft' = [mode |-> IF wish.open THEN "LOG_ONLY" ELSE "ENFORCE",
                         pending |-> TRUE, validating |-> ~wish.open]
      <4>1. draft'.pending = TRUE /\ draft'.mode = IF wish.open THEN "LOG_ONLY" ELSE "ENFORCE"
        BY <3>2
      <4> QED  BY <4>1 DEF DraftInv
    <3>3. CASE /\ draft' = [mode |-> "ENFORCE", pending |-> FALSE, validating |-> FALSE]
               /\ (\E p \in Policy : cedar[p] = "active") /\ cedar' = cedar
      <4>1. draft'.mode = "ENFORCE"  BY <3>3
      <4>2. Serving  BY <3>3 DEF Serving, PolicyInv, Active
      <4> QED  BY <4>1, <4>2 DEF DraftInv
    <3> QED  BY <3>1, <3>2, <3>3
  <2>4. PromiseInv'  BY DEF PromiseInv, OrderInv, NoResult, Enforcing
  <2> QED  BY <1>r, <2>1, <2>2, <2>3, <2>4 DEF PromotionInv
<1>5. CASE Attach
  <2> DEFINE mode == IF Enforcing THEN draft.mode ELSE "LOG_ONLY"
             next == [draft EXCEPT !.mode = mode]
  <2>a. /\ handling = "attach" /\ UNCHANGED <<wish, engine, cedar, verdict, promise, own>>
        /\ \/ attached' = mode /\ draft' = next /\ handling' \in {"raised", "tail"}
           \/ handling' = "raised" /\ draft' = NoResult /\ attached' = attached
    BY <1>5 DEF Attach, Proceed
  <2>b. next.mode = mode /\ next.pending = draft.pending  BY <1>d DEF Result
  <2>c. attached = "none"  BY <1>0, <2>a DEF OrderInv
  <2>e. ~Gone /\ ~Gone'  BY <1>0, <2>a DEF OrderInv, Gone
  <2>f. (Enforcing' <=> Enforcing) /\ promise = NoResult  BY <1>0, <2>a DEF Enforcing, OrderInv, Written
  <2>g. Enforcing => draft.mode = "ENFORCE" \/ (draft.mode = "LOG_ONLY" /\ wish.open /\ draft.pending)
    BY <1>0, <2>a DEF DraftInv
  <2> HIDE DEF next
  <2>1. PolicyInv'  BY <1>0, <2>a DEF PolicyInv
  <2>2. OrderInv'  BY <1>0, <1>p, <2>a, <2>e DEF OrderInv, Written
  <2>3. DraftInv'
    <3>1. CASE attached' = mode /\ draft' = next /\ handling' \in {"raised", "tail"}
      BY <1>0, <1>k, <2>b, <3>1 DEF DraftInv
    <3>2. CASE handling' = "raised" /\ draft' = NoResult /\ attached' = attached
      BY <3>2, <2>c DEF DraftInv, NoResult
    <3> QED  BY <2>a, <3>1, <3>2
  <2>4. PromiseInv'
    <3>1. promise'.mode # "ENFORCE"  BY <2>a, <2>f DEF NoResult
    <3>2. CASE attached' = mode /\ draft' = next /\ handling' \in {"raised", "tail"}
      BY <2>a, <2>b, <2>f, <2>g, <3>1, <3>2 DEF PromiseInv
    <3>3. CASE handling' = "raised" /\ draft' = NoResult /\ attached' = attached
      BY <2>c, <3>1, <3>3 DEF PromiseInv
    <3> QED  BY <2>a, <3>2, <3>3
  <2> QED  BY <1>r, <2>1, <2>2, <2>3, <2>4 DEF PromotionInv
<1>6. CASE WriteVerdict
  <2> USE <1>0, <1>6, <1>k DEF WriteVerdict, Proceed, planeVars
  <2>1. PolicyInv'  BY DEF PolicyInv
  <2>2. OrderInv'  BY <1>p DEF OrderInv, Gone, Written
  <2>3. DraftInv'  BY DEF DraftInv
  <2>a. attached = draft.mode /\ promise = NoResult  BY DEF DraftInv, OrderInv, Written
  <2>b. promise.mode = "none"  BY <2>a DEF NoResult
  <2>4. PromiseInv'
    <3>1. promise'.mode = "ENFORCE" => attached' = "ENFORCE"
      BY <2>a, <2>b
    <3>2. promise'.mode = "ENFORCE" /\ ~promise'.pending => Serving'
      BY <2>b DEF DraftInv
    <3>3. Enforcing /\ attached = "LOG_ONLY" => wish.open /\ draft.pending /\ promise' = draft
      BY <2>a DEF PromiseInv, Written
    <3> QED  BY <3>1, <3>2, <3>3 DEF PromiseInv, Forcing, Enforcing, Written
  <2> QED  BY <1>r, <2>1, <2>2, <2>3, <2>4 DEF PromotionInv
<1>7. CASE CleanUp
  <2> USE <1>0, <1>7, <1>k DEF CleanUp, Proceed
  <2>1. PolicyInv'  BY DEF PolicyInv
  <2>2. OrderInv'  BY <1>p DEF OrderInv, Gone, Written
  <2>3. DraftInv'  BY DEF DraftInv
  <2>4. PromiseInv'  BY DEF PromiseInv, Enforcing, Written
  <2> QED  BY <1>r, <2>1, <2>2, <2>3, <2>4 DEF PromotionInv
<1>8. CASE KillPolicyStep
  <2> USE <1>0, <1>8, <1>k DEF KillPolicyStep, Proceed, planeVars
  <2>1. PolicyInv'  BY DEF PolicyInv
  <2>2. OrderInv'  BY <1>p DEF OrderInv, Gone, Written
  <2>3. DraftInv'  BY DEF DraftInv, NoResult
  <2>4. PromiseInv'  BY DEF PromiseInv, OrderInv, NoResult, Enforcing
  <2> QED  BY <1>r, <2>1, <2>2, <2>3, <2>4 DEF PromotionInv
<1> QED  BY <1>1, <1>2, <1>3, <1>4, <1>5, <1>6, <1>7, <1>8 DEF PolicyStep

\* AgentCore keeps it too: what regresses is disturbed.
LEMMA CoreKeepsInv ==
  ASSUME TypesInv, PromotionInv,
         Converge \/ \E p \in Policy : Validate(p) \/ DeleteEnds(p) \/ Regress(p)
  PROVE  PromotionInv'
<1>0. PolicyInv /\ OrderInv /\ DraftInv /\ PromiseInv /\ ReadersInv  BY DEF PromotionInv
<1>c. cedar \in [Policy -> CedarStatus]  BY DEF TypesInv, PromotionTypeOK
<1>f. UNCHANGED <<wish, engine, attached, verdict, promise, handling, draft, own, promoter>>
  BY DEF Converge, Validate, DeleteEnds, Regress, stepVars
<1>1. /\ disturbedPolicies \subseteq disturbedPolicies'
      /\ \A p \in Policy : Active(p) => Active(p)' \/ disturbedPolicies' # {}
      /\ \A p \in Policy : cedar'[p] # "absent" => cedar[p] # "absent"
  BY <1>c DEF Converge, Validate, DeleteEnds, Regress, Active
<1>k. (Serving => Serving') /\ (Forcing => Forcing') /\ (Gone' <=> Gone)
      /\ (Enforcing' <=> Enforcing)
  BY <1>f, <1>1, ServingKept DEF Gone, Forcing, Enforcing
<1>2. PolicyInv'  BY <1>0, <1>f, <1>1 DEF PolicyInv
<1>3. OrderInv'  BY <1>0, <1>f, <1>k DEF OrderInv
<1>4. DraftInv'  BY <1>0, <1>f, <1>k DEF DraftInv
<1>5. PromiseInv'  BY <1>0, <1>f, <1>k DEF PromiseInv
<1>6. ReadersInv'  BY <1>0, <1>f, <1>k DEF ReadersInv, ReaderOK
<1> QED  BY <1>2, <1>3, <1>4, <1>5, <1>6 DEF PromotionInv

\* One promoter goes on to a value that is right; what the others know stays so.
LEMMA ReadersPut ==
  ASSUME PromotersOK, ReadersInv, NEW r \in Promoter, NEW v \in PromoterRecord, ReaderOK(v)',
         wish' = wish, Serving => Serving', Forcing => Forcing',
         promoter' = [promoter EXCEPT ![r] = v]
  PROVE  ReadersInv'
<1>1. ASSUME NEW s \in Promoter PROVE ReaderOK(promoter[s])'
  <2>1. CASE s = r
    <3>1. promoter'[s] = v  BY <2>1 DEF PromotersOK
    <3> QED  BY <3>1 DEF ReaderOK
  <2>2. CASE s # r
    <3>1. promoter'[s] = promoter[s]  BY <2>2 DEF PromotersOK
    <3> QED  BY <3>1 DEF ReadersInv, ReaderOK
  <2> QED  BY <2>1, <2>2
<1> QED  BY <1>1 DEF ReadersInv

\* A promoter that stops knows nothing.
LEMMA OffKnows == ReaderOK(Off)'
BY DEF ReaderOK, Off, NoResult

\* What a promoter does with the policies and the engine.
LEMMA PromoterKeeps ==
  ASSUME TypesInv, OrderInv, NEW r \in Promoter, Promote(r) \/ StopPromoter(r)
  PROVE  /\ UNCHANGED <<wish, engine, handling, draft, own>>
         /\ Serving => Serving'
         /\ Forcing => Forcing'
         /\ attached' = attached \/ (attached' = "ENFORCE" /\ engine = "here")
         /\ \A p \in Policy : cedar'[p] # "absent" => cedar[p] # "absent" \/ p \in promoter[r].undone
<1>c. cedar \in [Policy -> CedarStatus]  BY DEF TypesInv, PromotionTypeOK
<1>1. CASE DrivePolicy(r)
  <2>1. PICK p \in Policy :
          \/ /\ Looks(r, p, {"failed"}) /\ cedar[p] \in {"failed", "active"}
             /\ cedar' = [cedar EXCEPT ![p] = "updating"]
             /\ disturbedPolicies' = disturbedPolicies \cup {q \in {p} : cedar[q] = "active"}
          \/ /\ Looks(r, p, {"absent"}) /\ cedar[p] = "absent" /\ engine = "here"
             /\ cedar' = [cedar EXCEPT ![p] = "creating"]
             /\ UNCHANGED disturbedPolicies
    BY <1>1, Zenon DEF DrivePolicy
  <2>2. UNCHANGED <<wish, engine, attached, handling, draft, own>>
    BY <1>1, Zenon DEF DrivePolicy, stepVars
  <2>3. p \in promoter[r].undone  BY <2>1 DEF Looks
  <2>4. disturbedPolicies \subseteq disturbedPolicies'  BY <2>1
  <2>5. \A q \in Policy : Active(q) => Active(q)' \/ disturbedPolicies' # {}
    BY <1>c, <2>1 DEF Active
  <2>6. \A q \in Policy : cedar'[q] # "absent" => cedar[q] # "absent" \/ q \in promoter[r].undone
    BY <1>c, <2>1, <2>3
  <2> QED  BY <2>2, <2>4, <2>5, <2>6, ServingKept DEF Gone, Forcing
<1>2. CASE ~DrivePolicy(r)
  <2>1. CASE Touch(r) \/ ListPolicies(r) \/ PassActive(r) \/ PassBusy(r) \/ PollPolicy(r)
    BY <2>1 DEF Touch, ListPolicies, PassActive, PassBusy, PollPolicy, planeVars, stepVars,
                Serving, Forcing, Gone, Active
  <2>2. CASE GiveUp(r) \/ Flip(r)
    BY <2>2 DEF GiveUp, Flip, planeVars, stepVars, Serving, Forcing, Gone, Active
  <2>3. CASE Persist(r) \/ StopPromoter(r)
    BY <2>3 DEF Persist, StopPromoter, planeVars, stepVars, Serving, Forcing, Gone, Active
  <2> QED  BY <1>2, <2>1, <2>2, <2>3 DEF Promote
<1> QED  BY <1>1, <1>2

\* What a promoter writes is so: it persists only what it saw served and made
\* the gateway enforce.
LEMMA PromoterWrites ==
  ASSUME TypesInv, PromotionInv, NEW r \in Promoter, Promote(r) \/ StopPromoter(r)
  PROVE  PromiseInv'
<1>0. PolicyInv /\ OrderInv /\ DraftInv /\ PromiseInv /\ ReadersInv  BY DEF PromotionInv
<1>1. handling \in Written  BY <1>0, PromoterComesLate
<1>2. /\ UNCHANGED <<wish, engine, handling, draft, own>>
      /\ Serving => Serving'
      /\ Forcing => Forcing'
      /\ attached' = attached \/ (attached' = "ENFORCE" /\ engine = "here")
  BY <1>0, PromoterKeeps
<1>3. CASE promise' = promise
  BY <1>0, <1>2, <1>3 DEF PromiseInv, Enforcing
<1>4. CASE promise' # promise
  <2>a. Touch(r) \/ ListPolicies(r) \/ PassActive(r) \/ PassBusy(r) \/ PollPolicy(r)
          => promise' = promise
    BY DEF Touch, ListPolicies, PassActive, PassBusy, PollPolicy
  <2>b. DrivePolicy(r) => promise' = promise
    BY Zenon DEF DrivePolicy
  <2>c. GiveUp(r) \/ Flip(r) \/ StopPromoter(r) => promise' = promise
    BY DEF GiveUp, Flip, StopPromoter
  <2>1. Persist(r)
    BY <1>4, <2>a, <2>b, <2>c DEF Promote
  <2>2. promoter[r].at = "persist" /\ attached' = attached
    BY <2>1 DEF Persist, planeVars
  <2>3. Serving /\ Forcing  BY <1>0, <2>2 DEF ReadersInv, ReaderOK
  <2>4. attached # "LOG_ONLY"
    BY <1>0, <2>3 DEF Forcing, OrderInv
  <2> QED  BY <1>2, <2>2, <2>3, <2>4 DEF PromiseInv
<1> QED  BY <1>3, <1>4

\* What a promoter learns is so.
LEMMA PromoterLearns ==
  ASSUME TypesInv, PromotionInv, NEW r \in Promoter, Promote(r) \/ StopPromoter(r)
  PROVE  ReadersInv'
<1>0. PolicyInv /\ OrderInv /\ DraftInv /\ PromiseInv /\ ReadersInv  BY DEF PromotionInv
<1>t. PromotersOK /\ HandOK /\ PlaneOK /\ RecordOK  BY TypeParts DEF TypesInv
<1>k. (Serving => Serving') /\ (Forcing => Forcing') /\ wish' = wish
  BY <1>0, PromoterKeeps
<1>x. promoter[r] \in PromoterRecord /\ ReaderOK(promoter[r])
  BY <1>0, <1>t DEF PromotersOK, ReadersInv
<1>o. Off \in PromoterRecord  BY OffType
<1>a. \A p \in Policy : cedar[p] = "active" => Serving
  BY <1>0 DEF Serving, Active, PolicyInv
<1>w. wish.policies \in SUBSET Policy  BY WishPolicies
<1>1. CASE Touch(r)
  <2>v. PICK v : v = [Off EXCEPT !.at = "list", !.read = promise]  OBVIOUS
  <2>1. /\ v \in PromoterRecord /\ v.at = "list" /\ v.read = promise /\ v.serving = {} /\ v.seen = Off.seen
        /\ v.undone = {}
    BY <1>o, <1>t, <2>v DEF PromoterRecord, RecordOK, Off
  <2>2. promoter' = [promoter EXCEPT ![r] = v]  BY <1>1, <2>v DEF Touch
  <2>3. promise.mode = "ENFORCE" => Forcing  BY <1>0 DEF PromiseInv
  <2>4. \A p \in Policy : Off.seen[p] # "active"  BY DEF Off
  <2>5. ReaderOK(v)'  BY <1>k, <2>1, <2>3, <2>4 DEF ReaderOK
  <2> QED  BY <1>0, <1>t, <1>k, <2>1, <2>2, <2>5, ReadersPut
<1>2. CASE ListPolicies(r)
  <2>1. PICK listed \in {cedar, Off.seen} :
          promoter' = [promoter EXCEPT ![r] =
            [@ EXCEPT !.at = "policies", !.seen = listed, !.undone = wish.policies]]
    BY <1>2 DEF ListPolicies
  <2>v. PICK v : v = [promoter[r] EXCEPT !.at = "policies", !.seen = listed,
                                         !.undone = wish.policies]
    OBVIOUS
  <2>2. listed \in [Policy -> CedarStatus]  BY <1>t, OffType DEF PlaneOK
  <2>3. /\ v \in PromoterRecord /\ v.at = "policies" /\ v.read = promoter[r].read
        /\ v.serving = promoter[r].serving /\ v.seen = listed /\ v.undone = wish.policies
    BY <1>x, <1>w, <2>2, <2>v DEF PromoterRecord
  <2>4. promoter' = [promoter EXCEPT ![r] = v]  BY <2>1, <2>v
  <2>5. \A p \in Policy : listed[p] = "active" => Serving  BY <1>a DEF Off
  <2>6. ReaderOK(v)'  BY <1>x, <1>k, <2>3, <2>5 DEF ReaderOK
  <2> QED  BY <1>0, <1>t, <1>k, <2>3, <2>4, <2>6, ReadersPut
<1>3. CASE PassActive(r)
  <2>1. PICK p \in Policy :
          /\ Looks(r, p, {"active"})
          /\ promoter' = [promoter EXCEPT ![r] = [Passed(r, p) EXCEPT !.serving = @ \cup {p}]]
    BY <1>3 DEF PassActive
  <2>x. PICK x : x = Passed(r, p)  OBVIOUS
  <2>v. PICK v : v = [x EXCEPT !.serving = x.serving \cup {p}]  OBVIOUS
  <2>2. /\ x \in PromoterRecord /\ x.at = "policies" /\ x.read = promoter[r].read
        /\ x.undone \subseteq promoter[r].undone
        /\ \A q \in Policy : x.seen[q] = "active" => promoter[r].seen[q] = "active"
    BY <1>t, <2>1, <2>x, PassedParts DEF Looks
  <2>4. promoter' = [promoter EXCEPT ![r] = v]  BY <2>1, <2>x, <2>v
  <2>3. /\ v \in PromoterRecord /\ v.at = x.at /\ v.read = x.read /\ v.seen = x.seen
        /\ v.undone = x.undone
    BY <2>2, <2>v DEF PromoterRecord
  <2>5. Serving  BY <1>x, <2>1 DEF ReaderOK, Looks
  <2>6. ReaderOK(v)'  BY <1>x, <1>k, <2>2, <2>3, <2>5 DEF ReaderOK
  <2> QED  BY <1>0, <1>t, <1>k, <2>3, <2>4, <2>6, ReadersPut
<1>4. CASE PassBusy(r)
  <2>1. PICK p \in Policy :
          promoter[r].at = "policies" /\ promoter' = [promoter EXCEPT ![r] = Passed(r, p)]
    BY <1>4 DEF PassBusy, Looks
  <2>v. PICK v : v = Passed(r, p)  OBVIOUS
  <2>2. /\ v \in PromoterRecord /\ v.at = "policies" /\ v.read = promoter[r].read
        /\ v.serving = promoter[r].serving /\ v.undone \subseteq promoter[r].undone
        /\ \A q \in Policy : v.seen[q] = "active" => promoter[r].seen[q] = "active"
    BY <1>t, <2>1, <2>v, PassedParts
  <2>4. promoter' = [promoter EXCEPT ![r] = v]  BY <2>1, <2>v
  <2>6. ReaderOK(v)'  BY <1>x, <1>k, <2>2 DEF ReaderOK
  <2> QED  BY <1>0, <1>t, <1>k, <2>2, <2>4, <2>6, ReadersPut
<1>5. CASE DrivePolicy(r)
  <2>1. PICK p \in Policy :
          promoter' = [promoter EXCEPT ![r] = [Passed(r, p) EXCEPT !.at = "poll", !.hand = p]]
    BY <1>5, Zenon DEF DrivePolicy
  <2>x. PICK x : x = Passed(r, p)  OBVIOUS
  <2>v. PICK v : v = [x EXCEPT !.at = "poll", !.hand = p]  OBVIOUS
  <2>2. /\ x \in PromoterRecord /\ x.read = promoter[r].read
        /\ x.serving = promoter[r].serving /\ x.undone \subseteq promoter[r].undone
        /\ \A q \in Policy : x.seen[q] = "active" => promoter[r].seen[q] = "active"
    BY <1>t, <2>x, PassedParts
  <2>4. promoter' = [promoter EXCEPT ![r] = v]  BY <2>1, <2>x, <2>v
  <2>3. /\ v \in PromoterRecord /\ v.at = "poll" /\ v.read = x.read /\ v.seen = x.seen
        /\ v.serving = x.serving /\ v.undone = x.undone
    BY <2>2, <2>v DEF PromoterRecord
  <2>6. ReaderOK(v)'  BY <1>x, <1>k, <2>2, <2>3 DEF ReaderOK
  <2> QED  BY <1>0, <1>t, <1>k, <2>3, <2>4, <2>6, ReadersPut
<1>6. CASE PollPolicy(r)
  <2>1. promoter[r].hand \in Policy  BY <1>t, <1>6 DEF HandOK, PollPolicy
  <2>s. PICK s : s = promoter[r].serving \cup {q \in {promoter[r].hand} : cedar[q] = "active"}
    OBVIOUS
  <2>v. PICK v : v = [promoter[r] EXCEPT !.at = "policies", !.hand = NoPolicy, !.serving = s]
    OBVIOUS
  <2>2. s \in SUBSET Policy  BY <1>x, <2>1, <2>s DEF PromoterRecord
  <2>3. s # {} => Serving  BY <1>x, <1>a, <2>1, <2>s DEF ReaderOK
  <2>4. promoter' = [promoter EXCEPT ![r] = v]  BY <1>6, <2>s, <2>v DEF PollPolicy
  <2>5. /\ v \in PromoterRecord /\ v.at = "policies" /\ v.read = promoter[r].read
        /\ v.seen = promoter[r].seen /\ v.serving = s /\ v.undone = promoter[r].undone
    BY <1>x, <2>2, <2>v DEF PromoterRecord
  <2>6. ReaderOK(v)'  BY <1>x, <1>k, <2>3, <2>5 DEF ReaderOK
  <2> QED  BY <1>0, <1>t, <1>k, <2>4, <2>5, <2>6, ReadersPut
<1>7. CASE GiveUp(r) \/ Persist(r) \/ StopPromoter(r)
  <2>1. promoter' = [promoter EXCEPT ![r] = Off]
    BY <1>7 DEF GiveUp, Persist, StopPromoter
  <2> QED  BY <1>0, <1>t, <1>k, <1>o, <2>1, OffKnows, ReadersPut
<1>8. CASE Flip(r)
  <2>v. PICK v : v = [promoter[r] EXCEPT !.at = "persist"]  OBVIOUS
  <2>1. /\ v \in PromoterRecord /\ v.at = "persist" /\ v.read = promoter[r].read
        /\ v.seen = promoter[r].seen /\ v.serving = promoter[r].serving
        /\ v.undone = promoter[r].undone
    BY <1>x, <2>v DEF PromoterRecord
  <2>2. Serving  BY <1>x, <1>8 DEF ReaderOK, Flip
  <2>3. \/ promoter' = [promoter EXCEPT ![r] = v] /\ (Forcing \/ attached' = "ENFORCE")
        \/ promoter' = [promoter EXCEPT ![r] = Off]
    BY <1>x, <1>8, <2>v DEF Flip, ReaderOK
  <2>4. CASE promoter' = [promoter EXCEPT ![r] = v] /\ (Forcing \/ attached' = "ENFORCE")
    <3>1. Serving' /\ Forcing'  BY <1>k, <2>2, <2>4 DEF Forcing
    <3>2. ReaderOK(v)'  BY <1>x, <1>k, <2>1, <3>1 DEF ReaderOK
    <3> QED  BY <1>0, <1>t, <1>k, <2>1, <2>4, <3>2, ReadersPut
  <2>5. CASE promoter' = [promoter EXCEPT ![r] = Off]
    BY <1>0, <1>t, <1>k, <1>o, <2>5, OffKnows, ReadersPut
  <2> QED  BY <2>3, <2>4, <2>5
<1> QED  BY <1>1, <1>2, <1>3, <1>4, <1>5, <1>6, <1>7, <1>8 DEF Promote

\* A promoter keeps the invariant.
LEMMA PromoterKeepsInv ==
  ASSUME TypesInv, PromotionInv, NEW r \in Promoter, Promote(r) \/ StopPromoter(r)
  PROVE  PromotionInv'
<1>0. PolicyInv /\ OrderInv /\ DraftInv /\ PromiseInv /\ ReadersInv  BY DEF PromotionInv
<1>1. handling \in Written  BY <1>0, PromoterComesLate
<1>2. /\ UNCHANGED <<wish, engine, handling, draft, own>>
      /\ Serving => Serving'
      /\ attached' = attached \/ (attached' = "ENFORCE" /\ engine = "here")
      /\ \A p \in Policy : cedar'[p] # "absent" => cedar[p] # "absent" \/ p \in promoter[r].undone
  BY <1>0, PromoterKeeps
<1>3. PolicyInv'
  BY <1>0, <1>2 DEF PolicyInv, ReadersInv, ReaderOK
<1>4. OrderInv'
  BY <1>0, <1>1, <1>2 DEF OrderInv, Written, Gone
<1>5. DraftInv'
  BY <1>0, <1>1, <1>2 DEF DraftInv, Written, Enforcing
<1>6. PromiseInv' /\ ReadersInv'
  BY PromoterWrites, PromoterLearns
<1> QED  BY <1>3, <1>4, <1>5, <1>6 DEF PromotionInv

\* Everything recorded, handed on, read and concluded about enforcement is so,
\* whatever overlaps and fails.
THEOREM PromotionInvariant == PromotionSpec => []PromotionInv
<1>1. TypesInv /\ PromotionInv /\ [PromotionNext]_promotionVars => PromotionInv'
  <2> SUFFICES ASSUME TypesInv, PromotionInv, [PromotionNext]_promotionVars PROVE PromotionInv'
    OBVIOUS
  <2>1. CASE UNCHANGED promotionVars
    BY <2>1 DEF PromotionInv, PolicyInv, OrderInv, DraftInv, PromiseInv, ReadersInv, ReaderOK,
                Serving, Forcing, Gone, Active, Enforcing, promotionVars, planeVars, stepVars
  <2>2. CASE PromotionNext
    BY <2>2, StepKeepsInv, CoreKeepsInv, PromoterKeepsInv DEF PromotionNext
  <2> QED  BY <2>1, <2>2
<1> QED  BY <1>1, PromotionInvInit, PromotionTypes, PTL DEF PromotionSpec

\* What the record says of enforcement is how the gateway behaves, for any
\* number of promoters, policies, configurations and faults.
THEOREM EnforcementHolds == PromotionSpec => []EnforcementAsTold
<1>1. PromotionInv => EnforcementAsTold
  <2> SUFFICES ASSUME PromotionInv PROVE EnforcementAsTold
    OBVIOUS
  <2>1. EnforcedIsServed
    BY DEF PromotionInv, PromiseInv, EnforcedIsServed, Serving, Forcing, Gone, Active
  <2>2. UnenforcedIsPending
    BY DEF PromotionInv, PromiseInv, OrderInv, UnenforcedIsPending, Written
  <2> QED  BY <2>1, <2>2 DEF EnforcementAsTold
<1> QED  BY <1>1, PromotionInvariant, PTL
=============================================================================
