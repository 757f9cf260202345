--------------------------- MODULE MCControlPlane ---------------------------
(* The tables of a name, the teardown of a runtime and the promotion of    *)
(* policies in one run.  They share no state: a behaviour is one of focus, *)
(* and the others stay in an initial state of theirs.                      *)
EXTENDS RuntimeSlots, RuntimeTeardown, PolicyPromotion

CONSTANTS alice, v1, v2, r1, bot, node, t1, t2, p1, p2, a1, a2

-----------------------------------------------------------------------------
(* Instances.                                                              *)

OneName == [v \in Version |-> bot]
NodeIds == [v \in Version |-> node]

\* A record: the rows of its manifest, what it names without a manifest, what
\* a step may still record, what is recorded nowhere.
RecordOf(manifest, legacy, late, unlisted, harness, flow) ==
  [manifest |-> manifest, legacy |-> legacy, late |-> late,
   unlisted |-> unlisted, harness |-> harness, flow |-> flow]

SomeRecords == {
  RecordOf({"knowledge_base", "store", "kb_role"}, {}, {}, {"kb_tool"}, FALSE, TRUE),
  RecordOf({"knowledge_base", "collection"}, {}, {}, {}, FALSE, FALSE),
  RecordOf({"gateway", "runtime"}, {}, {"pool"}, {"extras"}, FALSE, FALSE),
  RecordOf({"harness"}, {}, {}, {}, TRUE, FALSE),
  RecordOf({}, {"policy_engine", "memory"}, {}, {}, FALSE, FALSE) }

\* AgentCore can validate p1 and not p2.
Enforce(tools, open, policies, doomed) ==
  [mode |-> "ENFORCE", open |-> open, tools |-> tools, policies |-> policies,
   doomed |-> doomed]

SomeWishes == {
  Enforce("synced", FALSE, {p1}, FALSE),
  Enforce("synced", TRUE, {p1}, FALSE),
  Enforce("synced", FALSE, {p1}, TRUE),
  Enforce("synced", TRUE, {p2}, FALSE),
  Enforce("partial", FALSE, {p1}, FALSE) }

-----------------------------------------------------------------------------
(* The composition.                                                        *)

VARIABLE focus

Parked(part) == focus # part

PlatformInit ==
  /\ focus \in {"slots", "teardown", "promotion"}
  /\ Init /\ TeardownInit /\ PromotionInit
  /\ Parked("teardown") => record = CHOOSE r \in Records : TRUE
  /\ Parked("promotion") => wish = CHOOSE w \in Wishes : TRUE

PlatformNext ==
  \/ /\ focus = "slots" /\ Next
     /\ UNCHANGED <<focus, teardownVars, promotionVars>>
  \/ /\ focus = "teardown" /\ TeardownNext
     /\ UNCHANGED <<focus, vars, promotionVars>>
  \/ /\ focus = "promotion" /\ PromotionNext
     /\ UNCHANGED <<focus, vars, teardownVars>>

\* The fairness of each of them, in its turn.
Turn(part, action) == focus = part /\ action

PlatformFair ==
  /\ \A v \in Version : WF_vars(Turn("slots", phase[v] # "idle" /\ DeployStep(v)))
  /\ \A t \in Teardown : WF_teardownVars(Turn("teardown", Work(t)))
  /\ WF_teardownVars(Turn("teardown", PartsGone))
  /\ WF_teardownVars(Turn("teardown", BaseGone))
  /\ WF_promotionVars(Turn("promotion", PolicyStep))
  /\ WF_promotionVars(Turn("promotion", Converge))
  /\ \A r \in Promoter : WF_promotionVars(Turn("promotion", Promote(r)))
  /\ \A p \in Policy : /\ WF_promotionVars(Turn("promotion", Validate(p)))
                       /\ WF_promotionVars(Turn("promotion", DeleteEnds(p)))

PlatformSpec ==
  PlatformInit /\ [][PlatformNext]_<<focus, vars, teardownVars, promotionVars>>
  /\ PlatformFair

\* Every value of the part in focus stays in its range.
PlatformTypeOK ==
  /\ Parked("slots") \/ TypeOK
  /\ Parked("teardown") \/ TeardownTypeOK
  /\ Parked("promotion") \/ PromotionTypeOK
=============================================================================
