-------------------------- MODULE PolicyPromotion --------------------------
(***************************************************************************)
(* The Cedar policies of one deployment's gateway: the policy step that    *)
(* creates and attaches them, the tail that records how far it came, and   *)
(* the promoters that finish the work later -- a status poll, a test and   *)
(* the sweep of every five minutes run the same code, in Lambdas of their  *)
(* own, and overlap freely.                                                *)
(*                                                                         *)
(* AgentCore validates a policy after the call that wrote it returned, and *)
(* only once the gateway's authorization plane has converged.  An engine   *)
(* in ENFORCE denies whatever no active policy permits.                    *)
(***************************************************************************)
EXTENDS Naturals, FiniteSets

CONSTANTS
  Policy,          \* the policies that a deployment may intend
  Sound,           \* those that AgentCore can validate
  Wishes,          \* the policy configurations to choose from
  Promoter,        \* runs of the promoter that may overlap
  Recreates,       \* how often the step makes a failed policy again
  PromotionFaults, \* which failures may happen, a subset of PromotionFaultKinds
  MaxSetbacks      \* how many of them in one behaviour

PromotionFaultKinds == {"raise", "list", "late", "flip", "persist", "stop",
                        "step_kill", "remake", "regress"}

\* mode and on_enforce_failure of the configuration, the gateway's tools, and
\* whether a step after this one fails.
Wish == [mode : {"ENFORCE", "LOG_ONLY"}, open : BOOLEAN,
         tools : {"synced", "partial", "forbidden"},
         policies : SUBSET Policy, doomed : BOOLEAN]

ASSUME PromotionAssumption ==
  /\ Sound \subseteq Policy /\ Wishes \subseteq Wish
  /\ Recreates \in Nat /\ MaxSetbacks \in Nat
  /\ PromotionFaults \subseteq PromotionFaultKinds

VARIABLES
  wish,       \* the configuration chosen
  converged,  \* the gateway's authorization plane
  engine,     \* the policy engine: "none", "here", "gone"
  cedar,      \* the status of each policy on it
  attached,   \* the mode in which the gateway has it
  verdict,    \* status of the deployment
  promise,    \* policy_result on the record
  handling,   \* the next step of the policy step's Lambda, then of the tail
  draft,      \* the policy_result it hands on
  made,       \* created_policy_ids still to be awaited
  own,        \* and all of them
  unsound,    \* failed
  remade,     \* made again under another id
  tries,      \* recreations of the policy being awaited
  promoter,   \* each promoter: its next step, the policy_result it read, what
              \* it listed, what it has yet to look at, the policy in hand,
              \* and those it counted as active
  setbacks,   \* the faults so far
  disturbedPolicies  \* active policies that were updated, or regressed

stepVars == <<handling, draft, made, own, unsound, remade, tries>>
planeVars == <<converged, engine, cedar, attached>>
promotionVars == <<wish, planeVars, verdict, promise, stepVars, promoter,
                   setbacks, disturbedPolicies>>

Setback(kind) ==
  /\ kind \in PromotionFaults /\ setbacks < MaxSetbacks
  /\ setbacks' = setbacks + 1
NoSetback == UNCHANGED setbacks

\* enforce_pending and enforce_validation_pending.
NoResult == [mode |-> "none", pending |-> FALSE, validating |-> FALSE]
NoPolicy == "no policy"

\* A promoter that does not run.
Off == [at |-> "idle", read |-> NoResult, seen |-> [p \in Policy |-> "absent"],
        undone |-> {}, hand |-> NoPolicy, serving |-> {}]

PromotionInit ==
  /\ wish \in Wishes
  /\ converged = FALSE /\ engine = "none" /\ attached = "none"
  /\ cedar = [p \in Policy |-> "absent"]
  /\ verdict = "in_progress" /\ promise = NoResult
  /\ handling = "start" /\ draft = NoResult
  /\ made = {} /\ own = {} /\ unsound = {} /\ remade = {} /\ tries = 0
  /\ promoter = [r \in Promoter |-> Off]
  /\ setbacks = 0 /\ disturbedPolicies = {}

Proceed(where) == handling' = where
Enforcing == wish.mode = "ENFORCE"
InFlight == {"creating", "updating", "deleting"}

-----------------------------------------------------------------------------
(* policy_step.handler.                                                    *)

\* A gateway whose tools are not all there is not given an ENFORCE engine.
EnsureEngine ==
  /\ handling = "start"
  /\ IF Enforcing /\ wish.tools = "partial"
     THEN Proceed("raised") /\ UNCHANGED engine /\ NoSetback
     ELSE \/ /\ engine' = "here" /\ NoSetback
             /\ Proceed(IF wish.tools = "forbidden" THEN "raised" ELSE "create")
          \/ Setback("raise") /\ Proceed("raised") /\ UNCHANGED engine
  /\ made' = {} /\ own' = {} /\ unsound' = {} /\ remade' = {} /\ tries' = 0
  /\ UNCHANGED <<wish, converged, cedar, attached, verdict, promise, draft,
                 promoter, disturbedPolicies>>

\* A policy that an earlier attempt made is adopted.
CreatePolicy ==
  /\ handling = "create"
  /\ \/ \E p \in wish.policies \ own :
          /\ cedar' = [cedar EXCEPT ![p] = IF @ = "absent" THEN "creating" ELSE @]
          /\ made' = made \cup {p} /\ own' = own \cup {p}
          /\ UNCHANGED handling /\ NoSetback
     \/ /\ Setback("raise") /\ Proceed("raised")
        /\ UNCHANGED <<cedar, made, own>>
     \/ /\ wish.policies = own /\ NoSetback
        /\ Proceed(IF Enforcing THEN "await" ELSE "attach")
        /\ UNCHANGED <<cedar, made, own>>
  /\ UNCHANGED <<wish, converged, engine, attached, verdict, promise, draft,
                 unsound, remade, tries, promoter, disturbedPolicies>>

\* Mutant of MayRemake: one time too many.
MayRemakeOnceMore == tries <= Recreates

\* A policy that failed is made again so many times.
MayRemake == tries < Recreates

\* _await_policy; a time-out is no reason to make the policy again.
AwaitPolicy ==
  /\ handling = "await"
  /\ \E p \in made :
       \/ /\ cedar[p] = "active"
          /\ made' = made \ {p} /\ tries' = 0
          /\ NoSetback /\ UNCHANGED <<unsound, remade, cedar>>
       \/ /\ cedar[p] = "failed" /\ MayRemake
          /\ p \in Sound \/ ~converged
          /\ cedar' = [cedar EXCEPT ![p] = "creating"]
          /\ remade' = remade \cup {p} /\ tries' = tries + 1
          /\ NoSetback /\ UNCHANGED <<made, unsound>>
       \/ /\ \/ cedar[p] = "failed" /\ (~MayRemake \/ p \notin Sound) /\ NoSetback
             \/ cedar[p] \in InFlight /\ Setback("late")
             \/ cedar[p] = "failed" /\ Setback("remake")
          /\ made' = made \ {p} /\ unsound' = unsound \cup {p} /\ tries' = 0
          /\ UNCHANGED <<remade, cedar>>
  /\ UNCHANGED <<wish, converged, engine, attached, verdict, promise, handling,
                 draft, own, promoter, disturbedPolicies>>

\* What did not validate is dropped, unless it was made again under another id.
\* Whether ENFORCE can be attached as it is: every policy awaited, and one of
\* them listed as active.
Judge ==
  /\ handling = "await" /\ made = {}
  /\ LET short == unsound # {} \/ own = {} IN
     \/ /\ short
        /\ cedar' = [p \in Policy |->
             IF p \in own \ remade /\ unsound # {} /\ cedar[p] # "active" /\ cedar[p] # "absent"
             THEN "deleting" ELSE cedar[p]]
        /\ draft' = [mode |-> IF wish.open THEN "LOG_ONLY" ELSE "ENFORCE",
                     pending |-> TRUE, validating |-> ~wish.open]
        /\ NoSetback
     \/ /\ ~short /\ UNCHANGED cedar
        /\ \/ /\ \E p \in Policy : cedar[p] = "active"
              /\ draft' = [mode |-> "ENFORCE", pending |-> FALSE, validating |-> FALSE]
              /\ NoSetback
           \/ /\ \/ Setback("list")
                 \/ (\A p \in Policy : cedar[p] # "active") /\ NoSetback
              /\ draft' = [mode |-> IF wish.open THEN "LOG_ONLY" ELSE "ENFORCE",
                           pending |-> TRUE, validating |-> ~wish.open]
  /\ Proceed("attach")
  /\ UNCHANGED <<wish, converged, engine, attached, verdict, promise, made, own,
                 unsound, remade, tries, promoter, disturbedPolicies>>

Attach ==
  /\ handling = "attach"
  /\ LET mode == IF Enforcing THEN draft.mode ELSE "LOG_ONLY" IN
     \/ /\ attached' = mode /\ draft' = [draft EXCEPT !.mode = mode]
        /\ Proceed(IF wish.doomed THEN "raised" ELSE "tail") /\ NoSetback
     \/ /\ Setback("raise") /\ Proceed("raised")
        /\ draft' = NoResult /\ UNCHANGED attached
  /\ UNCHANGED <<wish, converged, engine, cedar, verdict, promise, made, own,
                 unsound, remade, tries, promoter, disturbedPolicies>>

\* Step Functions runs a killed step again, from its beginning.
KillPolicyStep ==
  /\ Setback("step_kill") /\ handling \in {"create", "await", "attach"}
  /\ Proceed("start") /\ draft' = NoResult
  /\ UNCHANGED <<wish, planeVars, verdict, promise, made, own, unsound, remade,
                 tries, promoter, disturbedPolicies>>

\* status_update_step: the success write, or the failure write with the same
\* result and then the cleanup, which may leave the engine.
WriteVerdict ==
  /\ handling \in {"tail", "raised"}
  /\ verdict' = IF handling = "tail" THEN "succeeded" ELSE "failed"
  /\ promise' = IF draft.mode = "none" THEN promise ELSE draft
  /\ Proceed(IF handling = "tail" THEN "ended" ELSE "clean")
  /\ UNCHANGED <<wish, planeVars, draft, made, own, unsound, remade, tries,
                 promoter, setbacks, disturbedPolicies>>

CleanUp ==
  /\ handling = "clean"
  /\ \/ /\ engine' = "gone" /\ attached' = "none" /\ NoSetback
        /\ cedar' = [p \in Policy |-> "absent"]
     \/ Setback("raise") /\ UNCHANGED <<engine, attached, cedar>>
  /\ Proceed("ended")
  /\ UNCHANGED <<wish, converged, verdict, promise, draft, made, own, unsound,
                 remade, tries, promoter, disturbedPolicies>>

-----------------------------------------------------------------------------
(* _maybe_promote_policy and try_promote_to_enforce, from any of the three *)
(* callers.  The status of the deployment is not looked at.                *)

\* Only a record with the pending payload gets past the first test; what
\* scan_pending_enforce selects beside it never does.
Touch(r) ==
  /\ promoter[r].at = "idle" /\ promise.pending
  /\ promise.mode = "ENFORCE" => promise.validating
  /\ promoter' = [promoter EXCEPT ![r] = [Off EXCEPT !.at = "list", !.read = promise]]
  /\ UNCHANGED <<wish, planeVars, verdict, promise, stepVars, setbacks, disturbedPolicies>>

\* A list that fails reads as an empty engine.
ListPolicies(r) ==
  /\ promoter[r].at = "list"
  /\ \E listed \in {cedar, Off.seen} :
       /\ IF listed = cedar THEN NoSetback ELSE Setback("list")
       /\ promoter' = [promoter EXCEPT ![r] =
            [@ EXCEPT !.at = "policies", !.seen = listed, !.undone = wish.policies]]
  /\ UNCHANGED <<wish, planeVars, verdict, promise, stepVars, disturbedPolicies>>

\* The next policy, which the list said to be as `status`.
Looks(r, p, status) ==
  /\ promoter[r].at = "policies" /\ p \in promoter[r].undone
  /\ promoter[r].seen[p] \in status

Passed(r, p) == [promoter[r] EXCEPT !.undone = @ \ {p}, !.seen = [@ EXCEPT ![p] = "absent"]]

PassActive(r) ==
  /\ \E p \in Policy :
       /\ Looks(r, p, {"active"})
       /\ promoter' = [promoter EXCEPT ![r] = [Passed(r, p) EXCEPT !.serving = @ \cup {p}]]
  /\ UNCHANGED <<wish, planeVars, verdict, promise, stepVars, setbacks, disturbedPolicies>>

\* A change in flight belongs to another run, and so does one that is met only
\* when this run makes its call, as a conflict.
PassBusy(r) ==
  /\ \E p \in Policy :
       /\ \/ Looks(r, p, InFlight)
          \/ Looks(r, p, {"failed"}) /\ cedar[p] \in InFlight \cup {"absent"}
          \/ Looks(r, p, {"absent"}) /\ (cedar[p] # "absent" \/ engine # "here")
       /\ promoter' = [promoter EXCEPT ![r] = Passed(r, p)]
  /\ UNCHANGED <<wish, planeVars, verdict, promise, stepVars, setbacks, disturbedPolicies>>

\* Mutant of DrivePolicy: a failed policy is deleted, to be created again.
DrivePolicyAnew(r) ==
  /\ \E p \in Policy :
       /\ \/ Looks(r, p, {"failed"}) /\ cedar[p] \in {"failed", "active"}
             /\ cedar' = [cedar EXCEPT ![p] = "deleting"]
          \/ Looks(r, p, {"absent"}) /\ cedar[p] = "absent" /\ engine = "here"
             /\ cedar' = [cedar EXCEPT ![p] = "creating"]
       /\ promoter' = [promoter EXCEPT ![r] =
            [Passed(r, p) EXCEPT !.at = "poll", !.hand = p]]
  /\ UNCHANGED <<wish, converged, engine, attached, verdict, promise, stepVars, setbacks,
                 disturbedPolicies>>

\* A failed policy is updated in place, a missing one created.
DrivePolicy(r) ==
  /\ \E p \in Policy :
       /\ \/ /\ Looks(r, p, {"failed"}) /\ cedar[p] \in {"failed", "active"}
             /\ cedar' = [cedar EXCEPT ![p] = "updating"]
             /\ disturbedPolicies' = disturbedPolicies \cup {q \in {p} : cedar[q] = "active"}
          \/ /\ Looks(r, p, {"absent"}) /\ cedar[p] = "absent" /\ engine = "here"
             /\ cedar' = [cedar EXCEPT ![p] = "creating"]
             /\ UNCHANGED disturbedPolicies
       /\ promoter' = [promoter EXCEPT ![r] =
            [Passed(r, p) EXCEPT !.at = "poll", !.hand = p]]
  /\ UNCHANGED <<wish, converged, engine, attached, verdict, promise, stepVars, setbacks>>

\* Half a minute of polling, which may be too short.
PollPolicy(r) ==
  /\ promoter[r].at = "poll"
  /\ LET p == promoter[r].hand IN
     /\ IF cedar[p] \in InFlight THEN Setback("late") ELSE NoSetback
     /\ promoter' = [promoter EXCEPT ![r] =
          [promoter[r] EXCEPT !.at = "policies", !.hand = NoPolicy,
             !.serving = @ \cup {q \in {p} : cedar[q] = "active"}]]
  /\ UNCHANGED <<wish, planeVars, verdict, promise, stepVars, disturbedPolicies>>

Passes(r) == promoter[r].at = "policies" /\ promoter[r].undone = {}

\* No policy of the payload is active: LOG_ONLY, or denying all, stays.
GiveUp(r) ==
  /\ Passes(r) /\ promoter[r].serving = {}
  /\ promoter' = [promoter EXCEPT ![r] = Off]
  /\ UNCHANGED <<wish, planeVars, verdict, promise, stepVars, setbacks, disturbedPolicies>>

\* One active policy is enough.  An engine attached in ENFORCE needs no update.
Flip(r) ==
  /\ Passes(r) /\ promoter[r].serving # {}
  /\ \/ /\ promoter[r].read.mode = "ENFORCE" /\ NoSetback
        /\ promoter' = [promoter EXCEPT ![r].at = "persist"] /\ UNCHANGED attached
     \/ /\ promoter[r].read.mode # "ENFORCE" /\ engine = "here" /\ NoSetback
        /\ promoter' = [promoter EXCEPT ![r].at = "persist"] /\ attached' = "ENFORCE"
     \/ /\ promoter[r].read.mode # "ENFORCE"
        /\ (engine # "here" /\ NoSetback) \/ Setback("flip")
        /\ promoter' = [promoter EXCEPT ![r] = Off] /\ UNCHANGED attached
  /\ UNCHANGED <<wish, converged, engine, cedar, verdict, promise, stepVars, disturbedPolicies>>

\* Mutant of Persist: the mode is stored, the pending payload stays as it was.
PersistMode(r) ==
  /\ promoter[r].at = "persist"
  /\ promise' = [promoter[r].read EXCEPT !.mode = "ENFORCE"] /\ verdict' = "succeeded"
  /\ promoter' = [promoter EXCEPT ![r] = Off]
  /\ UNCHANGED <<wish, planeVars, stepVars, setbacks, disturbedPolicies>>

\* The whole result is put back, and SUCCEEDED with it.
Persist(r) ==
  /\ promoter[r].at = "persist"
  /\ \/ /\ promise' = [mode |-> "ENFORCE", pending |-> FALSE, validating |-> FALSE]
        /\ verdict' = "succeeded" /\ NoSetback
     \/ Setback("persist") /\ UNCHANGED <<promise, verdict>>
  /\ promoter' = [promoter EXCEPT ![r] = Off]
  /\ UNCHANGED <<wish, planeVars, stepVars, disturbedPolicies>>

StopPromoter(r) ==
  /\ Setback("stop") /\ promoter[r].at # "idle"
  /\ promoter' = [promoter EXCEPT ![r] = Off]
  /\ UNCHANGED <<wish, planeVars, verdict, promise, stepVars, disturbedPolicies>>

-----------------------------------------------------------------------------
(* AgentCore.                                                              *)

\* Before the plane converged a validation may go either way.
Validate(p) ==
  /\ cedar[p] \in {"creating", "updating"}
  /\ \/ p \in Sound /\ cedar' = [cedar EXCEPT ![p] = "active"]
     \/ /\ p \notin Sound \/ ~converged
        /\ cedar' = [cedar EXCEPT ![p] = "failed"]
  /\ UNCHANGED <<wish, converged, engine, attached, verdict, promise, stepVars,
                 promoter, setbacks, disturbedPolicies>>

DeleteEnds(p) ==
  /\ cedar[p] = "deleting" /\ cedar' = [cedar EXCEPT ![p] = "absent"]
  /\ UNCHANGED <<wish, converged, engine, attached, verdict, promise, stepVars,
                 promoter, setbacks, disturbedPolicies>>

Converge ==
  /\ ~converged /\ converged' = TRUE
  /\ UNCHANGED <<wish, engine, cedar, attached, verdict, promise, stepVars,
                 promoter, setbacks, disturbedPolicies>>

\* A policy that was active is found wanting later.
Regress(p) ==
  /\ Setback("regress") /\ cedar[p] = "active" /\ handling = "ended"
  /\ cedar' = [cedar EXCEPT ![p] = "failed"]
  /\ disturbedPolicies' = disturbedPolicies \cup {p}
  /\ UNCHANGED <<wish, converged, engine, attached, verdict, promise, stepVars,
                 promoter>>

PolicyStep == \/ EnsureEngine \/ CreatePolicy \/ AwaitPolicy \/ Judge \/ Attach
              \/ WriteVerdict \/ CleanUp

Promote(r) == \/ Touch(r) \/ ListPolicies(r) \/ PassActive(r) \/ PassBusy(r)
              \/ DrivePolicy(r) \/ PollPolicy(r) \/ GiveUp(r) \/ Flip(r)
              \/ Persist(r)

PromotionNext ==
  \/ PolicyStep \/ KillPolicyStep \/ Converge
  \/ \E r \in Promoter : Promote(r) \/ StopPromoter(r)
  \/ \E p \in Policy : Validate(p) \/ DeleteEnds(p) \/ Regress(p)

PromotionSpec == PromotionInit /\ [][PromotionNext]_promotionVars

-----------------------------------------------------------------------------
(* Properties.                                                             *)

CedarStatus == {"absent", "active", "failed"} \cup InFlight
Result == [mode : {"none", "LOG_ONLY", "ENFORCE"}, pending : BOOLEAN,
           validating : BOOLEAN]

\* Every value stays in its range.
PromotionTypeOK ==
  /\ wish \in Wishes /\ converged \in BOOLEAN
  /\ engine \in {"none", "here", "gone"} /\ cedar \in [Policy -> CedarStatus]
  /\ attached \in {"none", "LOG_ONLY", "ENFORCE"}
  /\ verdict \in {"in_progress", "succeeded", "failed"} /\ promise \in Result
  /\ handling \in {"start", "create", "await", "attach", "raised", "tail",
                   "clean", "ended"}
  /\ draft \in Result /\ tries \in 0..Recreates
  /\ made \subseteq own /\ own \subseteq Policy
  /\ unsound \subseteq own /\ remade \subseteq own
  /\ promoter \in [Promoter ->
       [at : {"idle", "list", "policies", "poll", "persist"}, read : Result,
        seen : [Policy -> CedarStatus], undone : SUBSET Policy,
        hand : Policy \cup {NoPolicy}, serving : SUBSET Policy]]
  /\ setbacks \in 0..MaxSetbacks /\ disturbedPolicies \subseteq Policy

\* Once the record says that an engine enforces, with nothing pending, the
\* gateway does enforce and some policy lets tools through: no overlap of
\* promoters, step and tail ships an engine that denies everything for good
\* (Bug 137, Bug 178), unless an active policy was touched again or regressed.
EnforcedIsServed ==
  promise.mode = "ENFORCE" /\ ~promise.pending /\ engine = "here" =>
    /\ attached = "ENFORCE"
    /\ (\E p \in wish.policies : cedar[p] = "active") \/ disturbedPolicies # {}

\* Tools that were to be policed are never offered without enforcement, except
\* by explicit choice, and then the record keeps what a promoter needs
\* until the gateway enforces (P-PLAT-027).
UnenforcedIsPending ==
  Enforcing /\ verdict # "in_progress" /\ attached = "LOG_ONLY" =>
    wish.open /\ promise.pending

\* What the record says of enforcement is how the gateway behaves, after any
\* overlap of the step, the tail, polls, tests and sweeps.
EnforcementAsTold == EnforcedIsServed /\ UnenforcedIsPending

\* A pending engine is promoted in the end, by the sweep if by nobody else,
\* when at least one intended policy can be validated.
PendingConverges ==
  (promise.pending /\ wish.policies \cap Sound # {}) ~> (~promise.pending \/ engine = "gone")

\* Promoters are started again and again, Lambdas go on, AgentCore ends what it
\* began and converges.
PromotionFair ==
  /\ WF_promotionVars(PolicyStep) /\ WF_promotionVars(Converge)
  /\ \A r \in Promoter : WF_promotionVars(Promote(r))
  /\ \A p \in Policy : WF_promotionVars(Validate(p)) /\ WF_promotionVars(DeleteEnds(p))
=============================================================================
