---------------------------- MODULE GatewayTargets ----------------------------
(* deploy_gateway: what one deploy makes beside the gateway -- user pools,  *)
(* roles, functions, credential providers, secrets, staged specifications -- *)
(* and what it tells its caller of it, through failures, rollbacks and the   *)
(* recreation of a gateway that serves no tools.                             *)
(* (services/gateway_deployer.py)                                            *)
EXTENDS Naturals, Sequences

\* lambda and config are the entries of gateway_config.targets: a function of
\* the user's own, and a specification (OpenAPI or Smithy).
Family == {"tools", "runtime", "custom", "kb", "connector", "external", "config",
           "lambda"}

\* What may be asked for without what its target takes: tools of which none has
\* a known schema, a specification without its text, a function without its ARN.
Voidable == {"tools", "config", "lambda"}
GatewayAsk == [families : SUBSET Family, void : SUBSET Voidable,
               idp : {"cognito", "external"}, existing : BOOLEAN]

CONSTANTS
  Asks,          \* the gateways asked for
  MaxMishaps     \* bound: calls that fail

ASSUME GatewayAssumption == Asks \subseteq GatewayAsk /\ MaxMishaps \in Nat

VARIABLES
  ask,       \* the gateway chosen
  section,     \* the next part of deploy_gateway
  attempt,   \* gateway_retry
  gateway,   \* which gateway has the name, "none" for none
  trusts,    \* whose tokens its authorizer takes
  targets,   \* the families with a target on it
  here,      \* what exists
  refs,      \* what the variables of the deploy name
  answer,    \* what it returns
  slipped,   \* what a call that failed, and whose failure was swallowed, left
  dropped,   \* what there was when a gateway was recreated
  unseen,    \* families whose target was said to exist and was not found
  mishaps

worldOfGateway == <<gateway, trusts, targets, here>>
gatewayHistory == <<slipped, dropped, unseen>>
gatewayVars == <<ask, section, attempt, worldOfGateway, refs, answer, gatewayHistory,
                 mishaps>>

-----------------------------------------------------------------------------
(* Names.  A gateway is the one found, or that of an attempt.  Providers are *)
(* named for their gateway, a pool or a secret is new each time, the others  *)
(* have one name for ever.                                                   *)

Attempt == <<"g0", "g1", "g2">>
GatewayId == {"old", "g0", "g1", "g2"}
Mine == Attempt[attempt + 1]
ThingKind == {"gateway", "pool", "provider", "secret", "spec", "mcpProvider", "mcpSecret",
         "role", "runtimeProvider", "toolRole", "toolFunction", "kbFunction",
         "configProvider", "configSpec"}
Of(kind, id) == [kind |-> kind, of |-> id]
Ever(kind) == Of(kind, "any")
Role == Ever("role")
Pool == Of("pool", Mine)
NoAnswer == [success |-> FALSE, inventory |-> {}, probed |-> FALSE, after |-> "none"]

\* A mishap is a call of AWS that fails.
Mishap == mishaps < MaxMishaps /\ mishaps' = mishaps + 1
NoMishap == UNCHANGED mishaps

\* The recreation passes on neither connectors nor external servers.
Wanted == IF attempt = 0 THEN ask.families ELSE ask.families \ {"connector", "external"}

Course == <<"auth", "role", "gateway", "tools", "runtime", "custom", "kb",
            "connector", "external", "config", "lambda", "verify", "probe">>
Due(part) == part \notin Family \/ part \in Wanted
After(part) ==
  LET i == CHOOSE i \in DOMAIN Course : Course[i] = part
  IN Course[CHOOSE j \in (i + 1)..Len(Course) :
              Due(Course[j]) /\ \A k \in (i + 1)..(j - 1) : ~Due(Course[k])]
Done(part) == section = part /\ section' = After(part)
Raises(part) == section = part /\ section' = "failing"

GatewayInit ==
  /\ ask \in Asks
  /\ section = "auth" /\ attempt = 0
  /\ gateway = IF ask.existing THEN "old" ELSE "none"
  /\ trusts = "old"
  /\ targets \in {{}} \cup (IF ask.existing THEN {{"tools"}} ELSE {})
  /\ \E left \in SUBSET {Ever("runtimeProvider")} :
       here = left \cup (IF ask.existing THEN {Role, Of("gateway", "old"), Of("pool", "old")}
                         ELSE {})
  /\ refs = {Role} /\ answer = NoAnswer
  /\ slipped = {} /\ dropped = {} /\ unseen = {} /\ mishaps = 0

-----------------------------------------------------------------------------
(* Authorizer, role and gateway.                                             *)

\* A pool whose client cannot be made has no name in the deploy.
Authorize ==
  /\ \/ /\ Done("auth") /\ ask.idp = "external"
        /\ NoMishap /\ UNCHANGED <<here, refs, slipped>>
     \/ /\ Done("auth") /\ ask.idp = "cognito"
        /\ here' = here \cup {Pool} /\ refs' = refs \cup {Pool}
        /\ NoMishap /\ UNCHANGED slipped
     \/ /\ Raises("auth") /\ ask.idp = "cognito" /\ Mishap
        /\ here' = here \cup {Pool} /\ slipped' = slipped \cup {Pool}
        /\ UNCHANGED refs
  /\ UNCHANGED <<ask, attempt, gateway, trusts, targets, answer, dropped, unseen>>

EnsureGatewayRole ==
  /\ \/ Done("role") /\ NoMishap
     \/ Raises("role") /\ Mishap
  /\ here' = here \cup {Role}
  /\ UNCHANGED <<ask, attempt, gateway, trusts, targets, refs, answer, gatewayHistory>>

\* The wait for READY may fail with the gateway made and known.
CreateNewGateway ==
  /\ gateway = "none"
  /\ \/ /\ (Done("gateway") /\ NoMishap) \/ (Raises("gateway") /\ Mishap)
        /\ gateway' = Mine /\ trusts' = Mine /\ targets' = {}
        /\ here' = here \cup {Of("gateway", Mine)}
        /\ refs' = refs \cup {Of("gateway", Mine)}
     \/ Raises("gateway") /\ Mishap /\ UNCHANGED <<worldOfGateway, refs>>
  /\ UNCHANGED <<ask, attempt, answer, gatewayHistory>>

\* The pool its authorizer named goes first; an update that fails is logged.
OldPool == Of("pool", trusts)
AdoptGateway ==
  /\ gateway # "none"
  /\ \/ /\ Done("gateway")
        /\ refs' = refs \cup {Of("gateway", gateway)}
        /\ \/ /\ NoMishap /\ trusts' = Mine
              /\ here' = here \ {OldPool} /\ UNCHANGED slipped
           \/ /\ Mishap /\ UNCHANGED <<trusts, slipped>>
              /\ here' = here \ {OldPool}
           \/ /\ Mishap /\ trusts' = Mine
              /\ slipped' = slipped \cup ({OldPool} \cap here)
              /\ UNCHANGED here
     \/ Raises("gateway") /\ Mishap /\ UNCHANGED <<trusts, here, refs, slipped>>
  /\ UNCHANGED <<ask, attempt, gateway, targets, answer, dropped, unseen>>

-----------------------------------------------------------------------------
(* Targets.                                                                  *)

\* _create_gateway_target_with_retry: the target is made, or one of its name
\* reused; if none of that name can be found either, it says so to no one.
AddTarget(family) == targets' = targets \cup {family}
EnsureTarget(family) ==
  \/ AddTarget(family) /\ NoMishap /\ UNCHANGED unseen
  \/ Mishap /\ unseen' = unseen \cup {family} /\ UNCHANGED targets
Skipped == NoMishap /\ UNCHANGED <<targets, unseen>>
TargetOrSkip(family) ==
  IF family \in ask.void THEN Skipped ELSE EnsureTarget(family)

\* The function is made before its tools are looked at.
AddTools ==
  /\ \/ Done("tools") /\ TargetOrSkip("tools")
     \/ Raises("tools") /\ Mishap /\ UNCHANGED <<targets, unseen>>
  /\ UNCHANGED <<ask, attempt, gateway, trusts, here, refs, answer, slipped, dropped>>

\* Without its ARN nothing of the user's function is called.
AddUserLambda ==
  /\ \/ Done("lambda") /\ TargetOrSkip("lambda")
     \/ /\ Raises("lambda") /\ "lambda" \notin ask.void
        /\ Mishap /\ UNCHANGED <<targets, unseen>>
  /\ UNCHANGED <<ask, attempt, gateway, trusts, here, refs, answer, slipped, dropped>>

\* The provider is created, never adopted; a target that is not READY is left.
AddRuntime ==
  LET provider == Ever("runtimeProvider") IN
  /\ \/ /\ Done("runtime") /\ provider \notin here
        /\ here' = here \cup {provider} /\ EnsureTarget("runtime")
     \/ /\ Raises("runtime") /\ provider \in here
        /\ NoMishap /\ UNCHANGED <<here, targets, unseen>>
     \/ /\ Raises("runtime") /\ provider \notin here /\ Mishap
        /\ here' = here \cup {provider} /\ UNCHANGED <<targets, unseen>>
  /\ UNCHANGED <<ask, attempt, gateway, trusts, refs, answer, slipped, dropped>>

\* A tool that is unsafe or fails is skipped; its name is noted once it has a
\* function.
AddCustom ==
  LET tool == {Ever("toolRole"), Ever("toolFunction")} IN
  /\ Done("custom")
  /\ \/ NoMishap /\ UNCHANGED <<here, refs, targets, slipped>>
     \/ /\ NoMishap /\ AddTarget("custom")
        /\ here' = here \cup tool /\ refs' = refs \cup tool /\ UNCHANGED slipped
     \/ /\ Mishap /\ UNCHANGED <<refs, targets>>
        /\ here' = here \cup {Ever("toolRole")}
        /\ slipped' = slipped \cup {Ever("toolRole")}
     \/ /\ Mishap /\ UNCHANGED <<targets, slipped>>
        /\ here' = here \cup tool /\ refs' = refs \cup tool
  /\ UNCHANGED <<ask, attempt, gateway, trusts, answer, dropped, unseen>>

AddKb ==
  LET function == {Ever("kbFunction")} IN
  /\ Done("kb")
  /\ \/ /\ NoMishap /\ AddTarget("kb")
        /\ here' = here \cup function /\ refs' = refs \cup function /\ UNCHANGED slipped
     \/ /\ Mishap /\ UNCHANGED <<refs, targets>>
        /\ here' = here \cup function /\ slipped' = slipped \cup function
     \/ /\ Mishap /\ UNCHANGED <<targets, slipped>>
        /\ here' = here \cup function /\ refs' = refs \cup function
  /\ UNCHANGED <<ask, attempt, gateway, trusts, answer, dropped, unseen>>

\* A provider whose name is taken is repointed and used: it is there either way.
Ensured(kind) == Of(kind, gateway)
Made(kinds) == {Ensured(kinds[i]) : i \in DOMAIN kinds}

\* One call of a helper that takes back what it made when it fails.  Of the
\* resources made one after the other it may have come to any; a delete of the
\* rollback that fails is swallowed.
RollBack(made) ==
  \/ here' = here \ made /\ NoMishap /\ UNCHANGED slipped
  \/ /\ Mishap
     /\ \E r \in made : here' = (here \ made) \cup {r} /\ slipped' = slipped \cup {r}
AddWith(family, kinds) ==
  /\ \/ /\ Done(family) /\ EnsureTarget(family) /\ UNCHANGED slipped
        /\ here' = here \cup Made(kinds) /\ refs' = refs \cup Made(kinds)
     \/ /\ Raises(family) /\ UNCHANGED <<targets, unseen, refs>>
        /\ \E n \in 0..Len(kinds) : RollBack(Made(SubSeq(kinds, 1, n)))
  /\ UNCHANGED <<ask, attempt, gateway, trusts, answer, dropped>>

ConnectorKinds == <<"secret", "provider", "spec">>
ExternalKinds == <<"mcpSecret", "mcpProvider">>
AddConnectors == AddWith("connector", ConnectorKinds)
AddExternal == AddWith("external", ExternalKinds)

\* What these targets need is in no list: a long text is staged, a key has a
\* provider.  Without its text there is no target.
ConfigThings == {Of("configProvider", gateway), Of("configSpec", gateway)}
AddConfig ==
  /\ \/ Done("config") /\ TargetOrSkip("config")
     \/ /\ Raises("config") /\ "config" \notin ask.void
        /\ Mishap /\ UNCHANGED <<targets, unseen>>
  /\ \E made \in IF "config" \in ask.void THEN {{}} ELSE SUBSET ConfigThings :
       here' = here \cup made
  /\ UNCHANGED <<ask, attempt, gateway, trusts, refs, answer, slipped, dropped>>

-----------------------------------------------------------------------------
(* Does it serve tools?                                                      *)

\* Tools were asked for and there is no target, or none can be listed.
Verify ==
  /\ LET asked == Wanted \cap {"tools", "custom"} # {} IN
     \/ Raises("verify") /\ asked /\ targets = {} /\ NoMishap
     \/ Raises("verify") /\ asked /\ Mishap
     \/ Done("verify") /\ (asked => targets # {}) /\ NoMishap
  /\ UNCHANGED <<ask, attempt, worldOfGateway, refs, answer, gatewayHistory>>

Tell(a) == section' = "ended" /\ answer' = a
\* Only Lambda targets name their tools.
Expects == targets \cap {"tools", "custom", "kb", "lambda"} # {}
Mute == trusts # Mine

\* The probe answers as an agent would be answered; the count it is compared
\* with is 0 when the targets cannot be listed.
Finish ==
  /\ section = "probe"
  /\ \/ /\ (Expects \/ "connector" \in Wanted)
        /\ ~Mute /\ NoMishap
        /\ Tell([success |-> TRUE, inventory |-> refs, probed |-> TRUE, after |-> "probe"])
     \/ /\ (~Expects /\ NoMishap) \/ (Expects /\ Mishap)
        /\ "connector" \notin Wanted
        /\ Tell([success |-> TRUE, inventory |-> refs, probed |-> FALSE, after |-> "probe"])
  /\ UNCHANGED <<ask, attempt, worldOfGateway, refs, gatewayHistory>>

Connected == {r \in refs : r.kind \in {"provider", "secret", "spec",
                                       "mcpProvider", "mcpSecret"}}
\* Clean-up of what a configuration names; without a gateway it does nothing.
CleanUpOf(named, left) ==
  LET gone == (named \ left) \ {r \in named : r.kind = "kbFunction"} IN
  /\ here' = here \ gone
  /\ IF Of("gateway", gateway) \in gone THEN gateway' = "none" /\ targets' = {}
     ELSE UNCHANGED <<gateway, targets>>

\* Connectors alone serve nothing: all but the custom tools is cleaned up, and
\* only what belongs to connectors is told.
AbortConnectors ==
  /\ section = "probe" /\ ~Expects /\ "connector" \in Wanted
  /\ LET named == refs \ {Ever("toolRole"), Ever("toolFunction")} IN
     \/ NoMishap /\ CleanUpOf(named, {}) /\ slipped' = slipped \cup (refs \ named)
     \/ /\ Mishap
        /\ \E r \in named : CleanUpOf(named, {r}) /\ slipped' = slipped \cup (refs \ named) \cup {r}
  /\ Tell([success |-> FALSE, inventory |-> Connected, probed |-> TRUE, after |-> "connectors"])
  /\ UNCHANGED <<ask, attempt, trusts, refs, dropped, unseen>>

\* The gateway goes, and all begins anew; a delete that fails is logged.
Recreate ==
  /\ section = "probe" /\ Expects /\ attempt < 2
  /\ \/ /\ NoMishap /\ gateway' = "none" /\ targets' = {}
        /\ here' = here \ {Of("gateway", gateway)}
     \/ Mishap /\ UNCHANGED <<gateway, targets, here>>
  /\ attempt' = attempt + 1 /\ section' = "auth" /\ refs' = {Role}
  /\ dropped' = dropped \cup here /\ unseen' = {}
  /\ UNCHANGED <<ask, trusts, answer, slipped>>

GiveUpGateway ==
  /\ section = "probe" /\ Expects /\ attempt = 2
  /\ Tell([success |-> FALSE, inventory |-> {}, probed |-> TRUE, after |-> "retries"])
  /\ UNCHANGED <<ask, attempt, worldOfGateway, refs, gatewayHistory, mishaps>>

\* Mutant of Inventory: only client_info is looked at, which is bound last.
InventoryByClientInfo == {r \in refs : r.kind \notin {"kbFunction", "pool"}}

\* An exception: what there is, is cleaned up, and told in any case.
Inventory == {r \in refs : r.kind # "kbFunction"}
AbortDeploy ==
  /\ section = "failing"
  /\ IF Of("gateway", gateway) \in refs
     THEN \/ NoMishap /\ CleanUpOf(refs, {})
          \/ Mishap /\ \E r \in refs : CleanUpOf(refs, {r})
     ELSE NoMishap /\ UNCHANGED <<gateway, targets, here>>
  /\ Tell([success |-> FALSE, inventory |-> Inventory, probed |-> FALSE, after |-> "failure"])
  /\ UNCHANGED <<ask, attempt, trusts, refs, gatewayHistory>>

GatewayNext ==
  \/ Authorize \/ EnsureGatewayRole
  \/ CreateNewGateway \/ AdoptGateway
  \/ AddTools \/ AddRuntime \/ AddCustom \/ AddKb
  \/ AddConnectors \/ AddExternal \/ AddConfig \/ AddUserLambda
  \/ Verify \/ Finish \/ AbortConnectors \/ Recreate \/ GiveUpGateway \/ AbortDeploy

GatewaySpec == GatewayInit /\ [][GatewayNext]_gatewayVars

-----------------------------------------------------------------------------
(* Properties.                                                               *)

Thing == [kind : ThingKind, of : GatewayId \cup {"any"}]

\* Every value stays in its range.
GatewayTypeOK ==
  /\ ask \in Asks /\ attempt \in 0..2 /\ mishaps \in 0..MaxMishaps
  /\ section \in {Course[i] : i \in DOMAIN Course} \cup {"failing", "ended"}
  /\ gateway \in GatewayId \cup {"none"} /\ trusts \in GatewayId
  /\ targets \subseteq Family /\ unseen \subseteq Family
  /\ here \subseteq Thing /\ refs \subseteq Thing
  /\ slipped \subseteq Thing /\ dropped \subseteq Thing
  /\ answer.inventory \subseteq refs \cup Connected

\* What the code is known to lose.
Unlisted == {"runtimeProvider", "configProvider", "configSpec"}
Overlooked(r) ==
  \/ r.of = "old" \/ r \in slipped \/ r \in dropped
  \/ r.kind \in Unlisted
  \/ r.kind = "kbFunction" /\ ~answer.success
  \/ answer.after = "retries"

\* Once deploy_gateway has returned, whatever it made and is still there is in
\* what it returned, so that the manifest can name it: after a success, and
\* after a failure in any part of it.  The exceptions are the providers and
\* specifications no list has, the knowledge base's function after a failure,
\* what a swallowed failure left, and what a recreated gateway had before.
ToldOfAll ==
  section = "ended" => \A r \in here : r \in answer.inventory \/ Overlooked(r)

\* A deploy that succeeds has a target for each family whose failure it does not
\* tolerate, has some target if tools were asked for (built-in or custom), and an
\* authorizer that takes the tokens it returns, unless nothing asked the gateway
\* for its tools.  What it goes on without, having logged it: what was asked for
\* without a schema, a text or an ARN, and a target said to exist that the list
\* does not show; and a recreated gateway lacks connectors and external servers.
Tolerated == ask.void \cup unseen
               \cup (IF attempt = 0 THEN {} ELSE {"connector", "external"})
ServedAsAsked ==
  answer.success =>
    /\ ask.families \cap {"tools", "runtime", "connector", "external", "config", "lambda"}
         \subseteq targets \cup Tolerated
    /\ ask.families \cap {"tools", "custom"} # {} => targets # {}
    /\ trusts = Mine \/ ~answer.probed

GatewayAccounted == ToldOfAll /\ ServedAsAsked
===============================================================================
