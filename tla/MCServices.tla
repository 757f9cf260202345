----------------------------- MODULE MCServices -----------------------------
(* The parts of the platform that share no state with each other, in one   *)
(* run: a state machine deployment whose calls raise, the registry, the    *)
(* CloudFormation export, the direct deployment, the store of workflows,   *)
(* the generated programs, the tool discovery of a deployed one and the    *)
(* things a gateway is deployed with.  A                                   *)
(* behaviour is one of focus; the others stay in an initial state of       *)
(* theirs.                                                                 *)
EXTENDS MCDeploymentPipeline, AgentRegistry, CfnTemplate, DirectDeploy,
        WorkflowStore, GeneratedAgent, AgentTools, GatewayTargets

CONSTANTS alice, root, bob, bot, botr, e1, e2, t1, t2, i1, i2, warm

-----------------------------------------------------------------------------
(* Instances.                                                              *)

\* bot is taken and the suffix of either publisher leads to botr.
SuffixToBotr == [s \in Slug |-> [c \in Caller |-> botr]]

\* Two names that differ in what a resource name may not contain.
StrippedName == ("my_tool" :> "mytool") @@ ("mytool" :> "mytool")

WishOf(on, kind) ==
  [mcp |-> "mcp" \in on, gateway |-> kind, policy |-> "policy" \in on,
   guardrails |-> "guardrails" \in on, memory |-> "memory" \in on,
   harness |-> "harness" \in on]
SomeDirectWishes == {
  WishOf({"mcp"}, "litellm_ref"), WishOf({"memory"}, "litellm"),
  WishOf({"policy", "guardrails", "harness"}, "agentcore") }

\* Updates of the name, of the graph, of the edges alone, and of the status; and
\* two files, one of them without edges.  There is no edge in t2.
Giving(fs, x) == [f \in Fields |-> IF f \in fs THEN x ELSE NotGiven]
SomeEdits ==
  { [text |-> Giving({"name"}, t2), status |-> NotGiven],
    [text |-> Giving({"nodes", "edges"}, t2), status |-> NotGiven],
    [text |-> Giving({"edges"}, t1), status |-> NotGiven],
    [text |-> Giving({}, t1), status |-> "not"] }
SomeSpecs ==
  { [text |-> Giving(Fields, t1), status |-> "not"],
    [text |-> Giving({"name", "nodes"}, t2), status |-> "deployed"] }
EdgesOfNodes == { <<t1, t1>>, <<t2, t1>>, <<t2, t2>> }

SomeImports ==
  { [owner |-> NoSub, text |-> [f \in Fields |-> t1], deployed |-> "deployed",
     git |-> FALSE, editors |-> {s}, viewers |-> Sub, aclOwner |-> s] : s \in Sub }

\* Canvases: one agent with every set of tools, the templates, teams of up to
\* two agents, and those of them on Bedrock with policies for their tools too.
AllTools == {"gateway", "memory", "knowledge_base", "browser", "code_interpreter",
             "guardrails", "observability", "hitl", "a2a"}
Processors == {"guardrails", "observability", "hitl"}
Plain ==
  [template |-> "none", protocol |-> "HTTP", pattern |-> "none", agents |-> << >>,
   provider |-> "bedrock", key |-> TRUE, strategy |-> "simple",
   gateway_made |-> TRUE, idp |-> "cognito", policies |-> FALSE, tools |-> {}]
Singles ==
  { [Plain EXCEPT !.tools = t, !.strategy = s, !.provider = p, !.gateway_made = g] :
      t \in SUBSET (AllTools \ {"a2a", "observability"}),
      s \in {"simple", "reranked"}, p \in {"bedrock", "groq"}, g \in BOOLEAN }
Templates ==
  { [Plain EXCEPT !.template = m, !.tools = t, !.idp = i] :
      m \in {"web-search-agent", "mcp-server-runtime", "strands-gateway-agent"},
      t \in SUBSET (Processors \cup {"a2a"}), i \in {"cognito", "litellm", "okta"} }
Providers == {"bedrock", "anthropic"}
TeamSets ==
  { << >> } \cup { <<x>> : x \in Providers } \cup (Providers \X Providers)
Teams ==
  { [Plain EXCEPT !.pattern = n, !.tools = t, !.provider = p, !.agents = a] :
      n \in {"graph", "swarm", "workflow"}, t \in SUBSET (Processors \cup {"memory"}),
      p \in {"bedrock", "groq"}, a \in TeamSets }
Gated ==
  { [c EXCEPT !.policies = TRUE] : c \in {c \in Singles \cup Templates \cup Teams :
                                           c.provider = "bedrock"} }
Canvases == Singles \cup Templates \cup Teams \cup Gated

\* Gateways: up to three families, or all but one at most; a name that is taken
\* or free, and a few with an identity provider of the user's own; what lacks what
\* its target takes, beside custom tools and connectors.
SomeAsks ==
  { a \in GatewayAsk :
      /\ Cardinality(a.families) \in 0..3 \cup {7, 8}
      /\ a.idp = "cognito" \/ a.families \in {Family, {"connector"}}
      /\ \/ a.void = {}
         \/ /\ a.void = a.families \cap Voidable
            /\ a.families \subseteq Voidable \cup {"custom", "connector"} }

\* The two direct deployments are alike.
DirectsAlike == Permutations(Direct)

-----------------------------------------------------------------------------
(* The composition.                                                        *)

VARIABLE focus

\* What a part that is not in focus has chosen.
Parked(part, choice) ==
  \/ focus = part
  \/ focus # part /\ choice

ServicesInit ==
  /\ focus \in {"pipeline", "registry", "export", "direct", "store", "agent", "tools",
               "gateway"}
  /\ Parked("export", order = CHOOSE o \in Order : o.policies = 0)
  /\ Parked("direct", wish = [d \in Direct |-> CHOOSE w \in Wishes : TRUE])
  /\ Parked("agent", canvas = Plain)
  /\ Parked("gateway", ask = CHOOSE a \in Asks : TRUE)
  /\ Init /\ RegistryInit /\ DirectInit /\ StoreInit /\ ToolsInit
  /\ \/ focus = "agent" /\ ExportInit /\ AgentInit
     \/ focus # "agent" /\ AgentInit /\ ExportInit
  /\ GatewayInit
  /\ Parked("gateway", Ever("runtimeProvider") \notin here)

ServicesNext ==
  /\ UNCHANGED focus
  /\ \/ /\ focus = "pipeline" /\ Next
        /\ UNCHANGED <<registryVars, exportVars, directVars, storeVars, agentVars, toolVars, gatewayVars>>
     \/ /\ focus = "registry" /\ RegistryNext
        /\ UNCHANGED <<vars, exportVars, directVars, storeVars, agentVars, toolVars, gatewayVars>>
     \/ /\ focus = "export" /\ ExportNext
        /\ UNCHANGED <<vars, registryVars, directVars, storeVars, agentVars, toolVars, gatewayVars>>
     \/ /\ focus = "direct" /\ DirectNext
        /\ UNCHANGED <<vars, registryVars, exportVars, storeVars, agentVars, toolVars, gatewayVars>>
     \/ /\ focus = "store" /\ StoreNext
        /\ UNCHANGED <<vars, registryVars, exportVars, directVars, agentVars, toolVars, gatewayVars>>
     \/ /\ focus = "agent" /\ NextAgent
        /\ UNCHANGED <<vars, registryVars, exportVars, directVars, storeVars, toolVars, gatewayVars>>
     \/ /\ focus = "tools" /\ ToolsNext
        /\ UNCHANGED <<vars, registryVars, exportVars, directVars, storeVars, agentVars, gatewayVars>>
     \/ /\ focus = "gateway" /\ GatewayNext
        /\ UNCHANGED <<vars, registryVars, exportVars, directVars, storeVars, agentVars, toolVars>>

ServicesSpec ==
  ServicesInit /\ [][ServicesNext]_<<focus, vars, registryVars, exportVars,
                                     directVars, storeVars, agentVars, toolVars,
                                     gatewayVars>>

\* Every value of the part in focus stays in its range; the runs of the state
\* machine have the type invariant of the pipeline.
ServicesTypeOK ==
  /\ focus = "registry" => RegistryTypeOK
  /\ focus = "export" => ExportTypeOK
  /\ focus = "direct" => DirectTypeOK
  /\ focus = "store" => StoreTypeOK
  /\ focus = "agent" => AgentTypeOK
  /\ focus = "tools" => ToolsTypeOK
  /\ focus = "gateway" => GatewayTypeOK
=============================================================================
