--------------------------- MODULE GeneratedAgent ---------------------------
(* The agent program that services/code_generator.py writes for a canvas,  *)
(* and what becomes of it: one generator writes the text, three            *)
(* post-processors rewrite it (guardrails, telemetry, human approval),     *)
(* runtime_configure_step sets its environment, and the runtime loads it   *)
(* and calls its entrypoint.                                               *)
(*                                                                         *)
(* A program is a sequence of parts in the order of the text.  Of a part   *)
(* the model keeps the names it binds, the names it evaluates while the    *)
(* module loads and the names its functions look up when they run.  Python *)
(* binds at the end of a statement and the server starts in the part       *)
(* "main": what follows it is never bound.                                 *)
EXTENDS Naturals, Sequences, FiniteSets, SequencesExt

CONSTANTS
  CanvasOf,     \* the canvases that are deployed
  AgentTool     \* what may be connected to an agent

ASSUME CanvasAssumption == \A c \in CanvasOf : c.tools \subseteq AgentTool

VARIABLES
  canvas,     \* the canvas being deployed
  text,       \* the program: its parts, its model calls, its agents
  phase,      \* how far it is: drawn, shipped, configured, serving, ...
  bound,      \* the names bound in the loaded module
  environ     \* the environment variables of the runtime

agentVars == <<canvas, text, phase, bound, environ>>

GatewayTemplate == {"strands-gateway-agent", "mcp-server-gateway-target",
                    "customer-support-assistant", "customer-support-blueprint"}

-----------------------------------------------------------------------------
(* The pieces a generator puts together.                                   *)

Part(mark, binds, loads, calls) ==
  [mark |-> mark, binds |-> binds, loads |-> loads, calls |-> calls]

\* A call of a model: the constructor or API it goes through, the function
\* that makes it and which of its calls it is, and the text its guardrail arguments can be anchored on.
ModelCall(api, by, anchor) ==
  [api |-> api, by |-> by, nr |-> 1, anchor |-> anchor, guarded |-> FALSE]

AnAgent(id, has) == [id |-> id, has |-> has, hooked |-> FALSE]

Opening(imports) ==
  << Part("imports", imports, {}, {}),
     Part("app", {"app"}, {"BedrockAgentCoreApp"}, {}),
     Part("prompt", {"SYSTEM_PROMPT"}, {}, {}) >>

Settings ==
  << Part("model_id", {"MODEL_ID"}, {"os"}, {}),
     Part("region", {"REGION"}, {"os"}, {}) >>

Closing(calls) ==
  << Part("entrypoint", {"invoke"}, {"app"}, calls \cup {"SYSTEM_PROMPT"}),
     Part("main", {}, {"app"}, {}) >>

Text(parts, models, agents) ==
  [parts |-> parts, models |-> models, agents |-> agents]

Basics == {"BedrockAgentCoreApp", "os", "json"}

-----------------------------------------------------------------------------
(* Model providers                                                         *)

ModelClass(provider) ==
  CASE provider \in {"openai", "groq", "deepseek", "writer"} -> "OpenAIModel"
    [] provider \in {"litellm", "together"} -> "LiteLLMModel"
    [] provider = "anthropic" -> "AnthropicModel"
    [] provider = "gemini" -> "GeminiModel"
    [] provider = "mistral" -> "MistralModel"
    [] provider = "ollama" -> "OllamaModel"
    [] provider = "sagemaker" -> "SageMakerModel"
    [] OTHER -> "BedrockModel"

\* The classes a multi-agent file imports: the parent's and every agent's.
MultiAgentImports(c) ==
  {ModelClass(p) : p \in {c.provider} \cup Range(c.agents)}

-----------------------------------------------------------------------------
(* The generators, one per kind of host                                    *)

\* The loop over boto3 converse() that two templates share.
ConverseText(names) ==
  Text(Opening(Basics \cup {"boto3", "re"}) \o Settings
         \o << Part("tools", {"TOOL_CONFIG", "TOOL_HANDLERS"} \cup names, {}, {}) >>
         \o << Part("loop", {"_get_bedrock", "_converse_loop"}, {},
                    {"boto3", "REGION", "MODEL_ID", "TOOL_CONFIG",
                     "TOOL_HANDLERS"} \cup names) >>
         \o Closing({"_converse_loop"}),
       {ModelCall("converse", "_converse_loop", "TOOL_CONFIG")}, {})

WebSearchText ==
  ConverseText({"_do_duckduckgo_search", "_do_weather", "_do_fetch_webpage"})

McpServerText ==
  ConverseText({"tool_get_weather", "tool_search_web", "tool_fetch_url"})

GatewayImports == {"MCPClient", "streamablehttp_client"}

\* Settings of the gateway connection and the functions that discover tools.
GatewayLines ==
  << Part("gateway_env", {"GATEWAY_URL", "GATEWAY_AUTH_MODE"}, {"os"}, {}),
     Part("discovery", {"_discover_gateway_tools"}, {},
          GatewayImports \cup {"GATEWAY_URL", "GATEWAY_AUTH_MODE", "json"}) >>

GatewayText ==
  Text(Opening(Basics \cup GatewayImports \cup {"Agent", "BedrockModel"})
         \o Settings \o GatewayLines
         \o << Part("agent", {"_get_agent"}, {},
                    {"Agent", "MODEL_ID", "REGION", "_discover_gateway_tools"}) >>
         \o Closing({"_get_agent"}),
       {ModelCall("BedrockModel", "_get_agent", "constructor")},
       {AnAgent("tooled", {"_discover_gateway_tools"}), AnAgent("bare", {})})

\* The retrieval tool of a strategy, and the module-level names it uses: the
\* single-shot tool leans on its host, the agentic ones bring their own.
RetrievalTool(c) ==
  CASE c.strategy = "multi_hop" -> "retrieve_multi_hop"
    [] c.strategy = "hybrid" -> "retrieve_hybrid"
    [] c.strategy = "reranked" -> "retrieve_reranked"
    [] OTHER -> "retrieve_from_kb"

SingleShotPart ==
  Part("kb", {"retrieve_from_kb", "_get_kb_client"}, {"tool"},
       {"boto3", "os", "json", "REGION"})

RagPreamble ==
  Part("rag", {"_rag_os", "_rag_json", "_rag_boto3", "_rag_raw_retrieve",
               "_get_kb_client", "_get_judge_client"}, {}, {})

RetrievalParts(c) ==
  IF RetrievalTool(c) = "retrieve_from_kb"
  THEN << SingleShotPart >>
  ELSE << RagPreamble,
          Part("kb", {RetrievalTool(c)}, {"tool"},
               {"_rag_os", "_rag_json", "_rag_raw_retrieve", "_get_judge_client"}) >>

\* multi_hop and reranked ask a model of their own.
JudgeCalls(c) ==
  IF c.strategy \in {"multi_hop", "reranked"}
  THEN {ModelCall("converse", RetrievalTool(c), "none")} ELSE {}

WithKb(c) == "knowledge_base" \in c.tools
WithGateway(c) == "gateway" \in c.tools /\ c.gateway_made

\* Mutant of MemoryText: the memory host wins the dispatch and forgets the
\* knowledge base.
MemoryTextAlone(c) ==
  Text(Opening(Basics \cup {"Agent", "BedrockModel"}) \o Settings
         \o << Part("agent", {"_get_agent"}, {}, {"Agent", "MODEL_ID"}) >>
         \o Closing({"_get_agent"}),
       {ModelCall("BedrockModel", "_get_agent", "constructor")},
       {AnAgent("agent", {})})

\* Sequences and sets that are there only if something is connected.
Only(on, x) == IF on THEN x ELSE {}
OnlyParts(on, parts) == IF on THEN parts ELSE << >>

MemoryGateway ==
  GatewayLines \o << Part("gateway_init", {"_get_gateway_tools"}, {},
                          {"_discover_gateway_tools", "GATEWAY_URL"}) >>

\* What the memory host gives its agent: the gateway's tools, the retrieval
\* tool, both or none.
MemoryTools(c) ==
  Only(WithGateway(c), {"_get_gateway_tools"}) \cup Only(WithKb(c), {RetrievalTool(c)})

MemoryLines ==
  Part("memory", {"_get_recent_context", "_get_long_term_context", "_save_to_memory"},
       {}, {"MEMORY_ID", "REGION"})

MemoryText(c) ==
  Text(Opening(Basics \cup {"Agent", "BedrockModel"}
                 \cup Only(WithGateway(c), GatewayImports)
                 \cup Only(WithKb(c), {"boto3", "tool"}))
         \o Settings
         \o << Part("memory_env", {"MEMORY_ID"}, {"os"}, {}) >>
         \o OnlyParts(WithGateway(c), MemoryGateway)
         \o OnlyParts(WithKb(c), RetrievalParts(c))
         \o << Part("agent", {"_get_agent"}, {}, {"Agent", "MODEL_ID", "REGION"}),
               MemoryLines >>
         \o Closing({"_get_agent"} \cup MemoryLines.binds),
       {ModelCall("BedrockModel", "_get_agent", "constructor")}
         \cup Only(WithKb(c), JudgeCalls(c)),
       {AnAgent("agent", MemoryTools(c))})

\* The tools host: retrieval, code interpreter and browser, in that order.
HasPython(c) == "code_interpreter" \in c.tools
HasBrowser(c) == "browser" \in c.tools

PythonPart ==
  Part("python", {"execute_python"}, {"tool"}, {"code_session", "REGION", "json"})
BrowserPart ==
  Part("browser", {"browse_web"}, {"tool"}, {"browser_session", "REGION", "json"})

\* The second way to the interpreter: a converse() call of its own.
ForcedPart ==
  Part("forced", {"_ci_boto3", "_forced_execute"}, {},
       {"_ci_boto3", "REGION", "MODEL_ID", "execute_python"})

BuiltIn(c) ==
  Only(WithKb(c), {RetrievalTool(c)}) \cup Only(HasPython(c), {"execute_python"})
    \cup Only(HasBrowser(c), {"browse_web"})

ToolsText(c) ==
  Text(Opening(Basics \cup {"Agent", "tool", "BedrockModel"}
                 \cup Only(HasPython(c), {"code_session"})
                 \cup Only(HasBrowser(c), {"browser_session"})
                 \cup Only(WithKb(c), {"boto3"}))
         \o Settings
         \o OnlyParts(WithKb(c), RetrievalParts(c))
         \o OnlyParts(HasPython(c), << PythonPart >>)
         \o OnlyParts(HasBrowser(c), << BrowserPart >>)
         \o << Part("agent", {"_get_agent", "_final_text"}, {},
                    {"Agent", "MODEL_ID", "REGION"}) >>
         \o OnlyParts(HasPython(c), << ForcedPart >>)
         \o Closing({"_get_agent", "_final_text"}
                      \cup Only(HasPython(c), {"_forced_execute"})),
       {ModelCall("BedrockModel", "_get_agent", "constructor")}
         \cup Only(WithKb(c), JudgeCalls(c))
         \cup Only(HasPython(c), {ModelCall("converse", "_forced_execute", "none")}),
       {AnAgent("agent", BuiltIn(c))})

StrandsText(c) ==
  Text(Opening({"BedrockAgentCoreApp", "os", "Agent", ModelClass(c.provider)})
         \o << Part("agent", {"load_model"}, {}, {"os", "Agent"}) >>
         \o Closing({"load_model"}),
       {ModelCall(ModelClass(c.provider), "load_model", "constructor")},
       {AnAgent("agent", {})})

\* Graph, swarm and workflow: one model and one agent per entry.
MultiAgentText(c, builder) ==
  Text(Opening({"BedrockAgentCoreApp", "os", "Agent"} \cup builder
                 \cup MultiAgentImports(c))
         \o << Part("agents", {"_build"}, {}, {"os", "Agent"} \cup builder) >>
         \o Closing({"_build"}),
       {[ModelCall(ModelClass(c.agents[i]), "_build", "constructor") EXCEPT !.nr = i] :
          i \in DOMAIN c.agents},
       {AnAgent(i, {}) : i \in DOMAIN c.agents})

GraphText(c) ==
  IF c.agents = << >> THEN StrandsText(c) ELSE MultiAgentText(c, {"GraphBuilder"})

SwarmText(c) ==
  IF c.agents = << >> THEN StrandsText(c) ELSE MultiAgentText(c, {"Swarm"})

WorkflowText(c) == MultiAgentText(c, {})

CardParts ==
  << Part("card", {"_build_agent_card", "_agent_card_route"}, {"os"}, {"JSONResponse"}),
     Part("route", {}, {"app", "_agent_card_route"}, {}) >>

PeerParts ==
  << Part("guard", {"_a2a_check_peer_host"}, {}, {"socket", "ipaddress"}),
     Part("peer", {"call_a2a_peer"}, {"tool"},
          {"httpx", "json", "_a2a_check_peer_host"}) >>

A2AText ==
  Text(Opening(Basics \cup {"httpx", "JSONResponse", "ipaddress", "socket",
                            "Agent", "tool", "BedrockModel"})
         \o Settings \o CardParts \o PeerParts
         \o << Part("agent", {"_get_agent"}, {}, {"Agent", "MODEL_ID", "REGION"}) >>
         \o Closing({"_get_agent"}),
       {ModelCall("BedrockModel", "_get_agent", "constructor")},
       {AnAgent("agent", {"call_a2a_peer"})})

IsA2A(c) == c.protocol = "A2A" \/ "a2a" \in c.tools

\* generate_agent_code: the first host that fits writes the program; what is
\* connected beside it and the host does not know is dropped.
HostText(c) ==
  IF IsA2A(c) THEN A2AText
  ELSE IF c.template = "web-search-agent" THEN WebSearchText
  ELSE IF c.template = "mcp-server-runtime" THEN McpServerText
  ELSE IF c.template \in GatewayTemplate THEN GatewayText
  ELSE IF c.pattern = "graph" THEN GraphText(c)
  ELSE IF c.pattern = "swarm" THEN SwarmText(c)
  ELSE IF c.pattern = "workflow" THEN WorkflowText(c)
  ELSE IF "memory" \in c.tools THEN MemoryText(c)
  ELSE IF WithGateway(c) THEN GatewayText
  ELSE IF {"browser", "code_interpreter", "knowledge_base"} \cap c.tools # {} THEN ToolsText(c)
  ELSE StrandsText(c)

-----------------------------------------------------------------------------
(* The post-processors                                                     *)

HasMark(p, mark) == \E i \in DOMAIN p.parts : p.parts[i].mark = mark
First(p, mark) == CHOOSE i \in DOMAIN p.parts :
                    /\ p.parts[i].mark = mark
                    /\ \A j \in 1..(i - 1) : p.parts[j].mark # mark

PartAfter(p, mark, part) == [p EXCEPT !.parts = InsertAt(@, First(p, mark) + 1, part)]
PartBefore(p, mark, part) == [p EXCEPT !.parts = InsertAt(@, First(p, mark), part)]

\* Which calls the guardrail arguments reach: every BedrockModel constructor,
\* and the converse() calls with the first anchor that occurs in the text.
Reached(p) ==
  {m \in p.models : m.api = "BedrockModel" \/ m.anchor = "TOOL_CONFIG"}

InjectGuardrails(p) ==
  LET q == PartAfter(p, IF HasMark(p, "model_id") THEN "model_id" ELSE "prompt",
                     Part("guardrails", {"GUARDRAIL_ID", "_GUARDRAIL_KWARGS"}, {"os"}, {}))
  IN  [q EXCEPT !.models = (@ \ Reached(p))
                             \cup {[m EXCEPT !.guarded = TRUE] : m \in Reached(p)}]

OtelPart == Part("otel", {"_otel_force_flush"}, {}, {})

InjectOtel(p) ==
  PartBefore(PartAfter(p, "app", OtelPart),
             "main", Part("wrap", {"invoke"}, {"invoke"}, {"_otel_force_flush"}))

\* The tool and its hooks go before the entrypoint, `tool` into the import of
\* strands, and every Agent(...) gets both.
ApprovalPart == Part("hitl", {"human_approval", "_APPROVAL_HOOKS"}, {"tool"}, {})

\* Mutant of InjectHitl: the tool is appended to the end of the file.
HitlAtTheEnd(p) ==
  [p EXCEPT !.parts = [@ EXCEPT ![1].binds = @ \cup {"tool"}] \o <<ApprovalPart>>,
            !.agents = {[a EXCEPT !.has = @ \cup {"human_approval"},
                                  !.hooked = TRUE] : a \in @}]

InjectHitl(p) ==
  LET q == PartBefore(p, "entrypoint", ApprovalPart)
  IN  [q EXCEPT !.parts[1].binds = @ \cup {"tool"},
                !.agents = {[a EXCEPT !.has = @ \cup {"human_approval"},
                                      !.hooked = TRUE] : a \in @}]

UsesStrands(p) == "Agent" \in p.parts[1].binds

Processed(p, c) ==
  LET g == IF "guardrails" \in c.tools THEN InjectGuardrails(p) ELSE p
      t == IF "observability" \in c.tools THEN InjectOtel(g) ELSE g
  IN  IF "hitl" \in c.tools /\ UsesStrands(t) THEN InjectHitl(t) ELSE t

-----------------------------------------------------------------------------
(* runtime_configure_step: the environment, from the results of the steps. *)

GatewayEnv(c) ==
  IF ~c.gateway_made THEN {}
  ELSE CASE c.idp = "litellm" -> {"GATEWAY_URL", "GATEWAY_AUTH_MODE", "GATEWAY_API_KEY"}
         [] c.idp = "cognito" -> {"GATEWAY_URL", "COGNITO_CLIENT_ID", "COGNITO_TOKEN_ENDPOINT"}
         [] OTHER -> {"GATEWAY_URL", "OAUTH_CLIENT_ID", "OAUTH_TOKEN_ENDPOINT"}

RuntimeEnv(c) ==
  {"MODEL_ID"} \cup GatewayEnv(c)
    \cup (IF c.provider # "bedrock" /\ c.key THEN {"PROVIDER_API_KEY"} ELSE {})
    \cup (UNION {CASE t = "guardrails" -> {"GUARDRAIL_ID"}
                   [] t = "memory" -> {"MEMORY_ID"}
                   [] t = "knowledge_base" -> {"KB_ID"}
                   [] t = "observability" -> {"OTEL_EXPORTER_OTLP_ENDPOINT"}
                   [] t = "hitl" -> {"HITL_REQUESTS_TABLE_NAME", "HITL_RUNTIME_ID"}
                   [] OTHER -> {} : t \in c.tools})
    \cup (IF c.policies THEN {"LOOM_APPROVAL_POLICIES", "HITL_REQUESTS_TABLE_NAME",
                              "HITL_RUNTIME_ID"} ELSE {})

-----------------------------------------------------------------------------
AgentInit ==
  /\ canvas \in CanvasOf
  /\ text = Text(<< >>, {}, {})
  /\ phase = "drawn"
  /\ bound = {}
  /\ environ = {}

\* codegen_step: generate_agent_code with its post-processors.
WriteAgent ==
  /\ phase = "drawn"
  /\ text' = Processed(HostText(canvas), canvas)
  /\ phase' = "shipped"
  /\ UNCHANGED <<canvas, bound, environ>>

Configure ==
  /\ phase = "shipped"
  /\ environ' = RuntimeEnv(canvas)
  /\ phase' = "configured"
  /\ UNCHANGED <<canvas, text, bound>>

\* The names bound by the first n parts.
BoundBy(p, n) == UNION {p.parts[i].binds : i \in 1..n}

\* Python executes the parts in order, up to the one that starts the server;
\* a name that no earlier part has bound is a NameError.
LoadModule ==
  /\ phase = "configured"
  /\ LET last == First(text, "main")
     IN  IF \A i \in 1..last : text.parts[i].loads \subseteq BoundBy(text, i - 1)
         THEN phase' = "serving" /\ bound' = BoundBy(text, last)
         ELSE phase' = "crashed" /\ UNCHANGED bound
  /\ UNCHANGED <<canvas, text, environ>>

\* What the functions look up when the entrypoint is called.
LookedUp ==
  (UNION {part.calls : part \in Range(text.parts)})
    \cup {m.api : m \in {m \in text.models : m.api # "converse"}}
    \cup (IF \E m \in text.models : m.guarded THEN {"GUARDRAIL_ID", "_GUARDRAIL_KWARGS"} ELSE {})
    \cup (UNION {a.has : a \in text.agents})
    \cup (IF \E a \in text.agents : a.hooked THEN {"_APPROVAL_HOOKS"} ELSE {})

FirstCall ==
  /\ phase = "serving"
  /\ phase' = IF LookedUp \subseteq bound THEN "answered" ELSE "crashed"
  /\ UNCHANGED <<canvas, text, bound, environ>>

\* The hook's _before_tool, for a tool that a policy requires approval of: it
\* puts a stub in the tool's place.  The body of the stub's class reads
\* tool_name, which it also assigns: Python looks for it in the module, not in
\* the function around the class, and nothing catches the error.
StubReads == {"tool_name"}

DenyTool ==
  /\ phase = "answered"
  /\ "LOOM_APPROVAL_POLICIES" \in environ
  /\ \E a \in text.agents : a.hooked
  /\ phase' = IF StubReads \subseteq bound THEN "denied" ELSE "raised"
  /\ UNCHANGED <<canvas, text, bound, environ>>

NextAgent == WriteAgent \/ Configure \/ LoadModule \/ FirstCall \/ DenyTool

AgentSpec == AgentInit /\ [][NextAgent]_agentVars
-----------------------------------------------------------------------------
(* Properties                                                              *)

AgentTypeOK ==
  /\ canvas.tools \subseteq AgentTool
  /\ phase \in {"drawn", "shipped", "configured", "serving", "answered", "crashed",
               "denied", "raised"}
  /\ bound \subseteq UNION {part.binds : part \in Range(text.parts)}

\* Whatever is connected, the written program loads and answers: no part and
\* no function looks a name up that is not bound before the server starts
\* (the post-processors of code_generator.py insert into text they do not
\* parse; providers and tools differ from agent to agent).  The one exception is
\* the stub of the approval hook: a call of a tool gated by a policy raises, with
\* human approval connected and a policy set, and with no other canvas.
GeneratedRuns ==
  /\ phase # "crashed"
  /\ phase = "raised" =>
       "hitl" \in canvas.tools /\ canvas.policies

\* With a guardrail connected, the program that serves passes it to every
\* Bedrock model call, in every host and for every agent of a graph, except
\* for the forced execution of the code interpreter and the judge of the
\* agentic retrieval tools, which the post-processor does not reach.
CallsGuarded ==
  phase = "answered" /\ "guardrails" \in canvas.tools =>
    \A m \in text.models :
      \/ m.guarded
      \/ m.api \notin {"BedrockModel", "converse"}
      \/ m.by \in {"_forced_execute", "retrieve_multi_hop", "retrieve_reranked"}

Retrieves(c) ==
  /\ WithKb(c) /\ ~IsA2A(c)
  /\ c.template = "none" /\ c.pattern = "none"
  /\ "memory" \in c.tools \/ ~WithGateway(c)

\* What is connected reaches the agent by both of its ways, the text and the
\* environment: human approval is on every agent of every Strands program,
\* the retrieval tool of the knowledge base on the agent of a memory or tools
\* host, the gateway's tools on the gateway's.
EveryAgentIsWired ==
  phase = "answered" =>
    /\ "hitl" \in canvas.tools =>
         /\ "HITL_RUNTIME_ID" \in environ
         /\ \A a \in text.agents : a.hooked /\ "human_approval" \in a.has
    /\ Retrieves(canvas) =>
         /\ "KB_ID" \in environ
         /\ \A a \in text.agents : RetrievalTool(canvas) \in a.has
    /\ HasMark(text, "discovery") /\ canvas.gateway_made =>
         /\ "GATEWAY_URL" \in environ
         /\ environ \cap {"GATEWAY_API_KEY", "COGNITO_CLIENT_ID", "OAUTH_CLIENT_ID"} # {}
         /\ \E a \in text.agents :
              a.has \cap {"_discover_gateway_tools", "_get_gateway_tools"} # {}

\* What the canvas connects is in effect in the program that serves: its
\* guardrail on the model calls, its tools, its approval hook, its retrieval.
ConnectedIsInEffect == CallsGuarded /\ EveryAgentIsWired
=============================================================================
