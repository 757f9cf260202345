---------------------------- MODULE CfnTemplate ----------------------------
(***************************************************************************)
(* The CloudFormation export of a canvas: CfnTemplateGenerator.generate    *)
(* puts a template together from one part for each feature and packages    *)
(* the code its Lambdas run; deploy.sh uploads the packages, and           *)
(* CloudFormation creates the resources, each once what it refers to is    *)
(* there.                                                                  *)
(*                                                                         *)
(* A template is a function from the logical names of its resources to     *)
(* what each refers to: its DependsOn, and its Ref, GetAtt and Sub.        *)
(***************************************************************************)
EXTENDS Sequences, Naturals, FiniteSets, TLC

CONSTANTS
  TemplateId,  \* the canvas templates exported, "custom" for none
  CustomTool,  \* AI-generated tools, by the name the user gave
  SafeName,    \* that name without what is no letter or digit
  MaxPolicies  \* bound on the policies of a canvas

Dynamic == {"duckduckgo_search", "weather_api"}
CustomerSupport == {"get_order", "process_refund"}

ASSUME ExportAssumption ==
  /\ SafeName \in [CustomTool -> STRING]
  /\ MaxPolicies \in Nat

VARIABLES
  order,     \* the canvas to export
  stack,     \* how far the export of it is
  template,  \* template.yaml
  outputs,   \* what its Outputs refer to
  shipped,   \* the code files in the bundle's zips
  created    \* the resources CloudFormation has made

exportVars == <<order, stack, template, outputs, shipped, created>>

Order == [template : TemplateId,
          gateway : BOOLEAN, memory : BOOLEAN, guardrails : BOOLEAN,
          evaluation : BOOLEAN, mcp : BOOLEAN, policy : BOOLEAN,
          policies : 0..MaxPolicies,
          tools : {{}, {"weather_api"}, {"get_order", "duckduckgo_search"}},
          customs : SUBSET CustomTool,
          kb : {"none", "existing", "create_new"}]

---------------------------------------------------------------------------
(* What the canvas needs *)

HasGateway(o) ==
  \/ o.gateway \/ o.tools # {}
  \/ o.template \in {"strands-gateway-agent", "customer-support-assistant",
                     "customer-support-blueprint", "mcp-server-gateway-target"}

HasMemory(o) ==
  o.memory \/ o.template \in {"customer-support-assistant", "customer-support-blueprint"}

HasMcpServer(o) == o.mcp \/ o.template = "mcp-server-gateway-target"

GatewayTools(o) ==
  CASE o.template = "customer-support-blueprint" -> CustomerSupport
    [] o.template \in {"strands-gateway-agent", "customer-support-assistant"} -> Dynamic
    [] OTHER -> o.tools

---------------------------------------------------------------------------
(* The parts *)

(* Two parts in one template, as TLC's @@ (which has no definition for     *)
(* the prover), and a part that depends on a flag.                         *)
f ++ g ==
  [n \in DOMAIN f \cup DOMAIN g |-> IF n \in DOMAIN f THEN f[n] ELSE g[n]]

When(flag, part) == IF flag THEN part ELSE << >>

ParameterName ==
  {"DeploymentName", "ModelId", "ArtifactsBucket", "AgentCodeKey", "CfnProviderCodeKey",
   "DependencyBundleKey", "ToolLambdaCodeKey", "CustomToolCodeKey", "KnowledgeBaseId",
   "McpServerCodeKey"}

Parameters(o) ==
  {p \in ParameterName :
     /\ p \in {"ToolLambdaCodeKey", "CustomToolCodeKey", "KnowledgeBaseId",
                "McpServerCodeKey"} => HasGateway(o)
     /\ p = "ToolLambdaCodeKey" => GatewayTools(o) # {} \/ o.customs # {}
     /\ p = "CustomToolCodeKey" => o.customs # {}
     /\ p = "KnowledgeBaseId" => o.kb = "existing"
     /\ p = "McpServerCodeKey" => HasMcpServer(o)}

Provider ==
  [CfnProviderRole |-> {"ArtifactsBucket"},
   CfnProviderLambda |-> {"CfnProviderRole", "ArtifactsBucket", "CfnProviderCodeKey"}]

CodePackage ==
  [AgentCodePackage |-> {"CfnProviderLambda", "ArtifactsBucket", "AgentCodeKey",
                         "DependencyBundleKey"}]

RuntimeRole == [RuntimeExecutionRole |-> {"ArtifactsBucket"}]

CognitoPart ==
  [CognitoUserPool |-> {"DeploymentName"},
   CognitoResourceServer |-> {"CognitoUserPool", "DeploymentName"},
   CognitoUserPoolDomain |-> {"CognitoUserPool", "DeploymentName"},
   CognitoUserPoolClient |-> {"CognitoResourceServer", "CognitoUserPool", "DeploymentName"}]

GatewayPart ==
  [GatewayRole |-> {"DeploymentName"},
   AgentCoreGateway |-> {"GatewayRole", "CognitoUserPoolClient", "CognitoUserPool",
                         "DeploymentName"}]

ToolRole == [ToolLambdaRole |-> {}]

(* A Lambda with its permission and the gateway's target for it. *)
ToolLambda(lambda, permission, target) ==
  [n \in {lambda, permission, target} |->
     CASE n = lambda -> {"ToolLambdaRole", "ArtifactsBucket", "ToolLambdaCodeKey",
                         "DeploymentName"}
       [] n = permission -> {lambda}
       [] n = target -> {"AgentCoreGateway", lambda, permission}]

ToolParts(ids) ==
  When(ids \cap Dynamic # {},
       ToolLambda("DynamicToolsLambda", "DynamicToolsLambdaPermission",
                  "DynamicToolsTarget"))
  ++ When(ids \cap CustomerSupport # {},
          ToolLambda("CustomerSupportToolsLambda", "CustomerSupportToolsLambdaPermission",
                     "CustomerSupportTarget"))

(* Tools whose names differ in nothing but what SafeName drops share one   *)
(* Lambda and one target.                                                  *)
CustomLambda(safe) == "CustomTool" \o safe \o "Lambda"
CustomPermission(safe) == CustomLambda(safe) \o "Permission"
CustomTarget(safe) == "CustomTool" \o safe \o "Target"

CustomLambdas(customs) == {CustomLambda(SafeName[c]) : c \in customs}
CustomPermissions(customs) == {CustomPermission(SafeName[c]) : c \in customs}
CustomTargets(customs) == {CustomTarget(SafeName[c]) : c \in customs}

CustomParts(customs) ==
  [n \in CustomLambdas(customs) |->
     {"ToolLambdaRole", "ArtifactsBucket", "CustomToolCodeKey", "DeploymentName"}]
  ++ [n \in CustomPermissions(customs) |->
        {CustomLambda(SafeName[c]) : c \in {c \in customs : CustomPermission(SafeName[c]) = n}}]
  ++ [n \in CustomTargets(customs) |->
        {"AgentCoreGateway"}
        \cup {CustomLambda(SafeName[c]) : c \in {c \in customs : CustomTarget(SafeName[c]) = n}}]

KnowledgeBasePart ==
  [KnowledgeBaseRole |-> {},
   BedrockKnowledgeBase |-> {"KnowledgeBaseRole", "DeploymentName"},
   KBDataSource |-> {"BedrockKnowledgeBase", "DeploymentName"}]

KnowledgeBaseTool(mode) ==
  [KBToolLambdaRole |-> {},
   KBToolLambda |-> {"KBToolLambdaRole", "DeploymentName"}
     \cup IF mode = "existing" THEN {"KnowledgeBaseId"} ELSE {"BedrockKnowledgeBase"},
   KBToolLambdaPermission |-> {"KBToolLambda"},
   KBToolTarget |-> {"AgentCoreGateway", "KBToolLambda", "KBToolLambdaPermission"}]
  ++ When(mode # "existing", KnowledgeBasePart)

MemoryPart ==
  [MemoryExecutionRole |-> {},
   AgentCoreMemory |-> {"MemoryExecutionRole", "DeploymentName"}]

(* Mutant of EngineOn: the engine waits for the gateway it guards.         *)
EngineAfter(parts) ==
  [parts EXCEPT !["AgentCoreGateway"] = @ \cup {"PolicyEngine"}]
  ++ [PolicyEngine |-> {"DeploymentName", "AgentCoreGateway"}]

(* The engine is attached to the gateway that is already in the template.  *)
EngineOn(parts) ==
  [parts EXCEPT !["AgentCoreGateway"] = @ \cup {"PolicyEngine"}]
  ++ [PolicyEngine |-> {"DeploymentName"}]

PolicyName(n) == {"DefaultPolicy"} \cup {"Policy" \o ToString(i) : i \in 1..(n - 1)}

PolicyParts(n) ==
  [p \in PolicyName(n) |-> {"PolicyEngine", "AgentCoreGateway", "CfnProviderLambda"}]

McpCognitoPart ==
  [McpCognitoUserPool |-> {"DeploymentName"},
   McpCognitoResourceServer |-> {"McpCognitoUserPool", "DeploymentName"},
   McpCognitoDomain |-> {"McpCognitoUserPool", "DeploymentName"},
   McpCognitoClient |-> {"McpCognitoResourceServer", "McpCognitoUserPool", "DeploymentName"}]

McpServerPart ==
  [McpServerRole |-> {"ArtifactsBucket"},
   McpServerCodePackage |-> {"CfnProviderLambda", "ArtifactsBucket", "McpServerCodeKey",
                             "DependencyBundleKey"},
   McpServerRuntime |-> {"McpServerRole", "McpServerCodePackage", "McpCognitoClient",
                         "McpCognitoUserPool", "ArtifactsBucket", "ModelId", "DeploymentName"},
   McpServerEndpoint |-> {"McpServerRuntime", "DeploymentName"}]

McpTargetPart ==
  [McpOAuth2CredentialProvider |->
     {"McpCognitoClient", "McpCognitoDomain", "McpServerEndpoint", "CfnProviderLambda",
      "McpCognitoUserPool", "McpServerRuntime", "DeploymentName"},
   McpServerGatewayTarget |->
     {"AgentCoreGateway", "McpOAuth2CredentialProvider", "DeploymentName"}]

EvaluationPart ==
  [EvaluationRole |-> {},
   OnlineEvaluation |-> {"EvaluationRole", "AgentCoreRuntime", "DeploymentName"}]

GuardrailPart ==
  [BedrockGuardrail |-> {"DeploymentName"}, BedrockGuardrailVersion |-> {"BedrockGuardrail"}]

RuntimePart(o) ==
  [AgentCoreRuntime |->
     {"RuntimeExecutionRole", "AgentCodePackage", "ArtifactsBucket", "ModelId", "DeploymentName"}
     \cup (IF HasGateway(o) THEN {"AgentCoreGateway", "CognitoUserPoolClient"} ELSE {})
     \cup (IF HasMemory(o) THEN {"AgentCoreMemory"} ELSE {})
     \cup (IF HasMcpServer(o) THEN {"McpServerGatewayTarget"} ELSE {})
     \cup (IF o.guardrails THEN {"BedrockGuardrail", "BedrockGuardrailVersion"} ELSE {}),
   RuntimeEndpoint |-> {"AgentCoreRuntime", "DeploymentName"}]

(* Mutant of OutputRefs: the gateway's outputs without their guard.        *)
OutputsOfGateway(o) ==
  {"AgentCoreRuntime", "RuntimeEndpoint", "AgentCoreGateway"}

OutputRefs(o) ==
  {"AgentCoreRuntime", "RuntimeEndpoint"}
  \cup (IF HasGateway(o) THEN {"AgentCoreGateway"} ELSE {})
  \cup (IF HasMemory(o) THEN {"AgentCoreMemory"} ELSE {})
  \cup (IF HasMcpServer(o) THEN {"McpServerRuntime"} ELSE {})

GatewayParts(o) ==
  LET plain == CognitoPart ++ GatewayPart
        ++ When(GatewayTools(o) # {} \/ o.customs # {}, ToolRole)
        ++ ToolParts(GatewayTools(o))
        ++ When(o.customs # {}, CustomParts(o.customs))
        ++ When(o.kb # "none", KnowledgeBaseTool(o.kb))
  IN (IF o.policy THEN EngineOn(plain) ++ PolicyParts(o.policies) ELSE plain)
     ++ When(HasMcpServer(o), McpCognitoPart ++ McpServerPart ++ McpTargetPart)

Resources(o) ==
  Provider ++ CodePackage ++ RuntimeRole
  ++ When(HasGateway(o), GatewayParts(o))
  ++ When(HasMemory(o), MemoryPart)
  ++ When(o.evaluation, EvaluationPart)
  ++ When(o.guardrails, GuardrailPart)
  ++ RuntimePart(o)

(* The names that every template gives alike, and those made from the name *)
(* of a custom tool or the number of a policy: "CustomTool" and the endings *)
(* keep them apart.                                                        *)
FixedName ==
  ParameterName \cup {"PolicyEngine", "DefaultPolicy", "AgentCoreRuntime", "RuntimeEndpoint"}
  \cup DOMAIN Provider \cup DOMAIN CodePackage \cup DOMAIN RuntimeRole
  \cup DOMAIN CognitoPart \cup DOMAIN GatewayPart
  \cup DOMAIN ToolRole \cup DOMAIN ToolParts(Dynamic \cup CustomerSupport)
  \cup DOMAIN KnowledgeBaseTool("create_new")
  \cup DOMAIN McpCognitoPart \cup DOMAIN McpServerPart \cup DOMAIN McpTargetPart
  \cup DOMAIN MemoryPart \cup DOMAIN EvaluationPart \cup DOMAIN GuardrailPart

NamesApart ==
  LET lambdas == CustomLambdas(CustomTool)
      permissions == CustomPermissions(CustomTool)
      others == CustomTargets(CustomTool) \cup (PolicyName(MaxPolicies) \ {"DefaultPolicy"})
  IN /\ lambdas \cap permissions = {}
     /\ (lambdas \cup permissions) \cap others = {}
     /\ (lambdas \cup permissions \cup others) \cap FixedName = {}

ASSUME NamesAssumption == NamesApart

---------------------------------------------------------------------------
(* The code a Lambda or a code package names, and what the zips hold *)

CodeOf(o) ==
  [CfnProviderLambda |-> "handler.py", AgentCodePackage |-> "agent.py",
   McpServerCodePackage |-> "mcp_server.py", DynamicToolsLambda |-> "dynamic_tools.py",
   CustomerSupportToolsLambda |-> "customer_support_tools.py"]
  ++ [n \in CustomLambdas(o.customs) |-> "ct_" \o n]

(* What the user connected decides what is packed, unless the template has *)
(* tools of its own; nothing matched packs both.                           *)
ToolFiles(o) ==
  LET dynamic == o.tools \cap Dynamic # {}
                 \/ o.template \in {"strands-gateway-agent", "customer-support-assistant"}
      customer == o.tools \cap CustomerSupport # {}
                  \/ o.template = "customer-support-blueprint"
  IN (IF dynamic \/ ~customer THEN {"dynamic_tools.py"} ELSE {})
     \cup (IF customer \/ ~dynamic THEN {"customer_support_tools.py"} ELSE {})

Files(o) ==
  {"handler.py", "agent.py"}
  \cup (IF HasMcpServer(o) THEN {"mcp_server.py"} ELSE {})
  \cup (IF HasGateway(o) /\ GatewayTools(o) # {} THEN ToolFiles(o) ELSE {})
  \cup {"ct_" \o n : n \in CustomLambdas(o.customs)}

---------------------------------------------------------------------------
ExportInit ==
  /\ order \in {o \in Order : o.policy \/ o.policies = 0}
  /\ stack = "asked"
  /\ template = << >> /\ outputs = {} /\ shipped = {} /\ created = {}

Generate ==
  /\ stack = "asked"
  /\ stack' = "generated"
  /\ template' = Resources(order)
  /\ outputs' = OutputRefs(order)
  /\ shipped' = Files(order)
  /\ UNCHANGED <<order, created>>

(* CloudFormation takes a template only when every name it uses is one of  *)
(* its resources or parameters.                                            *)
Referred == outputs \cup UNION {template[n] : n \in DOMAIN template}
Dangling == Referred \ (DOMAIN template \cup Parameters(order))

DeployScript ==
  /\ stack = "generated"
  /\ stack' = IF Dangling = {} THEN "creating" ELSE "invalid"
  /\ UNCHANGED <<order, template, outputs, shipped, created>>

Ready ==
  {n \in DOMAIN template \ created : template[n] \cap DOMAIN template \subseteq created}

CreateReady ==
  /\ stack = "creating" /\ Ready # {}
  /\ created' = created \cup Ready
  /\ stack' = IF created' = DOMAIN template THEN "created" ELSE stack
  /\ UNCHANGED <<order, template, outputs, shipped>>

ExportNext == Generate \/ DeployScript \/ CreateReady

ExportSpec == ExportInit /\ [][ExportNext]_exportVars

---------------------------------------------------------------------------
ExportTypeOK ==
  /\ order \in Order
  /\ stack \in {"asked", "generated", "creating", "invalid", "created"}
  /\ created \subseteq DOMAIN template

(* A template refers to nothing it does not define, with the one exception *)
(* the code makes: an MCP server without a gateway leaves the runtime      *)
(* waiting for a gateway target, and an output naming a server, that       *)
(* nobody added.                                                           *)
ExportResolves ==
  stack # "asked" =>
    IF HasMcpServer(order) /\ ~HasGateway(order)
    THEN Dangling = {"McpServerGatewayTarget", "McpServerRuntime"}
    ELSE Dangling = {}

(* A stack CloudFormation has begun can always go on to the end: no two    *)
(* resources wait for each other. Every Lambda it has made finds its code  *)
(* in the bundle. And a gateway of a canvas with policies never exists     *)
(* without the engine that guards it.                                      *)
StackComesUp ==
  stack = "creating" =>
    /\ Ready # {}
    /\ \A n \in created \cap DOMAIN CodeOf(order) : CodeOf(order)[n] \in shipped
    /\ (order.policy /\ "AgentCoreGateway" \in created) => "PolicyEngine" \in created

============================================================================
