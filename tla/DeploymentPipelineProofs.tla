---------------------- MODULE DeploymentPipelineProofs ----------------------
(* Proofs about DeploymentPipeline for every set of deployments, plans and *)
(* shared kinds, every number of attempts and every set of faults.         *)
EXTENDS DeploymentPipeline, SequenceTheorems, TLAPS

-----------------------------------------------------------------------------
(* What the programs of the steps consist of.                              *)

Ops == {"begin", "call", "join", "ensure", "create", "fresh", "found", "record",
        "record_new", "drop", "return", "raise", "succeed", "fail", "snapshot",
        "sweep"}

Searching == {"knowledge_base", "memory", "policy"}

\* Only three steps look for what they would create, only the failure handler
\* sweeps, and only gateways and their roles are dropped.
Allowed(s) ==
  {i \in [op : Ops, kind : Kind \cup {"none"}] :
     /\ i.op = "found" => s \in Searching
     /\ i.op = "sweep" => s = "failure"
     /\ i.op = "drop" => i.kind \in {"gateway", "gateway_role"}}

Created == {"ensure", "create", "fresh"}

\* What the body of a step consists of: it neither returns nor aborts, a
\* resource whose kind other steps rely on is created by one step, and the
\* handlers at the end create nothing.
Inner(s) ==
  {i \in Allowed(s) :
     /\ i.op \notin {"drop", "return", "raise"}
     /\ i.op = "succeed" => s = "status_update"
     /\ i.op \in {"fail", "snapshot"} => s = "failure"
     /\ i.op \in Created => s \notin {"status_update", "failure"}
     /\ i.op \in Created /\ i.kind \in {"gateway", "gateway_role"} => s = "gateway"
     /\ i.op \in Created /\ i.kind \in {"knowledge_base", "memory"} => s = i.kind}

\* The instructions every step may have, and those that only some have.
LEMMA AllowedInstructions ==
  ASSUME NEW s \in Step
  PROVE  /\ \A op \in {"begin", "call", "join", "record", "record_new"},
               k \in Kind \cup {"none"} : I(op, k) \in Inner(s)
         /\ s \notin {"status_update", "failure"} =>
              \A op \in Created,
                 k \in Kind \ {"gateway", "gateway_role", "knowledge_base", "memory"} :
                I(op, k) \in Inner(s)
         /\ s = "gateway" => \A op \in Created, k \in {"gateway", "gateway_role"} :
                               I(op, k) \in Inner(s)
         /\ s \in {"knowledge_base", "memory"} =>
              \A op \in Created : I(op, s) \in Inner(s)
         /\ s \in Searching => \A k \in Kind : I("found", k) \in Inner(s)
         /\ s = "failure" => \A op \in {"fail", "snapshot", "sweep"} :
                               I(op, "none") \in Inner(s)
         /\ s = "status_update" => I("succeed", "none") \in Inner(s)
BY DEF Inner, Allowed, I, Ops, Kind, UserNamed, Searching, Created

LEMMA SomeKinds ==
  /\ UserNamed \subseteq Kind
  /\ {"mcp_pool", "kb_role", "vector_bucket", "collection", "exec_role",
      "agent_runtime", "harness_role", "harness_provider", "harness",
      "eval_role"} \subseteq Kind
  /\ {"guardrail", "mcp_role", "mcp_runtime", "knowledge_base", "gateway_role",
      "gateway", "memory_role", "memory", "policy_engine", "eval_config"}
        \subseteq Kind
BY DEF Kind, UserNamed

LEMMA BodyInner ==
  ASSUME NEW d \in Deployment, NEW s \in Step
  PROVE  Body(d, s) \in Seq(Inner(s))
<1> DEFINE A == Inner(s)
           own == {"gateway", "gateway_role", "knowledge_base", "memory"}
<1>1. \A op \in {"begin", "call", "join", "record", "record_new"},
         k \in Kind \cup {"none"} : I(op, k) \in A
  BY AllowedInstructions
<1>2. s \in Searching => \A k \in Kind : I("found", k) \in A
  BY AllowedInstructions
<1>3. s \notin {"status_update", "failure"} =>
        \A op \in Created, k \in Kind \ own : I(op, k) \in A
  BY AllowedInstructions
<1>4. \A p, q \in Seq(A) : p \o q \in Seq(A)
  BY ConcatProperties
<1>5. <<>> \in Seq(A)
  OBVIOUS
<1>i. /\ s = "gateway" => \A op \in Created, k \in {"gateway", "gateway_role"} : I(op, k) \in A
      /\ s \in {"knowledge_base", "memory"} => \A op \in Created : I(op, s) \in A
      /\ s = "failure" => \A op \in {"fail", "snapshot", "sweep"} : I(op, "none") \in A
      /\ s = "status_update" => I("succeed", "none") \in A
  BY AllowedInstructions
<1> HIDE DEF A
<1>6. CASE s \in {"guardrails", "mcp_server", "evaluation", "codegen", "iam",
                  "runtime_configure", "runtime_launch"}
  <2>1. /\ GuardrailsBody \in Seq(A) /\ McpServerBody \in Seq(A)
        /\ EvaluationBody \in Seq(A) /\ LaunchBody \in Seq(A)
        /\ CodegenBody \in Seq(A)
    BY <1>1, <1>3, <1>6, SomeKinds
       DEF GuardrailsBody, McpServerBody, EvaluationBody, LaunchBody, CodegenBody,
           Call, Created
  <2>2. IamBody(d) \in Seq(A)
    BY <1>1, <1>3, <1>5, <1>6, SomeKinds DEF IamBody, Call, Created
  <2>3. ConfigureBody(d) \in Seq(A)
    <3>1. /\ <<Call, I("ensure", "agent_runtime"), I("record", "agent_runtime")>> \in Seq(A)
          /\ <<I("record", "exec_role")>> \in Seq(A)
      BY <1>1, <1>3, <1>6, SomeKinds DEF Call, Created
    <3> QED BY <3>1, <1>4, <1>5 DEF ConfigureBody
  <2> QED BY <2>1, <2>2, <2>3, <1>6 DEF Body, A
<1>t. CASE s \in {"status_update", "failure"}
  <2>1. s = "failure" => FailureBody \in Seq(A)
    BY <1>i DEF FailureBody
  <2>2. s = "status_update" => <<I("succeed", "none")>> \in Seq(A)
    BY <1>i
  <2> QED BY <2>1, <2>2, <1>t DEF Body, A
<1>g. CASE s = "gateway"
  <2>1. GatewayBody \in Seq(A)
    BY <1>1, <1>i, <1>g, SomeKinds DEF GatewayBody, Call, Created
  <2> QED BY <2>1, <1>g DEF Body, A
<1>7. CASE s = "harness"
  <2>2. HarnessBody(d) \in Seq(A)
    <3> DEFINE provider(op) == IF "gateway" \in Plan[d]
                               THEN <<I(op, "harness_provider")>> ELSE <<>>
    <3>1. provider("ensure") \in Seq(A) /\ provider("record") \in Seq(A)
      BY <1>1, <1>3, <1>5, <1>7, SomeKinds DEF Created
    <3>2. /\ <<I("ensure", "harness_role"), Call>> \in Seq(A)
          /\ <<I("ensure", "harness"), I("record", "harness"), I("record", "harness_role")>>
                \in Seq(A)
          /\ <<I("begin", "none"), Call>> \in Seq(A)
      BY <1>1, <1>3, <1>7, SomeKinds DEF Call, Created
    <3> QED BY <3>1, <3>2, <1>4 DEF HarnessBody
  <2> QED BY <2>2, <1>7 DEF Body, A
<1>8. CASE s \in Searching
  <2>1. s = "memory" => MemoryBody \in Seq(A)
    BY <1>1, <1>2, <1>3, <1>i, <1>8, SomeKinds DEF MemoryBody, Call, Join, Created
  <2>2. s = "policy" => PolicyBody(d) \in Seq(A)
    <3> SUFFICES ASSUME s = "policy" PROVE PolicyBody(d) \in Seq(A)
      OBVIOUS
    <3>1. /\ <<I("found", "policy_engine"), I("create", "policy_engine"),
               I("record", "policy_engine"), Join>> \in Seq(A)
          /\ PolicyRulesBody \in Seq(A)
      BY <1>1, <1>2, <1>3, <1>8, SomeKinds DEF PolicyRulesBody, Call, Join, Created
    <3> QED BY <3>1, <1>4, <1>5 DEF PolicyBody
  <2>3. s = "knowledge_base" => KnowledgeBaseBody(d) \in Seq(A)
    <3> SUFFICES ASSUME s = "knowledge_base" PROVE KnowledgeBaseBody(d) \in Seq(A)
      OBVIOUS
    <3>1. StoreBody(d) \in Seq(A)
      BY <1>1, <1>3, SomeKinds DEF StoreBody, CollectionBody, VectorBucketBody, Created
    <3>2. /\ KbRoleBody \in Seq(A)
          /\ <<I("found", "knowledge_base")>> \in Seq(A)
          /\ <<Call, I("create", "knowledge_base"), I("record", "knowledge_base"),
               Join>> \in Seq(A)
          /\ IngestBody \in Seq(A)
      BY <1>1, <1>2, <1>3, <1>i, <1>8, SomeKinds DEF KbRoleBody, IngestBody, Call, Join, Created
    <3> QED BY <3>1, <3>2, <1>4 DEF KnowledgeBaseBody
  <2> QED BY <2>1, <2>2, <2>3, <1>8 DEF Body, A, Searching
<1>9. CASE s \notin {"guardrails", "mcp_server", "evaluation", "codegen", "iam",
                    "runtime_configure", "runtime_launch", "status_update",
                    "failure", "gateway", "harness"} \cup Searching
  BY <1>5, <1>9 DEF Body, AuthBody, A, Searching
<1> QED BY <1>6, <1>t, <1>g, <1>7, <1>8, <1>9 DEF A

LEMMA BodyAllowed ==
  ASSUME NEW d \in Deployment, NEW s \in Step
  PROVE  Body(d, s) \in Seq(Allowed(s))
<1>1. Body(d, s) \in Seq(Inner(s)) /\ Inner(s) \subseteq Allowed(s)
  BY BodyInner DEF Inner
<1> QED BY <1>1, SeqMonotonic

\* The instructions around the body.
LEMMA FrameInstructions ==
  ASSUME NEW s \in Step
  PROVE  /\ I("begin", "none") \in Allowed(s) /\ I("return", "none") \in Allowed(s)
         /\ I("raise", "none") \in Allowed(s)
         /\ \A op \in {"drop", "record"}, k \in {"gateway", "gateway_role"} :
              I(op, k) \in Allowed(s)
BY SomeKinds DEF Allowed, I, Ops, Searching

LEMMA ProgramAllowed ==
  ASSUME NEW d \in Deployment, NEW s \in Step
  PROVE  Program[d][s] \in Seq(Allowed(s))
<1> DEFINE A == Allowed(s)
<1>1. /\ I("begin", "none") \in A /\ I("return", "none") \in A /\ I("raise", "none") \in A
      /\ \A op \in {"drop", "record"}, k \in {"gateway", "gateway_role"} : I(op, k) \in A
  BY FrameInstructions
<1>3. Body(d, s) \in Seq(A)
  BY BodyAllowed
<1>4. \A p, q \in Seq(A) : p \o q \in Seq(A)
  BY ConcatProperties
<1> HIDE DEF A
<1>5. <<I("begin", "none")>> \in Seq(A) /\ <<I("return", "none")>> \in Seq(A)
  BY <1>1
<1>6. GatewayAbort \in Seq(A) /\ <<>> \in Seq(A)
  BY <1>1 DEF GatewayAbort
<1>7. ProgramOf(d, s) \in Seq(A)
  BY <1>3, <1>4, <1>5, <1>6 DEF ProgramOf
<1> QED BY <1>7 DEF Program, A

\* What a sequence holds is in every sequence that starts with it.
LEMMA HeldAtStart ==
  ASSUME NEW S, NEW p \in Seq(S), NEW q \in Seq(S), NEW i \in 1 .. Len(p)
  PROVE  \E j \in 1 .. Len(p \o q) : (p \o q)[j] = p[i]
<1>1. i \in 1 .. Len(p \o q) /\ (p \o q)[i] = p[i]
  BY ConcatProperties, LenProperties
<1> QED BY <1>1

\* The pieces a program is put together of.
LEMMA ProgramPieces ==
  ASSUME NEW d \in Deployment, NEW s \in Step
  PROVE  LET S == Allowed(s) \cup {I("begin", "none"), I("return", "none")} \cup Allowed("gateway")
             abort == IF s = "gateway" THEN GatewayAbort ELSE <<>>
         IN  /\ <<I("begin", "none")>> \in Seq(S) /\ <<I("return", "none")>> \in Seq(S)
             /\ Body(d, s) \in Seq(S) /\ abort \in Seq(S)
<1> DEFINE S == Allowed(s) \cup {I("begin", "none"), I("return", "none")} \cup Allowed("gateway")
<1>1. Body(d, s) \in Seq(S)
  BY BodyAllowed, SeqMonotonic
<1>2. "gateway" \in Step
  BY DEF Step, Chain, TailPos
<1>3. /\ I("raise", "none") \in Allowed("gateway")
      /\ \A op \in {"drop", "record"}, k \in {"gateway", "gateway_role"} :
           I(op, k) \in Allowed("gateway")
  BY <1>2, FrameInstructions
<1>4. GatewayAbort \in Seq(S)
  <2>1. /\ I("drop", "gateway") \in S /\ I("drop", "gateway_role") \in S
        /\ I("record", "gateway") \in S /\ I("record", "gateway_role") \in S
        /\ I("raise", "none") \in S
    BY <1>3
  <2> HIDE DEF S
  <2> QED BY <2>1 DEF GatewayAbort
<1>5. <<I("begin", "none")>> \in Seq(S) /\ <<I("return", "none")>> \in Seq(S)
  OBVIOUS
<1> QED BY <1>1, <1>4, <1>5

\* Where the pieces are.
LEMMA Layout ==
  ASSUME NEW d \in Deployment, NEW s \in Step
  PROVE  LET p == Program[d][s]
             b == Body(d, s)
         IN  /\ Len(b) \in Nat /\ DOMAIN p = 1 .. Len(p)
             /\ Len(p) = Len(b) + 2 + (IF s = "gateway" THEN 5 ELSE 0)
             /\ p[1] = I("begin", "none") /\ p[Len(b) + 2] = I("return", "none")
             /\ \A i \in 1 .. Len(b) : p[i + 1] = b[i] /\ b[i] \in Inner(s)
             /\ s = "gateway" => /\ b = GatewayBody /\ Len(b) = 6
                                 /\ \A i \in 1 .. 5 : p[i + 8] = GatewayAbort[i]
<1> DEFINE S == Allowed(s) \cup {I("begin", "none"), I("return", "none")} \cup Allowed("gateway")
           abort == IF s = "gateway" THEN GatewayAbort ELSE <<>>
           first == <<I("begin", "none")>>
           last == <<I("return", "none")>>
           body == Body(d, s)
           prog == Program[d][s]
<1>1. first \in Seq(S) /\ last \in Seq(S) /\ body \in Seq(S) /\ abort \in Seq(S)
  BY ProgramPieces
<1>2. prog = ((first \o body) \o last) \o abort
  BY DEF Program, ProgramOf
<1>3. /\ Len(first) = 1 /\ first[1] = I("begin", "none")
      /\ Len(last) = 1 /\ last[1] = I("return", "none")
  OBVIOUS
<1>4. /\ Len(abort) = IF s = "gateway" THEN 5 ELSE 0
      /\ s = "gateway" => abort = GatewayAbort
  BY DEF GatewayAbort
<1>5. \A i \in 1 .. Len(body) : body[i] \in Inner(s)
  BY BodyInner, ElementOfSeq
<1>6. s = "gateway" => body = GatewayBody /\ Len(body) = 6
  BY DEF Body, GatewayBody
<1> HIDE DEF S, abort, first, last, body, prog
<1>7. \A p, q \in Seq(S) :
        /\ p \o q \in Seq(S) /\ Len(p) \in Nat /\ Len(p \o q) = Len(p) + Len(q)
        /\ \A i \in 1 .. Len(p) + Len(q) :
             (p \o q)[i] = IF i <= Len(p) THEN p[i] ELSE q[i - Len(p)]
        /\ DOMAIN p = 1 .. Len(p)
  BY ConcatProperties, LenProperties
<1>8. PICK one : one = first \o body
  OBVIOUS
<1>9. PICK two : two = one \o last
  OBVIOUS
<1>10. prog = two \o abort
  BY <1>2, <1>8, <1>9
<1>11. /\ one \in Seq(S) /\ Len(one) = 1 + Len(body) /\ Len(body) \in Nat
       /\ one[1] = I("begin", "none")
       /\ \A i \in 1 .. Len(body) : one[i + 1] = body[i]
  <2>1. /\ one \in Seq(S) /\ Len(one) = 1 + Len(body) /\ Len(body) \in Nat
        /\ \A i \in 1 .. 1 + Len(body) : one[i] = IF i <= 1 THEN first[i] ELSE body[i - 1]
    BY <1>1, <1>3, <1>7, <1>8
  <2>2. one[1] = I("begin", "none")
    BY <2>1, <1>3
  <2>3. ASSUME NEW i \in 1 .. Len(body) PROVE one[i + 1] = body[i]
    <3>1. i + 1 \in 1 .. 1 + Len(body) /\ ~(i + 1 <= 1) /\ (i + 1) - 1 = i
      BY <2>1
    <3> QED BY <2>1, <3>1
  <2> QED BY <2>1, <2>2, <2>3
<1>12. /\ two \in Seq(S) /\ Len(two) = Len(body) + 2
       /\ two[Len(body) + 2] = I("return", "none")
       /\ \A i \in 1 .. Len(body) + 1 : two[i] = one[i]
  <2>1. /\ two \in Seq(S) /\ Len(two) = Len(body) + 2
        /\ \A i \in 1 .. Len(body) + 2 :
             two[i] = IF i <= Len(body) + 1 THEN one[i] ELSE last[i - (Len(body) + 1)]
    BY <1>1, <1>3, <1>7, <1>9, <1>11
  <2>2. (Len(body) + 2) - (Len(body) + 1) = 1 /\ Len(body) + 2 \in 1 .. Len(body) + 2
        /\ ~(Len(body) + 2 <= Len(body) + 1)
    BY <1>11
  <2>3. two[Len(body) + 2] = I("return", "none")
    BY <2>1, <2>2, <1>3
  <2>4. \A i \in 1 .. Len(body) + 1 : two[i] = one[i]
    BY <2>1, <1>11
  <2> QED BY <2>1, <2>3, <2>4
<1>13. /\ prog \in Seq(S) /\ Len(prog) = Len(body) + 2 + Len(abort)
       /\ \A i \in 1 .. Len(body) + 2 : prog[i] = two[i]
       /\ \A i \in 1 .. Len(abort) : prog[i + (Len(body) + 2)] = abort[i]
  <2>1. /\ prog \in Seq(S) /\ Len(prog) = (Len(body) + 2) + Len(abort) /\ Len(abort) \in Nat
        /\ \A i \in 1 .. (Len(body) + 2) + Len(abort) :
             prog[i] = IF i <= Len(body) + 2 THEN two[i] ELSE abort[i - (Len(body) + 2)]
    <3>1. two \in Seq(S) /\ abort \in Seq(S) /\ Len(two) = Len(body) + 2
      BY <1>1, <1>12
    <3>2. /\ two \o abort \in Seq(S) /\ Len(two \o abort) = Len(two) + Len(abort)
          /\ Len(abort) \in Nat
          /\ \A i \in 1 .. Len(two) + Len(abort) :
               (two \o abort)[i] = IF i <= Len(two) THEN two[i] ELSE abort[i - Len(two)]
      BY <3>1, <1>7
    <3> QED BY <3>1, <3>2, <1>10, Zenon
  <2>2. \A i \in 1 .. Len(body) + 2 : prog[i] = two[i]
    BY <2>1, <1>11
  <2>3. ASSUME NEW i \in 1 .. Len(abort)
        PROVE  prog[i + (Len(body) + 2)] = abort[i]
    <3>1. PICK j : j = i + (Len(body) + 2)
      OBVIOUS
    <3>2. /\ j \in 1 .. (Len(body) + 2) + Len(abort) /\ ~(j <= Len(body) + 2)
          /\ j - (Len(body) + 2) = i
      <4>1. Len(body) \in Nat /\ Len(abort) \in Nat
        BY <2>1, <1>11
      <4>2. i \in Nat /\ 1 <= i /\ i <= Len(abort)
        BY <4>1
      <4> QED BY <3>1, <4>1, <4>2
    <3>3. prog[j] = abort[i]
      BY <3>2, <2>1
    <3> QED BY <3>1, <3>3
  <2> QED BY <2>1, <2>2, <2>3, <1>11
<1>14. prog[1] = I("begin", "none") /\ prog[Len(body) + 2] = I("return", "none")
  <2>1. 1 \in 1 .. Len(body) + 1 /\ 1 \in 1 .. Len(body) + 2
        /\ Len(body) + 2 \in 1 .. Len(body) + 2
    BY <1>11
  <2> QED BY <2>1, <1>11, <1>12, <1>13
<1>15. ASSUME NEW i \in 1 .. Len(body) PROVE prog[i + 1] = body[i]
  <2>1. i + 1 \in 1 .. Len(body) + 1 /\ i + 1 \in 1 .. Len(body) + 2
    BY <1>11
  <2> QED BY <2>1, <1>11, <1>12, <1>13
<1>16. s = "gateway" => \A i \in 1 .. 5 : prog[i + 8] = GatewayAbort[i]
  <2> SUFFICES ASSUME s = "gateway", NEW i \in 1 .. 5 PROVE prog[i + 8] = GatewayAbort[i]
    OBVIOUS
  <2>1. Len(body) = 6 /\ Len(abort) = 5 /\ abort = GatewayAbort
    BY <1>4, <1>6
  <2>2. Len(body) + 2 = 8
    BY <2>1
  <2>3. prog[i + (Len(body) + 2)] = abort[i]
    BY <2>1, <1>13
  <2> QED BY <2>1, <2>2, <2>3
<1>17. DOMAIN prog = 1 .. Len(prog)
  BY <1>7, <1>13
<1> QED BY <1>4, <1>5, <1>6, <1>11, <1>13, <1>14, <1>15, <1>16, <1>17 DEF body, prog

\* A program has a first instruction, and holds what the body of its step does.
LEMMA ProgramShape ==
  ASSUME NEW d \in Deployment, NEW s \in Step
  PROVE  /\ Len(Program[d][s]) \in Nat \ {0}
         /\ DOMAIN Program[d][s] = 1 .. Len(Program[d][s])
         /\ \A i \in DOMAIN Program[d][s] : Program[d][s][i] \in Allowed(s)
         /\ \A x : (\E i \in 1 .. Len(Body(d, s)) : Body(d, s)[i] = x)
                  => \E i \in DOMAIN Program[d][s] : Program[d][s][i] = x
<1> DEFINE prog == Program[d][s]
           body == Body(d, s)
<1>1. /\ Len(body) \in Nat /\ DOMAIN prog = 1 .. Len(prog)
      /\ Len(prog) = Len(body) + 2 + (IF s = "gateway" THEN 5 ELSE 0)
      /\ \A i \in 1 .. Len(body) : prog[i + 1] = body[i]
  BY Layout
<1>2. prog \in Seq(Allowed(s))
  BY ProgramAllowed
<1> HIDE DEF prog, body
<1>3. Len(prog) \in Nat \ {0}
  BY <1>1
<1>4. \A i \in DOMAIN prog : prog[i] \in Allowed(s)
  BY <1>1, <1>2, ElementOfSeq
<1>5. ASSUME NEW x, \E i \in 1 .. Len(body) : body[i] = x
      PROVE  \E i \in DOMAIN prog : prog[i] = x
  <2>1. PICK i \in 1 .. Len(body) : body[i] = x
    BY <1>5
  <2>2. i + 1 \in 1 .. Len(prog)
    BY <1>1
  <2>3. prog[i + 1] = x
    BY <1>1, <2>1
  <2> QED BY <1>1, <2>2, <2>3
<1> QED BY <1>1, <1>3, <1>4, <1>5 DEF prog, body

\* The instructions that provide a resource of kind k.
Providing(k) == {I("ensure", k), I("create", k), I("fresh", k)}

\* The kind of vector store a knowledge base of d is backed by.
Store(d) == IF "opensearch" \in Plan[d] THEN "collection" ELSE "vector_bucket"

\* What a step has provided before it looks for or creates a k.
Needs(d, k) == CASE k = "knowledge_base" -> {Store(d)}
                 [] k = "memory" -> {"memory_role"}
                 [] OTHER -> {}

\* The layout of a step without an abort section.
LEMMA PlainLayout ==
  ASSUME NEW d \in Deployment, NEW s \in Step, s # "gateway"
  PROVE  /\ DOMAIN Program[d][s] = 1 .. Len(Body(d, s)) + 2
         /\ Len(Program[d][s]) = Len(Body(d, s)) + 2
         /\ Program[d][s][1] = I("begin", "none")
         /\ Program[d][s][Len(Body(d, s)) + 2] = I("return", "none")
         /\ \A i \in 1 .. Len(Body(d, s)) : Program[d][s][i + 1] = Body(d, s)[i]
<1> DEFINE p == Program[d][s]
           b == Body(d, s)
<1>1. /\ DOMAIN p = 1 .. Len(p) /\ Len(p) = Len(b) + 2 + (IF s = "gateway" THEN 5 ELSE 0)
      /\ p[1] = I("begin", "none") /\ p[Len(b) + 2] = I("return", "none")
      /\ \A i \in 1 .. Len(b) : p[i + 1] = b[i]
      /\ Len(b) \in Nat
  BY Layout
<1> HIDE DEF p, b
<1>2. Len(p) = Len(b) + 2
  BY <1>1
<1> QED BY <1>1, <1>2 DEF p, b

\* What the memory step executes.
LEMMA MemoryProgram ==
  ASSUME NEW d \in Deployment
  PROVE  LET p == Program[d]["memory"]
         IN  /\ DOMAIN p = 1 .. 11
             /\ p[1] = I("begin", "none") /\ p[2] = I("found", "memory")
             /\ p[3] = I("ensure", "memory_role") /\ p[4] = Call
             /\ p[5] = I("record_new", "memory_role") /\ p[6] = Call
             /\ p[7] = I("ensure", "memory") /\ p[8] = I("record", "memory")
             /\ p[9] = Call /\ p[10] = Join /\ p[11] = I("return", "none")
<1> DEFINE p == Program[d]["memory"]
<1>1. "memory" \in Step
  BY DEF Step, Chain, TailPos
<1>2. Body(d, "memory") = MemoryBody
  BY DEF Body
<1>3. Len(MemoryBody) = 9
  BY DEF MemoryBody
<1>4. /\ DOMAIN p = 1 .. 11 /\ p[1] = I("begin", "none") /\ p[11] = I("return", "none")
      /\ \A i \in 1 .. 9 : p[i + 1] = MemoryBody[i]
  <2> DEFINE b == Body(d, "memory")
  <2>1. Len(b) = 9 /\ 9 + 2 = 11
    BY <1>2, <1>3
  <2>2. /\ DOMAIN p = 1 .. Len(b) + 2 /\ p[1] = I("begin", "none")
        /\ p[Len(b) + 2] = I("return", "none")
        /\ \A i \in 1 .. Len(b) : p[i + 1] = b[i]
    <3>1. "memory" # "gateway"
      OBVIOUS
    <3> QED BY <1>1, <3>1, PlainLayout
  <2> HIDE DEF p
  <2> QED BY <1>2, <2>1, <2>2
<1> HIDE DEF p
<1>5. /\ p[2] = MemoryBody[1] /\ p[3] = MemoryBody[2] /\ p[4] = MemoryBody[3]
      /\ p[5] = MemoryBody[4] /\ p[6] = MemoryBody[5] /\ p[7] = MemoryBody[6]
      /\ p[8] = MemoryBody[7] /\ p[9] = MemoryBody[8] /\ p[10] = MemoryBody[9]
  <2>1. \A i \in 1 .. 9 : p[i + 1] = MemoryBody[i]
    BY <1>4
  <2> HIDE DEF p
  <2> QED BY <2>1
<1>6. /\ MemoryBody[1] = I("found", "memory") /\ MemoryBody[2] = I("ensure", "memory_role")
      /\ MemoryBody[3] = Call /\ MemoryBody[4] = I("record_new", "memory_role")
      /\ MemoryBody[5] = Call /\ MemoryBody[6] = I("ensure", "memory")
      /\ MemoryBody[7] = I("record", "memory") /\ MemoryBody[8] = Call
      /\ MemoryBody[9] = Join
  BY DEF MemoryBody
<1> QED BY <1>4, <1>5, <1>6 DEF p

\* What a concatenation holds and where.
LEMMA ConcatAt ==
  ASSUME NEW S, NEW p \in Seq(S), NEW q \in Seq(S)
  PROVE  /\ p \o q \in Seq(S) /\ Len(p \o q) = Len(p) + Len(q)
         /\ \A i \in 1 .. Len(p) : (p \o q)[i] = p[i]
         /\ \A i \in 1 .. Len(q) : (p \o q)[Len(p) + i] = q[i]
<1>1. /\ p \o q \in Seq(S) /\ Len(p \o q) = Len(p) + Len(q)
      /\ Len(p) \in Nat /\ Len(q) \in Nat
      /\ \A i \in 1 .. Len(p) + Len(q) :
           (p \o q)[i] = IF i <= Len(p) THEN p[i] ELSE q[i - Len(p)]
  BY ConcatProperties, LenProperties
<1>2. \A i \in 1 .. Len(p) : i \in 1 .. Len(p) + Len(q) /\ i <= Len(p)
  BY <1>1
<1>3. ASSUME NEW i \in 1 .. Len(q) PROVE (p \o q)[Len(p) + i] = q[i]
  <2>1. PICK j : j = Len(p) + i
    OBVIOUS
  <2>2. j \in 1 .. Len(p) + Len(q) /\ ~(j <= Len(p)) /\ j - Len(p) = i
    BY <1>1, <2>1
  <2> QED BY <1>1, <2>1, <2>2
<1> QED BY <1>1, <1>2, <1>3

\* What the knowledge base step executes, whichever store it uses.
LEMMA KnowledgeProgram ==
  ASSUME NEW d \in Deployment
  PROVE  LET p == Program[d]["knowledge_base"]
         IN  /\ DOMAIN p = 1 .. 13
             /\ p[1] = I("begin", "none") /\ p[2] = I("ensure", "kb_role")
             /\ p[3] = Call /\ p[4] = I("record", "kb_role")
             /\ p[5] = I("found", "knowledge_base")
             /\ p[6] = I("ensure", Store(d)) /\ p[7] = I("record", Store(d))
             /\ p[8] = Call /\ p[9] = I("create", "knowledge_base")
             /\ p[10] = I("record", "knowledge_base") /\ p[11] = Join
             /\ p[12] = Call /\ p[13] = I("return", "none")
<1> DEFINE S == [op : Ops, kind : Kind \cup {"none"}]
           find == <<I("found", "knowledge_base")>>
           mid == <<Call, I("create", "knowledge_base"), I("record", "knowledge_base"), Join>>
           p == Program[d]["knowledge_base"]
<1>0. StoreBody(d) = <<I("ensure", Store(d)), I("record", Store(d))>>
  BY DEF StoreBody, Store, CollectionBody, VectorBucketBody
<1>1. \A op \in Ops, k \in Kind \cup {"none"} : I(op, k) \in S
  BY DEF I
<1>s. Store(d) \in Kind
  BY SomeKinds DEF Store
<1> HIDE DEF S
<1>2. /\ KbRoleBody \in Seq(S) /\ find \in Seq(S) /\ mid \in Seq(S)
      /\ StoreBody(d) \in Seq(S) /\ IngestBody \in Seq(S)
  BY <1>0, <1>1, <1>s, SomeKinds DEF KbRoleBody, IngestBody, Call, Join, Ops
<1>3. /\ Len(KbRoleBody) = 3 /\ KbRoleBody[1] = I("ensure", "kb_role")
      /\ KbRoleBody[2] = Call /\ KbRoleBody[3] = I("record", "kb_role")
  BY DEF KbRoleBody
<1>4. Len(find) = 1 /\ find[1] = I("found", "knowledge_base")
  OBVIOUS
<1>5. /\ Len(StoreBody(d)) = 2 /\ StoreBody(d)[1] = I("ensure", Store(d))
      /\ StoreBody(d)[2] = I("record", Store(d))
  BY <1>0
<1>6. /\ Len(mid) = 4 /\ mid[1] = Call /\ mid[2] = I("create", "knowledge_base")
      /\ mid[3] = I("record", "knowledge_base") /\ mid[4] = Join
  OBVIOUS
<1>7. Len(IngestBody) = 1 /\ IngestBody[1] = Call
  BY DEF IngestBody
<1>8. "knowledge_base" \in Step
  BY DEF Step, Chain, TailPos
<1>9. PICK four : four = KbRoleBody \o find
  OBVIOUS
<1>10. PICK six : six = four \o StoreBody(d)
  OBVIOUS
<1>11. PICK ten : ten = six \o mid
  OBVIOUS
<1>12. PICK all : all = ten \o IngestBody
  OBVIOUS
<1>13. Body(d, "knowledge_base") = all
  BY <1>9, <1>10, <1>11, <1>12 DEF Body, KnowledgeBaseBody
<1> HIDE DEF find, mid
<1>c. \A a, b \in Seq(S) :
        /\ a \o b \in Seq(S) /\ Len(a \o b) = Len(a) + Len(b)
        /\ \A i \in 1 .. Len(a) : (a \o b)[i] = a[i]
        /\ \A i \in 1 .. Len(b) : (a \o b)[Len(a) + i] = b[i]
  BY ConcatAt
<1>14. /\ four \in Seq(S) /\ Len(four) = 4
       /\ \A i \in 1 .. 3 : four[i] = KbRoleBody[i]
       /\ \A i \in 1 .. 1 : four[3 + i] = find[i]
  <2>1. KbRoleBody \in Seq(S) /\ find \in Seq(S)
    BY <1>2, <1>3, <1>4, <1>9
  <2>2. /\ KbRoleBody \o find \in Seq(S) /\ Len(KbRoleBody \o find) = Len(KbRoleBody) + Len(find)
        /\ \A i \in 1 .. Len(KbRoleBody) : (KbRoleBody \o find)[i] = KbRoleBody[i]
        /\ \A i \in 1 .. Len(find) : (KbRoleBody \o find)[Len(KbRoleBody) + i] = find[i]
    BY <2>1, <1>c
  <2>3. Len(KbRoleBody) = 3 /\ Len(find) = 1 /\ 3 + 1 = 4
    BY <1>2, <1>3, <1>4, <1>9
  <2> QED BY <1>2, <1>3, <1>4, <1>9, <2>2, <2>3
<1>15. /\ six \in Seq(S) /\ Len(six) = 6
       /\ \A i \in 1 .. 4 : six[i] = four[i]
       /\ \A i \in 1 .. 2 : six[4 + i] = StoreBody(d)[i]
  <2>1. four \in Seq(S) /\ StoreBody(d) \in Seq(S)
    BY <1>2, <1>5, <1>10, <1>14
  <2>2. /\ four \o StoreBody(d) \in Seq(S) /\ Len(four \o StoreBody(d)) = Len(four) + Len(StoreBody(d))
        /\ \A i \in 1 .. Len(four) : (four \o StoreBody(d))[i] = four[i]
        /\ \A i \in 1 .. Len(StoreBody(d)) : (four \o StoreBody(d))[Len(four) + i] = StoreBody(d)[i]
    BY <2>1, <1>c
  <2>3. Len(four) = 4 /\ Len(StoreBody(d)) = 2 /\ 4 + 2 = 6
    BY <1>2, <1>5, <1>10, <1>14
  <2> QED BY <1>2, <1>5, <1>10, <1>14, <2>2, <2>3
<1>16. /\ ten \in Seq(S) /\ Len(ten) = 10
       /\ \A i \in 1 .. 6 : ten[i] = six[i]
       /\ \A i \in 1 .. 4 : ten[6 + i] = mid[i]
  <2>1. six \in Seq(S) /\ mid \in Seq(S)
    BY <1>2, <1>6, <1>11, <1>15
  <2>2. /\ six \o mid \in Seq(S) /\ Len(six \o mid) = Len(six) + Len(mid)
        /\ \A i \in 1 .. Len(six) : (six \o mid)[i] = six[i]
        /\ \A i \in 1 .. Len(mid) : (six \o mid)[Len(six) + i] = mid[i]
    BY <2>1, <1>c
  <2>3. Len(six) = 6 /\ Len(mid) = 4 /\ 6 + 4 = 10
    BY <1>2, <1>6, <1>11, <1>15
  <2> QED BY <1>2, <1>6, <1>11, <1>15, <2>2, <2>3
<1>17. /\ Len(all) = 11
       /\ \A i \in 1 .. 10 : all[i] = ten[i]
       /\ \A i \in 1 .. 1 : all[10 + i] = IngestBody[i]
  <2>1. ten \in Seq(S) /\ IngestBody \in Seq(S)
    BY <1>2, <1>7, <1>12, <1>16
  <2>2. /\ ten \o IngestBody \in Seq(S) /\ Len(ten \o IngestBody) = Len(ten) + Len(IngestBody)
        /\ \A i \in 1 .. Len(ten) : (ten \o IngestBody)[i] = ten[i]
        /\ \A i \in 1 .. Len(IngestBody) : (ten \o IngestBody)[Len(ten) + i] = IngestBody[i]
    BY <2>1, <1>c
  <2>3. Len(ten) = 10 /\ Len(IngestBody) = 1 /\ 10 + 1 = 11
    BY <1>2, <1>7, <1>12, <1>16
  <2> QED BY <1>2, <1>7, <1>12, <1>16, <2>2, <2>3
<1>18. /\ DOMAIN p = 1 .. 13 /\ p[1] = I("begin", "none") /\ p[13] = I("return", "none")
       /\ \A i \in 1 .. 11 : p[i + 1] = all[i]
  <2> DEFINE b == Body(d, "knowledge_base")
  <2>1. Len(b) = 11 /\ 11 + 2 = 13
    BY <1>13, <1>17
  <2>2. /\ DOMAIN p = 1 .. Len(b) + 2 /\ p[1] = I("begin", "none")
        /\ p[Len(b) + 2] = I("return", "none")
        /\ \A i \in 1 .. Len(b) : p[i + 1] = b[i]
    <3>1. "knowledge_base" # "gateway"
      OBVIOUS
    <3> QED BY <1>8, <3>1, PlainLayout
  <2> HIDE DEF p
  <2> QED BY <1>13, <2>1, <2>2
<1> HIDE DEF p
<1>19. /\ all[1] = KbRoleBody[1] /\ all[2] = KbRoleBody[2] /\ all[3] = KbRoleBody[3]
       /\ all[4] = find[1] /\ all[5] = StoreBody(d)[1] /\ all[6] = StoreBody(d)[2]
       /\ all[7] = mid[1] /\ all[8] = mid[2] /\ all[9] = mid[3] /\ all[10] = mid[4]
       /\ all[11] = IngestBody[1]
  BY <1>14, <1>15, <1>16, <1>17
<1>20. /\ p[2] = all[1] /\ p[3] = all[2] /\ p[4] = all[3] /\ p[5] = all[4]
       /\ p[6] = all[5] /\ p[7] = all[6] /\ p[8] = all[7] /\ p[9] = all[8]
       /\ p[10] = all[9] /\ p[11] = all[10] /\ p[12] = all[11]
  BY <1>18
<1> QED BY <1>3, <1>4, <1>5, <1>6, <1>7, <1>18, <1>19, <1>20 DEF p

\* What the policy step executes, with and without a gateway in the plan.
LEMMA PolicyProgram ==
  ASSUME NEW d \in Deployment
  PROVE  LET p == Program[d]["policy"]
         IN  /\ "gateway" \in Plan[d] =>
                  /\ DOMAIN p = 1 .. 7
                  /\ p[1] = I("begin", "none") /\ p[2] = I("found", "policy_engine")
                  /\ p[3] = I("create", "policy_engine") /\ p[4] = I("record", "policy_engine")
                  /\ p[5] = Join /\ p[6] = Call /\ p[7] = I("return", "none")
             /\ "gateway" \notin Plan[d] =>
                  /\ DOMAIN p = 1 .. 2
                  /\ p[1] = I("begin", "none") /\ p[2] = I("return", "none")
<1> DEFINE p == Program[d]["policy"]
           b == Body(d, "policy")
           S == [op : Ops, kind : Kind \cup {"none"}]
           engine == <<I("found", "policy_engine"), I("create", "policy_engine"),
                       I("record", "policy_engine"), Join>>
<1>0. "policy" \in Step
  BY DEF Step, Chain, TailPos
<1>1. /\ DOMAIN p = 1 .. Len(b) + 2 /\ p[1] = I("begin", "none")
      /\ p[Len(b) + 2] = I("return", "none")
      /\ \A i \in 1 .. Len(b) : p[i + 1] = b[i]
  <2>1. "policy" # "gateway"
    OBVIOUS
  <2> QED BY <1>0, <2>1, PlainLayout
<1>2. b = PolicyBody(d)
  BY DEF Body
<1> HIDE DEF p, b
<1>3. ASSUME "gateway" \notin Plan[d]
      PROVE  DOMAIN p = 1 .. 2 /\ p[1] = I("begin", "none") /\ p[2] = I("return", "none")
  <2>1. Len(b) = 0 /\ 0 + 2 = 2
    BY <1>2, <1>3 DEF PolicyBody
  <2> QED BY <1>1, <2>1
<1>4. ASSUME "gateway" \in Plan[d]
      PROVE  /\ DOMAIN p = 1 .. 7
             /\ p[1] = I("begin", "none") /\ p[2] = I("found", "policy_engine")
             /\ p[3] = I("create", "policy_engine") /\ p[4] = I("record", "policy_engine")
             /\ p[5] = Join /\ p[6] = Call /\ p[7] = I("return", "none")
  <2>1. \A op \in Ops, k \in Kind \cup {"none"} : I(op, k) \in S
    BY DEF I
  <2>2. b = engine \o PolicyRulesBody
    BY <1>2, <1>4 DEF PolicyBody
  <2> HIDE DEF S
  <2>3. engine \in Seq(S) /\ PolicyRulesBody \in Seq(S)
    BY <2>1, SomeKinds DEF PolicyRulesBody, Call, Join, Ops
  <2>4. /\ Len(engine) = 4 /\ engine[1] = I("found", "policy_engine")
        /\ engine[2] = I("create", "policy_engine") /\ engine[3] = I("record", "policy_engine")
        /\ engine[4] = Join
    OBVIOUS
  <2>5. Len(PolicyRulesBody) = 1 /\ PolicyRulesBody[1] = Call
    BY DEF PolicyRulesBody
  <2> HIDE DEF engine
  <2>6. /\ Len(b) = Len(engine) + Len(PolicyRulesBody)
        /\ \A i \in 1 .. Len(engine) : b[i] = engine[i]
        /\ \A i \in 1 .. Len(PolicyRulesBody) : b[Len(engine) + i] = PolicyRulesBody[i]
    BY <2>2, <2>3, ConcatAt
  <2>7. /\ Len(b) = 5 /\ \A i \in 1 .. 4 : b[i] = engine[i]
        /\ b[5] = Call
    BY <2>4, <2>5, <2>6
  <2>8. /\ DOMAIN p = 1 .. 7 /\ p[7] = I("return", "none")
        /\ \A i \in 1 .. 5 : p[i + 1] = b[i]
    BY <1>1, <2>7
  <2>9. p[2] = b[1] /\ p[3] = b[2] /\ p[4] = b[3] /\ p[5] = b[4] /\ p[6] = b[5]
    BY <2>8
  <2> QED BY <1>1, <2>4, <2>7, <2>8, <2>9
<1> QED BY <1>3, <1>4 DEF p

\* The only place an instruction with a property is at is the one chosen.
LEMMA JoinAt ==
  ASSUME NEW p, NEW j \in DOMAIN p, p[j] = Join,
         \A i \in DOMAIN p : p[i].op = "join" => i = j
  PROVE  JoinPc(p) = j
<1>1. p[j].op = "join"
  BY DEF Join, I
<1> QED BY <1>1 DEF JoinPc

\* A lookup that succeeds goes on behind what the step would create: the kind it
\* looks for, and what that one needs.
LEMMA Skipped ==
  ASSUME NEW d \in Deployment, NEW s \in Step,
         NEW i \in DOMAIN Program[d][s], NEW k, Program[d][s][i] = I("found", k)
  PROVE  LET p == Program[d][s]
         IN  /\ JoinPc(p) \in DOMAIN p /\ s # "gateway"
             /\ \A j \in DOMAIN p, m \in Kind :
                  i < j /\ j < JoinPc(p) /\ p[j] \in Providing(m)
                    => m = k \/ m \in Needs(d, k)
<1> DEFINE p == Program[d][s]
<1>1. s \in Searching
  <2>1. p[i] \in Allowed(s)
    BY ProgramShape
  <2> QED BY <2>1 DEF Allowed, I
<1>2. ASSUME s = "memory"
      PROVE  /\ JoinPc(p) \in DOMAIN p
             /\ \A j \in DOMAIN p, m \in Kind :
                  i < j /\ j < JoinPc(p) /\ p[j] \in Providing(m)
                    => m = k \/ m \in Needs(d, k)
  <2>1. /\ DOMAIN p = 1 .. 11
        /\ p[1] = I("begin", "none") /\ p[2] = I("found", "memory")
        /\ p[3] = I("ensure", "memory_role") /\ p[4] = Call
        /\ p[5] = I("record_new", "memory_role") /\ p[6] = Call
        /\ p[7] = I("ensure", "memory") /\ p[8] = I("record", "memory")
        /\ p[9] = Call /\ p[10] = Join /\ p[11] = I("return", "none")
    BY <1>2, MemoryProgram
  <2> HIDE DEF p
  <2>2. p[i] = I("found", k) /\ i \in 1 .. 11
    BY <2>1 DEF p
  <2>3. k = "memory" /\ i = 2
    BY <2>1, <2>2 DEF I, Call, Join
  <2>4. \A j \in DOMAIN p : p[j].op = "join" => j = 10
    BY <2>1 DEF I, Call, Join
  <2>5. JoinPc(p) = 10 /\ 10 \in DOMAIN p
    BY <2>1, <2>4, JoinAt
  <2>6. Needs(d, k) = {"memory_role"}
    BY <2>3 DEF Needs
  <2>7. ASSUME NEW j \in DOMAIN p, NEW m \in Kind, i < j, j < 10, p[j] \in Providing(m)
        PROVE  m = k \/ m \in Needs(d, k)
    <3>1. j \in 3 .. 9
      BY <2>1, <2>3, <2>7
    <3>2. p[j].op \in Created /\ p[j].kind = m
      BY <2>7 DEF Providing, I, Created
    <3>3. j = 3 \/ j = 7
      BY <2>1, <3>1, <3>2 DEF I, Call, Created
    <3> QED BY <2>1, <2>3, <2>6, <3>2, <3>3 DEF I
  <2> QED BY <2>5, <2>7
<1>3. ASSUME s = "policy"
      PROVE  /\ JoinPc(p) \in DOMAIN p
             /\ \A j \in DOMAIN p, m \in Kind :
                  i < j /\ j < JoinPc(p) /\ p[j] \in Providing(m)
                    => m = k \/ m \in Needs(d, k)
  <2>1. /\ "gateway" \in Plan[d] =>
             /\ DOMAIN p = 1 .. 7
             /\ p[1] = I("begin", "none") /\ p[2] = I("found", "policy_engine")
             /\ p[3] = I("create", "policy_engine") /\ p[4] = I("record", "policy_engine")
             /\ p[5] = Join /\ p[6] = Call /\ p[7] = I("return", "none")
        /\ "gateway" \notin Plan[d] =>
             /\ DOMAIN p = 1 .. 2
             /\ p[1] = I("begin", "none") /\ p[2] = I("return", "none")
    BY <1>3, PolicyProgram
  <2> HIDE DEF p
  <2>2. p[i] = I("found", k) /\ i \in DOMAIN p
    BY DEF p
  <2>3. "gateway" \in Plan[d]
    BY <2>1, <2>2 DEF I
  <2>4. k = "policy_engine" /\ i = 2
    BY <2>1, <2>2, <2>3 DEF I, Call, Join
  <2>5. \A j \in DOMAIN p : p[j].op = "join" => j = 5
    BY <2>1, <2>3 DEF I, Call, Join
  <2>6. JoinPc(p) = 5 /\ 5 \in DOMAIN p
    BY <2>1, <2>3, <2>5, JoinAt
  <2>7. ASSUME NEW j \in DOMAIN p, NEW m \in Kind, i < j, j < 5, p[j] \in Providing(m)
        PROVE  m = k \/ m \in Needs(d, k)
    <3>1. j \in 3 .. 4
      BY <2>1, <2>3, <2>4, <2>7
    <3>2. p[j].op \in Created /\ p[j].kind = m
      BY <2>7 DEF Providing, I, Created
    <3>3. j = 3
      BY <2>1, <2>3, <3>1, <3>2 DEF I, Created
    <3> QED BY <2>1, <2>3, <2>4, <3>2, <3>3 DEF I
  <2> QED BY <2>6, <2>7
<1>4. ASSUME s = "knowledge_base"
      PROVE  /\ JoinPc(p) \in DOMAIN p
             /\ \A j \in DOMAIN p, m \in Kind :
                  i < j /\ j < JoinPc(p) /\ p[j] \in Providing(m)
                    => m = k \/ m \in Needs(d, k)
  <2>1. /\ DOMAIN p = 1 .. 13
        /\ p[1] = I("begin", "none") /\ p[2] = I("ensure", "kb_role")
        /\ p[3] = Call /\ p[4] = I("record", "kb_role")
        /\ p[5] = I("found", "knowledge_base")
        /\ p[6] = I("ensure", Store(d)) /\ p[7] = I("record", Store(d))
        /\ p[8] = Call /\ p[9] = I("create", "knowledge_base")
        /\ p[10] = I("record", "knowledge_base") /\ p[11] = Join
        /\ p[12] = Call /\ p[13] = I("return", "none")
    BY <1>4, KnowledgeProgram
  <2> HIDE DEF p
  <2>2. p[i] = I("found", k) /\ i \in 1 .. 13
    BY <2>1 DEF p
  <2>3. k = "knowledge_base" /\ i = 5
    BY <2>1, <2>2 DEF I, Call, Join
  <2>4. \A j \in DOMAIN p : p[j].op = "join" => j = 11
    BY <2>1 DEF I, Call, Join
  <2>5. JoinPc(p) = 11 /\ 11 \in DOMAIN p
    BY <2>1, <2>4, JoinAt
  <2>6. Needs(d, k) = {Store(d)}
    BY <2>3 DEF Needs
  <2>7. ASSUME NEW j \in DOMAIN p, NEW m \in Kind, i < j, j < 11, p[j] \in Providing(m)
        PROVE  m = k \/ m \in Needs(d, k)
    <3>1. j \in 6 .. 10
      BY <2>1, <2>3, <2>7
    <3>2. p[j].op \in Created /\ p[j].kind = m
      BY <2>7 DEF Providing, I, Created
    <3>3. j = 6 \/ j = 9
      BY <2>1, <3>1, <3>2 DEF I, Call, Created
    <3> QED BY <2>1, <2>3, <2>6, <3>2, <3>3 DEF I
  <2> QED BY <2>5, <2>7
<1> QED BY <1>1, <1>2, <1>3, <1>4 DEF Searching

\* What an instruction of a program is: the first one, one of the body, the
\* return behind it, or one of the abort section.
LEMMA Anatomy ==
  ASSUME NEW d \in Deployment, NEW s \in Step, NEW i \in DOMAIN Program[d][s]
  PROVE  LET p == Program[d][s]
         IN  /\ i \in Nat /\ i >= 1
             /\ \/ i = 1 /\ p[i] = I("begin", "none")
                \/ p[i] \in Inner(s) /\ (s = "gateway" => i < AbortPc)
                \/ /\ p[i] = I("return", "none") /\ (s = "gateway" => i + 1 = AbortPc)
                   /\ s # "gateway" => \A j \in DOMAIN p : j <= i
                \/ s = "gateway" /\ \E j \in 1 .. 5 : i = j + 8 /\ p[i] = GatewayAbort[j]
<1> DEFINE p == Program[d][s]
           b == Body(d, s)
<1>1. /\ DOMAIN p = 1 .. Len(p) /\ Len(b) \in Nat
      /\ Len(p) = Len(b) + 2 + (IF s = "gateway" THEN 5 ELSE 0)
      /\ p[1] = I("begin", "none") /\ p[Len(b) + 2] = I("return", "none")
      /\ \A j \in 1 .. Len(b) : p[j + 1] = b[j] /\ b[j] \in Inner(s)
      /\ s = "gateway" => Len(b) = 6 /\ \A j \in 1 .. 5 : p[j + 8] = GatewayAbort[j]
  BY Layout
<1>2. i \in DOMAIN p
  OBVIOUS
<1>3. AbortPc = 9
  BY DEF AbortPc, GatewayBody
<1> HIDE DEF p, b
<1>n. PICK n : n = Len(b)
  OBVIOUS
<1>l. PICK l : l = Len(p)
  OBVIOUS
<1>g. /\ n \in Nat /\ l \in Nat /\ i \in 1 .. l /\ i \in Nat /\ i >= 1
      /\ s = "gateway" => n = 6 /\ l = 13
      /\ s # "gateway" => l = n + 2
  <2>1. CASE s = "gateway"
    <3>1. n = 6
      BY <1>1, <1>n, <2>1
    <3>2. l = n + 2 + 5
      BY <1>1, <1>n, <1>l, <2>1
    <3> QED BY <1>1, <1>2, <1>l, <2>1, <3>1, <3>2
  <2>2. CASE s # "gateway"
    <3>1. l = n + 2 + 0 /\ n \in Nat
      BY <1>1, <1>n, <1>l, <2>2
    <3> QED BY <1>1, <1>2, <1>l, <2>2, <3>1
  <2> QED BY <2>1, <2>2
<1>4. CASE i <= n + 1 /\ i # 1
  <2>1. i - 1 \in 1 .. n /\ (i - 1) + 1 = i
    BY <1>g, <1>4
  <2>2. p[i] \in Inner(s)
    BY <1>1, <1>n, <2>1
  <2>3. s = "gateway" => i < AbortPc
    BY <1>g, <1>3, <1>4
  <2> QED BY <1>g, <2>2, <2>3 DEF p
<1>5. CASE i > n + 2
  <2>1. s = "gateway"
    BY <1>g, <1>5
  <2>2. i - 8 \in 1 .. 5 /\ (i - 8) + 8 = i
    BY <1>g, <1>5, <2>1
  <2>3. p[(i - 8) + 8] = GatewayAbort[i - 8]
    BY <1>1, <2>1, <2>2
  <2> QED BY <1>g, <2>1, <2>2, <2>3 DEF p
<1>6. CASE i = 1
  BY <1>1, <1>g, <1>6 DEF p
<1>7. CASE i = n + 2
  <2>1. p[i] = I("return", "none")
    BY <1>1, <1>n, <1>7
  <2>2. s = "gateway" => i + 1 = AbortPc
    BY <1>g, <1>3, <1>7
  <2>3. s # "gateway" => \A j \in DOMAIN p : j <= i
    BY <1>1, <1>g, <1>l, <1>7
  <2> QED BY <1>g, <2>1, <2>2, <2>3 DEF p
<1>8. i <= n + 1 \/ i > n + 2 \/ i = n + 2
  BY <1>g
<1> QED BY <1>4, <1>5, <1>6, <1>7, <1>8

\* A provider is in the body of its step.
LEMMA ProvidersInside ==
  ASSUME NEW d \in Deployment, NEW s \in Step, NEW i \in DOMAIN Program[d][s],
         NEW k, Program[d][s][i] \in Providing(k)
  PROVE  /\ s \notin {"status_update", "failure"}
         /\ s = "gateway" => i < AbortPc
         /\ k \in {"gateway", "gateway_role"} => s = "gateway"
         /\ k \in {"knowledge_base", "memory"} => s = k
<1> DEFINE p == Program[d][s]
<1>1. p[i].op \in Created /\ p[i].kind = k
  BY DEF Providing, I, Created
<1>2. \A j \in 1 .. 5 : GatewayAbort[j].op \notin Created
  BY DEF GatewayAbort, I, Created
<1>3. I("begin", "none").op \notin Created /\ I("return", "none").op \notin Created
  BY DEF I, Created
<1>4. p[i] \in Inner(s) /\ (s = "gateway" => i < AbortPc)
  BY <1>1, <1>2, <1>3, Anatomy
<1> QED BY <1>1, <1>4 DEF Inner

\* What a resource needs is provided before it is created.
LEMMA Backed ==
  ASSUME NEW d \in Deployment, NEW s \in Step, NEW i \in DOMAIN Program[d][s],
         NEW k \in Kind, Program[d][s][i] \in Providing(k), NEW m \in Needs(d, k)
  PROVE  /\ s = k /\ s # "gateway"
         /\ \E j \in DOMAIN Program[d][s] : j < i /\ Program[d][s][j] \in Providing(m)
<1> DEFINE p == Program[d][s]
<1>1. k \in {"knowledge_base", "memory"}
  BY DEF Needs
<1>2. p[i].op \in Created /\ p[i].kind = k
  BY DEF Providing, I, Created
<1>3. s = k
  BY <1>1, ProvidersInside
<1>4. ASSUME k = "memory" PROVE \E j \in DOMAIN p : j < i /\ p[j] \in Providing(m)
  <2>1. /\ DOMAIN p = 1 .. 11 /\ p[1] = I("begin", "none") /\ p[2] = I("found", "memory")
        /\ p[3] = I("ensure", "memory_role")
    BY <1>3, <1>4, MemoryProgram
  <2>2. i \in DOMAIN p /\ m = "memory_role" /\ i \notin {1, 2, 3}
    BY <1>2, <1>4, <2>1 DEF I, Needs, Created
  <2>3. 3 \in DOMAIN p /\ 3 < i /\ p[3] \in Providing(m)
    BY <2>1, <2>2 DEF Providing
  <2> QED BY <2>3
<1>5. ASSUME k = "knowledge_base" PROVE \E j \in DOMAIN p : j < i /\ p[j] \in Providing(m)
  <2>1. /\ DOMAIN p = 1 .. 13
        /\ p[1] = I("begin", "none") /\ p[2] = I("ensure", "kb_role")
        /\ p[3] = Call /\ p[4] = I("record", "kb_role")
        /\ p[5] = I("found", "knowledge_base") /\ p[6] = I("ensure", Store(d))
    BY <1>3, <1>5, KnowledgeProgram
  <2>2. i \in DOMAIN p /\ m = Store(d) /\ i \notin {1, 2, 3, 4, 5, 6}
    BY <1>2, <1>5, <2>1 DEF I, Needs, Created, Call, Store
  <2>3. 6 \in DOMAIN p /\ 6 < i /\ p[6] \in Providing(m)
    BY <2>1, <2>2 DEF Providing
  <2> QED BY <2>3
<1> QED BY <1>1, <1>3, <1>4, <1>5

\* A step that searches has a place to go on from what it found.
LEMMA JoinThere ==
  ASSUME NEW d \in Deployment, NEW s \in Step,
         NEW i \in DOMAIN Program[d][s], Program[d][s][i].op = "found"
  PROVE  JoinPc(Program[d][s]) \in Nat \ {0}
<1> DEFINE p == Program[d][s]
           k == p[i].kind
<1>1. p[i] \in Allowed(s)
  BY ProgramShape
<1>2. p[i] = I("found", k)
  BY <1>1 DEF Allowed, I
<1>3. JoinPc(p) \in DOMAIN p
  BY <1>2, Skipped
<1>4. DOMAIN p = 1 .. Len(p)
  BY Layout
<1> QED BY <1>3, <1>4, ProgramShape

-----------------------------------------------------------------------------
(* What the next instruction of an invocation may be.                      *)

LEMMA NowFacts ==
  ASSUME TypeOK, NEW d \in Deployment, NEW w \in Who, NEW op, NEW k, Now(d, w, op, k)
  PROVE  LET i == inv[d][w] IN
         /\ i # Nobody /\ i \in Invocation
         /\ I(op, k) \in Allowed(i.step)
         /\ op = "found" => JoinPc(Program[d][i.step]) \in Nat \ {0}
         /\ Len(Program[d][i.step]) \in Nat \ {0}
<1> DEFINE i == inv[d][w]
<1>1. i # Nobody /\ i \in Invocation
  BY DEF Now, TypeOK
<1>2. i.step \in Step /\ i.pc \in DOMAIN Program[d][i.step]
  BY <1>1 DEF Now, Invocation
<1>3. Program[d][i.step][i.pc] = I(op, k)
  BY DEF Now
<1>4. I(op, k) \in Allowed(i.step) /\ Len(Program[d][i.step]) \in Nat \ {0}
  BY <1>2, <1>3, ProgramShape
<1>5. I(op, k).op = op
  BY DEF I
<1>6. op = "found" => JoinPc(Program[d][i.step]) \in Nat \ {0}
  BY <1>2, <1>3, <1>5, JoinThere
<1> QED BY <1>1, <1>4, <1>6

-----------------------------------------------------------------------------
(* What an instruction does to the invocation that executes it.            *)

InvType == [Deployment -> [Who -> Invocation \cup {Nobody}]]
ExecRow == [state : ExecState, pos : 1 .. TailPos, try : 1 .. MaxAttempts]

Own(d) == {r \in Resource : r.label = Label(d, r.kind)}

\* RowsAreOwn, one variable at a time.
OwnRows ==
  \A d \in Deployment :
    /\ manifest[d] \subseteq Own(d) /\ event[d] \subseteq Own(d)
    /\ \A w \in Who : inv[d][w] # Nobody =>
         inv[d][w].got \subseteq Own(d) /\ inv[d][w].todo \subseteq Own(d)

\* Invocation w of d goes on with the handles got and the rows todo.
Moved(d, w, got, todo) ==
  /\ inv' \in InvType /\ inv'[d][w] \in Invocation
  /\ inv'[d][w].step = inv[d][w].step
  /\ inv'[d][w].got = got /\ inv'[d][w].todo = todo
  /\ \A e \in Deployment, v \in Who : e # d \/ v # w => inv'[e][v] = inv[e][v]

\* It goes on, and refers to nothing that is not its deployment's own.
Stepped(d, w) ==
  /\ inv[d][w] # Nobody
  /\ \E got, todo \in SUBSET Resource :
       Moved(d, w, got, todo) /\ (OwnRows => got \cup todo \subseteq Own(d))
  /\ UNCHANGED <<handler, exec, event>>

LEMMA InvocationUpdates ==
  ASSUME NEW r \in Invocation
  PROVE  /\ \A pc \in Nat \ {0} :
              LET p == [r EXCEPT !.pc = pc]
              IN  p \in Invocation /\ p.step = r.step /\ p.got = r.got /\ p.todo = r.todo
         /\ \A x \in SUBSET Resource :
              LET g == [r EXCEPT !.got = x]
              IN  g \in Invocation /\ g.step = r.step /\ g.got = x /\ g.todo = r.todo
         /\ \A x \in SUBSET Resource :
              LET t == [r EXCEPT !.todo = x]
              IN  t \in Invocation /\ t.step = r.step /\ t.got = r.got /\ t.todo = x
BY DEF Invocation

LEMMA PutMoves ==
  ASSUME TypeOK, NEW d \in Deployment, NEW w \in Who, NEW i \in Invocation,
         i.step = inv[d][w].step,
         inv' = [inv EXCEPT ![d] = [inv[d] EXCEPT ![w] = i]]
  PROVE  Moved(d, w, i.got, i.todo)
BY DEF TypeOK, Moved, InvType

LEMMA Known ==
  ASSUME TypeOK, NEW d \in Deployment, NEW w \in Who, inv[d][w] # Nobody
  PROVE  /\ inv[d][w] \in Invocation
         /\ inv[d][w].got \in SUBSET Resource /\ inv[d][w].todo \in SUBSET Resource
         /\ inv[d][w].pc + 1 \in Nat \ {0} /\ inv[d][w].step \in Step
         /\ OwnRows => inv[d][w].got \cup inv[d][w].todo \subseteq Own(d)
BY DEF TypeOK, Invocation, OwnRows

LEMMA GoToSteps ==
  ASSUME TypeOK, NEW d \in Deployment, NEW w \in Who, inv[d][w] # Nobody,
         NEW pc \in Nat \ {0}, GoTo(d, w, pc), UNCHANGED <<handler, exec, event>>
  PROVE  Stepped(d, w)
<1> DEFINE i == [inv[d][w] EXCEPT !.pc = pc]
<1>1. inv' = [inv EXCEPT ![d] = [inv[d] EXCEPT ![w] = i]]
  BY DEF TypeOK, GoTo
<1>2. /\ i \in Invocation /\ i.step = inv[d][w].step
      /\ i.got = inv[d][w].got /\ i.todo = inv[d][w].todo
  BY Known, InvocationUpdates
<1> HIDE DEF i
<1>3. Moved(d, w, inv[d][w].got, inv[d][w].todo)
  BY <1>1, <1>2, PutMoves
<1> QED BY <1>3, Known DEF Stepped

LEMMA GoOnSteps ==
  ASSUME TypeOK, NEW d \in Deployment, NEW w \in Who, inv[d][w] # Nobody,
         GoOn(d, w), UNCHANGED <<handler, exec, event>>
  PROVE  Stepped(d, w)
BY Known, GoToSteps DEF GoOn

LEMMA GoToWithSteps ==
  ASSUME TypeOK, NEW d \in Deployment, NEW w \in Who, inv[d][w] # Nobody,
         NEW pc \in Nat \ {0}, NEW new \in SUBSET Own(d),
         GoToWith(d, w, pc, new), UNCHANGED <<handler, exec, event>>
  PROVE  Stepped(d, w)
<1> DEFINE j == [inv[d][w] EXCEPT !.pc = pc]
           i == [j EXCEPT !.got = inv[d][w].got \cup new]
<1>1. inv' = [inv EXCEPT ![d] = [inv[d] EXCEPT ![w] = i]]
  BY DEF TypeOK, GoToWith
<1>2. /\ j \in Invocation /\ j.step = inv[d][w].step
      /\ j.got = inv[d][w].got /\ j.todo = inv[d][w].todo
  BY Known, InvocationUpdates
<1>3. inv[d][w].got \cup new \in SUBSET Resource
  BY Known DEF Own
<1> HIDE DEF j
<1>4. /\ i \in Invocation /\ i.step = inv[d][w].step
      /\ i.got = inv[d][w].got \cup new /\ i.todo = inv[d][w].todo
  BY <1>2, <1>3, InvocationUpdates
<1> HIDE DEF i
<1>5. Moved(d, w, i.got, i.todo)
  BY <1>1, <1>4, PutMoves
<1>6. /\ i.got \in SUBSET Resource /\ i.todo \in SUBSET Resource
      /\ OwnRows => i.got \cup i.todo \subseteq Own(d)
  BY <1>3, <1>4, Known
<1> QED BY <1>5, <1>6 DEF Stepped

LEMMA GoOnWithSteps ==
  ASSUME TypeOK, NEW d \in Deployment, NEW w \in Who, inv[d][w] # Nobody,
         NEW new \in SUBSET Own(d), GoOnWith(d, w, new),
         UNCHANGED <<handler, exec, event>>
  PROVE  Stepped(d, w)
BY Known, GoToWithSteps DEF GoOnWith

LEMMA TodoSteps ==
  ASSUME TypeOK, NEW d \in Deployment, NEW w \in Who, inv[d][w] # Nobody,
         NEW rows \in SUBSET Resource, OwnRows => rows \subseteq Own(d),
         \/ inv' = [inv EXCEPT ![d][w].todo = rows]
         \/ inv' = [inv EXCEPT ![d][w].pc = @ + 1, ![d][w].todo = rows],
         UNCHANGED <<handler, exec, event>>
  PROVE  Stepped(d, w)
<1> DEFINE j == [inv[d][w] EXCEPT !.pc = inv[d][w].pc + 1]
           i == [j EXCEPT !.todo = rows]
           h == [inv[d][w] EXCEPT !.todo = rows]
<1>1. \/ inv' = [inv EXCEPT ![d] = [inv[d] EXCEPT ![w] = i]]
      \/ inv' = [inv EXCEPT ![d] = [inv[d] EXCEPT ![w] = h]]
  BY DEF TypeOK
<1>2. /\ j \in Invocation /\ j.step = inv[d][w].step
      /\ j.got = inv[d][w].got /\ j.todo = inv[d][w].todo
  <2>1. inv[d][w] \in Invocation /\ inv[d][w].pc + 1 \in Nat \ {0}
    BY Known
  <2> QED BY <2>1, InvocationUpdates
<1>h. /\ h \in Invocation /\ h.step = inv[d][w].step
      /\ h.got = inv[d][w].got /\ h.todo = rows
  BY Known, InvocationUpdates
<1> HIDE DEF j
<1>3. /\ i \in Invocation /\ i.step = inv[d][w].step
      /\ i.got = inv[d][w].got /\ i.todo = rows
  BY <1>2, InvocationUpdates
<1> HIDE DEF i, h
<1>4. Moved(d, w, inv[d][w].got, rows)
  BY <1>1, <1>h, <1>3, PutMoves
<1> QED BY <1>4, Known DEF Stepped

-----------------------------------------------------------------------------
(* One lemma per instruction: what it does to the invocation, and that the *)
(* data it leaves behind has its type and, in the manifest, its owner.     *)

\* status, manifest and aws have their types after the step, and no manifest
\* lists what is not its deployment's own.
Data ==
  /\ status' \in [Deployment -> Status]
  /\ manifest' \in [Deployment -> SUBSET Resource] /\ aws' \in SUBSET Resource
  /\ OwnRows => \A d \in Deployment : manifest'[d] \subseteq Own(d)

LEMMA SameData ==
  ASSUME TypeOK, UNCHANGED manifest, aws' \in SUBSET Resource,
         status' \in [Deployment -> Status]
  PROVE  Data
BY DEF TypeOK, Data, OwnRows

LEMMA NewIsOwn ==
  ASSUME TypeOK, NEW d \in Deployment, NEW w \in Who, inv[d][w] # Nobody,
         NEW k \in Kind
  PROVE  New(d, w, k) \in Own(d)
<1>1. inv[d][w].try \in 1 .. MaxAttempts
  BY DEF TypeOK, Invocation
<1> QED BY <1>1 DEF New, Resource, Label, Own

LEMMA ExistingIsOwn ==
  ASSUME TypeOK, NEW d \in Deployment, NEW k \in Kind
  PROVE  Existing(k, Label(d, k)) \in SUBSET Own(d)
BY DEF TypeOK, Existing, Own

LEMMA StatusSteps ==
  ASSUME TypeOK, NEW d \in Deployment, NEW w \in Who,
         Begin(d, w) \/ WriteSucceeded(d, w) \/ WriteFailed(d, w) \/ Proceed(d, w) \/ Swept(d, w)
  PROVE  Stepped(d, w) /\ Data
<1>1. inv[d][w] # Nobody /\ GoOn(d, w) /\ UNCHANGED <<handler, exec, event>>
  BY DEF Begin, WriteSucceeded, WriteFailed, Proceed, Swept, Now
<1>2. Stepped(d, w)
  BY <1>1, GoOnSteps
<1>3. /\ UNCHANGED manifest /\ aws' \in SUBSET Resource
      /\ status' \in [Deployment -> Status]
  BY DEF TypeOK, Begin, WriteSucceeded, WriteFailed, Proceed, Swept, Status
<1> QED BY <1>2, <1>3, SameData

LEMMA EnsureSteps ==
  ASSUME TypeOK, NEW d \in Deployment, NEW w \in Who, Ensure(d, w)
  PROVE  Stepped(d, w) /\ Data
<1>1. PICK k \in Kind :
        LET there == Existing(k, Label(d, k))
            made == IF there = {} THEN {New(d, w, k)} ELSE {}
        IN  /\ Now(d, w, "ensure", k) /\ aws' = aws \cup made
            /\ GoOnWith(d, w, there \cup made)
            /\ UNCHANGED <<handler, status, manifest, exec, event>>
  BY DEF Ensure
<1> DEFINE there == Existing(k, Label(d, k))
           made == IF there = {} THEN {New(d, w, k)} ELSE {}
<1>2. inv[d][w] # Nobody
  BY <1>1 DEF Now
<1>3. made \in SUBSET Own(d) /\ there \cup made \in SUBSET Own(d)
  BY <1>2, NewIsOwn, ExistingIsOwn
<1>4. aws' \in SUBSET Resource
  BY <1>1, <1>3 DEF TypeOK, Own
<1> HIDE DEF there, made
<1>5. GoOnWith(d, w, there \cup made) /\ UNCHANGED <<handler, status, manifest, exec, event>>
  BY <1>1 DEF there, made
<1>6. Stepped(d, w)
  BY <1>2, <1>3, <1>5, GoOnWithSteps
<1> QED BY <1>4, <1>5, <1>6, SameData DEF TypeOK

LEMMA CreateSteps ==
  ASSUME TypeOK, NEW d \in Deployment, NEW w \in Who, Create(d, w)
  PROVE  Stepped(d, w) /\ Data
<1>1. PICK k \in Kind :
        /\ inv[d][w] # Nobody
        /\ aws' = aws \cup {New(d, w, k)} /\ GoOnWith(d, w, {New(d, w, k)})
        /\ UNCHANGED <<handler, status, manifest, exec, event>>
  BY DEF Create, Now
<1>2. {New(d, w, k)} \in SUBSET Own(d)
  BY <1>1, NewIsOwn
<1>3. aws' \in SUBSET Resource
  BY <1>1, <1>2 DEF TypeOK, Own
<1>4. Stepped(d, w)
  BY <1>1, <1>2, GoOnWithSteps
<1> QED BY <1>1, <1>3, <1>4, SameData DEF TypeOK

LEMMA LookupSteps ==
  ASSUME TypeOK, NEW d \in Deployment, NEW w \in Who, Lookup(d, w)
  PROVE  Stepped(d, w) /\ Data
<1>1. PICK k \in Kind :
        /\ Now(d, w, "found", k)
        /\ \/ GoOn(d, w)
           \/ GoToWith(d, w, JoinPc(Program[d][inv[d][w].step]), Existing(k, Label(d, k)))
        /\ UNCHANGED <<handler, status, manifest, exec, event, aws>>
  BY DEF Lookup
<1>2. inv[d][w] # Nobody /\ JoinPc(Program[d][inv[d][w].step]) \in Nat \ {0}
  BY <1>1, NowFacts
<1>3. Existing(k, Label(d, k)) \in SUBSET Own(d)
  BY ExistingIsOwn
<1>4. Stepped(d, w)
  BY <1>1, <1>2, <1>3, GoOnSteps, GoToWithSteps
<1> QED BY <1>1, <1>4, SameData DEF TypeOK

LEMMA RecordSteps ==
  ASSUME TypeOK, NEW d \in Deployment, NEW w \in Who, Record(d, w)
  PROVE  Stepped(d, w) /\ Data
<1>1. PICK k \in Kind :
        /\ inv[d][w] # Nobody
        /\ \/ \E rows \in SUBSET Handles(d, w, k) :
                manifest' = [manifest EXCEPT ![d] = @ \cup rows]
           \/ UNCHANGED manifest
        /\ GoOn(d, w)
        /\ UNCHANGED <<handler, status, exec, event, aws>>
  BY DEF Record, Now
<1>2. Stepped(d, w)
  BY <1>1, GoOnSteps
<1>3. /\ Handles(d, w, k) \in SUBSET Resource
      /\ OwnRows => Handles(d, w, k) \subseteq Own(d)
  <2>1. event[d] \in SUBSET Resource /\ (OwnRows => event[d] \subseteq Own(d))
    BY DEF TypeOK, OwnRows
  <2>2. Handles(d, w, k) \subseteq event[d] \cup inv[d][w].got
    BY DEF Handles
  <2> QED BY <1>1, <2>1, <2>2, Known
<1>4. manifest' \in [Deployment -> SUBSET Resource]
  BY <1>1, <1>3 DEF TypeOK
<1>5. OwnRows => \A e \in Deployment : manifest'[e] \subseteq Own(e)
  BY <1>1, <1>3 DEF TypeOK, OwnRows
<1> QED BY <1>1, <1>2, <1>4, <1>5 DEF TypeOK, Data

LEMMA DropSteps ==
  ASSUME TypeOK, NEW d \in Deployment, NEW w \in Who, Drop(d, w)
  PROVE  Stepped(d, w) /\ Data
<1>1. /\ inv[d][w] # Nobody /\ GoOn(d, w) /\ aws' \subseteq aws
      /\ UNCHANGED <<handler, status, manifest, exec, event>>
  BY DEF Drop, Now
<1>2. Stepped(d, w)
  BY <1>1, GoOnSteps
<1> QED BY <1>1, <1>2, SameData DEF TypeOK

LEMMA SnapshotSteps ==
  ASSUME TypeOK, NEW d \in Deployment, NEW w \in Who, Snapshot(d, w)
  PROVE  Stepped(d, w) /\ Data
<1>1. /\ Now(d, w, "snapshot", "none")
      /\ UNCHANGED <<handler, status, manifest, exec, event, aws>>
      /\ \/ inv' = [inv EXCEPT ![d][w].pc = @ + 1, ![d][w].todo = manifest[d]]
         \/ GoTo(d, w, Len(Program[d][inv[d][w].step]))
  BY DEF Snapshot
<1>2. inv[d][w] # Nobody /\ Len(Program[d][inv[d][w].step]) \in Nat \ {0}
  BY <1>1, NowFacts
<1>3. manifest[d] \in SUBSET Resource /\ (OwnRows => manifest[d] \subseteq Own(d))
  BY DEF TypeOK, OwnRows
<1>4. Stepped(d, w)
  BY <1>1, <1>2, <1>3, GoToSteps, TodoSteps
<1> QED BY <1>1, <1>4, SameData DEF TypeOK

LEMMA SweepSteps ==
  ASSUME TypeOK, NEW d \in Deployment, NEW w \in Who, Sweep(d, w)
  PROVE  Stepped(d, w) /\ Data
<1>1. PICK row \in inv[d][w].todo :
        inv' = [inv EXCEPT ![d][w].todo = @ \ {row}]
  BY DEF Sweep
<1>2. /\ inv[d][w] # Nobody /\ aws' \subseteq aws
      /\ UNCHANGED <<handler, status, manifest, exec, event>>
  BY DEF Sweep, Now
<1>3. inv' = [inv EXCEPT ![d][w].todo = inv[d][w].todo \ {row}]
  BY <1>1
<1>4. /\ inv[d][w].todo \ {row} \in SUBSET Resource
      /\ OwnRows => inv[d][w].todo \ {row} \subseteq Own(d)
  BY <1>2, Known
<1>5. Stepped(d, w)
  BY <1>2, <1>3, <1>4, TodoSteps
<1> QED BY <1>2, <1>5, SameData DEF TypeOK

LEMMA LastResortSteps ==
  ASSUME TypeOK, NEW d \in Deployment, NEW w \in Who, LastResort(d, w)
  PROVE  Stepped(d, w) /\ Data
<1>1. /\ inv[d][w] # Nobody
      /\ Len(Program[d][inv[d][w].step]) \in Nat \ {0}
      /\ GoTo(d, w, Len(Program[d][inv[d][w].step]))
      /\ UNCHANGED <<handler, manifest, exec, event, aws>>
  BY NowFacts DEF LastResort
<1>2. Stepped(d, w)
  BY <1>1, GoToSteps
<1>3. status' \in [Deployment -> Status]
  BY DEF LastResort, TypeOK, Status
<1> QED BY <1>1, <1>2, <1>3, SameData DEF TypeOK

-----------------------------------------------------------------------------
(* The end of an invocation, and where the execution goes then.            *)

\* Invocation w of d is over; the execution d is in goes on if it waited for it.
Finished(d, w) ==
  /\ inv[d][w] # Nobody
  /\ inv' \in InvType /\ inv'[d][w] = Nobody
  /\ \A e \in Deployment, v \in Who : e # d \/ v # w => inv'[e][v] = inv[e][v]
  /\ exec' \in [Deployment -> ExecRow]
  /\ \A e \in Deployment : e # d => exec'[e] = exec[e]
  /\ w = "stray" => UNCHANGED exec
  /\ w = "run" => exec'[d] \in {Caught(d), Returned(d)}
  /\ UNCHANGED handler
  /\ event' \in [Deployment -> SUBSET Resource]
  /\ OwnRows => \A e \in Deployment : event'[e] \subseteq Own(e)

LEMMA ExecUpdates ==
  ASSUME NEW r \in ExecRow
  PROVE  /\ \A x \in ExecState : LET q == [r EXCEPT !.state = x]
                                 IN q \in ExecRow /\ q.state = x /\ q.pos = r.pos /\ q.try = r.try
         /\ \A x \in 1 .. TailPos : LET q == [r EXCEPT !.pos = x]
                                    IN q \in ExecRow /\ q.state = r.state /\ q.pos = x
         /\ \A x \in 1 .. MaxAttempts : LET q == [r EXCEPT !.try = x]
                                        IN q \in ExecRow /\ q.state = r.state /\ q.pos = r.pos
BY DEF ExecRow

LEMMA FirstTry == 1 \in 1 .. MaxAttempts
BY PipelineAssumption

LEMMA CaughtRow ==
  ASSUME TypeOK, NEW d \in Deployment
  PROVE  /\ Caught(d) \in ExecRow
         /\ Caught(d).state = IF exec[d].state = "failing" THEN "failed" ELSE "failing"
<1>1. exec[d] \in ExecRow
  BY DEF TypeOK, ExecRow
<1>2. CASE exec[d].state = "failing"
  <2>1. Caught(d) = [exec[d] EXCEPT !.state = "failed"]
    BY <1>2 DEF Caught
  <2>2. "failed" \in ExecState
    BY DEF ExecState
  <2> QED BY <1>1, <1>2, <2>1, <2>2, ExecUpdates
<1>3. CASE exec[d].state # "failing"
  <2> DEFINE q == [exec[d] EXCEPT !.state = "failing"]
  <2>1. Caught(d) = [q EXCEPT !.try = 1]
    BY <1>3 DEF Caught
  <2>2. q \in ExecRow /\ q.state = "failing"
    BY <1>1, ExecUpdates DEF ExecState
  <2> HIDE DEF q
  <2> QED BY <1>3, <2>1, <2>2, ExecUpdates, FirstTry
<1> QED BY <1>2, <1>3

LEMMA ReturnedRow ==
  ASSUME TypeOK, NEW d \in Deployment
  PROVE  /\ Returned(d) \in ExecRow
         /\ exec[d].state = "failing" => Returned(d).state = "failed"
         /\ exec[d].state = "running" => Returned(d).state \in {"running", "succeeded"}
<1>1. exec[d] \in ExecRow
  BY DEF TypeOK, ExecRow
<1>2. CASE exec[d].state = "failing"
  BY <1>1, <1>2, ExecUpdates DEF Returned, ExecState
<1>3. CASE exec[d].state # "failing" /\ exec[d].pos = TailPos
  BY <1>1, <1>3, ExecUpdates DEF Returned, ExecState
<1>4. CASE exec[d].state # "failing" /\ exec[d].pos # TailPos
  <2> DEFINE q == [exec[d] EXCEPT !.pos = exec[d].pos + 1]
  <2>1. Returned(d) = [q EXCEPT !.try = 1]
    BY <1>4 DEF Returned
  <2>2. exec[d].pos + 1 \in 1 .. TailPos
    BY <1>1, <1>4 DEF ExecRow, TailPos
  <2>3. q \in ExecRow /\ q.state = exec[d].state
    BY <1>1, <2>2, ExecUpdates
  <2> HIDE DEF q
  <2> QED BY <1>4, <2>1, <2>3, ExecUpdates, FirstTry
<1> QED BY <1>2, <1>3, <1>4

LEMMA EndFinishes ==
  ASSUME TypeOK, NEW d \in Deployment, NEW w \in Who, inv[d][w] # Nobody,
         NEW next \in {Caught(d), Returned(d)}, End(d, w, next),
         UNCHANGED handler, event' \in [Deployment -> SUBSET Resource],
         OwnRows => \A e \in Deployment : event'[e] \subseteq Own(e)
  PROVE  Finished(d, w)
<1>1. next \in ExecRow
  BY CaughtRow, ReturnedRow
<1>2. /\ inv' \in InvType /\ inv'[d][w] = Nobody
      /\ \A e \in Deployment, v \in Who : e # d \/ v # w => inv'[e][v] = inv[e][v]
  BY DEF End, TypeOK, InvType
<1>3. /\ exec' \in [Deployment -> ExecRow]
      /\ \A e \in Deployment : e # d => exec'[e] = exec[e]
      /\ w = "run" => exec'[d] = next
      /\ w = "stray" => UNCHANGED exec
  BY <1>1 DEF End, TypeOK, ExecRow
<1> QED BY <1>2, <1>3 DEF Finished

LEMMA SameEvent ==
  ASSUME TypeOK, UNCHANGED event
  PROVE  /\ event' \in [Deployment -> SUBSET Resource]
         /\ OwnRows => \A e \in Deployment : event'[e] \subseteq Own(e)
BY DEF TypeOK, OwnRows

LEMMA ReturnFinishes ==
  ASSUME TypeOK, NEW d \in Deployment, NEW w \in Who, Return(d, w)
  PROVE  Finished(d, w) /\ Data
<1>1. /\ inv[d][w] # Nobody /\ End(d, w, Returned(d))
      /\ UNCHANGED <<handler, status, manifest, aws>>
      /\ \/ UNCHANGED event
         \/ event' = [event EXCEPT ![d] = @ \cup inv[d][w].got]
  BY DEF Return, Now
<1>2. /\ event' \in [Deployment -> SUBSET Resource]
      /\ OwnRows => \A e \in Deployment : event'[e] \subseteq Own(e)
  <2>1. CASE UNCHANGED event
    BY <2>1, SameEvent
  <2>2. CASE event' = [event EXCEPT ![d] = @ \cup inv[d][w].got]
    BY <1>1, <2>2, Known DEF TypeOK, OwnRows
  <2> QED BY <1>1, <2>1, <2>2
<1>3. Finished(d, w)
  BY <1>1, <1>2, EndFinishes
<1> QED BY <1>1, <1>3, SameData DEF TypeOK

LEMMA RaiseMoves ==
  ASSUME TypeOK, NEW d \in Deployment, NEW w \in Who, inv[d][w] # Nobody,
         RaiseFrom(d, w)
  PROVE  (Stepped(d, w) \/ Finished(d, w)) /\ Data
<1>1. AbortPc \in Nat \ {0}
  BY DEF AbortPc, GatewayBody
<1>2. /\ UNCHANGED <<handler, status, manifest, event, aws>>
      /\ (GoTo(d, w, AbortPc) /\ UNCHANGED exec) \/ End(d, w, Caught(d))
  BY DEF RaiseFrom
<1>3. CASE GoTo(d, w, AbortPc) /\ UNCHANGED exec
  BY <1>1, <1>2, <1>3, GoToSteps, SameData DEF TypeOK
<1>4. CASE End(d, w, Caught(d))
  <2>1. Finished(d, w)
    BY <1>2, <1>4, SameEvent, EndFinishes
  <2> QED BY <1>2, <2>1, SameData DEF TypeOK
<1> QED BY <1>2, <1>3, <1>4

LEMMA FailureMoves ==
  ASSUME TypeOK, NEW d \in Deployment, NEW w \in Who, Failure(d, w)
  PROVE  (Stepped(d, w) \/ Finished(d, w)) /\ Data
<1>1. CASE StepFails(d, w)
  BY <1>1, RaiseMoves DEF StepFails, Now
<1>2. CASE BeginFails(d, w)
  <2>1. /\ inv[d][w] # Nobody
        /\ \/ GoOn(d, w) /\ UNCHANGED <<handler, status, manifest, exec, event, aws>>
           \/ RaiseFrom(d, w)
    BY <1>2 DEF BeginFails, Now
  <2> QED BY <2>1, RaiseMoves, GoOnSteps, SameData DEF TypeOK
<1>3. CASE LastResort(d, w)
  BY <1>3, LastResortSteps
<1> QED BY <1>1, <1>2, <1>3 DEF Failure

LEMMA InstructionMoves ==
  ASSUME TypeOK, NEW d \in Deployment, NEW w \in Who,
         Instruction(d, w) \/ Failure(d, w)
  PROVE  (Stepped(d, w) \/ Finished(d, w)) /\ Data
BY StatusSteps, EnsureSteps, CreateSteps, LookupSteps, RecordSteps, DropSteps,
   SnapshotSteps, SweepSteps, ReturnFinishes, FailureMoves DEF Instruction

-----------------------------------------------------------------------------
(* Types.                                                                  *)

LEMMA ChainSteps ==
  \A i \in 1 .. TailPos : Chain[i] \in Step /\ Chain[i] # "failure"
BY DEF Step, Chain, TailPos

\* The last state of the chain is never skipped.
LEMMA TailPlanned == \A d \in Deployment : Planned(d, Chain[TailPos])
BY DEF Planned, Optional, RuntimeOnly, Chain, TailPos

LEMMA TypeInit == Init => TypeOK
BY PipelineAssumption DEF Init, TypeOK, Status, ExecState, TailPos

LEMMA TypeHandler ==
  ASSUME TypeOK, NEW d \in Deployment, HandlerStep(d)
  PROVE  TypeOK'
<1> USE PipelineAssumption DEF TypeOK, Handle, Status, ExecState
<1>1. CASE CreateRecord(d) \/ RejectLate(d) \/ WritePending(d) \/ StartFails(d)
  BY <1>1 DEF CreateRecord, RejectLate, WritePending, StartFails
<1>2. CASE StartExecution(d)
  BY <1>2 DEF StartExecution, TailPos
<1> QED BY <1>1, <1>2 DEF HandlerStep

\* Skipping a state leads to the next one.
LEMMA SkipExec ==
  ASSUME TypeOK, NEW d \in Deployment, Skip(d)
  PROVE  /\ exec' \in [Deployment -> ExecRow] /\ exec'[d].state = exec[d].state
         /\ \A e \in Deployment : e # d => exec'[e] = exec[e]
<1> DEFINE q == [exec[d] EXCEPT !.pos = exec[d].pos + 1]
           r == [q EXCEPT !.try = 1]
<1>1. exec[d] \in ExecRow /\ exec \in [Deployment -> ExecRow]
  BY DEF TypeOK, ExecRow
<1>2. exec[d].pos # TailPos
  BY TailPlanned DEF Skip, Current
<1>3. exec[d].pos + 1 \in 1 .. TailPos
  BY <1>1, <1>2 DEF ExecRow, TailPos
<1>4. q \in ExecRow /\ q.state = exec[d].state
  BY <1>1, <1>3, ExecUpdates
<1>5. exec' = [exec EXCEPT ![d] = r]
  BY <1>1 DEF Skip
<1> HIDE DEF q
<1>6. r \in ExecRow /\ r.state = exec[d].state
  BY <1>4, ExecUpdates, FirstTry
<1> HIDE DEF r
<1> QED BY <1>1, <1>5, <1>6

LEMMA TypeMachine ==
  ASSUME TypeOK, NEW d \in Deployment, MachineStep(d)
  PROVE  TypeOK'
<1>1. CASE Skip(d)
  BY <1>1, SkipExec DEF Skip, TypeOK, ExecRow
<1>2. CASE Invoke(d)
  <2>1. Current(d) \in Step
    BY ChainSteps DEF Current, Step, TypeOK
  <2>2. Invoked(Current(d), exec[d].try) \in Invocation
    BY <2>1 DEF Invoked, Invocation, TypeOK
  <2>3. inv' \in InvType
    BY <1>2, <2>2 DEF Invoke, TypeOK, InvType
  <2> QED BY <1>2, <2>3 DEF Invoke, TypeOK, InvType
<1> QED BY <1>1, <1>2 DEF MachineStep

\* What becomes of the invocations when the machine gives up the one it waits
\* for: it is the stray one, or none.
LEMMA GivenUpRuns ==
  ASSUME TypeOK, NEW d \in Deployment
  PROVE  /\ Stray(d) \in [Who -> Invocation \cup {Nobody}]
         /\ Stray(d)["run"] = Nobody /\ Stray(d)["stray"] = inv[d]["run"]
         /\ Alone(d) \in [Who -> Invocation \cup {Nobody}]
         /\ Alone(d)["run"] = Nobody /\ Alone(d)["stray"] = inv[d]["stray"]
BY DEF TypeOK, Stray, Alone, Who

\* The state machine gives up the step of d or the whole execution, or a stray
\* invocation dies.
Lost(d) ==
  /\ inv' \in InvType /\ exec' \in [Deployment -> ExecRow]
  /\ \A e \in Deployment : e # d => exec'[e] = exec[e] /\ inv'[e] = inv[e]
  /\ UNCHANGED <<handler, status, manifest, event, aws>>
  /\ \/ /\ inv[d]["run"] # Nobody /\ inv'[d]["run"] = Nobody
        /\ inv'[d]["stray"] \in {inv[d]["run"], inv[d]["stray"]}
        /\ exec'[d].state \in {exec[d].state, Caught(d).state, "timed_out"}
     \/ inv' = inv /\ inv[d]["run"] = Nobody /\ exec'[d].state = "timed_out"
        /\ exec[d].state \in {"running", "failing"}
     \/ exec' = exec /\ inv'[d]["run"] = inv[d]["run"] /\ inv'[d]["stray"] = Nobody

LEMMA OutageLoses ==
  ASSUME TypeOK, NEW d \in Deployment, Outage(d)
  PROVE  Lost(d)
<1>1. inv \in InvType /\ exec \in [Deployment -> ExecRow] /\ exec[d] \in ExecRow
  BY DEF TypeOK, InvType, ExecRow
<1>2. CASE TimerFires(d) \/ Crash(d)
  <2>1. /\ inv[d]["run"] # Nobody
        /\ inv' \in {[inv EXCEPT ![d] = Stray(d)], [inv EXCEPT ![d] = Alone(d)]}
        /\ UNCHANGED <<handler, status, manifest, event, aws>>
    BY <1>2 DEF TimerFires, Crash, Killable
  <2>2. /\ inv' \in InvType /\ inv'[d]["run"] = Nobody
        /\ inv'[d]["stray"] \in {inv[d]["run"], inv[d]["stray"]}
        /\ \A e \in Deployment : e # d => inv'[e] = inv[e]
    BY <1>1, <2>1, GivenUpRuns DEF InvType
  <2>3. /\ exec' \in [Deployment -> ExecRow]
        /\ exec'[d].state \in {exec[d].state, Caught(d).state}
        /\ \A e \in Deployment : e # d => exec'[e] = exec[e]
    <3>1. CASE exec[d].try < MaxAttempts /\ exec' = [exec EXCEPT ![d].try = @ + 1]
      <4>1. exec[d].try + 1 \in 1 .. MaxAttempts
        BY <1>1, <3>1, PipelineAssumption DEF ExecRow
      <4>2. exec' = [exec EXCEPT ![d] = [exec[d] EXCEPT !.try = exec[d].try + 1]]
        BY <1>1, <3>1
      <4>3. LET q == [exec[d] EXCEPT !.try = exec[d].try + 1]
            IN  q \in ExecRow /\ q.state = exec[d].state
        BY <1>1, <4>1, ExecUpdates
      <4> QED BY <1>1, <4>2, <4>3
    <3>2. CASE exec' = [exec EXCEPT ![d] = Caught(d)]
      BY <1>1, <3>2, CaughtRow
    <3> QED BY <1>2, <3>1, <3>2 DEF TimerFires, Crash
  <2> QED BY <2>1, <2>2, <2>3 DEF Lost
<1>3. CASE MachineTimeout(d)
  <2>1. /\ exec' = [exec EXCEPT ![d] = [exec[d] EXCEPT !.state = "timed_out"]]
        /\ exec[d].state \in {"running", "failing"}
        /\ UNCHANGED <<handler, status, manifest, event, aws>>
    BY <1>1, <1>3 DEF MachineTimeout
  <2>2. LET q == [exec[d] EXCEPT !.state = "timed_out"]
        IN  q \in ExecRow /\ q.state = "timed_out"
    BY <1>1, ExecUpdates DEF ExecState
  <2>3. /\ exec' \in [Deployment -> ExecRow] /\ exec'[d].state = "timed_out"
        /\ \A e \in Deployment : e # d => exec'[e] = exec[e]
    BY <1>1, <2>1, <2>2
  <2>4. CASE inv[d]["run"] = Nobody
    BY <1>1, <1>3, <2>1, <2>3, <2>4 DEF MachineTimeout, Lost
  <2>5. CASE inv[d]["run"] # Nobody
    <3>1. inv' = [inv EXCEPT ![d] = Stray(d)]
      BY <1>3, <2>5 DEF MachineTimeout
    <3>2. /\ inv' \in InvType /\ inv'[d]["run"] = Nobody
          /\ inv'[d]["stray"] = inv[d]["run"]
          /\ \A e \in Deployment : e # d => inv'[e] = inv[e]
      BY <1>1, <3>1, GivenUpRuns DEF InvType
    <3> QED BY <2>1, <2>3, <2>5, <3>2 DEF Lost
  <2> QED BY <2>4, <2>5
<1>4. CASE StrayDies(d)
  BY <1>1, <1>4 DEF StrayDies, InvType, Who, Lost
<1> QED BY <1>2, <1>3, <1>4 DEF Outage

LEMMA TypeMoves ==
  ASSUME TypeOK, NEW d \in Deployment, NEW w \in Who,
         Stepped(d, w) \/ Finished(d, w), Data
  PROVE  TypeOK'
<1>1. inv' \in InvType
  BY DEF Stepped, Moved, Finished
<1> QED BY <1>1 DEF TypeOK, Stepped, Finished, Data, InvType, ExecRow

LEMMA TypeNext == TypeOK /\ [Next]_vars => TypeOK'
<1> SUFFICES ASSUME TypeOK, [Next]_vars PROVE TypeOK'
  OBVIOUS
<1>1. CASE UNCHANGED vars
  BY <1>1 DEF TypeOK, vars
<1>2. ASSUME NEW d \in Deployment, HandlerStep(d) \/ MachineStep(d) PROVE TypeOK'
  BY <1>2, TypeHandler, TypeMachine
<1>3. ASSUME NEW d \in Deployment, Outage(d) PROVE TypeOK'
  BY <1>3, OutageLoses DEF Lost, TypeOK, InvType, ExecRow
<1>4. ASSUME NEW d \in Deployment, NEW w \in Who, Instruction(d, w) \/ Failure(d, w)
      PROVE  TypeOK'
  BY <1>4, InstructionMoves, TypeMoves
<1> QED BY <1>1, <1>2, <1>3, <1>4 DEF Next

\* The variables keep their shape, whatever fails in whatever order: no program
\* runs off its end, no retry exceeds its limit, no state follows the last one.
THEOREM TypeCorrect == Spec => []TypeOK
<1>1. Init => TypeOK
  BY TypeInit
<1>2. TypeOK /\ [Next]_vars => TypeOK'
  BY TypeNext
<1> QED BY <1>1, <1>2, PTL DEF Spec

-----------------------------------------------------------------------------
(* Rows.                                                                   *)

LEMMA OwnNext == TypeOK /\ OwnRows /\ [Next]_vars => OwnRows'
<1> SUFFICES ASSUME TypeOK, OwnRows, [Next]_vars PROVE OwnRows'
  OBVIOUS
<1>1. \A d \in Deployment : Own(d)' = Own(d)
  BY DEF Own, Label, Resource
<1>2. CASE UNCHANGED vars
  BY <1>1, <1>2 DEF OwnRows, vars
<1>3. ASSUME NEW d \in Deployment, HandlerStep(d) PROVE OwnRows'
  <2>1. UNCHANGED <<manifest, event, inv>>
    BY <1>3 DEF HandlerStep, CreateRecord, RejectLate, StartExecution,
                WritePending, StartFails
  <2> QED BY <1>1, <2>1 DEF OwnRows
<1>4. ASSUME NEW d \in Deployment, MachineStep(d) PROVE OwnRows'
  <2>1. CASE Skip(d)
    BY <1>1, <2>1 DEF Skip, OwnRows
  <2>2. CASE Invoke(d)
    <3>1. \A e \in Deployment, w \in Who :
            \/ inv'[e][w] = inv[e][w]
            \/ inv'[e][w].got = {} /\ inv'[e][w].todo = {}
      BY <2>2 DEF Invoke, Invoked, TypeOK, Who
    <3> QED BY <1>1, <2>2, <3>1 DEF Invoke, OwnRows
  <2> QED BY <1>4, <2>1, <2>2 DEF MachineStep
<1>5. ASSUME NEW d \in Deployment, Outage(d) PROVE OwnRows'
  <2>1. Lost(d)
    BY <1>5, OutageLoses
  <2>2. \A e \in Deployment, w \in Who :
          \/ inv'[e][w] = Nobody
          \/ \E v \in Who : inv'[e][w] = inv[e][v]
    BY <2>1 DEF Lost, Who
  <2> QED BY <1>1, <2>1, <2>2 DEF Lost, OwnRows
<1>6. ASSUME NEW d \in Deployment, NEW w \in Who, Instruction(d, w) \/ Failure(d, w)
      PROVE  OwnRows'
  <2>1. (Stepped(d, w) \/ Finished(d, w)) /\ Data
    BY <1>6, InstructionMoves
  <2>2. \A e \in Deployment : manifest'[e] \subseteq Own(e) /\ event'[e] \subseteq Own(e)
    BY <2>1 DEF Data, Stepped, Finished, OwnRows
  <2>3. ASSUME NEW e \in Deployment, NEW v \in Who, inv'[e][v] # Nobody
        PROVE  inv'[e][v].got \subseteq Own(e) /\ inv'[e][v].todo \subseteq Own(e)
    <3>1. CASE e = d /\ v = w
      BY <2>1, <2>3, <3>1 DEF Stepped, Moved, Finished
    <3>2. CASE e # d \/ v # w
      BY <2>1, <2>3, <3>2 DEF Stepped, Moved, Finished, OwnRows
    <3> QED BY <3>1, <3>2
  <2> QED BY <1>1, <2>2, <2>3 DEF OwnRows
<1> QED BY <1>2, <1>3, <1>4, <1>5, <1>6 DEF Next

LEMMA NobodyAtFirst ==
  ASSUME Init, NEW d \in Deployment
  PROVE  /\ \A w \in Who : inv[d][w] = Nobody
         /\ manifest[d] = {} /\ event[d] = {} /\ exec[d].state = "none"
BY DEF Init

LEMMA OwnInit == Init => OwnRows
BY NobodyAtFirst DEF OwnRows

LEMMA OwnIsOwn == OwnRows => RowsAreOwn
<1> SUFFICES ASSUME OwnRows, NEW d \in Deployment, NEW r \in Rows(d)
             PROVE  r.label = Label(d, r.kind)
  BY DEF RowsAreOwn
<1>1. r \in Own(d)
  BY DEF Rows, OwnRows
<1> QED BY <1>1 DEF Own

\* A deployment never takes hold of what carries another one's name: neither by
\* a lookup nor through the event, the manifest or the snapshot of a cleanup.
THEOREM RowsStayOwn == Spec => []RowsAreOwn
<1>1. Init => TypeOK /\ OwnRows
  BY TypeInit, OwnInit
<1>2. TypeOK /\ OwnRows /\ [Next]_vars => (TypeOK /\ OwnRows)'
  BY TypeNext, OwnNext
<1>3. OwnRows => RowsAreOwn
  BY OwnIsOwn
<1> QED BY <1>1, <1>2, <1>3, PTL DEF Spec

-----------------------------------------------------------------------------
(* Who runs when.                                                          *)

\* The parts of PipelineInv that relate the execution to the invocations.
ControlOf(d) ==
  /\ inv[d]["run"] # Nobody =>
       exec[d].state \in {"running", "failing"} /\ inv[d]["run"].step = Current(d)
  /\ \A w \in Who : inv[d][w] # Nobody /\ inv[d][w].step = "failure" =>
       exec[d].state \in GivenUp
  /\ exec[d].state = "none" => \A w \in Who : inv[d][w] = Nobody
  /\ handler[d] \in {"idle", "created"} => exec[d].state = "none"

Control == \A d \in Deployment : ControlOf(d)

\* The step of an execution is the failure handler exactly when it is failing.
LEMMA CurrentFailure ==
  ASSUME TypeOK, NEW d \in Deployment
  PROVE  Current(d) = "failure" <=> exec[d].state = "failing"
BY ChainSteps DEF Current, TypeOK

LEMMA ControlSame ==
  ASSUME NEW d \in Deployment, ControlOf(d), exec'[d] = exec[d],
         handler'[d] = handler[d], \A w \in Who : inv'[d][w] = inv[d][w]
  PROVE  ControlOf(d)'
BY DEF ControlOf, Current, Who

LEMMA ControlHandler ==
  ASSUME TypeOK, Control, NEW d \in Deployment, HandlerStep(d)
  PROVE  Control'
<1> SUFFICES ASSUME NEW e \in Deployment PROVE ControlOf(e)'
  BY DEF Control
<1>1. ControlOf(e) /\ UNCHANGED inv
  BY DEF Control, HandlerStep, CreateRecord, RejectLate, StartExecution,
         WritePending, StartFails
<1>2. CASE e # d
  <2>1. exec'[e] = exec[e] /\ handler'[e] = handler[e]
    BY <1>2 DEF TypeOK, HandlerStep, Handle, CreateRecord, RejectLate,
                StartExecution, WritePending, StartFails
  <2> QED BY <1>1, <2>1, ControlSame
<1>3. CASE e = d /\ StartExecution(d)
  <2>1. /\ \A w \in Who : inv'[d][w] = Nobody
        /\ exec'[d].state = "running" /\ handler'[d] \notin {"idle", "created"}
    BY <1>1, <1>3 DEF StartExecution, Handle, ControlOf, TypeOK
  <2> QED BY <1>3, <2>1 DEF ControlOf, Who
<1>4. CASE e = d /\ ~StartExecution(d)
  <2>1. /\ UNCHANGED exec
        /\ handler'[d] \in {"idle", "created"} => handler[d] \in {"idle", "created"}
    BY <1>4 DEF TypeOK, HandlerStep, Handle, CreateRecord, RejectLate,
                WritePending, StartFails
  <2> QED BY <1>1, <1>4, <2>1 DEF ControlOf, Current
<1> QED BY <1>2, <1>3, <1>4

LEMMA ControlMachine ==
  ASSUME TypeOK, Control, NEW d \in Deployment, MachineStep(d)
  PROVE  Control'
<1> SUFFICES ASSUME NEW e \in Deployment PROVE ControlOf(e)'
  BY DEF Control
<1>1. ControlOf(e) /\ UNCHANGED handler
  BY DEF Control, MachineStep, Skip, Invoke
<1>2. CASE Skip(d)
  <2>1. UNCHANGED inv /\ inv[d]["run"] = Nobody /\ exec[d].state = "running"
    BY <1>2 DEF Skip, Waiting
  <2>2. CASE e # d
    BY <1>1, <1>2, <2>1, <2>2, SkipExec, ControlSame
  <2>3. CASE e = d
    BY <1>1, <1>2, <2>1, <2>3, SkipExec DEF ControlOf, GivenUp
  <2> QED BY <2>2, <2>3
<1>3. CASE Invoke(d)
  <2>1. /\ UNCHANGED exec /\ exec[d].state \in {"running", "failing"}
        /\ inv' = [inv EXCEPT ![d]["run"] = Invoked(Current(d), exec[d].try)]
    BY <1>3 DEF Invoke, Waiting
  <2>2. /\ inv'[d]["run"] = Invoked(Current(d), exec[d].try)
        /\ inv'[d]["stray"] = inv[d]["stray"]
        /\ \A f \in Deployment : f # d => inv'[f] = inv[f]
    BY <2>1 DEF TypeOK, Who
  <2>3. CASE e # d
    BY <1>1, <2>1, <2>2, <2>3, ControlSame
  <2>4. CASE e = d
    <3>1. inv'[d]["run"].step = Current(d)
      BY <2>2 DEF Invoked
    <3>2. Current(d)' = Current(d)
      BY <2>1 DEF Current
    <3>3. inv'[d]["run"].step = "failure" => exec[d].state \in GivenUp
      BY <3>1, CurrentFailure DEF GivenUp
    <3> QED BY <1>1, <2>1, <2>2, <2>4, <3>1, <3>2, <3>3 DEF ControlOf, Who
  <2> QED BY <2>3, <2>4
<1> QED BY <1>2, <1>3 DEF MachineStep

LEMMA ControlOutage ==
  ASSUME TypeOK, Control, NEW d \in Deployment, Outage(d)
  PROVE  Control'
<1> SUFFICES ASSUME NEW e \in Deployment PROVE ControlOf(e)'
  BY DEF Control
<1>1. Lost(d) /\ ControlOf(e)
  BY OutageLoses DEF Control
<1>2. CASE e # d
  BY <1>1, <1>2, ControlSame DEF Lost
<1>3. CASE e = d /\ inv[d]["run"] # Nobody /\ inv'[d]["run"] = Nobody
  <2>1. /\ exec[d].state \in {"running", "failing"} /\ inv[d]["run"].step = Current(d)
        /\ inv'[d]["stray"] \in {inv[d]["run"], inv[d]["stray"]}
        /\ exec'[d].state \in {exec[d].state, Caught(d).state, "timed_out"}
    BY <1>1, <1>3 DEF Lost, ControlOf
  <2>2. exec'[d].state # "none"
    BY <2>1, CaughtRow
  <2>3. exec[d].state \in GivenUp => exec'[d].state \in GivenUp
    BY <2>1, CaughtRow DEF GivenUp
  <2>4. inv'[d]["stray"] # Nobody /\ inv'[d]["stray"].step = "failure" =>
          exec[d].state \in GivenUp
    BY <1>1, <1>3, <2>1, CurrentFailure DEF ControlOf, GivenUp, Who
  <2>5. handler'[d] \notin {"idle", "created"}
    BY <1>1, <1>3, <2>1 DEF Lost, ControlOf
  <2> QED BY <1>3, <2>2, <2>3, <2>4, <2>5 DEF ControlOf, Who
<1>4. CASE e = d /\ inv' = inv /\ inv[d]["run"] = Nobody /\ exec'[d].state = "timed_out"
             /\ exec[d].state \in {"running", "failing"}
  BY <1>1, <1>4 DEF Lost, ControlOf, GivenUp
<1>5. CASE e = d /\ exec' = exec /\ inv'[d]["run"] = inv[d]["run"]
             /\ inv'[d]["stray"] = Nobody
  BY <1>1, <1>5 DEF Lost, ControlOf, Current, Who
<1> QED BY <1>1, <1>2, <1>3, <1>4, <1>5 DEF Lost

LEMMA ControlMoves ==
  ASSUME TypeOK, Control, NEW d \in Deployment, NEW w \in Who,
         Stepped(d, w) \/ Finished(d, w)
  PROVE  Control'
<1> SUFFICES ASSUME NEW e \in Deployment PROVE ControlOf(e)'
  BY DEF Control
<1>1. ControlOf(e) /\ ControlOf(d)
  BY DEF Control
<1>2. CASE e # d
  <2>1. /\ exec'[e] = exec[e] /\ handler'[e] = handler[e]
        /\ \A v \in Who : inv'[e][v] = inv[e][v]
    BY <1>2 DEF Stepped, Moved, Finished
  <2> QED BY <1>1, <2>1, ControlSame
<1>3. CASE e = d /\ Stepped(d, w)
  <2>1. /\ inv[d][w] # Nobody /\ inv'[d][w].step = inv[d][w].step
        /\ \A v \in Who : v # w => inv'[d][v] = inv[d][v]
        /\ UNCHANGED <<handler, exec>>
    BY <1>3 DEF Stepped, Moved
  <2> QED BY <1>1, <1>3, <2>1 DEF ControlOf, Current, Who
<1>4. CASE e = d /\ Finished(d, w)
  <2>1. /\ inv[d][w] # Nobody /\ inv'[d][w] = Nobody
        /\ \A v \in Who : v # w => inv'[d][v] = inv[d][v]
        /\ UNCHANGED handler
    BY <1>4 DEF Finished
  <2>2. CASE w = "stray"
    BY <1>1, <1>4, <2>1, <2>2 DEF Finished, ControlOf, Current, Who
  <2>3. CASE w = "run"
    <3>1. exec[d].state \in {"running", "failing"}
      BY <1>1, <2>1, <2>3 DEF ControlOf
    <3>2. exec'[d].state # "none" /\ (exec[d].state \in GivenUp => exec'[d].state \in GivenUp)
      BY <1>4, <2>3, <3>1, CaughtRow, ReturnedRow DEF Finished, GivenUp
    <3> QED BY <1>1, <1>4, <2>1, <2>3, <3>1, <3>2 DEF ControlOf, Who
  <2> QED BY <2>2, <2>3 DEF Who
<1> QED BY <1>2, <1>3, <1>4

LEMMA ControlInit == Init => Control
BY NobodyAtFirst DEF Control, ControlOf, Who

LEMMA ControlNext == TypeOK /\ Control /\ [Next]_vars => Control'
<1> SUFFICES ASSUME TypeOK, Control, [Next]_vars PROVE Control'
  OBVIOUS
<1>1. CASE UNCHANGED vars
  BY <1>1, ControlSame DEF Control, vars
<1>2. CASE Next
  BY <1>2, ControlHandler, ControlMachine, ControlOutage, InstructionMoves,
     ControlMoves DEF Next
<1> QED BY <1>1, <1>2

\* The inductive invariant: the machine waits for the invocation of the step it
\* is in and nothing else, and a failure handler runs, waited for or not, only
\* once its deployment is given up.
THEOREM PipelineInvariant == Spec => []PipelineInv
<1> DEFINE IInv == TypeOK /\ OwnRows /\ Control
<1>1. Init => IInv
  BY TypeInit, OwnInit, ControlInit
<1>2. IInv /\ [Next]_vars => IInv'
  BY TypeNext, OwnNext, ControlNext
<1>3. IInv => PipelineInv
  BY OwnIsOwn DEF PipelineInv, Control, ControlOf
<1> QED BY <1>1, <1>2, <1>3, PTL DEF Spec

-----------------------------------------------------------------------------
(* What is never deleted.                                                  *)

\* Only the abort of a gateway step and the failure cleanup delete anything.
LEMMA OnlyTwoDelete ==
  ASSUME TypeOK, [Next]_vars, NEW r \in aws \ aws'
  PROVE  \E d \in Deployment, w \in Who : Drop(d, w) \/ Sweep(d, w)
<1>1. CASE UNCHANGED vars
  BY <1>1 DEF vars
<1>2. ASSUME NEW d \in Deployment, HandlerStep(d) \/ MachineStep(d) \/ Outage(d)
      PROVE  FALSE
  BY <1>2 DEF HandlerStep, MachineStep, Outage, CreateRecord, RejectLate,
     StartExecution, WritePending, StartFails, Skip, Invoke, TimerFires, Crash,
     MachineTimeout, StrayDies
<1>3. ASSUME NEW d \in Deployment, NEW w \in Who, Failure(d, w)
      PROVE  FALSE
  BY <1>3 DEF Failure, StepFails, BeginFails, LastResort, RaiseFrom
<1>4. ASSUME NEW d \in Deployment, NEW w \in Who,
             Begin(d, w) \/ Proceed(d, w) \/ Ensure(d, w) \/ Create(d, w)
               \/ Lookup(d, w) \/ Record(d, w) \/ Return(d, w)
               \/ WriteSucceeded(d, w) \/ WriteFailed(d, w) \/ Snapshot(d, w)
               \/ Swept(d, w)
      PROVE  FALSE
  BY <1>4 DEF Begin, Proceed, Ensure, Create, Lookup, Record, Return,
     WriteSucceeded, WriteFailed, Snapshot, Swept
<1> QED BY <1>1, <1>2, <1>3, <1>4 DEF Next, Instruction

\* The abort deletes gateways and their roles.
LEMMA DropDeletes ==
  ASSUME TypeOK, NEW d \in Deployment, NEW w \in Who, Drop(d, w), NEW r \in aws \ aws'
  PROVE  r.kind \in {"gateway", "gateway_role"}
<1>1. PICK k \in Kind : Now(d, w, "drop", k) /\ r \in HitOf(Handles(d, w, k))
  BY DEF Drop
<1>2. k \in {"gateway", "gateway_role"}
  <2>1. I("drop", k) \in Allowed(inv[d][w].step)
    BY <1>1, NowFacts
  <2> QED BY <2>1 DEF Allowed, I
<1>3. r.kind = k
  BY <1>1 DEF HitOf, Hit, Handles
<1> QED BY <1>2, <1>3

\* The cleanup deletes what carries the name of its own deployment, or one that
\* several deployments share.
LEMMA SweepDeletes ==
  ASSUME TypeOK, OwnRows, Control, NEW d \in Deployment, NEW w \in Who,
         Sweep(d, w), NEW r \in aws \ aws', Private(r)
  PROVE  r.maker = d /\ exec[d].state \in GivenUp
<1>1. PICK row \in inv[d][w].todo : r \in Hit(row)
  BY DEF Sweep, Cleanup
<1>2. inv[d][w] # Nobody /\ inv[d][w].step = "failure"
  <2>1. I("sweep", "none") \in Allowed(inv[d][w].step) /\ inv[d][w] # Nobody
    BY NowFacts DEF Sweep
  <2> QED BY <2>1 DEF Allowed, I
<1>3. exec[d].state \in GivenUp
  BY <1>2 DEF Control, ControlOf
<1>4. row.label = Label(d, row.kind)
  BY <1>1, <1>2 DEF OwnRows, Own
<1>5. r.label = Label(d, r.kind)
  BY <1>1, <1>4 DEF Hit
<1>6. r.maker \in Deployment
  BY DEF TypeOK, Resource
<1> QED BY <1>3, <1>5, <1>6, PlanAssumption DEF Private, Label

\* Until a deployment is given up, nothing deletes what it made under a name of
\* its own, its gateway apart: no cleanup of another deployment, no invocation
\* that outlived its timer, whatever fails.
THEOREM PrivateStays == Spec => PrivateSurvives
<1> DEFINE IInv == TypeOK /\ OwnRows /\ Control
           Stays == \A r \in aws \ aws' :
                      Private(r) /\ r.kind \notin {"gateway", "gateway_role"} =>
                        exec[r.maker].state \in GivenUp
<1>1. Init => IInv
  BY TypeInit, OwnInit, ControlInit
<1>2. IInv /\ [Next]_vars => IInv'
  BY TypeNext, OwnNext, ControlNext
<1>3. IInv /\ [Next]_vars => Stays
  BY OnlyTwoDelete, DropDeletes, SweepDeletes
<1>4. IInv /\ [Next]_vars => [Stays]_vars
  BY <1>3
<1> QED BY <1>1, <1>2, <1>4, PTL DEF Spec, PrivateSurvives

-----------------------------------------------------------------------------
(* What a deployment has built.                                            *)

\* What the last two handlers execute.
LEMMA TailPrograms ==
  ASSUME NEW d \in Deployment
  PROVE  /\ LET p == Program[d]["status_update"]
            IN  /\ DOMAIN p = 1 .. 3 /\ Len(p) = 3
                /\ p[1] = I("begin", "none") /\ p[2] = I("succeed", "none")
                /\ p[3] = I("return", "none")
         /\ LET p == Program[d]["failure"]
            IN  /\ DOMAIN p = 1 .. 5 /\ Len(p) = 5
                /\ p[1] = I("begin", "none") /\ p[2] = I("fail", "none")
                /\ p[3] = I("snapshot", "none") /\ p[4] = I("sweep", "none")
                /\ p[5] = I("return", "none")
<1>1. "status_update" \in Step /\ "failure" \in Step
  BY DEF Step, Chain, TailPos
<1>2. ASSUME NEW p, p = Program[d]["status_update"]
      PROVE  /\ DOMAIN p = 1 .. 3 /\ Len(p) = 3
             /\ p[1] = I("begin", "none") /\ p[2] = I("succeed", "none")
             /\ p[3] = I("return", "none")
  <2>1. PICK b : b = Body(d, "status_update")
    OBVIOUS
  <2>2. Len(b) = 1 /\ b[1] = I("succeed", "none")
    BY <2>1 DEF Body
  <2>3. "status_update" # "gateway"
    OBVIOUS
  <2>4. /\ DOMAIN p = 1 .. Len(b) + 2 /\ Len(p) = Len(b) + 2 /\ p[1] = I("begin", "none")
        /\ p[Len(b) + 2] = I("return", "none") /\ \A i \in 1 .. Len(b) : p[i + 1] = b[i]
    BY <1>1, <1>2, <2>1, <2>3, PlainLayout
  <2>6. Len(p) = 3
    BY <2>2, <2>4
  <2> QED BY <2>2, <2>4, <2>6
<1>3. ASSUME NEW p, p = Program[d]["failure"]
      PROVE  /\ DOMAIN p = 1 .. 5 /\ Len(p) = 5
             /\ p[1] = I("begin", "none") /\ p[2] = I("fail", "none")
             /\ p[3] = I("snapshot", "none") /\ p[4] = I("sweep", "none")
             /\ p[5] = I("return", "none")
  <2>1. PICK b : b = Body(d, "failure")
    OBVIOUS
  <2>2. /\ Len(b) = 3 /\ b[1] = I("fail", "none") /\ b[2] = I("snapshot", "none")
        /\ b[3] = I("sweep", "none")
    BY <2>1 DEF Body, FailureBody
  <2>3. "failure" # "gateway"
    OBVIOUS
  <2>4. /\ DOMAIN p = 1 .. Len(b) + 2 /\ Len(p) = Len(b) + 2 /\ p[1] = I("begin", "none")
        /\ p[Len(b) + 2] = I("return", "none") /\ \A i \in 1 .. Len(b) : p[i + 1] = b[i]
    BY <1>1, <1>3, <2>1, <2>3, PlainLayout
  <2>6. DOMAIN p = 1 .. 5 /\ \A i \in 1 .. 3 : p[i + 1] = b[i]
    BY <2>2, <2>4
  <2>7. Len(p) = 5
    BY <2>2, <2>4
  <2>8. p[2] = b[1] /\ p[3] = b[2] /\ p[4] = b[3]
    BY <2>6
  <2> QED BY <2>2, <2>4, <2>6, <2>7, <2>8
<1> QED BY <1>2, <1>3

\* The kinds of d's own that the program of s provides before pc are held, or
\* all it provides.
UpTo(d, s, pc, held) ==
  \A k \in Kind \ SharedKind, i \in DOMAIN Program[d][s] :
    i < pc /\ Program[d][s][i] \in Providing(k) => k \in held

Provided(d, s) ==
  \A k \in Kind \ SharedKind, i \in DOMAIN Program[d][s] :
    Program[d][s][i] \in Providing(k) => k \in HeldBy(d)

\* Every step up to the execution's position has provided what it is there for.
ChainBuilt(d) ==
  \A j \in 1 .. exec[d].pos - 1 : Planned(d, Chain[j]) => Provided(d, Chain[j])

\* A knowledge base has its store and a memory its role.
NeedsMet(d) ==
  \A k \in {"knowledge_base", "memory"} \cap HeldBy(d) :
    Needs(d, k) \ SharedKind \subseteq HeldBy(d)

\* So has the step under way, as far as it is, unless it is undoing that.
StepBuilt(d) ==
  /\ inv[d]["run"] # Nobody
  /\ inv[d]["run"].step = "gateway" => inv[d]["run"].pc < AbortPc
  => UpTo(d, inv[d]["run"].step, inv[d]["run"].pc, HeldBy(d))

\* Whoever is at work on a deployment that is said to have succeeded leaves it
\* as it is: the failure handler has yet to correct the record, or has swept
\* nothing.
AtRest(d) ==
  /\ Goals[d] \subseteq HeldBy(d)
  /\ exec[d].state # "none"
  /\ exec[d].state = "running" => exec[d].pos = TailPos
  /\ \A w \in Who : inv[d][w] # Nobody =>
       \/ inv[d][w].step = "status_update"
       \/ inv[d][w].step = "failure" /\ inv[d][w].pc \in {1, 5}

\* The inductive invariant behind SucceededIsWhole.
Building(d) ==
  /\ inv[d]["stray"] # Nobody => exec[d].state = "timed_out"
  /\ exec[d].state = "none" => HeldBy(d) = {}
  /\ exec[d].state = "running" => ChainBuilt(d) /\ NeedsMet(d) /\ StepBuilt(d)
  /\ \A w \in Who : inv[d][w] # Nobody /\ inv[d][w].step = "status_update" =>
       Goals[d] \subseteq HeldBy(d)
  /\ status[d] = "succeeded" => AtRest(d)

\* Who changes nothing of d that Building reads keeps it.
LEMMA BuildingSame ==
  ASSUME NEW d \in Deployment, Building(d), exec'[d] = exec[d],
         status'[d] = "succeeded" => status[d] = "succeeded",
         \A w \in Who : inv'[d][w] = inv[d][w], HeldBy(d)' = HeldBy(d)
  PROVE  Building(d)'
<1>1. /\ inv'[d]["run"] = inv[d]["run"] /\ inv'[d]["stray"] = inv[d]["stray"]
  BY DEF Who
<1>3. \A s : Provided(d, s) => Provided(d, s)'
  BY DEF Provided
<1>4. ChainBuilt(d) => ChainBuilt(d)'
  BY <1>3 DEF ChainBuilt
<1>5. NeedsMet(d) => NeedsMet(d)'
  BY DEF NeedsMet
<1>6. StepBuilt(d) => StepBuilt(d)'
  BY <1>1 DEF StepBuilt
<1>7. AtRest(d) => AtRest(d)'
  BY DEF AtRest
<1> QED BY <1>1, <1>4, <1>5, <1>6, <1>7 DEF Building

-----------------------------------------------------------------------------
(* What a step does to the kinds that are held.                            *)

\* A shared name is common to all, any other is the name of its deployment.
LEMMA LabelIs ==
  ASSUME NEW d \in Deployment, NEW k
  PROVE  /\ k \in SharedKind => Label(d, k) = Common
         /\ k \notin SharedKind => Label(d, k) = d
         /\ \A e \in Deployment : Label(d, k) = e => e = d /\ k \notin SharedKind
BY PlanAssumption DEF Label

\* The kinds held follow the rows,
LEMMA HeldSame ==
  ASSUME UNCHANGED aws, NEW d \in Deployment
  PROVE  HeldBy(d)' = HeldBy(d)
BY DEF HeldBy

\* gain the kind of a new row of its own,
LEMMA HeldNew ==
  ASSUME NEW d \in Deployment, NEW w \in Who, NEW k \in Kind,
         aws' = aws \cup {New(d, w, k)}
  PROVE  /\ \A e \in Deployment : e # d => HeldBy(e)' = HeldBy(e)
         /\ HeldBy(d)' = HeldBy(d) \cup (IF k \in SharedKind THEN {} ELSE {k})
<1> DEFINE n == New(d, w, k)
<1>1. n.label = Label(d, k) /\ n.kind = k
  BY DEF New
<1> HIDE DEF n
<1>2. ASSUME NEW e \in Deployment, NEW x
      PROVE  x \in HeldBy(e)' <=> x \in HeldBy(e) \/ (n.label = e /\ x = k)
  BY <1>1 DEF HeldBy, n
<1>3. \A e \in Deployment : n.label = e <=> e = d /\ k \notin SharedKind
  BY <1>1, LabelIs
<1> QED BY <1>2, <1>3

\* hold the kind of a row that is there,
LEMMA HeldThere ==
  ASSUME NEW d \in Deployment, NEW k \in Kind \ SharedKind,
         Existing(k, Label(d, k)) # {}
  PROVE  k \in HeldBy(d)
BY LabelIs DEF Existing, HeldBy

\* What is deleted of another deployment's leaves e alone.
LEMMA HeldElsewhere ==
  ASSUME NEW e \in Deployment, aws' \subseteq aws,
         \A r \in aws \ aws' : r.label # e
  PROVE  HeldBy(e)' = HeldBy(e)
BY DEF HeldBy

\* and lose at most the kinds of the rows deleted.
LEMMA HeldLess ==
  ASSUME NEW d \in Deployment, aws' \subseteq aws, NEW K,
         \A r \in aws \ aws' : r.kind \in K
  PROVE  HeldBy(d)' \subseteq HeldBy(d) /\ HeldBy(d) \ K \subseteq HeldBy(d)'
BY DEF HeldBy

\* A drop takes one kind at most, of its own deployment.
LEMMA DropHeld ==
  ASSUME TypeOK, OwnRows, NEW d \in Deployment, NEW w \in Who, Drop(d, w)
  PROVE  /\ \A e \in Deployment : e # d => HeldBy(e)' = HeldBy(e)
         /\ HeldBy(d)' \subseteq HeldBy(d)
         /\ HeldBy(d) \ {"gateway", "gateway_role"} \subseteq HeldBy(d)'
<1>1. aws' \subseteq aws
  BY DEF Drop
<1>2. \A r \in aws \ aws' : r.kind \in {"gateway", "gateway_role"}
  BY DropDeletes
<1>3. ASSUME NEW e \in Deployment, e # d, NEW r \in aws \ aws' PROVE r.label # e
  <2>1. PICK k \in Kind : Now(d, w, "drop", k) /\ r \in HitOf(Handles(d, w, k))
    BY <1>3 DEF Drop
  <2>2. inv[d][w] # Nobody
    BY <2>1 DEF Now
  <2>3. PICK row \in event[d] \cup inv[d][w].got : r \in Hit(row)
    BY <2>1 DEF HitOf, Handles
  <2>4. row.label = Label(d, row.kind)
    BY <2>2, <2>3 DEF OwnRows, Own
  <2>5. r.label = row.label
    BY <2>3 DEF Hit
  <2> QED BY <1>3, <2>4, <2>5, LabelIs
<1> QED BY <1>1, <1>2, <1>3, HeldElsewhere, HeldLess

\* A sweep takes nothing of another deployment.
LEMMA SweepHeld ==
  ASSUME TypeOK, OwnRows, NEW d \in Deployment, NEW w \in Who, Sweep(d, w)
  PROVE  /\ \A e \in Deployment : e # d => HeldBy(e)' = HeldBy(e)
         /\ HeldBy(d)' \subseteq HeldBy(d)
<1>1. aws' \subseteq aws
  BY DEF Sweep
<1>2. ASSUME NEW e \in Deployment, e # d, NEW r \in aws \ aws' PROVE r.label # e
  <2>1. PICK row \in inv[d][w].todo : r \in Hit(row)
    BY <1>2 DEF Sweep, Cleanup
  <2>2. inv[d][w] # Nobody
    BY DEF Sweep, Now
  <2>3. row.label = Label(d, row.kind)
    BY <2>1, <2>2 DEF OwnRows, Own
  <2>4. r.label = row.label
    BY <2>1 DEF Hit
  <2> QED BY <1>2, <2>3, <2>4, LabelIs
<1>3. HeldBy(d)' \subseteq HeldBy(d)
  BY <1>1 DEF HeldBy
<1> QED BY <1>1, <1>2, <1>3, HeldElsewhere

-----------------------------------------------------------------------------
(* Where an instruction leaves its invocation.                             *)

\* Invocation w of d is at pc, and no other invocation has changed.
At(d, w, pc) ==
  /\ inv'[d][w] # Nobody /\ inv'[d][w].step = inv[d][w].step /\ inv'[d][w].pc = pc
  /\ \A e \in Deployment, v \in Who : e # d \/ v # w => inv'[e][v] = inv[e][v]

Gone(d, w) ==
  /\ inv'[d][w] = Nobody
  /\ \A e \in Deployment, v \in Who : e # d \/ v # w => inv'[e][v] = inv[e][v]

\* Where the ways of going on leave an invocation.
LEMMA PutAt ==
  ASSUME TypeOK, NEW d \in Deployment, NEW w \in Who, NEW i \in Invocation,
         i.step = inv[d][w].step,
         inv' = [inv EXCEPT ![d] = [inv[d] EXCEPT ![w] = i]]
  PROVE  At(d, w, i.pc)
<1>1. inv'[d][w] = i
  BY DEF TypeOK
<1>2. \A e \in Deployment, v \in Who : e # d \/ v # w => inv'[e][v] = inv[e][v]
  BY DEF TypeOK
<1> QED BY <1>1, <1>2, NobodyAssumption DEF At

\* The fields of an invocation that moved.
LEMMA PcUpdates ==
  ASSUME NEW r \in Invocation
  PROVE  /\ \A pc \in Nat \ {0} :
              LET p == [r EXCEPT !.pc = pc] IN p \in Invocation /\ p.step = r.step /\ p.pc = pc
         /\ \A x \in SUBSET Resource :
              LET p == [r EXCEPT !.got = x] IN p \in Invocation /\ p.step = r.step /\ p.pc = r.pc
         /\ \A x \in SUBSET Resource :
              LET p == [r EXCEPT !.todo = x] IN p \in Invocation /\ p.step = r.step /\ p.pc = r.pc
BY DEF Invocation

\* A jump,
LEMMA GoToAt ==
  ASSUME TypeOK, NEW d \in Deployment, NEW w \in Who, inv[d][w] # Nobody,
         NEW pc \in Nat \ {0}, GoTo(d, w, pc)
  PROVE  At(d, w, pc)
<1> DEFINE i == [inv[d][w] EXCEPT !.pc = pc]
<1>1. inv' = [inv EXCEPT ![d] = [inv[d] EXCEPT ![w] = i]]
  BY DEF TypeOK, GoTo
<1>2. i \in Invocation /\ i.step = inv[d][w].step /\ i.pc = pc
  BY Known, PcUpdates
<1> HIDE DEF i
<1> QED BY <1>1, <1>2, PutAt

\* a jump with something noted,
LEMMA GoToWithAt ==
  ASSUME TypeOK, NEW d \in Deployment, NEW w \in Who, inv[d][w] # Nobody,
         NEW pc \in Nat \ {0}, NEW new \in SUBSET Resource, GoToWith(d, w, pc, new)
  PROVE  At(d, w, pc)
<1> DEFINE j == [inv[d][w] EXCEPT !.pc = pc]
           i == [j EXCEPT !.got = inv[d][w].got \cup new]
<1>1. inv' = [inv EXCEPT ![d] = [inv[d] EXCEPT ![w] = i]]
  BY DEF TypeOK, GoToWith
<1>2. j \in Invocation /\ j.step = inv[d][w].step /\ j.pc = pc
  BY Known, PcUpdates
<1>3. inv[d][w].got \cup new \in SUBSET Resource
  BY Known
<1> HIDE DEF j
<1>4. i \in Invocation /\ i.step = inv[d][w].step /\ i.pc = pc
  BY <1>2, <1>3, PcUpdates
<1> HIDE DEF i
<1> QED BY <1>1, <1>4, PutAt

\* the note of what to clean up,
LEMMA TodoAt ==
  ASSUME TypeOK, NEW d \in Deployment, NEW w \in Who, inv[d][w] # Nobody,
         NEW rows \in SUBSET Resource
  PROVE  /\ inv' = [inv EXCEPT ![d][w].pc = @ + 1, ![d][w].todo = rows]
              => At(d, w, inv[d][w].pc + 1)
         /\ inv' = [inv EXCEPT ![d][w].todo = rows] => At(d, w, inv[d][w].pc)
<1> DEFINE j == [inv[d][w] EXCEPT !.pc = inv[d][w].pc + 1]
           i == [j EXCEPT !.todo = rows]
           h == [inv[d][w] EXCEPT !.todo = rows]
<1>1. /\ inv' = [inv EXCEPT ![d][w].pc = @ + 1, ![d][w].todo = rows]
           => inv' = [inv EXCEPT ![d] = [inv[d] EXCEPT ![w] = i]]
      /\ inv' = [inv EXCEPT ![d][w].todo = rows]
           => inv' = [inv EXCEPT ![d] = [inv[d] EXCEPT ![w] = h]]
  BY DEF TypeOK
<1>2. j \in Invocation /\ j.step = inv[d][w].step /\ j.pc = inv[d][w].pc + 1
  <2>1. inv[d][w] \in Invocation /\ inv[d][w].pc + 1 \in Nat \ {0}
    BY Known
  <2> QED BY <2>1, PcUpdates
<1>3. h \in Invocation /\ h.step = inv[d][w].step /\ h.pc = inv[d][w].pc
  BY Known, PcUpdates
<1> HIDE DEF j
<1>4. i \in Invocation /\ i.step = inv[d][w].step /\ i.pc = inv[d][w].pc + 1
  BY <1>2, PcUpdates
<1> HIDE DEF i, h
<1> QED BY <1>1, <1>3, <1>4, PutAt

\* the next instruction,
LEMMA GoOnAt ==
  ASSUME TypeOK, NEW d \in Deployment, NEW w \in Who, inv[d][w] # Nobody,
         GoOn(d, w) \/ \E new \in SUBSET Resource : GoOnWith(d, w, new)
  PROVE  At(d, w, inv[d][w].pc + 1)
BY Known, GoToAt, GoToWithAt DEF GoOn, GoOnWith

\* and the end.
LEMMA EndGone ==
  ASSUME TypeOK, NEW d \in Deployment, NEW w \in Who, NEW next, End(d, w, next)
  PROVE  /\ Gone(d, w)
         /\ \A e \in Deployment : e # d => exec'[e] = exec[e]
         /\ exec'[d] = IF w = "run" THEN next ELSE exec[d]
BY DEF End, TypeOK, Gone

-----------------------------------------------------------------------------
(* What an instruction leaves built.                                       *)

\* Whoever is at work on what is said to have succeeded begins, says so again
\* or returns.
LEMMA Quiet ==
  ASSUME TypeOK, NEW d \in Deployment, Building(d), status[d] = "succeeded",
         NEW w \in Who, NEW op, NEW k, Now(d, w, op, k)
  PROVE  op \in {"begin", "succeed", "return"}
<1> DEFINE i == inv[d][w]
<1>1. \/ i.step = "status_update"
      \/ i.step = "failure" /\ i.pc \in {1, 5}
  BY DEF Building, AtRest, Now
<1>2. i.pc \in DOMAIN Program[d][i.step] /\ Program[d][i.step][i.pc] = I(op, k)
  BY DEF Now
<1>3. CASE i.step = "status_update"
  BY <1>2, <1>3, TailPrograms DEF I
<1>4. CASE i.step = "failure" /\ i.pc \in {1, 5}
  BY <1>2, <1>4, TailPrograms DEF I
<1> QED BY <1>1, <1>3, <1>4

\* A running execution has no stray invocation.
LEMMA RunsAlone ==
  ASSUME TypeOK, Control, NEW d \in Deployment, Building(d), NEW w \in Who,
         inv[d][w] # Nobody
  PROVE  /\ exec[d].state # "none"
         /\ \A v \in Who : inv[d][v] # Nobody => v = w
         /\ exec[d].state = "running" => w = "run" /\ inv[d][w].step = Chain[exec[d].pos]
         /\ w = "run" => exec[d].state \in {"running", "failing"}
         /\ w = "stray" => exec[d].state = "timed_out"
<1>1. ControlOf(d)
  BY DEF Control
<1>2. w = "stray" => exec[d].state = "timed_out"
  BY DEF Building
<1>3. w = "run" => exec[d].state \in {"running", "failing"} /\ inv[d][w].step = Current(d)
  BY <1>1 DEF ControlOf
<1>4. exec[d].state = "running" => Current(d) = Chain[exec[d].pos]
  BY DEF Current
<1>5. \A v \in Who : inv[d][v] # Nobody => v = w
  BY <1>1, <1>2, <1>3 DEF ControlOf, Building, Who
<1> QED BY <1>1, <1>2, <1>3, <1>4, <1>5 DEF ControlOf, Who

\* The invariant is kept by a step that goes on, loses nothing and does not say
\* that the deployment has succeeded, if what it creates has what it needs and
\* what lies behind it is built.
LEMMA GoesOn ==
  ASSUME TypeOK, Control, NEW d \in Deployment, Building(d), NEW w \in Who,
         inv[d][w] # Nobody, NEW pc, At(d, w, pc),
         exec'[d] = exec[d], HeldBy(d) \subseteq HeldBy(d)',
         status'[d] = "succeeded" => AtRest(d)',
         exec[d].state = "running" => NeedsMet(d)',
         exec[d].state = "running" =>
           \/ inv[d][w].step = "gateway" /\ ~(pc < AbortPc)
           \/ UpTo(d, inv[d][w].step, pc, HeldBy(d)')
  PROVE  Building(d)'
<1>1. /\ exec[d].state # "none"
      /\ exec[d].state = "running" => w = "run"
      /\ \A v \in Who : v # w => inv'[d][v] = inv[d][v]
      /\ inv'[d][w] # Nobody /\ inv'[d][w].step = inv[d][w].step /\ inv'[d][w].pc = pc
  BY RunsAlone DEF At
<1>2. exec[d].state = "running" => ChainBuilt(d)'
  <2>1. \A s : Provided(d, s) => Provided(d, s)'
    BY DEF Provided
  <2> QED BY <2>1 DEF Building, ChainBuilt
<1>3. exec[d].state = "running" => StepBuilt(d)'
  BY <1>1 DEF StepBuilt
<1>4. inv'[d]["stray"] # Nobody => exec[d].state = "timed_out"
  BY <1>1 DEF Building, Who
<1>5. \A v \in Who : inv'[d][v] # Nobody /\ inv'[d][v].step = "status_update" =>
        Goals[d] \subseteq HeldBy(d)
  BY <1>1 DEF Building
<1> QED BY <1>1, <1>2, <1>3, <1>4, <1>5 DEF Building

\* An instruction that provides nothing leaves the kinds that need others alone.
LEMMA UpToNext ==
  ASSUME TypeOK, Control, NEW d \in Deployment, Building(d), NEW w \in Who, NEW op, NEW k,
         Now(d, w, op, k), exec[d].state = "running", HeldBy(d) \subseteq HeldBy(d)',
         inv[d][w].step = "gateway" => inv[d][w].pc + 1 < AbortPc,
         k \in Kind \ SharedKind /\ op \in Created => k \in HeldBy(d)'
  PROVE  UpTo(d, inv[d][w].step, inv[d][w].pc + 1, HeldBy(d)')
<1> DEFINE i == inv[d][w]
<1>1. /\ i # Nobody /\ i.pc \in DOMAIN Program[d][i.step]
      /\ Program[d][i.step][i.pc] = I(op, k)
  BY DEF Now
<1>2. w = "run"
  BY <1>1, RunsAlone
<1>3. i.pc \in Nat /\ i.step \in Step /\ AbortPc \in Nat
  BY <1>1, Known DEF TypeOK, Invocation, AbortPc, GatewayBody
<1>4. i.step = "gateway" => i.pc < AbortPc
  BY <1>3
<1>5. UpTo(d, i.step, i.pc, HeldBy(d))
  BY <1>1, <1>2, <1>4 DEF Building, StepBuilt
<1>6. SUFFICES ASSUME NEW m \in Kind \ SharedKind, NEW j \in DOMAIN Program[d][i.step],
                      j < i.pc + 1, Program[d][i.step][j] \in Providing(m)
               PROVE  m \in HeldBy(d)'
  BY DEF UpTo
<1>7. j \in Nat
  BY <1>3, ProgramShape
<1>8. CASE j < i.pc
  BY <1>5, <1>6, <1>8 DEF UpTo
<1>9. CASE j = i.pc
  <2>1. I(op, k) \in Providing(m)
    BY <1>1, <1>6, <1>9
  <2>2. op \in Created /\ k = m
    BY <2>1 DEF Providing, I, Created
  <2> QED BY <2>2
<1> QED BY <1>3, <1>6, <1>7, <1>8, <1>9

\* Whoever has more to do than the end of the last two handlers finds a record
\* that does not say succeeded.
LEMMA NotYet ==
  ASSUME TypeOK, NEW d \in Deployment, Building(d), NEW w \in Who, NEW op, NEW k,
         Now(d, w, op, k),
         \/ op \notin {"begin", "succeed", "return"}
         \/ inv[d][w].step \notin {"status_update", "failure"}
  PROVE  status[d] # "succeeded"
<1>1. op \notin {"begin", "succeed", "return"} => status[d] # "succeeded"
  BY Quiet
<1>2. inv[d][w].step \notin {"status_update", "failure"} => status[d] # "succeeded"
  BY DEF Building, AtRest, Now
<1> QED BY <1>1, <1>2

\* What is held stays, and with it what it needs.
LEMMA NeedsKept ==
  ASSUME NEW d \in Deployment, HeldBy(d)' = HeldBy(d), NeedsMet(d)
  PROVE  NeedsMet(d)'
BY DEF NeedsMet

\* An instruction that creates nothing and goes on to the next one.
LEMMA PlainStep ==
  ASSUME TypeOK, Control, NEW d \in Deployment, Building(d), NEW w \in Who, NEW op, NEW k,
         Now(d, w, op, k), op \notin Created, At(d, w, inv[d][w].pc + 1),
         exec'[d] = exec[d], HeldBy(d)' = HeldBy(d),
         status'[d] = "succeeded" => AtRest(d)'
  PROVE  Building(d)'
<1>1. inv[d][w] # Nobody
  BY DEF Now
<1>2. exec[d].state = "running" => NeedsMet(d)'
  BY NeedsKept DEF Building
<1>3. \/ inv[d][w].step = "gateway" /\ ~(inv[d][w].pc + 1 < AbortPc)
      \/ exec[d].state # "running"
      \/ UpTo(d, inv[d][w].step, inv[d][w].pc + 1, HeldBy(d)')
  BY UpToNext
<1> QED BY <1>1, <1>2, <1>3, GoesOn

\* The first instruction of a step keeps Building,
LEMMA BeginBuilds ==
  ASSUME TypeOK, Control, NEW d \in Deployment, Building(d), NEW w \in Who,
         Begin(d, w) \/ WriteFailed(d, w)
  PROVE  Building(d)'
<1>1. PICK op \in {"begin", "fail"} : Now(d, w, op, "none")
  BY DEF Begin, WriteFailed
<1>2. /\ UNCHANGED <<exec, aws>> /\ status'[d] # "succeeded" /\ GoOn(d, w)
      /\ inv[d][w] # Nobody
  BY DEF Begin, WriteFailed, TypeOK, Now
<1>3. At(d, w, inv[d][w].pc + 1)
  BY <1>2, GoOnAt
<1>4. op \notin Created
  BY DEF Created
<1> QED BY <1>1, <1>2, <1>3, <1>4, HeldSame, PlainStep

\* so does one that provides nothing,
LEMMA PlainBuilds ==
  ASSUME TypeOK, Control, NEW d \in Deployment, Building(d), NEW w \in Who,
         Proceed(d, w) \/ Record(d, w) \/ Swept(d, w)
  PROVE  Building(d)'
<1>1. PICK op \in {"call", "join", "record", "record_new", "sweep"}, k \in Kind \cup {"none"} :
        Now(d, w, op, k)
  BY DEF Proceed, Record, Swept
<1>2. UNCHANGED <<exec, aws, status>> /\ GoOn(d, w) /\ inv[d][w] # Nobody
  BY <1>1 DEF Proceed, Record, Swept, Now
<1>3. At(d, w, inv[d][w].pc + 1)
  BY <1>2, GoOnAt
<1>4. op \notin Created /\ op \notin {"begin", "succeed", "return"}
  BY DEF Created
<1>5. status'[d] # "succeeded"
  BY <1>1, <1>2, <1>4, NotYet
<1> QED BY <1>1, <1>2, <1>3, <1>4, <1>5, HeldSame, PlainStep

\* A new kind is held: what needs others has them.
LEMMA NeedsOfNew ==
  ASSUME TypeOK, Control, NEW d \in Deployment, Building(d), NEW w \in Who,
         NEW op \in Created, NEW k \in Kind, Now(d, w, op, k),
         exec[d].state = "running",
         HeldBy(d) \subseteq HeldBy(d)', HeldBy(d)' \subseteq HeldBy(d) \cup {k}
  PROVE  NeedsMet(d)'
<1> DEFINE i == inv[d][w]
<1>1. /\ i # Nobody /\ i.pc \in DOMAIN Program[d][i.step]
      /\ Program[d][i.step][i.pc] = I(op, k)
  BY DEF Now
<1>2. w = "run"
  BY <1>1, RunsAlone
<1>3. i.step \in Step
  BY <1>1, Known
<1>4. I(op, k) \in Providing(k)
  BY DEF Created, Providing
<1>5. ASSUME NEW x \in {"knowledge_base", "memory"}, x \in HeldBy(d)', NEW m \in Needs(d, x),
             m \notin SharedKind
      PROVE  m \in HeldBy(d)'
  <2>1. CASE x \in HeldBy(d)
    BY <1>5, <2>1 DEF Building, NeedsMet
  <2>2. CASE x = k
    <3>1. PICK j \in DOMAIN Program[d][i.step] :
            j < i.pc /\ Program[d][i.step][j] \in Providing(m)
      BY <1>1, <1>3, <1>4, <1>5, <2>2, Backed
    <3>2. i.step # "gateway"
      BY <1>1, <1>3, <1>4, <1>5, <2>2, Backed
    <3>3. UpTo(d, i.step, i.pc, HeldBy(d))
      BY <1>1, <1>2, <3>2 DEF Building, StepBuilt
    <3>4. m \in Kind
      BY <1>5, SomeKinds DEF Needs, Store
    <3> QED BY <1>5, <3>1, <3>3, <3>4 DEF UpTo
  <2> QED BY <1>5, <2>1, <2>2
<1>6. \A x : Needs(d, x)' = Needs(d, x)
  OBVIOUS
<1> QED BY <1>5 DEF NeedsMet

\* one that leaves its kind there,
LEMMA CreatedBuilds ==
  ASSUME TypeOK, Control, NEW d \in Deployment, Building(d), NEW w \in Who,
         NEW op \in Created, NEW k \in Kind, Now(d, w, op, k),
         At(d, w, inv[d][w].pc + 1), exec'[d] = exec[d], status'[d] = status[d],
         HeldBy(d) \subseteq HeldBy(d)', HeldBy(d)' \subseteq HeldBy(d) \cup {k},
         k \notin SharedKind => k \in HeldBy(d)'
  PROVE  Building(d)'
<1>1. inv[d][w] # Nobody
  BY DEF Now
<1>2. exec[d].state = "running" => NeedsMet(d)'
  BY NeedsOfNew
<1>3. \/ inv[d][w].step = "gateway" /\ ~(inv[d][w].pc + 1 < AbortPc)
      \/ exec[d].state # "running"
      \/ UpTo(d, inv[d][w].step, inv[d][w].pc + 1, HeldBy(d)')
  BY UpToNext
<1>4. status'[d] # "succeeded"
  BY NotYet DEF Created
<1> QED BY <1>1, <1>2, <1>3, <1>4, GoesOn

\* an ensure,
LEMMA EnsureBuilds ==
  ASSUME TypeOK, Control, NEW d \in Deployment, Building(d), NEW w \in Who, Ensure(d, w)
  PROVE  Building(d)' /\ \A e \in Deployment : e # d => HeldBy(e)' = HeldBy(e)
<1>1. PICK k \in Kind :
        LET there == Existing(k, Label(d, k))
            made == IF there = {} THEN {New(d, w, k)} ELSE {}
        IN  /\ Now(d, w, "ensure", k) /\ aws' = aws \cup made
            /\ GoOnWith(d, w, there \cup made)
            /\ UNCHANGED <<handler, status, manifest, exec, event>>
  BY DEF Ensure
<1> DEFINE there == Existing(k, Label(d, k))
           made == IF there = {} THEN {New(d, w, k)} ELSE {}
<1>2. inv[d][w] # Nobody
  BY <1>1 DEF Now
<1>3. there \cup made \in SUBSET Resource
  BY <1>2, NewIsOwn, ExistingIsOwn DEF Own
<1> HIDE DEF made
<1>4. At(d, w, inv[d][w].pc + 1)
  BY <1>1, <1>2, <1>3, GoOnAt DEF made
<1>5. /\ \A e \in Deployment : e # d => HeldBy(e)' = HeldBy(e)
      /\ HeldBy(d) \subseteq HeldBy(d)' /\ HeldBy(d)' \subseteq HeldBy(d) \cup {k}
      /\ k \notin SharedKind => k \in HeldBy(d)'
  <2>1. CASE there = {}
    <3>1. aws' = aws \cup {New(d, w, k)}
      BY <1>1, <2>1
    <3> QED BY <3>1, HeldNew
  <2>2. CASE there # {}
    <3>1. UNCHANGED aws
      BY <1>1, <2>2
    <3>2. k \notin SharedKind => k \in HeldBy(d)
      BY <2>2, HeldThere
    <3> QED BY <3>1, <3>2, HeldSame
  <2> QED BY <2>1, <2>2
<1>6. "ensure" \in Created /\ Now(d, w, "ensure", k) /\ UNCHANGED <<status, exec>>
  BY <1>1 DEF Created
<1> QED BY <1>4, <1>5, <1>6, CreatedBuilds

\* a creation,
LEMMA CreateBuilds ==
  ASSUME TypeOK, Control, NEW d \in Deployment, Building(d), NEW w \in Who, Create(d, w)
  PROVE  Building(d)' /\ \A e \in Deployment : e # d => HeldBy(e)' = HeldBy(e)
<1>1. PICK k \in Kind :
        /\ Now(d, w, "fresh", k) \/ Now(d, w, "create", k)
        /\ aws' = aws \cup {New(d, w, k)} /\ GoOnWith(d, w, {New(d, w, k)})
        /\ UNCHANGED <<handler, status, manifest, exec, event>>
  BY DEF Create
<1>2. PICK op \in {"fresh", "create"} : Now(d, w, op, k)
  BY <1>1
<1>3. inv[d][w] # Nobody /\ op \in Created
  BY <1>2 DEF Now, Created
<1>4. {New(d, w, k)} \in SUBSET Resource
  BY <1>3, NewIsOwn DEF Own
<1>5. At(d, w, inv[d][w].pc + 1)
  BY <1>1, <1>3, <1>4, GoOnAt
<1>6. /\ \A e \in Deployment : e # d => HeldBy(e)' = HeldBy(e)
      /\ HeldBy(d) \subseteq HeldBy(d)' /\ HeldBy(d)' \subseteq HeldBy(d) \cup {k}
      /\ k \notin SharedKind => k \in HeldBy(d)'
  BY <1>1, HeldNew
<1> QED BY <1>1, <1>2, <1>3, <1>5, <1>6, CreatedBuilds

\* A lookup that finds what it looks for goes on behind what it would have made:
\* that is there, and what it needs is too.
LEMMA LookupBuilds ==
  ASSUME TypeOK, Control, SharedKind \cap {"knowledge_base", "memory"} = {},
         NEW d \in Deployment, Building(d), NEW w \in Who, Lookup(d, w)
  PROVE  Building(d)'
<1> DEFINE i == inv[d][w]
           p == Program[d][i.step]
<1>1. PICK k \in Kind :
        LET there == Existing(k, Label(d, k)) IN
        /\ Now(d, w, "found", k)
        /\ IF there = {} THEN GoOn(d, w) ELSE GoToWith(d, w, JoinPc(p), there)
        /\ UNCHANGED <<handler, status, manifest, exec, event, aws>>
  BY DEF Lookup
<1> DEFINE there == Existing(k, Label(d, k))
<1>2. /\ i # Nobody /\ i.pc \in DOMAIN p /\ p[i.pc] = I("found", k)
      /\ i.step \in Step /\ i.pc \in Nat
  BY <1>1, Known DEF Now, TypeOK, Invocation
<1>3. status'[d] # "succeeded"
  BY <1>1, NotYet
<1>4. HeldBy(d)' = HeldBy(d)
  BY <1>1, HeldSame
<1>5. CASE there = {}
  <2>1. At(d, w, i.pc + 1)
    BY <1>1, <1>2, <1>5, GoOnAt
  <2>2. "found" \notin Created
    BY DEF Created
  <2> QED BY <1>1, <1>3, <1>4, <2>1, <2>2, PlainStep
<1>6. CASE there # {}
  <2>1. /\ JoinPc(p) \in DOMAIN p /\ i.step # "gateway"
        /\ \A j \in DOMAIN p, m \in Kind :
             i.pc < j /\ j < JoinPc(p) /\ p[j] \in Providing(m)
               => m = k \/ m \in Needs(d, k)
    BY <1>2, Skipped
  <2>2. JoinPc(p) \in Nat \ {0}
    BY <1>2, <2>1, Anatomy
  <2>3. there \in SUBSET Resource
    BY ExistingIsOwn DEF Own
  <2>4. At(d, w, JoinPc(p))
    BY <1>1, <1>2, <1>6, <2>2, <2>3, GoToWithAt
  <2>5. exec[d].state = "running" => NeedsMet(d)'
    BY <1>4, NeedsKept DEF Building
  <2>6. ASSUME exec[d].state = "running", NEW m \in Kind \ SharedKind,
               NEW j \in DOMAIN p, j < JoinPc(p), p[j] \in Providing(m)
        PROVE  m \in HeldBy(d)'
    <3>1. w = "run"
      BY <1>2, <2>6, RunsAlone
    <3>2. j \in Nat
      BY <1>2, Anatomy
    <3>3. CASE j < i.pc
      BY <1>2, <1>4, <2>1, <2>6, <3>1, <3>3 DEF Building, StepBuilt, UpTo
    <3>4. CASE j = i.pc
      BY <1>2, <2>6, <3>4 DEF Providing, I
    <3>5. CASE i.pc < j
      <4>1. m = k \/ m \in Needs(d, k)
        BY <2>1, <2>6, <3>5
      <4>2. k \notin SharedKind => k \in HeldBy(d)
        BY <1>6, HeldThere
      <4>3. CASE m \in Needs(d, k)
        <5>1. k \in {"knowledge_base", "memory"}
          BY <4>3 DEF Needs
        <5>2. k \in HeldBy(d)
          BY <4>2, <5>1
        <5> QED BY <1>4, <2>6, <4>3, <5>1, <5>2 DEF Building, NeedsMet
      <4> QED BY <1>4, <2>6, <4>1, <4>2, <4>3
    <3> QED BY <1>2, <3>2, <3>3, <3>4, <3>5
  <2>7. exec[d].state = "running" => UpTo(d, i.step, JoinPc(p), HeldBy(d)')
    BY <2>6 DEF UpTo
  <2> QED BY <1>1, <1>2, <1>3, <1>4, <2>4, <2>5, <2>7, GoesOn
<1> QED BY <1>5, <1>6

\* The gateway's place in the chain.
LEMMA ChainPlaces ==
  \A i \in 1 .. TailPos :
    /\ Chain[i] = "gateway" => i = 5
    /\ Chain[i] = "status_update" <=> i = TailPos
BY DEF Chain, TailPos

\* a drop of the abort section,
LEMMA DropBuilds ==
  ASSUME TypeOK, OwnRows, Control, NEW d \in Deployment, Building(d), NEW w \in Who, Drop(d, w)
  PROVE  Building(d)' /\ \A e \in Deployment : e # d => HeldBy(e)' = HeldBy(e)
<1> DEFINE i == inv[d][w]
<1>1. PICK k \in Kind : Now(d, w, "drop", k)
  BY DEF Drop
<1>2. /\ i # Nobody /\ i.pc \in DOMAIN Program[d][i.step]
      /\ Program[d][i.step][i.pc] = I("drop", k) /\ i.step \in Step
  BY <1>1, Known DEF Now
<1>3. UNCHANGED <<status, exec>> /\ GoOn(d, w)
  BY DEF Drop
<1>4. At(d, w, i.pc + 1)
  BY <1>2, <1>3, GoOnAt
<1>5. i.step = "gateway" /\ i.pc \in Nat /\ ~(i.pc + 1 < AbortPc)
  <2>1. I("drop", k) \notin Inner(i.step)
    BY DEF Inner, I
  <2>2. i.step = "gateway" /\ \E j \in 1 .. 5 : i.pc = j + 8
    BY <1>2, <2>1, Anatomy DEF I
  <2>3. AbortPc = 9
    BY DEF AbortPc, GatewayBody
  <2> QED BY <2>2, <2>3
<1>6. /\ \A e \in Deployment : e # d => HeldBy(e)' = HeldBy(e)
      /\ HeldBy(d)' \subseteq HeldBy(d)
      /\ HeldBy(d) \ {"gateway", "gateway_role"} \subseteq HeldBy(d)'
  BY DropHeld
<1>7. status'[d] # "succeeded"
  BY <1>1, <1>3, NotYet
<1>8. /\ exec[d].state # "none"
      /\ \A v \in Who : inv[d][v] # Nobody => v = w
      /\ exec[d].state = "running" => w = "run" /\ i.step = Chain[exec[d].pos]
      /\ w = "stray" => exec[d].state = "timed_out"
  BY <1>2, RunsAlone
<1>9. /\ inv'[d][w] # Nobody /\ inv'[d][w].step = "gateway"
      /\ ~(inv'[d][w].pc < AbortPc)
      /\ \A v \in Who : v # w => inv'[d][v] = Nobody
  BY <1>4, <1>5, <1>8 DEF At
<1>10. ASSUME exec[d].state = "running" PROVE ChainBuilt(d)'
  <2>1. exec[d].pos \in 1 .. TailPos
    BY DEF TypeOK
  <2>2. ASSUME NEW j \in 1 .. exec[d].pos - 1, Planned(d, Chain[j]),
               NEW m \in Kind \ SharedKind, NEW x \in DOMAIN Program[d][Chain[j]],
               Program[d][Chain[j]][x] \in Providing(m)
        PROVE  m \in HeldBy(d)'
    <3>1. j \in 1 .. TailPos /\ j # exec[d].pos
      BY <2>1 DEF TailPos
    <3>2. Chain[j] # "gateway"
      BY <1>5, <1>8, <1>10, <2>1, <3>1, ChainPlaces
    <3>3. m \notin {"gateway", "gateway_role"}
      BY <2>2, <3>1, <3>2, ChainSteps, ProvidersInside
    <3>4. m \in HeldBy(d)
      BY <1>10, <2>2 DEF Building, ChainBuilt, Provided
    <3> QED BY <1>6, <3>3, <3>4
  <2>3. \A j \in 1 .. exec[d].pos - 1 : Planned(d, Chain[j]) => Provided(d, Chain[j])'
    BY <2>2 DEF Provided
  <2> QED BY <1>3, <2>3 DEF ChainBuilt
<1>11. ASSUME exec[d].state = "running" PROVE NeedsMet(d)'
  <2>1. \A k_1 \in {"knowledge_base", "memory"} :
          Needs(d, k_1) \cap {"gateway", "gateway_role"} = {}
    BY DEF Needs, Store
  <2> QED BY <1>6, <1>11, <2>1 DEF Building, NeedsMet
<1>12. exec[d].state = "running" => StepBuilt(d)'
  BY <1>8, <1>9 DEF StepBuilt
<1>13. inv'[d]["stray"] # Nobody => exec[d].state = "timed_out"
  BY <1>8, <1>9 DEF Who
<1>14. \A v \in Who : inv'[d][v] # Nobody => inv'[d][v].step # "status_update"
  BY <1>9
<1>15. Building(d)'
  BY <1>3, <1>7, <1>8, <1>10, <1>11, <1>12, <1>13, <1>14 DEF Building
<1> QED BY <1>6, <1>15

\* What one instruction needs to know of the invocation that executes it.
LEMMA NowIs ==
  ASSUME TypeOK, NEW d \in Deployment, NEW w \in Who, NEW op, NEW k, Now(d, w, op, k)
  PROVE  /\ inv[d][w] # Nobody /\ inv[d][w].step \in Step
         /\ inv[d][w].pc \in Nat \ {0}
         /\ inv[d][w].pc \in DOMAIN Program[d][inv[d][w].step]
         /\ Program[d][inv[d][w].step][inv[d][w].pc] = I(op, k)
         /\ I(op, k) \in Allowed(inv[d][w].step)
BY Known, ProgramShape DEF Now, TypeOK, Invocation

\* Nothing but the failure handler takes a snapshot or sweeps, and it runs once
\* the deployment is given up.
LEMMA Failing ==
  ASSUME TypeOK, Control, NEW d \in Deployment, Building(d), NEW w \in Who,
         inv[d][w] # Nobody, inv[d][w].step = "failure"
  PROVE  /\ exec[d].state \notin {"none", "running"}
         /\ \A v \in Who : inv[d][v] # Nobody => v = w
         /\ w = "stray" => exec[d].state = "timed_out"
BY RunsAlone DEF Control, ControlOf, GivenUp

\* The invariant of a deployment that is given up and not said to have succeeded.
LEMMA GivenUpBuilds ==
  ASSUME TypeOK, Control, NEW d \in Deployment, Building(d), NEW w \in Who,
         inv[d][w] # Nobody, inv[d][w].step = "failure", NEW pc, At(d, w, pc),
         exec'[d] = exec[d], status'[d] = "succeeded" => AtRest(d)'
  PROVE  Building(d)'
<1>1. /\ exec[d].state \notin {"none", "running"}
      /\ \A v \in Who : inv[d][v] # Nobody => v = w
      /\ w = "stray" => exec[d].state = "timed_out"
  BY Failing
<1>2. /\ inv'[d][w].step = "failure"
      /\ \A v \in Who : v # w => inv'[d][v] = Nobody
  BY <1>1 DEF At
<1>3. inv'[d]["stray"] # Nobody => exec[d].state = "timed_out"
  BY <1>1, <1>2 DEF Who
<1> QED BY <1>1, <1>2, <1>3 DEF Building

\* the sweep of a failure handler,
LEMMA SweepBuilds ==
  ASSUME TypeOK, OwnRows, Control, NEW d \in Deployment, Building(d), NEW w \in Who, Sweep(d, w)
  PROVE  Building(d)' /\ \A e \in Deployment : e # d => HeldBy(e)' = HeldBy(e)
<1>1. /\ Now(d, w, "sweep", "none") /\ UNCHANGED <<status, exec>>
      /\ \E row \in inv[d][w].todo : inv' = [inv EXCEPT ![d][w].todo = @ \ {row}]
  BY DEF Sweep
<1>2. inv[d][w] # Nobody /\ inv[d][w].step = "failure"
  <2>1. I("sweep", "none") \in Allowed(inv[d][w].step) /\ inv[d][w] # Nobody
    BY <1>1, NowIs
  <2> QED BY <2>1 DEF Allowed, I
<1>3. PICK row \in inv[d][w].todo :
        inv' = [inv EXCEPT ![d][w].todo = inv[d][w].todo \ {row}]
  BY <1>1
<1>4. inv[d][w].todo \ {row} \in SUBSET Resource
  BY <1>2, Known
<1>5. At(d, w, inv[d][w].pc)
  BY <1>2, <1>3, <1>4, TodoAt
<1>6. status'[d] # "succeeded"
  BY <1>1, NotYet
<1> QED BY <1>1, <1>2, <1>5, <1>6, GivenUpBuilds, SweepHeld

\* the snapshot before it,
LEMMA SnapshotBuilds ==
  ASSUME TypeOK, Control, NEW d \in Deployment, Building(d), NEW w \in Who, Snapshot(d, w)
  PROVE  Building(d)'
<1> DEFINE p == Program[d][inv[d][w].step]
<1>1. /\ Now(d, w, "snapshot", "none") /\ UNCHANGED <<status, exec>>
      /\ \/ inv' = [inv EXCEPT ![d][w].pc = @ + 1, ![d][w].todo = manifest[d]]
         \/ GoTo(d, w, Len(p))
  BY DEF Snapshot
<1>2. /\ inv[d][w] # Nobody /\ inv[d][w].pc \in DOMAIN p /\ inv[d][w].step \in Step
      /\ p[inv[d][w].pc] = I("snapshot", "none")
  BY <1>1, NowIs
<1>3. inv[d][w].step = "failure"
  <2>1. I("snapshot", "none") # I("begin", "none") /\ I("snapshot", "none") # I("return", "none")
    BY DEF I
  <2>2. \A j \in 1 .. 5 : GatewayAbort[j] # I("snapshot", "none")
    BY DEF GatewayAbort, I
  <2>3. I("snapshot", "none") \in Inner(inv[d][w].step)
    BY <1>2, <2>1, <2>2, Anatomy
  <2> QED BY <2>3 DEF Inner, I
<1>4. manifest[d] \in SUBSET Resource /\ Len(p) \in Nat \ {0}
  BY <1>2, ProgramShape DEF TypeOK
<1>5. \E pc : At(d, w, pc)
  BY <1>1, <1>2, <1>4, TodoAt, GoToAt
<1>6. status'[d] # "succeeded"
  BY <1>1, NotYet
<1> QED BY <1>1, <1>2, <1>3, <1>5, <1>6, GivenUpBuilds

\* The step that reports success provides nothing itself.
LEMMA NothingToBuild ==
  ASSUME NEW d \in Deployment, NEW s \in {"status_update", "failure"}, NEW pc, NEW held
  PROVE  UpTo(d, s, pc, held)
<1>1. s \in Step
  BY DEF Step, Chain, TailPos
<1> QED BY <1>1, ProvidersInside DEF UpTo

\* status_update runs at the end of the chain only, alone.
LEMMA Reporting ==
  ASSUME TypeOK, Control, NEW d \in Deployment, Building(d), NEW w \in Who,
         inv[d][w] # Nobody, inv[d][w].step = "status_update"
  PROVE  /\ exec[d].state # "none" /\ Goals[d] \subseteq HeldBy(d)
         /\ exec[d].state = "running" => exec[d].pos = TailPos
         /\ \A v \in Who : inv[d][v] # Nobody => v = w
<1>1. /\ exec[d].state # "none"
      /\ \A v \in Who : inv[d][v] # Nobody => v = w
      /\ exec[d].state = "running" => inv[d][w].step = Chain[exec[d].pos]
  BY RunsAlone
<1>2. exec[d].state = "running" => exec[d].pos = TailPos
  BY <1>1, ChainPlaces DEF TypeOK
<1>3. Goals[d] \subseteq HeldBy(d)
  BY DEF Building
<1> QED BY <1>1, <1>2, <1>3

\* It rests afterwards.
LEMMA ReportRests ==
  ASSUME TypeOK, Control, NEW d \in Deployment, Building(d), NEW w \in Who,
         inv[d][w] # Nobody, inv[d][w].step = "status_update", NEW pc, At(d, w, pc),
         exec'[d] = exec[d], HeldBy(d)' = HeldBy(d)
  PROVE  AtRest(d)' /\ Building(d)'
<1>1. /\ exec[d].state # "none" /\ Goals[d] \subseteq HeldBy(d)
      /\ exec[d].state = "running" => exec[d].pos = TailPos
      /\ \A v \in Who : inv[d][v] # Nobody => v = w
  BY Reporting
<1>2. \A v \in Who : inv'[d][v] # Nobody => inv'[d][v].step = "status_update"
  BY <1>1 DEF At
<1>3. AtRest(d)'
  BY <1>1, <1>2 DEF AtRest
<1>4. exec[d].state = "running" => NeedsMet(d)'
  BY NeedsKept DEF Building
<1>5. UpTo(d, inv[d][w].step, pc, HeldBy(d)')
  BY NothingToBuild
<1> QED BY <1>3, <1>4, <1>5, GoesOn

\* the write of SUCCEEDED, once all is built,
LEMMA SucceededBuilds ==
  ASSUME TypeOK, Control, NEW d \in Deployment, Building(d), NEW w \in Who, WriteSucceeded(d, w)
  PROVE  Building(d)'
<1>1. /\ Now(d, w, "succeed", "none") /\ UNCHANGED <<exec, aws>> /\ GoOn(d, w)
  BY DEF WriteSucceeded
<1>2. /\ inv[d][w] # Nobody /\ inv[d][w].step \in Step
      /\ inv[d][w].pc \in DOMAIN Program[d][inv[d][w].step]
      /\ Program[d][inv[d][w].step][inv[d][w].pc] = I("succeed", "none")
  BY <1>1, NowIs
<1>3. inv[d][w].step = "status_update"
  <2>1. I("succeed", "none") # I("begin", "none") /\ I("succeed", "none") # I("return", "none")
    BY DEF I
  <2>2. \A j \in 1 .. 5 : GatewayAbort[j] # I("succeed", "none")
    BY DEF GatewayAbort, I
  <2>3. I("succeed", "none") \in Inner(inv[d][w].step)
    BY <1>2, <2>1, <2>2, Anatomy
  <2> QED BY <2>3 DEF Inner, I
<1>4. At(d, w, inv[d][w].pc + 1)
  BY <1>1, <1>2, GoOnAt
<1> QED BY <1>1, <1>2, <1>3, <1>4, HeldSame, ReportRests

\* the last resort of the failure handler,
LEMMA LastResortBuilds ==
  ASSUME TypeOK, Control, NEW d \in Deployment, Building(d), NEW w \in Who, LastResort(d, w)
  PROVE  Building(d)'
<1> DEFINE p == Program[d][inv[d][w].step]
<1>1. /\ inv[d][w] # Nobody /\ inv[d][w].step \in {"status_update", "failure"}
      /\ status'[d] \in {status[d], "failed"} /\ GoTo(d, w, Len(p))
      /\ UNCHANGED <<exec, aws>>
  BY DEF LastResort, TypeOK
<1>2. inv[d][w].step = "failure" => Len(p) = 5
  BY TailPrograms
<1>3. inv[d][w].step = "status_update" => Len(p) = 3
  BY TailPrograms
<1> HIDE DEF p
<1>4. Len(p) \in Nat \ {0}
  <2>1. Len(p) = 5 \/ Len(p) = 3
    BY <1>1, <1>2, <1>3
  <2> QED BY <2>1
<1>5. At(d, w, Len(p))
  BY <1>1, <1>4, GoToAt
<1>6. HeldBy(d)' = HeldBy(d)
  BY <1>1, HeldSame
<1>7. CASE inv[d][w].step = "status_update"
  BY <1>1, <1>5, <1>6, <1>7, ReportRests
<1>8. CASE inv[d][w].step = "failure"
  <2>1. ASSUME status'[d] = "succeeded" PROVE AtRest(d)'
    <3>1. AtRest(d)
      BY <1>1, <2>1 DEF Building
    <3>2. \A v \in Who : inv'[d][v] # Nobody =>
            inv'[d][v].step = "failure" /\ inv'[d][v].pc = 5
      BY <1>1, <1>2, <1>5, <1>8, Failing DEF At
    <3> QED BY <1>1, <1>6, <3>1, <3>2 DEF AtRest
  <2> QED BY <1>1, <1>5, <1>8, <2>1, GivenUpBuilds
<1> QED BY <1>1, <1>7, <1>8

-----------------------------------------------------------------------------
(* The end of an invocation.                                               *)

\* the end of an invocation,
LEMMA EndBuilds ==
  ASSUME TypeOK, Control, NEW d \in Deployment, Building(d), NEW w \in Who,
         inv[d][w] # Nobody, inv'[d][w] = Nobody,
         \A v \in Who : v # w => inv'[d][v] = inv[d][v],
         exec'[d].state \notin {"none", "running"},
         status'[d] = status[d], HeldBy(d)' = HeldBy(d)
  PROVE  Building(d)'
<1>1. \A v \in Who : inv'[d][v] = Nobody
  BY RunsAlone
<1>2. status[d] = "succeeded" => AtRest(d)'
  BY <1>1 DEF Building, AtRest
<1> QED BY <1>1, <1>2 DEF Building, Who

\* All that a step provides is provided when it returns.
LEMMA ReturnProvides ==
  ASSUME TypeOK, Control, NEW d \in Deployment, Building(d),
         Now(d, "run", "return", "none"), exec[d].state = "running"
  PROVE  Provided(d, inv[d]["run"].step)
<1> DEFINE i == inv[d]["run"]
           p == Program[d][i.step]
<1>0. "run" \in Who
  BY DEF Who
<1>1. /\ i # Nobody /\ i.step \in Step /\ i.pc \in Nat \ {0} /\ i.pc \in DOMAIN p
      /\ p[i.pc] = I("return", "none")
  BY <1>0, NowIs
<1>2. /\ i.step = "gateway" => i.pc + 1 = AbortPc
      /\ i.step # "gateway" => \A j \in DOMAIN p : j <= i.pc
  <2>1. I("return", "none") # I("begin", "none") /\ I("return", "none") \notin Inner(i.step)
    BY DEF I, Inner
  <2>2. \A j \in 1 .. 5 : GatewayAbort[j] # I("return", "none")
    BY DEF GatewayAbort, I
  <2> QED BY <1>1, <2>1, <2>2, Anatomy
<1>3. AbortPc \in Nat
  BY DEF AbortPc, GatewayBody
<1>4. UpTo(d, i.step, i.pc, HeldBy(d))
  <2>1. i.step = "gateway" => i.pc < AbortPc
    BY <1>1, <1>2, <1>3
  <2> QED BY <1>1, <2>1 DEF Building, StepBuilt
<1>5. ASSUME NEW k \in Kind \ SharedKind, NEW j \in DOMAIN p, p[j] \in Providing(k)
      PROVE  k \in HeldBy(d)
  <2>1. j \in Nat
    BY <1>1, Anatomy
  <2>2. j <= i.pc
    <3>1. i.step = "gateway" => j < AbortPc
      BY <1>1, <1>5, ProvidersInside
    <3> QED BY <1>1, <1>2, <1>3, <2>1, <3>1
  <2>3. j # i.pc
    BY <1>1, <1>5 DEF Providing, I
  <2>4. j < i.pc
    BY <1>1, <2>1, <2>2, <2>3
  <2> QED BY <1>4, <1>5, <2>4 DEF UpTo
<1> QED BY <1>5 DEF Provided

\* A step that returns moves the execution to the next position or ends it.
LEMMA NextStep ==
  ASSUME TypeOK, NEW d \in Deployment, exec[d].state = "running"
  PROVE  \/ exec[d].pos = TailPos /\ Returned(d).state = "succeeded"
         \/ Returned(d).state = "running" /\ Returned(d).pos = exec[d].pos + 1
            /\ exec[d].pos # TailPos
<1>1. exec[d] \in ExecRow
  BY DEF TypeOK, ExecRow
<1>2. CASE exec[d].pos = TailPos
  BY <1>1, <1>2, ExecUpdates DEF Returned, ExecState
<1>3. CASE exec[d].pos # TailPos
  <2> DEFINE q == [exec[d] EXCEPT !.pos = exec[d].pos + 1]
  <2>1. Returned(d) = [q EXCEPT !.try = 1]
    BY <1>3 DEF Returned
  <2>2. exec[d].pos + 1 \in 1 .. TailPos
    BY <1>1, <1>3 DEF ExecRow, TailPos
  <2>3. q \in ExecRow /\ q.state = exec[d].state /\ q.pos = exec[d].pos + 1
    BY <1>1, <2>2, ExecUpdates
  <2> HIDE DEF q
  <2> QED BY <1>3, <2>1, <2>3, ExecUpdates, FirstTry
<1> QED BY <1>2, <1>3

\* A step that returns has provided what it is there for.
LEMMA ReturnBuilds ==
  ASSUME TypeOK, Control, NEW d \in Deployment, Building(d), NEW w \in Who, Return(d, w)
  PROVE  Building(d)'
<1>1. /\ Now(d, w, "return", "none") /\ End(d, w, Returned(d))
      /\ UNCHANGED <<status, aws>>
  BY DEF Return
<1>2. inv[d][w] # Nobody
  BY <1>1 DEF Now
<1>3. /\ inv'[d][w] = Nobody /\ \A v \in Who : v # w => inv'[d][v] = inv[d][v]
      /\ exec'[d] = IF w = "run" THEN Returned(d) ELSE exec[d]
  BY <1>1, EndGone DEF Gone
<1>4. HeldBy(d)' = HeldBy(d)
  BY <1>1, HeldSame
<1>5. /\ \A v \in Who : inv[d][v] # Nobody => v = w
      /\ exec[d].state = "running" => w = "run" /\ inv[d][w].step = Chain[exec[d].pos]
      /\ w = "run" => exec[d].state \in {"running", "failing"}
      /\ w = "stray" => exec[d].state = "timed_out"
  BY <1>2, RunsAlone
<1>6. CASE exec'[d].state \notin {"none", "running"}
  BY <1>1, <1>2, <1>3, <1>4, <1>6, EndBuilds
<1>7. CASE exec'[d].state \in {"none", "running"}
  <2>1. w = "run" /\ exec[d].state = "running"
    BY <1>3, <1>5, <1>7, ReturnedRow DEF Who
  <2>2. /\ exec'[d].state = "running" /\ exec'[d].pos = exec[d].pos + 1
        /\ exec[d].pos # TailPos
    BY <1>3, <1>7, <2>1, NextStep
  <2>3. Provided(d, Chain[exec[d].pos])
    BY <1>1, <1>5, <2>1, ReturnProvides
  <2>4. \A s : Provided(d, s) => Provided(d, s)'
    BY <1>4 DEF Provided
  <2>5. ChainBuilt(d)'
    <3>1. exec[d].pos \in Nat
      BY DEF TypeOK
    <3>2. \A j \in 1 .. exec'[d].pos - 1 : j \in 1 .. exec[d].pos - 1 \/ j = exec[d].pos
      BY <2>2, <3>1
    <3> QED BY <2>1, <2>3, <2>4, <3>2 DEF Building, ChainBuilt
  <2>6. NeedsMet(d)'
    BY <1>4, <2>1, NeedsKept DEF Building
  <2>7. \A v \in Who : inv'[d][v] = Nobody
    BY <1>3, <1>5
  <2>8. status[d] # "succeeded"
    BY <2>1, <2>2 DEF Building, AtRest
  <2> QED BY <1>1, <2>2, <2>5, <2>6, <2>7, <2>8 DEF Building, StepBuilt, Who
<1> QED BY <1>6, <1>7

\* An instruction raises: the gateway step goes to its abort section, every
\* other invocation is over and its step is given up.
LEMMA RaiseBuilds ==
  ASSUME TypeOK, Control, NEW d \in Deployment, Building(d), NEW w \in Who,
         NEW op, NEW k, Now(d, w, op, k), RaiseFrom(d, w)
  PROVE  Building(d)'
<1>1. /\ inv[d][w] # Nobody /\ UNCHANGED <<status, aws>>
      /\ \/ inv[d][w].step = "gateway" /\ GoTo(d, w, AbortPc) /\ UNCHANGED exec
         \/ End(d, w, Caught(d))
  BY DEF RaiseFrom, Now
<1>2. AbortPc \in Nat \ {0}
  BY DEF AbortPc, GatewayBody
<1>3. HeldBy(d)' = HeldBy(d)
  BY <1>1, HeldSame
<1>4. CASE inv[d][w].step = "gateway" /\ GoTo(d, w, AbortPc) /\ UNCHANGED exec
  <2>1. At(d, w, AbortPc)
    BY <1>1, <1>2, <1>4, GoToAt
  <2>2. status'[d] # "succeeded"
    BY <1>1, <1>4, NotYet
  <2>3. exec[d].state = "running" => NeedsMet(d)'
    BY <1>3, NeedsKept DEF Building
  <2>4. ~(AbortPc < AbortPc)
    BY <1>2
  <2> QED BY <1>1, <1>3, <1>4, <2>1, <2>2, <2>3, <2>4, GoesOn
<1>5. CASE End(d, w, Caught(d))
  <2>1. /\ inv'[d][w] = Nobody /\ \A v \in Who : v # w => inv'[d][v] = inv[d][v]
        /\ exec'[d] = IF w = "run" THEN Caught(d) ELSE exec[d]
    BY <1>5, EndGone DEF Gone
  <2>2. exec'[d].state \notin {"none", "running"}
    BY <1>1, <2>1, CaughtRow, RunsAlone DEF Who
  <2> QED BY <1>1, <1>3, <2>1, <2>2, EndBuilds
<1> QED BY <1>1, <1>4, <1>5

\* A killed or failing invocation keeps Building,
LEMMA FailureBuilds ==
  ASSUME TypeOK, Control, NEW d \in Deployment, Building(d), NEW w \in Who, Failure(d, w)
  PROVE  Building(d)'
<1>1. CASE StepFails(d, w)
  <2>1. PICK op \in Ops, k \in Kind \cup {"none"} : Now(d, w, op, k) /\ RaiseFrom(d, w)
    BY <1>1 DEF StepFails, Ops
  <2> QED BY <2>1, RaiseBuilds
<1>2. CASE BeginFails(d, w)
  <2>1. /\ Now(d, w, "begin", "none") /\ inv[d][w] # Nobody
        /\ inv[d][w].step \notin {"status_update", "failure"}
        /\ \/ GoOn(d, w) /\ UNCHANGED <<handler, status, manifest, exec, event, aws>>
           \/ RaiseFrom(d, w)
    BY <1>2 DEF BeginFails, Now
  <2>2. CASE RaiseFrom(d, w)
    BY <2>1, <2>2, RaiseBuilds
  <2>3. CASE GoOn(d, w) /\ UNCHANGED <<handler, status, manifest, exec, event, aws>>
    <3>1. At(d, w, inv[d][w].pc + 1)
      BY <2>1, <2>3, GoOnAt
    <3>2. status'[d] # "succeeded"
      BY <2>1, <2>3, NotYet
    <3>3. "begin" \notin Created
      BY DEF Created
    <3> QED BY <2>1, <2>3, <3>1, <3>2, <3>3, HeldSame, PlainStep
  <2> QED BY <2>1, <2>2, <2>3
<1>3. CASE LastResort(d, w)
  BY <1>3, LastResortBuilds
<1> QED BY <1>1, <1>2, <1>3 DEF Failure

\* What leaves aws alone, by any instruction but those that create or delete.
LEMMA InstructionBuilds ==
  ASSUME TypeOK, OwnRows, Control, SharedKind \cap {"knowledge_base", "memory"} = {},
         NEW d \in Deployment, Building(d), NEW w \in Who,
         Instruction(d, w) \/ Failure(d, w)
  PROVE  Building(d)' /\ \A e \in Deployment : e # d => HeldBy(e)' = HeldBy(e)
<1>1. CASE Ensure(d, w) \/ Create(d, w) \/ Drop(d, w) \/ Sweep(d, w)
  BY <1>1, EnsureBuilds, CreateBuilds, DropBuilds, SweepBuilds
<1>2. CASE Begin(d, w) \/ Proceed(d, w) \/ Lookup(d, w) \/ Record(d, w) \/ Return(d, w)
             \/ WriteSucceeded(d, w) \/ WriteFailed(d, w) \/ Snapshot(d, w)
             \/ Swept(d, w) \/ Failure(d, w)
  <2>1. Building(d)'
    BY <1>2, BeginBuilds, PlainBuilds, LookupBuilds, ReturnBuilds, SucceededBuilds,
       SnapshotBuilds, FailureBuilds
  <2>2. UNCHANGED aws
    BY <1>2 DEF Begin, Proceed, Lookup, Record, Return, WriteSucceeded, WriteFailed,
       Snapshot, Swept, Failure, StepFails, BeginFails, LastResort, RaiseFrom
  <2> QED BY <2>1, <2>2, HeldSame
<1> QED BY <1>1, <1>2 DEF Instruction

-----------------------------------------------------------------------------
(* The handler and the state machine.                                      *)

\* so does the deploy handler,
LEMMA HandlerBuilds ==
  ASSUME TypeOK, Control, NEW d \in Deployment, Building(d), HandlerStep(d)
  PROVE  Building(d)'
<1>1. HeldBy(d)' = HeldBy(d) /\ UNCHANGED inv
  BY HeldSame DEF HandlerStep, CreateRecord, RejectLate, StartExecution, WritePending, StartFails
<1>2. CASE StartExecution(d)
  <2>1. /\ exec'[d] = [state |-> "running", pos |-> 1, try |-> 1]
        /\ UNCHANGED status /\ handler[d] = "created"
    BY <1>2 DEF StartExecution, TypeOK, Handle
  <2>2. exec[d].state = "none" /\ \A w \in Who : inv[d][w] = Nobody
    BY <2>1 DEF Control, ControlOf
  <2>3. HeldBy(d) = {} /\ status[d] # "succeeded"
    BY <2>2 DEF Building, AtRest
  <2>4. ChainBuilt(d)' /\ NeedsMet(d)'
    BY <1>1, <2>1, <2>3 DEF ChainBuilt, NeedsMet
  <2>5. StepBuilt(d)'
    BY <1>1, <2>2 DEF StepBuilt, Who
  <2> QED BY <1>1, <2>1, <2>2, <2>3, <2>4, <2>5 DEF Building, Who
<1>3. CASE ~StartExecution(d)
  <2>1. UNCHANGED exec /\ (status'[d] = status[d] \/ status'[d] \in {"pending", "failed"})
    BY <1>3 DEF HandlerStep, CreateRecord, RejectLate, WritePending, StartFails, TypeOK
  <2>2. /\ exec'[d] = exec[d] /\ (status'[d] = "succeeded" => status[d] = "succeeded")
        /\ \A w \in Who : inv'[d][w] = inv[d][w]
    BY <1>1, <2>1
  <2> QED BY <1>1, <2>2, BuildingSame
<1> QED BY <1>2, <1>3

\* When every step before the last has provided what it is there for, so has
\* the deployment.
LEMMA GoalsFromChain ==
  ASSUME NEW d \in Deployment, exec[d].pos = TailPos, ChainBuilt(d)
  PROVE  Goals[d] \subseteq HeldBy(d)
<1> SUFFICES ASSUME NEW k \in Goals[d] PROVE k \in HeldBy(d)
  OBVIOUS
<1>1. PICK s \in Step :
        /\ k \in Kind \ SharedKind /\ Planned(d, s)
        /\ \E i \in DOMAIN Program[d][s] : Program[d][s][i] \in Providing(k)
  BY DEF Goals, Providing
<1>2. s \notin {"status_update", "failure"}
  BY <1>1, ProvidersInside
<1>3. PICK j \in 1 .. TailPos : s = Chain[j]
  BY <1>2 DEF Step
<1>4. j # TailPos
  BY <1>2, <1>3, ChainPlaces
<1>5. j \in 1 .. exec[d].pos - 1
  BY <1>3, <1>4 DEF TailPos
<1> QED BY <1>1, <1>3, <1>5 DEF ChainBuilt, Provided

\* the choice that skips a step not planned,
LEMMA SkipBuilds ==
  ASSUME TypeOK, Control, NEW d \in Deployment, Building(d), Skip(d)
  PROVE  Building(d)'
<1>1. /\ inv[d]["run"] = Nobody /\ exec[d].state = "running"
      /\ ~Planned(d, Chain[exec[d].pos])
      /\ UNCHANGED <<status, inv, aws>>
  BY DEF Skip, Waiting, Current
<1>2. exec'[d].state = "running" /\ exec'[d].pos = exec[d].pos + 1
  <2> DEFINE q == [exec[d] EXCEPT !.pos = exec[d].pos + 1]
             r == [q EXCEPT !.try = 1]
  <2>1. exec[d] \in ExecRow /\ exec \in [Deployment -> ExecRow]
    BY DEF TypeOK, ExecRow
  <2>2. exec[d].pos + 1 \in 1 .. TailPos
    BY <1>1, <2>1, TailPlanned DEF ExecRow, TailPos
  <2>3. exec' = [exec EXCEPT ![d] = r]
    BY <2>1 DEF Skip
  <2>4. q \in ExecRow /\ q.state = "running" /\ q.pos = exec[d].pos + 1
    BY <1>1, <2>1, <2>2, ExecUpdates
  <2> HIDE DEF q
  <2>5. r.state = "running" /\ r.pos = exec[d].pos + 1
    BY <2>4, ExecUpdates, FirstTry
  <2> HIDE DEF r
  <2> QED BY <2>1, <2>3, <2>5
<1>3. HeldBy(d)' = HeldBy(d)
  BY <1>1, HeldSame
<1>4. \A w \in Who : inv[d][w] = Nobody
  BY <1>1 DEF Building, Who
<1>5. ChainBuilt(d)'
  <2>1. exec[d].pos \in Nat
    BY DEF TypeOK
  <2>2. \A j \in 1 .. exec'[d].pos - 1 : j \in 1 .. exec[d].pos - 1 \/ j = exec[d].pos
    BY <1>2, <2>1
  <2>3. \A s : Provided(d, s) => Provided(d, s)'
    BY <1>3 DEF Provided
  <2> QED BY <1>1, <2>2, <2>3 DEF Building, ChainBuilt
<1>6. NeedsMet(d)'
  BY <1>1, <1>3, NeedsKept DEF Building
<1>7. status[d] # "succeeded"
  BY <1>1, TailPlanned DEF Building, AtRest
<1> QED BY <1>1, <1>2, <1>4, <1>5, <1>6, <1>7 DEF Building, StepBuilt, Who

\* and the start of an invocation.
LEMMA InvokeBuilds ==
  ASSUME TypeOK, Control, NEW d \in Deployment, Building(d), Invoke(d)
  PROVE  Building(d)'
<1> DEFINE i == Invoked(Current(d), exec[d].try)
<1>1. /\ exec[d].state \in {"running", "failing"} /\ UNCHANGED <<status, exec, aws>>
      /\ inv[d]["run"] = Nobody /\ inv' = [inv EXCEPT ![d]["run"] = i]
  BY DEF Invoke, Waiting
<1>2. inv'[d]["run"] = i /\ inv'[d]["stray"] = Nobody
  BY <1>1 DEF TypeOK, Who, Building
<1>3. i.step = Current(d) /\ i.pc = 1
  BY DEF Invoked
<1> HIDE DEF i
<1>4. HeldBy(d)' = HeldBy(d)
  BY <1>1, HeldSame
<1>5. /\ exec[d].state = "running" => i.step = Chain[exec[d].pos]
      /\ exec[d].state = "failing" => i.step = "failure"
  BY <1>3 DEF Current
<1>6. i.step = "status_update" => Goals[d] \subseteq HeldBy(d)
  <2> SUFFICES ASSUME i.step = "status_update" PROVE Goals[d] \subseteq HeldBy(d)
    OBVIOUS
  <2>1. exec[d].state = "running" /\ exec[d].pos = TailPos
    BY <1>1, <1>5, ChainPlaces DEF TypeOK
  <2> QED BY <2>1, GoalsFromChain DEF Building
<1>7. exec[d].state = "running" => ChainBuilt(d)' /\ NeedsMet(d)'
  <2>1. \A s : Provided(d, s) => Provided(d, s)'
    BY <1>4 DEF Provided
  <2> QED BY <1>1, <1>4, <2>1, NeedsKept DEF Building, ChainBuilt
<1>8. StepBuilt(d)'
  <2>1. i.step \in Step
    BY <1>1, <1>5, ChainSteps DEF TypeOK, Step
  <2>2. UpTo(d, i.step, 1, HeldBy(d))
    <3>1. \A j \in DOMAIN Program[d][i.step] : j \in Nat /\ j >= 1
      BY <2>1, Anatomy
    <3> QED BY <3>1 DEF UpTo
  <2> QED BY <1>2, <1>3, <1>4, <2>2 DEF StepBuilt
<1>9. status[d] = "succeeded" => AtRest(d)'
  <2> SUFFICES ASSUME status[d] = "succeeded" PROVE AtRest(d)'
    OBVIOUS
  <2>1. AtRest(d)
    BY DEF Building
  <2>2. exec[d].state = "running" => i.step = "status_update"
    BY <1>5, <2>1, ChainPlaces DEF AtRest, TailPos
  <2> QED BY <1>1, <1>2, <1>3, <1>4, <1>5, <2>1, <2>2 DEF AtRest, Who
<1> QED BY <1>1, <1>2, <1>4, <1>6, <1>7, <1>8, <1>9 DEF Building, Who

\* Without overlapping invocations only the time limit of the execution leaves
\* one behind.
LEMMA OutageBuilds ==
  ASSUME TypeOK, Control, "overlap" \notin Faults,
         NEW d \in Deployment, Building(d), Outage(d)
  PROVE  Building(d)'
<1>0. UNCHANGED <<status, aws>>
  BY DEF Outage, TimerFires, Crash, MachineTimeout, StrayDies
<1>1. HeldBy(d)' = HeldBy(d)
  BY <1>0, HeldSame
<1>r. "run" \in Who /\ "stray" \in Who
  BY DEF Who
<1>2. CASE TimerFires(d) \/ Crash(d)
  <2>1. inv[d]["run"] # Nobody /\ inv' = [inv EXCEPT ![d] = Alone(d)]
    BY <1>2 DEF TimerFires, Crash, Killable, Fault
  <2>2. /\ inv'[d]["run"] = Nobody
        /\ \A v \in Who : v # "run" => inv'[d][v] = inv[d][v]
    BY <2>1, GivenUpRuns DEF TypeOK, Who
  <2>3. exec[d].state \in {"running", "failing"} /\ \A v \in Who : inv'[d][v] = Nobody
    BY <1>r, <2>1, <2>2, RunsAlone
  <2>4. CASE exec' = [exec EXCEPT ![d] = Caught(d)]
    <3>1. exec'[d] = Caught(d)
      BY <2>4 DEF TypeOK
    <3>2. exec'[d].state \notin {"none", "running"}
      BY <3>1, CaughtRow
    <3> QED BY <1>0, <1>1, <1>r, <2>1, <2>2, <3>2, EndBuilds
  <2>5. CASE exec[d].try < MaxAttempts /\ exec' = [exec EXCEPT ![d].try = @ + 1]
    <3>1. exec'[d].state = exec[d].state /\ exec'[d].pos = exec[d].pos
      <4>1. exec[d] \in ExecRow /\ exec \in [Deployment -> ExecRow]
        BY DEF TypeOK, ExecRow
      <4>2. exec[d].try + 1 \in 1 .. MaxAttempts
        BY <2>5, <4>1, PipelineAssumption DEF ExecRow
      <4>3. exec'[d] = [exec[d] EXCEPT !.try = exec[d].try + 1]
        BY <2>5, <4>1
      <4> QED BY <4>1, <4>2, <4>3, ExecUpdates
    <3>2. exec[d].state = "running" => ChainBuilt(d)' /\ NeedsMet(d)'
      <4>1. \A s : Provided(d, s) => Provided(d, s)'
        BY <1>1 DEF Provided
      <4> QED BY <1>1, <3>1, <4>1, NeedsKept DEF Building, ChainBuilt
    <3>3. StepBuilt(d)'
      BY <2>2 DEF StepBuilt
    <3>4. status[d] = "succeeded" => AtRest(d)'
      BY <1>1, <2>3, <3>1 DEF Building, AtRest
    <3> QED BY <1>0, <1>r, <2>3, <3>1, <3>2, <3>3, <3>4 DEF Building
  <2> QED BY <1>2, <2>4, <2>5 DEF TimerFires, Crash
<1>3. CASE MachineTimeout(d)
  <2>1. /\ exec'[d].state = "timed_out" /\ exec[d].state \in {"running", "failing"}
        /\ inv' = IF inv[d]["run"] = Nobody THEN inv ELSE [inv EXCEPT ![d] = Stray(d)]
    BY <1>3 DEF MachineTimeout, TypeOK
  <2>2. inv[d]["stray"] = Nobody
    BY <2>1 DEF Building
  <2>3. /\ inv'[d]["run"] = Nobody
        /\ inv'[d]["stray"] = inv[d]["run"]
    BY <2>1, <2>2, GivenUpRuns DEF TypeOK
  <2>4. \A v \in Who : inv'[d][v] # Nobody => inv'[d][v] = inv[d]["run"] /\ inv[d]["run"] # Nobody
    BY <2>3 DEF Who
  <2>5. status[d] = "succeeded" => AtRest(d)'
    BY <1>1, <1>r, <2>1, <2>4 DEF Building, AtRest
  <2>6. \A v \in Who : inv'[d][v] # Nobody /\ inv'[d][v].step = "status_update" =>
          Goals[d] \subseteq HeldBy(d)
    BY <1>r, <2>4 DEF Building
  <2> QED BY <1>0, <1>1, <2>1, <2>5, <2>6 DEF Building
<1>4. CASE StrayDies(d)
  <2>1. /\ inv[d]["stray"] # Nobody /\ inv'[d]["stray"] = Nobody /\ UNCHANGED exec
        /\ \A v \in Who : v # "stray" => inv'[d][v] = inv[d][v]
    BY <1>4 DEF StrayDies, TypeOK, Who
  <2>2. exec[d].state = "timed_out"
    BY <2>1 DEF Building
  <2> QED BY <1>0, <1>1, <1>r, <2>1, <2>2, EndBuilds
<1> QED BY <1>2, <1>3, <1>4 DEF Outage

\* No step of one deployment writes the record, the execution or the invocations
\* of another.
LEMMA OthersSame ==
  ASSUME TypeOK, NEW d \in Deployment, NEW e \in Deployment, e # d,
         \/ HandlerStep(d) \/ MachineStep(d) \/ Outage(d)
         \/ \E w \in Who : Instruction(d, w) \/ Failure(d, w)
  PROVE  /\ exec'[e] = exec[e] /\ status'[e] = status[e]
         /\ \A v \in Who : inv'[e][v] = inv[e][v]
<1>1. CASE HandlerStep(d)
  BY <1>1 DEF HandlerStep, CreateRecord, RejectLate, StartExecution, WritePending,
     StartFails, TypeOK
<1>2. CASE Skip(d)
  BY <1>2, SkipExec DEF Skip
<1>3. CASE Invoke(d)
  BY <1>3 DEF Invoke, TypeOK
<1>4. CASE Outage(d)
  BY <1>4, OutageLoses DEF Lost
<1>5. ASSUME NEW w \in Who, Instruction(d, w) \/ Failure(d, w)
      PROVE  /\ exec'[e] = exec[e] /\ status'[e] = status[e]
             /\ \A v \in Who : inv'[e][v] = inv[e][v]
  <2>1. /\ exec'[e] = exec[e]
        /\ \A v \in Who : inv'[e][v] = inv[e][v]
    BY <1>5, InstructionMoves DEF Stepped, Moved, Finished
  <2>2. status'[e] = status[e]
    BY <1>5 DEF TypeOK, Instruction, Failure, Begin, Proceed, Ensure, Create, Lookup,
       Record, Drop, Return, WriteSucceeded, WriteFailed, Snapshot, Sweep, Swept,
       StepFails, BeginFails, RaiseFrom, LastResort
  <2> QED BY <2>1, <2>2
<1> QED BY <1>1, <1>2, <1>3, <1>4, <1>5 DEF MachineStep

\* Every step keeps Building.
LEMMA BuildingNext ==
  ASSUME TypeOK, OwnRows, Control, \A d \in Deployment : Building(d), [Next]_vars,
         "overlap" \notin Faults, SharedKind \cap {"knowledge_base", "memory"} = {},
         NEW e \in Deployment
  PROVE  Building(e)'
<1>1. CASE UNCHANGED vars
  BY <1>1, HeldSame, BuildingSame DEF vars
<1>2. ASSUME NEW d \in Deployment,
             \/ HandlerStep(d) \/ MachineStep(d) \/ Outage(d)
             \/ \E w \in Who : Instruction(d, w) \/ Failure(d, w)
      PROVE  Building(e)'
  <2>1. Building(d)' /\ \A f \in Deployment : f # d => HeldBy(f)' = HeldBy(f)
    <3>1. CASE HandlerStep(d) \/ MachineStep(d) \/ Outage(d)
      <4>1. UNCHANGED aws
        BY <3>1 DEF HandlerStep, CreateRecord, RejectLate, StartExecution, WritePending,
           StartFails, MachineStep, Skip, Invoke, Outage, TimerFires, Crash,
           MachineTimeout, StrayDies
      <4>2. Building(d)'
        BY <3>1, HandlerBuilds, SkipBuilds, InvokeBuilds, OutageBuilds DEF MachineStep
      <4> QED BY <4>1, <4>2, HeldSame
    <3>2. ASSUME NEW w \in Who, Instruction(d, w) \/ Failure(d, w)
          PROVE  Building(d)' /\ \A f \in Deployment : f # d => HeldBy(f)' = HeldBy(f)
      BY <3>2, InstructionBuilds
    <3> QED BY <1>2, <3>1, <3>2
  <2>2. CASE e # d
    BY <1>2, <2>1, <2>2, OthersSame, BuildingSame
  <2> QED BY <2>1, <2>2
<1> QED BY <1>1, <1>2 DEF Next

\* Nothing is built at first.
LEMMA BuildingInit ==
  ASSUME Init, NEW d \in Deployment
  PROVE  Building(d)
<1>1. /\ exec[d].state = "none" /\ status[d] = "none" /\ HeldBy(d) = {}
      /\ \A w \in Who : inv[d][w] = Nobody
  BY DEF Init, HeldBy
<1> QED BY <1>1 DEF Building, Who

\* A record that says succeeded is of a deployment that is whole: whatever was
\* killed, retried, adopted or lost on the way, and whatever other deployments
\* delete, everything its plan provides under names of its own exists.  No
\* invocation runs beside its retry, and the names of knowledge bases and memories
\* are the deployment's own: a lookup that finds another one's skips the role
\* or store that the step would have made.
THEOREM SucceededWhole ==
  ASSUME "overlap" \notin Faults, SharedKind \cap {"knowledge_base", "memory"} = {}
  PROVE  Spec => []SucceededIsWhole
<1> DEFINE Built == \A d \in Deployment : Building(d)
           IInv == TypeOK /\ OwnRows /\ Control /\ Built
<1>1. Init => IInv
  BY TypeInit, OwnInit, ControlInit, BuildingInit
<1>2. IInv /\ [Next]_vars => IInv'
  <2>1. IInv /\ [Next]_vars => Built'
    BY BuildingNext
  <2> QED BY <2>1, TypeNext, OwnNext, ControlNext
<1>3. IInv => SucceededIsWhole
  BY DEF Building, AtRest, SucceededIsWhole
<1> QED BY <1>1, <1>2, <1>3, PTL DEF Spec

-----------------------------------------------------------------------------
(* What the record says.                                                   *)

Tails == {"status_update", "failure"}

\* What it says when an invocation of step s is at pc.
Due(s, pc) ==
  IF pc = 1 THEN {"pending", "in_progress"}
  ELSE IF pc > 2 /\ s = "failure" THEN {"failed"}
  ELSE IF pc > 2 /\ s = "status_update" THEN {"succeeded"}
  ELSE {"in_progress"}

\* The inductive invariant behind KeepsPromise.
Saying(d) ==
  /\ handler[d] = "idle" => status[d] = "none"
  /\ handler[d] = "created" => status[d] = "pending"
  /\ handler[d] # "started"
  /\ exec[d].state \in {"running", "failing"} /\ inv[d]["run"] = Nobody =>
       status[d] \in {"pending", "in_progress"}
  /\ \A w \in Who : inv[d][w] # Nobody =>
       status[d] \in Due(inv[d][w].step, inv[d][w].pc)

\* Where the instructions of the last two handlers are, and that no other step
\* has them.
LEMMA TailOps ==
  ASSUME TypeOK, NEW d \in Deployment, NEW w \in Who, NEW op, NEW k, Now(d, w, op, k)
  PROVE  LET i == inv[d][w]
         IN  /\ i # Nobody /\ i.pc \in Nat \ {0} /\ i.step \in Step
             /\ op # "begin" => i.pc # 1
             /\ op = "succeed" => i.step = "status_update"
             /\ op \in {"fail", "snapshot", "sweep"} => i.step = "failure"
             /\ i.step = "status_update" =>
                  \/ i.pc = 1 /\ op = "begin"
                  \/ i.pc = 2 /\ op = "succeed"
                  \/ i.pc = 3 /\ op = "return"
             /\ i.step = "failure" =>
                  \/ i.pc = 1 /\ op = "begin"
                  \/ i.pc = 2 /\ op = "fail"
                  \/ i.pc = 3 /\ op = "snapshot"
                  \/ i.pc = 4 /\ op = "sweep"
                  \/ i.pc = 5 /\ op = "return"
<1> DEFINE i == inv[d][w]
           p == Program[d][i.step]
<1>1. /\ i # Nobody /\ i.step \in Step /\ i.pc \in Nat \ {0} /\ i.pc \in DOMAIN p
      /\ p[i.pc] = I(op, k) /\ I(op, k) \in Allowed(i.step)
  BY NowIs
<1>2. p[i.pc].op = op
  BY <1>1 DEF I
<1>3. p[1] = I("begin", "none")
  BY <1>1, Layout
<1>4. op # "begin" => i.pc # 1
  BY <1>2, <1>3 DEF I
<1>5. op \in {"succeed", "fail", "snapshot"} => I(op, k) \in Inner(i.step)
  <2>1. ASSUME op \in {"succeed", "fail", "snapshot"}
        PROVE  I(op, k) \in Inner(i.step)
    <3>1. I(op, k) # I("begin", "none") /\ I(op, k) # I("return", "none")
      BY <2>1 DEF I
    <3>2. \A j \in 1 .. 5 : GatewayAbort[j] # I(op, k)
      BY <2>1 DEF GatewayAbort, I
    <3> QED BY <1>1, <3>1, <3>2, Anatomy
  <2> QED BY <2>1
<1>6. /\ op = "succeed" => i.step = "status_update"
      /\ op \in {"fail", "snapshot"} => i.step = "failure"
  BY <1>5 DEF Inner, I
<1>7. op = "sweep" => i.step = "failure"
  BY <1>1 DEF Allowed, I
<1>8. CASE i.step = "status_update"
  <2>1. i.pc \in 1 .. 3
    BY <1>1, <1>8, TailPrograms
  <2> HIDE DEF i, p
  <2>2. /\ p[1].op = "begin" /\ p[2].op = "succeed" /\ p[3].op = "return"
    BY <1>8, TailPrograms DEF I, p
  <2>3. i.pc = 1 \/ i.pc = 2 \/ i.pc = 3
    BY <2>1
  <2> QED BY <1>1, <1>2, <1>4, <1>6, <1>7, <1>8, <2>2, <2>3 DEF i
<1>9. CASE i.step = "failure"
  <2>1. i.pc \in 1 .. 5
    BY <1>1, <1>9, TailPrograms
  <2> HIDE DEF i, p
  <2>2. /\ p[1].op = "begin" /\ p[2].op = "fail" /\ p[3].op = "snapshot"
        /\ p[4].op = "sweep" /\ p[5].op = "return"
    BY <1>9, TailPrograms DEF I, p
  <2>3. i.pc = 1 \/ i.pc = 2 \/ i.pc = 3 \/ i.pc = 4 \/ i.pc = 5
    BY <2>1
  <2> QED BY <1>1, <1>2, <1>4, <1>6, <1>7, <1>9, <2>2, <2>3 DEF i
<1> QED BY <1>1, <1>4, <1>6, <1>7, <1>8, <1>9

\* Who changes nothing of d that Saying reads keeps it.
LEMMA SayingSame ==
  ASSUME NEW d \in Deployment, Saying(d), handler'[d] = handler[d], exec'[d] = exec[d],
         status'[d] = status[d], \A w \in Who : inv'[d][w] = inv[d][w]
  PROVE  Saying(d)'
BY DEF Saying, Who

\* Whoever is at work keeps the deploy handler from writing the record.
LEMMA Replied ==
  ASSUME TypeOK, Control, NEW d \in Deployment, Building(d), NEW w \in Who,
         inv[d][w] # Nobody
  PROVE  handler[d] \notin {"idle", "created"}
BY RunsAlone DEF Control, ControlOf

\* An instruction of a step before the last two handlers, or its end.
LEMMA SayingInside ==
  ASSUME TypeOK, Control, NEW d \in Deployment, Building(d), Saying(d), NEW w \in Who,
         inv[d][w] # Nobody, inv[d][w].step \notin Tails, status'[d] = "in_progress",
         Stepped(d, w) \/ Finished(d, w)
  PROVE  Saying(d)'
<1>1. /\ \A v \in Who : v # w => inv[d][v] = Nobody
      /\ w = "stray" => exec[d].state = "timed_out"
      /\ handler[d] \notin {"idle", "created", "started"}
  BY RunsAlone, Replied DEF Saying
<1>2. \A s, pc : s \notin Tails => "in_progress" \in Due(s, pc)
  BY DEF Due, Tails
<1>3. /\ UNCHANGED handler
      /\ \A v \in Who : v # w => inv'[d][v] = Nobody
      /\ inv'[d][w] # Nobody => inv'[d][w].step = inv[d][w].step
  BY <1>1 DEF Stepped, Moved, Finished
<1> QED BY <1>1, <1>2, <1>3 DEF Saying

\* An instruction of one of those.
LEMMA SayingTail ==
  ASSUME TypeOK, Control, NEW d \in Deployment, Building(d), Saying(d), NEW w \in Who,
         inv[d][w] # Nobody, NEW pc, At(d, w, pc), UNCHANGED <<handler, exec>>,
         status'[d] \in Due(inv[d][w].step, pc)
  PROVE  Saying(d)'
<1>1. /\ \A v \in Who : v # w => inv[d][v] = Nobody
      /\ w = "stray" => exec[d].state = "timed_out"
      /\ handler[d] \notin {"idle", "created", "started"}
  BY RunsAlone, Replied DEF Saying
<1>2. /\ inv'[d][w] # Nobody /\ inv'[d][w].step = inv[d][w].step /\ inv'[d][w].pc = pc
      /\ \A v \in Who : v # w => inv'[d][v] = Nobody
  BY <1>1 DEF At
<1> QED BY <1>1, <1>2 DEF Saying, Who

\* What the record says while an instruction is executed.
LEMMA NowSays ==
  ASSUME TypeOK, NEW d \in Deployment, Saying(d), NEW w \in Who, NEW op, NEW k,
         Now(d, w, op, k)
  PROVE  /\ op = "begin" => status[d] \in {"pending", "in_progress"}
         /\ op # "begin" /\ inv[d][w].step \notin Tails => status[d] = "in_progress"
         /\ op \in {"succeed", "fail"} => status[d] = "in_progress"
         /\ op \in {"snapshot", "sweep"} => status[d] = "failed"
<1>1. inv[d][w] # Nobody /\ status[d] \in Due(inv[d][w].step, inv[d][w].pc)
  BY TailOps DEF Saying
<1> QED BY <1>1, TailOps DEF Due, Tails

\* Instructions keep Saying,
LEMMA SayingInstruction ==
  ASSUME TypeOK, Control, Faults \cap {"store", "tail"} = {},
         NEW d \in Deployment, Building(d), Saying(d), NEW w \in Who,
         Instruction(d, w) \/ Failure(d, w)
  PROVE  Saying(d)'
<1>1. (Stepped(d, w) \/ Finished(d, w)) /\ UNCHANGED handler
  BY InstructionMoves DEF Stepped, Finished
<1>2. inv[d][w] # Nobody
  BY <1>1 DEF Stepped, Finished
<1>3. ~BeginFails(d, w) /\ ~LastResort(d, w)
  BY DEF BeginFails, LastResort, Fault
<1>4. CASE inv[d][w].step \notin Tails
  <2>1. CASE Begin(d, w)
    BY <1>1, <1>2, <1>4, <2>1, SayingInside DEF Begin, TypeOK
  <2>2. CASE WriteSucceeded(d, w) \/ WriteFailed(d, w) \/ Snapshot(d, w) \/ Sweep(d, w)
               \/ Swept(d, w)
    BY <1>4, <2>2, TailOps DEF WriteSucceeded, WriteFailed, Snapshot, Sweep, Swept, Tails
  <2>3. CASE Proceed(d, w) \/ Ensure(d, w) \/ Create(d, w) \/ Lookup(d, w) \/ Record(d, w)
               \/ Drop(d, w) \/ Return(d, w) \/ StepFails(d, w)
    <3>1. PICK op \in Ops \ {"begin"}, k \in Kind \cup {"none"} : Now(d, w, op, k)
      BY <2>3 DEF Proceed, Ensure, Create, Lookup, Record, Drop, Return, StepFails, Ops
    <3>2. status[d] = "in_progress"
      BY <1>4, <3>1, NowSays
    <3>3. UNCHANGED status
      BY <2>3 DEF Proceed, Ensure, Create, Lookup, Record, Drop, Return, StepFails, RaiseFrom
    <3> QED BY <1>1, <1>2, <1>4, <3>2, <3>3, SayingInside
  <2> QED BY <1>3, <2>1, <2>2, <2>3 DEF Instruction, Failure
<1>5. CASE inv[d][w].step \in Tails
  <2>1. CASE Begin(d, w)
    <3>1. /\ Now(d, w, "begin", "none") /\ GoOn(d, w) /\ UNCHANGED <<handler, exec>>
          /\ status'[d] = "in_progress"
      BY <2>1 DEF Begin, TypeOK
    <3>2. inv[d][w].pc = 1
      BY <1>5, <3>1, TailOps DEF Tails
    <3>3. At(d, w, 2)
      BY <1>2, <3>1, <3>2, GoOnAt
    <3> QED BY <1>2, <3>1, <3>3, SayingTail DEF Due
  <2>2. CASE WriteSucceeded(d, w)
    <3>1. /\ Now(d, w, "succeed", "none") /\ GoOn(d, w) /\ UNCHANGED <<handler, exec>>
          /\ status'[d] = "succeeded"
      BY <2>2 DEF WriteSucceeded, TypeOK
    <3>2. inv[d][w].pc = 2 /\ inv[d][w].step = "status_update"
      BY <3>1, TailOps
    <3>3. At(d, w, 3)
      BY <1>2, <3>1, <3>2, GoOnAt
    <3> QED BY <1>2, <3>1, <3>2, <3>3, SayingTail DEF Due
  <2>3. CASE WriteFailed(d, w)
    <3>1. /\ Now(d, w, "fail", "none") /\ GoOn(d, w) /\ UNCHANGED <<handler, exec>>
          /\ status'[d] = "failed"
      BY <2>3 DEF WriteFailed, TypeOK
    <3>2. inv[d][w].pc = 2 /\ inv[d][w].step = "failure"
      BY <3>1, TailOps
    <3>3. At(d, w, 3)
      BY <1>2, <3>1, <3>2, GoOnAt
    <3> QED BY <1>2, <3>1, <3>2, <3>3, SayingTail DEF Due
  <2>4. CASE Snapshot(d, w) \/ Sweep(d, w) \/ Swept(d, w)
    <3>1. PICK op \in {"snapshot", "sweep"} : Now(d, w, op, "none")
      BY <2>4 DEF Snapshot, Sweep, Swept
    <3>2. /\ inv[d][w].step = "failure" /\ inv[d][w].pc \in {3, 4}
          /\ status[d] = "failed" /\ UNCHANGED <<handler, exec, status>>
      BY <2>4, <3>1, TailOps, NowSays DEF Snapshot, Sweep, Swept
    <3>3. \E pc \in {3, 4, 5} : At(d, w, pc)
      <4>1. CASE Snapshot(d, w)
        <5>1. inv' = [inv EXCEPT ![d][w].pc = @ + 1, ![d][w].todo = manifest[d]]
          BY <4>1 DEF Snapshot, Fault
        <5>2. manifest[d] \in SUBSET Resource
          BY DEF TypeOK
        <5>3. At(d, w, inv[d][w].pc + 1)
          BY <1>2, <5>1, <5>2, TodoAt
        <5> QED BY <3>2, <5>3
      <4>2. CASE Sweep(d, w)
        <5>1. PICK row \in inv[d][w].todo :
                inv' = [inv EXCEPT ![d][w].todo = @ \ {row}]
          BY <4>2 DEF Sweep
        <5>2. inv' = [inv EXCEPT ![d][w].todo = inv[d][w].todo \ {row}]
          BY <5>1
        <5>3. inv[d][w].todo \ {row} \in SUBSET Resource
          BY <1>2, Known
        <5> QED BY <1>2, <3>2, <5>2, <5>3, TodoAt
      <4>3. CASE Swept(d, w)
        BY <1>2, <3>2, <4>3, GoOnAt DEF Swept
      <4> QED BY <2>4, <4>1, <4>2, <4>3
    <3> QED BY <1>2, <3>2, <3>3, SayingTail DEF Due
  <2>5. CASE Return(d, w)
    <3>1. /\ Now(d, w, "return", "none") /\ End(d, w, Returned(d))
          /\ UNCHANGED <<handler, status>>
      BY <2>5 DEF Return
    <3>2. /\ inv'[d][w] = Nobody /\ \A v \in Who : v # w => inv'[d][v] = inv[d][v]
          /\ exec'[d] = IF w = "run" THEN Returned(d) ELSE exec[d]
      BY <3>1, EndGone DEF Gone
    <3>3. /\ \A v \in Who : inv[d][v] # Nobody => v = w
          /\ w = "run" => exec[d].state \in {"running", "failing"}
          /\ w = "stray" => exec[d].state = "timed_out"
          /\ exec[d].state = "running" => inv[d][w].step = Chain[exec[d].pos]
      BY <1>2, RunsAlone
    <3>4. exec[d].state = "running" => exec[d].pos = TailPos
      BY <1>5, <3>3, ChainSteps, ChainPlaces DEF Tails, TypeOK
    <3>5. exec'[d].state \notin {"running", "failing"}
      BY <3>2, <3>3, <3>4, ReturnedRow, NextStep DEF Who
    <3> QED BY <1>2, <3>1, <3>2, <3>3, <3>5, Replied DEF Saying
  <2>6. CASE Proceed(d, w) \/ Ensure(d, w) \/ Create(d, w) \/ Lookup(d, w) \/ Record(d, w)
               \/ Drop(d, w) \/ StepFails(d, w)
    <3>1. PICK op \in Ops \ {"begin", "succeed", "fail", "snapshot", "sweep", "return"},
               k \in Kind \cup {"none"} : Now(d, w, op, k)
      BY <2>6 DEF Proceed, Ensure, Create, Lookup, Record, Drop, StepFails, Ops
    <3> QED BY <1>5, <3>1, TailOps DEF Tails
  <2> QED BY <1>3, <2>1, <2>2, <2>3, <2>4, <2>5, <2>6 DEF Instruction, Failure
<1> QED BY <1>4, <1>5

\* so does the deploy handler, unless its PENDING write comes late,
LEMMA SayingHandler ==
  ASSUME TypeOK, Control, "ack" \notin Faults, NEW d \in Deployment, Building(d), Saying(d),
         HandlerStep(d)
  PROVE  Saying(d)'
<1>1. UNCHANGED inv
  BY DEF HandlerStep, CreateRecord, RejectLate, StartExecution, WritePending, StartFails
<1>2. handler[d] \in {"idle", "created"}
  BY DEF HandlerStep, CreateRecord, RejectLate, StartExecution, WritePending, StartFails,
     Handle, Saying
<1>3. exec[d].state = "none" /\ \A w \in Who : inv[d][w] = Nobody
  BY <1>2 DEF Control, ControlOf
<1>4. CASE StartExecution(d)
  <2>1. /\ handler'[d] = "replied" /\ status'[d] = status[d] /\ handler[d] = "created"
    BY <1>4 DEF StartExecution, Handle, TypeOK, Fault
  <2> QED BY <1>1, <1>3, <2>1 DEF Saying
<1>5. CASE CreateRecord(d)
  <2>1. /\ handler'[d] = "created" /\ status'[d] = "pending" /\ UNCHANGED exec
    BY <1>5 DEF CreateRecord, Handle, TypeOK
  <2> QED BY <1>1, <1>3, <2>1 DEF Saying
<1>6. CASE RejectLate(d) \/ StartFails(d)
  <2>1. /\ handler'[d] = "rejected" /\ UNCHANGED exec
    BY <1>6 DEF RejectLate, StartFails, Handle, TypeOK
  <2> QED BY <1>1, <1>3, <2>1 DEF Saying
<1>7. ~WritePending(d)
  BY DEF WritePending, Handle, Saying
<1> QED BY <1>4, <1>5, <1>6, <1>7 DEF HandlerStep

\* the machine,
LEMMA SayingMachine ==
  ASSUME TypeOK, NEW d \in Deployment, Building(d), Saying(d), MachineStep(d)
  PROVE  Saying(d)'
<1>1. /\ UNCHANGED <<handler, status>> /\ inv[d]["run"] = Nobody
      /\ exec[d].state \in {"running", "failing"}
  BY DEF MachineStep, Skip, Invoke, Waiting
<1>2. inv[d]["stray"] = Nobody /\ status[d] \in {"pending", "in_progress"}
  BY <1>1 DEF Building, Saying
<1>3. CASE Skip(d)
  BY <1>1, <1>2, <1>3 DEF Skip, Saying
<1>4. CASE Invoke(d)
  <2>1. /\ inv'[d]["run"] = Invoked(Current(d), exec[d].try) /\ inv'[d]["stray"] = Nobody
        /\ UNCHANGED exec
    BY <1>2, <1>4 DEF Invoke, TypeOK, Who
  <2>2. \A w \in Who : inv'[d][w] # Nobody => inv'[d][w].pc = 1
    BY <2>1 DEF Who, Invoked
  <2> QED BY <1>1, <1>2, <2>1, <2>2 DEF Saying, Due
<1> QED BY <1>3, <1>4 DEF MachineStep

\* what kills an invocation or ends an execution,
LEMMA SayingOutage ==
  ASSUME TypeOK, Control, Faults \cap {"overlap", "tail"} = {},
         NEW d \in Deployment, Building(d), Saying(d), Outage(d)
  PROVE  Saying(d)'
<1>1. UNCHANGED <<handler, status>>
  BY DEF Outage, TimerFires, Crash, MachineTimeout, StrayDies
<1>r. "run" \in Who /\ "stray" \in Who
  BY DEF Who
<1>2. CASE TimerFires(d) \/ Crash(d)
  <2>1. /\ inv[d]["run"] # Nobody /\ inv' = [inv EXCEPT ![d] = Alone(d)]
        /\ inv[d]["run"].step \notin Tails
    BY <1>2 DEF TimerFires, Crash, Killable, Fault, Tails
  <2>2. \A v \in Who : inv'[d][v] = Nobody
    BY <1>r, <2>1, GivenUpRuns, RunsAlone DEF TypeOK, Who
  <2>3. status[d] \in {"pending", "in_progress"}
    BY <1>r, <2>1 DEF Saying, Due, Tails
  <2>4. handler[d] \notin {"idle", "created"}
    BY <1>r, <2>1, Replied
  <2> QED BY <1>1, <2>2, <2>3, <2>4 DEF Saying
<1>3. CASE MachineTimeout(d)
  <2>1. /\ exec'[d].state = "timed_out" /\ exec[d].state \in {"running", "failing"}
        /\ inv' = IF inv[d]["run"] = Nobody THEN inv ELSE [inv EXCEPT ![d] = Stray(d)]
    BY <1>3 DEF MachineTimeout, TypeOK
  <2>2. inv[d]["stray"] = Nobody
    BY <2>1 DEF Building
  <2>3. inv'[d]["run"] = Nobody /\ inv'[d]["stray"] = inv[d]["run"]
    BY <2>1, <2>2, GivenUpRuns DEF TypeOK
  <2>4. \A v \in Who : inv'[d][v] # Nobody => inv'[d][v] = inv[d]["run"] /\ inv[d]["run"] # Nobody
    BY <2>3 DEF Who
  <2> QED BY <1>1, <1>r, <2>1, <2>4 DEF Saying
<1>4. CASE StrayDies(d)
  <2>1. /\ inv'[d]["stray"] = Nobody /\ UNCHANGED exec
        /\ \A v \in Who : v # "stray" => inv'[d][v] = inv[d][v]
    BY <1>4 DEF StrayDies, TypeOK, Who
  <2> QED BY <1>1, <1>r, <2>1 DEF Saying
<1> QED BY <1>2, <1>3, <1>4 DEF Outage

\* The faults that leave the promise of the record alone.
Promised == Faults \cap {"ack", "store", "tail", "overlap"} = {}

\* and hence every step.
LEMMA SayingNext ==
  ASSUME TypeOK, Control, Promised, \A d \in Deployment : Building(d) /\ Saying(d),
         [Next]_vars, NEW e \in Deployment
  PROVE  Saying(e)'
<1>1. CASE UNCHANGED vars
  BY <1>1, SayingSame DEF vars
<1>2. ASSUME NEW d \in Deployment,
             \/ HandlerStep(d) \/ MachineStep(d) \/ Outage(d)
             \/ \E w \in Who : Instruction(d, w) \/ Failure(d, w)
      PROVE  Saying(e)'
  <2>1. Saying(d)'
    BY <1>2, SayingHandler, SayingMachine, SayingOutage, SayingInstruction DEF Promised
  <2>2. ASSUME e # d PROVE Saying(e)'
    <3>1. handler'[e] = handler[e]
      <4>1. HandlerStep(d) => handler'[e] = handler[e]
        BY <2>2 DEF HandlerStep, Handle, CreateRecord, RejectLate, StartExecution,
           WritePending, StartFails, TypeOK
      <4>2. MachineStep(d) \/ Outage(d) => UNCHANGED handler
        BY DEF MachineStep, Skip, Invoke, Outage, TimerFires, Crash, MachineTimeout, StrayDies
      <4>3. \A w \in Who : Instruction(d, w) \/ Failure(d, w) => UNCHANGED handler
        BY InstructionMoves DEF Stepped, Finished
      <4> QED BY <1>2, <4>1, <4>2, <4>3
    <3> QED BY <1>2, <2>2, <3>1, OthersSame, SayingSame
  <2> QED BY <2>1, <2>2
<1> QED BY <1>1, <1>2 DEF Next

\* There is no record at first.
LEMMA SayingInit ==
  ASSUME Init, NEW d \in Deployment
  PROVE  Saying(d)
<1>1. /\ exec[d].state = "none" /\ status[d] = "none" /\ handler[d] = "idle"
      /\ \A w \in Who : inv[d][w] = Nobody
  BY DEF Init
<1> QED BY <1>1 DEF Saying

-----------------------------------------------------------------------------
(* The steps of the pipeline as steps of the promise.                      *)

Held == [d \in Deployment |-> HeldBy(d)]

\* What the promise sees of the rows changes for one deployment at a time.
LEMMA HeldMoves ==
  ASSUME NEW d \in Deployment, \A e \in Deployment : e # d => HeldBy(e)' = HeldBy(e),
         NEW H, HeldBy(d)' = H
  PROVE  Held' = [Held EXCEPT ![d] = H]
<1>1. /\ Held' = [e \in Deployment |-> IF e = d THEN H ELSE HeldBy(e)]
  BY DEF Held
<1>2. [Held EXCEPT ![d] = H] = [e \in Deployment |-> IF e = d THEN H ELSE HeldBy(e)]
  BY DEF Held
<1> QED BY <1>1, <1>2

\* A step that moves neither is a stutter of the promise,
LEMMA Stutters ==
  ASSUME UNCHANGED status, \A e \in Deployment : HeldBy(e)' = HeldBy(e)
  PROVE  UNCHANGED Promise!vars
<1>1. Held' = Held
  BY DEF Held
<1> QED BY <1>1 DEF Promise!vars, Held

\* one more kind is a Provide,
LEMMA Provides ==
  ASSUME NEW d \in Deployment, UNCHANGED status, status[d] = "in_progress",
         NEW k \in Kind, HeldBy(d)' = HeldBy(d) \cup {k},
         \A e \in Deployment : e # d => HeldBy(e)' = HeldBy(e)
  PROVE  Promise!Provide(d)
<1>1. Held' = [Held EXCEPT ![d] = HeldBy(d) \cup {k}]
  BY HeldMoves
<1>2. Held' = [Held EXCEPT ![d] = @ \cup {k}]
  BY <1>1 DEF Held
<1> QED BY <1>2 DEF Promise!Provide, Held

\* some fewer a TakeBack.
LEMMA TakesBack ==
  ASSUME NEW d \in Deployment, UNCHANGED status, NEW k \in Kind,
         \/ status[d] = "in_progress" /\ k \in {"gateway", "gateway_role"}
         \/ status[d] = "failed",
         HeldBy(d)' = HeldBy(d) \ {k},
         \A e \in Deployment : e # d => HeldBy(e)' = HeldBy(e)
  PROVE  Promise!TakeBack(d)
<1>1. Held' = [Held EXCEPT ![d] = HeldBy(d) \ {k}]
  BY HeldMoves
<1>2. Held' = [Held EXCEPT ![d] = @ \ {k}]
  BY <1>1 DEF Held
<1> QED BY <1>2 DEF Promise!TakeBack, Held

\* Rows of one kind deleted take that kind at most.
LEMMA OneLess ==
  ASSUME NEW d \in Deployment, aws' \subseteq aws, NEW k,
         \A r \in aws \ aws' : r.kind = k
  PROVE  HeldBy(d)' = HeldBy(d) \/ HeldBy(d)' = HeldBy(d) \ {k}
<1>1. \A r \in aws \ aws' : r.kind \in {k}
  OBVIOUS
<1>2. HeldBy(d)' \subseteq HeldBy(d) /\ HeldBy(d) \ {k} \subseteq HeldBy(d)'
  BY <1>1, HeldLess
<1> QED BY <1>2

\* What an instruction makes is provided while the record says in_progress.
LEMMA MadeKeeps ==
  ASSUME TypeOK, NEW d \in Deployment, Saying(d), NEW w \in Who, NEW op \in Created,
         NEW k \in Kind, Now(d, w, op, k), UNCHANGED status,
         aws' = aws \cup {New(d, w, k)}
  PROVE  [Promise!Next]_(Promise!vars)
<1>1. status[d] = "in_progress"
  BY TailOps, NowSays DEF Created, Tails
<1>2. /\ \A e \in Deployment : e # d => HeldBy(e)' = HeldBy(e)
      /\ HeldBy(d)' = HeldBy(d) \cup (IF k \in SharedKind THEN {} ELSE {k})
  BY HeldNew
<1>3. CASE k \in SharedKind
  <2>1. \A e \in Deployment : HeldBy(e)' = HeldBy(e)
    BY <1>2, <1>3
  <2> QED BY <2>1, Stutters
<1>4. CASE k \notin SharedKind
  <2>1. Promise!Provide(d)
    BY <1>1, <1>2, <1>4, Provides
  <2> QED BY <2>1 DEF Promise!Next
<1> QED BY <1>3, <1>4

\* Each instruction that builds or takes back maps to a step of the promise,
LEMMA BuildKeeps ==
  ASSUME TypeOK, NEW d \in Deployment, Saying(d), NEW w \in Who,
         Ensure(d, w) \/ Create(d, w)
  PROVE  [Promise!Next]_(Promise!vars)
<1>1. CASE Ensure(d, w)
  <2>1. PICK k \in Kind :
          /\ Now(d, w, "ensure", k) /\ UNCHANGED status
          /\ UNCHANGED aws \/ aws' = aws \cup {New(d, w, k)}
    BY <1>1 DEF Ensure
  <2>2. CASE UNCHANGED aws
    BY <2>1, <2>2, HeldSame, Stutters
  <2>3. "ensure" \in Created
    BY DEF Created
  <2> QED BY <2>1, <2>2, <2>3, MadeKeeps
<1>2. CASE Create(d, w)
  <2>1. PICK k \in Kind, op \in {"fresh", "create"} :
          Now(d, w, op, k) /\ UNCHANGED status /\ aws' = aws \cup {New(d, w, k)}
    BY <1>2 DEF Create
  <2>2. op \in Created
    BY DEF Created
  <2> QED BY <2>1, <2>2, MadeKeeps
<1> QED BY <1>1, <1>2

\* The abort of the gateway step takes back what is volatile, the cleanup takes
\* back anything once the record says failed.
LEMMA UndoKeeps ==
  ASSUME TypeOK, OwnRows, NEW d \in Deployment, Saying(d), NEW w \in Who,
         Drop(d, w) \/ Sweep(d, w)
  PROVE  [Promise!Next]_(Promise!vars)
<1>1. CASE Drop(d, w)
  <2>1. PICK k \in Kind :
          Now(d, w, "drop", k) /\ \A r \in aws \ aws' : r \in HitOf(Handles(d, w, k))
    BY <1>1 DEF Drop
  <2>2. \A r \in aws \ aws' : r.kind = k
    BY <2>1 DEF HitOf, Hit, Handles
  <2>3. k \in {"gateway", "gateway_role"}
    <3>1. I("drop", k) \in Allowed(inv[d][w].step)
      BY <2>1, NowIs
    <3> QED BY <3>1 DEF Allowed, I
  <2>4. status[d] = "in_progress"
    BY <2>1, TailOps, NowSays DEF Tails
  <2>5. UNCHANGED status /\ aws' \subseteq aws
    BY <1>1 DEF Drop
  <2>6. HeldBy(d)' = HeldBy(d) \/ HeldBy(d)' = HeldBy(d) \ {k}
    BY <2>2, <2>5, OneLess
  <2>7. \A e \in Deployment : e # d => HeldBy(e)' = HeldBy(e)
    BY <1>1, DropHeld
  <2>8. CASE HeldBy(d)' = HeldBy(d)
    BY <2>5, <2>7, <2>8, Stutters
  <2>9. CASE HeldBy(d)' = HeldBy(d) \ {k}
    <3>1. Promise!TakeBack(d)
      BY <2>3, <2>4, <2>5, <2>7, <2>9, TakesBack
    <3> QED BY <3>1 DEF Promise!Next
  <2> QED BY <2>6, <2>8, <2>9
<1>2. CASE Sweep(d, w)
  <2>1. PICK row \in inv[d][w].todo :
          Now(d, w, "sweep", "none") /\ \A r \in aws \ aws' : r \in Hit(row)
    BY <1>2 DEF Sweep, Cleanup
  <2>2. \A r \in aws \ aws' : r.kind = row.kind
    BY <2>1 DEF Hit
  <2>3. row.kind \in Kind
    <3>1. row \in Resource
      BY <2>1, TailOps, Known
    <3> QED BY <3>1 DEF Resource
  <2>4. status[d] = "failed"
    BY <2>1, NowSays
  <2>5. UNCHANGED status /\ aws' \subseteq aws
    BY <1>2 DEF Sweep
  <2>6. HeldBy(d)' = HeldBy(d) \/ HeldBy(d)' = HeldBy(d) \ {row.kind}
    BY <2>2, <2>5, OneLess
  <2>7. \A e \in Deployment : e # d => HeldBy(e)' = HeldBy(e)
    BY <1>2, SweepHeld
  <2>8. CASE HeldBy(d)' = HeldBy(d)
    BY <2>5, <2>7, <2>8, Stutters
  <2>9. CASE HeldBy(d)' = HeldBy(d) \ {row.kind}
    <3>1. Promise!TakeBack(d)
      BY <2>3, <2>4, <2>5, <2>7, <2>9, TakesBack
    <3> QED BY <3>1 DEF Promise!Next
  <2> QED BY <2>6, <2>8, <2>9
<1> QED BY <1>1, <1>2

\* A write of the record.
LEMMA Writes ==
  ASSUME NEW d \in Deployment, UNCHANGED aws, NEW from, NEW to,
         status' = [status EXCEPT ![d] = to], status[d] \in from
  PROVE  Promise!Says(d, from, to)
<1>1. Held' = Held
  BY HeldSame DEF Held
<1> QED BY <1>1 DEF Promise!Says, Held

\* so does each write of the status,
LEMMA StatusKeeps ==
  ASSUME TypeOK, NEW d \in Deployment, Building(d), Saying(d), NEW w \in Who,
         Begin(d, w) \/ WriteSucceeded(d, w) \/ WriteFailed(d, w)
  PROVE  [Promise!Next]_(Promise!vars)
<1>1. CASE Begin(d, w)
  <2>1. /\ Now(d, w, "begin", "none") /\ status' = [status EXCEPT ![d] = "in_progress"]
        /\ UNCHANGED aws
    BY <1>1 DEF Begin
  <2>2. CASE status[d] = "pending"
    <3>1. Promise!Work(d)
      BY <2>1, <2>2, Writes DEF Promise!Work
    <3> QED BY <3>1 DEF Promise!Next
  <2>3. CASE status[d] = "in_progress"
    <3>1. UNCHANGED status
      BY <2>1, <2>3 DEF TypeOK
    <3> QED BY <2>1, <3>1, HeldSame, Stutters
  <2> QED BY <2>1, <2>2, <2>3, NowSays
<1>2. CASE WriteSucceeded(d, w)
  <2>1. /\ Now(d, w, "succeed", "none") /\ status' = [status EXCEPT ![d] = "succeeded"]
        /\ UNCHANGED aws
    BY <1>2 DEF WriteSucceeded
  <2>2. status[d] = "in_progress" /\ inv[d][w] # Nobody /\ inv[d][w].step = "status_update"
    BY <2>1, NowSays, TailOps
  <2>3. Goals[d] \subseteq HeldBy(d)
    BY <2>2 DEF Building
  <2>4. Promise!Says(d, {"in_progress"}, "succeeded")
    BY <2>1, <2>2, Writes
  <2>5. Promise!Deliver(d)
    BY <2>3, <2>4 DEF Promise!Deliver
  <2> QED BY <2>5 DEF Promise!Next
<1>3. CASE WriteFailed(d, w)
  <2>1. /\ Now(d, w, "fail", "none") /\ status' = [status EXCEPT ![d] = "failed"]
        /\ UNCHANGED aws
    BY <1>3 DEF WriteFailed
  <2>2. status[d] = "in_progress"
    BY <2>1, NowSays
  <2>3. Promise!GiveUp(d)
    BY <2>1, <2>2, Writes DEF Promise!GiveUp
  <2> QED BY <2>3 DEF Promise!Next
<1> QED BY <1>1, <1>2, <1>3

\* the deploy handler,
LEMMA HandlerKeeps ==
  ASSUME TypeOK, NEW d \in Deployment, Saying(d), HandlerStep(d)
  PROVE  [Promise!Next]_(Promise!vars)
<1>1. CASE CreateRecord(d)
  <2>1. /\ status' = [status EXCEPT ![d] = "pending"] /\ UNCHANGED aws
        /\ status[d] = "none"
    BY <1>1 DEF CreateRecord, Handle, Saying
  <2>2. Promise!Accept(d)
    BY <2>1, Writes DEF Promise!Accept
  <2> QED BY <2>2 DEF Promise!Next
<1>2. CASE StartFails(d)
  <2>1. /\ status' = [status EXCEPT ![d] = "failed"] /\ UNCHANGED aws
        /\ status[d] = "pending"
    BY <1>2 DEF StartFails, Handle, Saying
  <2>2. Promise!Refuse(d)
    BY <2>1, Writes DEF Promise!Refuse
  <2> QED BY <2>2 DEF Promise!Next
<1>3. CASE RejectLate(d) \/ StartExecution(d)
  BY <1>3, HeldSame, Stutters DEF RejectLate, StartExecution
<1>4. ~WritePending(d)
  BY DEF WritePending, Handle, Saying
<1> QED BY <1>1, <1>2, <1>3, <1>4 DEF HandlerStep

\* and hence every step.
LEMMA PipelineKeeps ==
  ASSUME TypeOK, OwnRows, Control, Promised, \A d \in Deployment : Building(d) /\ Saying(d),
         [Next]_vars
  PROVE  [Promise!Next]_(Promise!vars)
<1>1. CASE UNCHANGED <<status, aws>>
  BY <1>1, HeldSame, Stutters
<1>2. ASSUME NEW d \in Deployment, HandlerStep(d) \/ MachineStep(d) \/ Outage(d)
      PROVE  [Promise!Next]_(Promise!vars)
  <2>1. MachineStep(d) \/ Outage(d) => UNCHANGED <<status, aws>>
    BY DEF MachineStep, Skip, Invoke, Outage, TimerFires, Crash, MachineTimeout, StrayDies
  <2> QED BY <1>1, <1>2, <2>1, HandlerKeeps
<1>3. ASSUME NEW d \in Deployment, NEW w \in Who, Instruction(d, w) \/ Failure(d, w)
      PROVE  [Promise!Next]_(Promise!vars)
  <2>1. \/ Proceed(d, w) \/ Lookup(d, w) \/ Record(d, w) \/ Return(d, w) \/ Snapshot(d, w)
        \/ Swept(d, w) \/ StepFails(d, w)
        => UNCHANGED <<status, aws>>
    BY DEF Proceed, Lookup, Record, Return, Snapshot, Swept, StepFails, RaiseFrom
  <2>2. ~BeginFails(d, w) /\ ~LastResort(d, w)
    BY DEF BeginFails, LastResort, Fault, Promised
  <2> QED BY <1>1, <1>3, <2>1, <2>2, BuildKeeps, UndoKeeps, StatusKeeps
        DEF Instruction, Failure
<1> QED BY <1>1, <1>2, <1>3 DEF Next, vars

\* The first state maps to the first state of the promise.
LEMMA PromiseInit == Init => Promise!Init
<1> SUFFICES ASSUME Init PROVE Promise!Init
  OBVIOUS
<1>1. \A d \in Deployment : HeldBy(d) = {}
  BY DEF Init, HeldBy
<1> QED BY <1>1 DEF Init, Promise!Init

\* The pipeline keeps the promise of the record: it implements DeploymentPromise,
\* for every plan, any number of deployments and attempts, and every fault but
\* overlapping invocations, the late PENDING write, failing status writes and
\* killed status steps.
THEOREM PromiseKept ==
  ASSUME Promised, SharedKind \cap {"knowledge_base", "memory"} = {}
  PROVE  Spec => KeepsPromise
<1> DEFINE Inside == \A d \in Deployment : Building(d) /\ Saying(d)
           IInv == TypeOK /\ OwnRows /\ Control /\ Inside
<1>1. Init => IInv
  BY TypeInit, OwnInit, ControlInit, BuildingInit, SayingInit
<1>2. IInv /\ [Next]_vars => IInv'
  <2>1. "overlap" \notin Faults
    BY DEF Promised
  <2>2. IInv /\ [Next]_vars => Inside'
    BY <2>1, BuildingNext, SayingNext
  <2> QED BY <2>2, TypeNext, OwnNext, ControlNext
<1>3. Init => Promise!Init
  BY PromiseInit
<1>4. IInv /\ [Next]_vars => [Promise!Next]_(Promise!vars)
  BY PipelineKeeps
<1> HIDE DEF IInv
<1> QED BY <1>1, <1>2, <1>3, <1>4, PTL DEF Spec, KeepsPromise, Promise!Spec

-----------------------------------------------------------------------------
(* What a failed deployment leaves behind.                                 *)

\* An invocation goes on beside the machine only once the execution timed out.
Single(d) == inv[d]["stray"] # Nobody => exec[d].state = "timed_out"

\* No invocation runs beside its own retry.
Unhurried == "overlap" \notin Faults \/ Faults \cap {"kill", "exhaust"} = {}

\* A deployment has one invocation at a time.
LEMMA OneAtATime ==
  ASSUME TypeOK, Control, NEW d \in Deployment, Single(d), NEW w \in Who,
         inv[d][w] # Nobody
  PROVE  /\ \A v \in Who : inv[d][v] # Nobody => v = w
         /\ exec[d].state \in {"running", "failing", "timed_out"}
         /\ w = "run" => exec[d].state \in {"running", "failing"}
         /\ w = "run" => (inv[d][w].step = "failure" <=> exec[d].state = "failing")
         /\ w = "stray" => exec[d].state = "timed_out"
<1>1. ControlOf(d)
  BY DEF Control
<1>2. w = "stray" => exec[d].state = "timed_out"
  BY DEF Single
<1>3. w = "run" => exec[d].state \in {"running", "failing"} /\ inv[d][w].step = Current(d)
  BY <1>1 DEF ControlOf
<1>4. \A v \in Who : inv[d][v] # Nobody => v = w
  BY <1>1, <1>2, <1>3 DEF ControlOf, Single, Who
<1> QED BY <1>2, <1>3, <1>4, CurrentFailure DEF Who

\* What the outages do to the invocations of their deployment when no retry
\* starts beside the invocation it replaces.
LEMMA OutageParts ==
  ASSUME TypeOK, Unhurried, NEW d \in Deployment, Single(d), Outage(d)
  PROVE  /\ UNCHANGED <<handler, status, manifest, event, aws>>
         /\ \/ /\ inv[d]["run"] # Nobody /\ inv'[d]["run"] = Nobody
               /\ inv'[d]["stray"] = inv[d]["stray"]
               /\ Faults \cap {"kill", "exhaust", "crash"} # {}
            \/ /\ exec[d].state \in {"running", "failing"} /\ exec'[d].state = "timed_out"
               /\ inv'[d]["run"] = Nobody /\ inv'[d]["stray"] = inv[d]["run"]
            \/ /\ UNCHANGED exec /\ inv[d]["stray"] # Nobody
               /\ inv'[d]["run"] = inv[d]["run"] /\ inv'[d]["stray"] = Nobody
<1>0. UNCHANGED <<handler, status, manifest, event, aws>>
  BY DEF Outage, TimerFires, Crash, MachineTimeout, StrayDies
<1>1. CASE TimerFires(d) \/ Crash(d)
  <2>1. inv[d]["run"] # Nobody /\ inv' = [inv EXCEPT ![d] = Alone(d)]
    BY <1>1 DEF TimerFires, Crash, Killable, Fault, Unhurried
  <2>2. Faults \cap {"kill", "exhaust", "crash"} # {}
    BY <1>1 DEF TimerFires, Crash, Fault
  <2> QED BY <1>0, <2>1, <2>2, GivenUpRuns DEF TypeOK
<1>2. CASE MachineTimeout(d)
  <2>1. /\ exec'[d].state = "timed_out" /\ exec[d].state \in {"running", "failing"}
        /\ inv' = IF inv[d]["run"] = Nobody THEN inv ELSE [inv EXCEPT ![d] = Stray(d)]
    BY <1>2 DEF MachineTimeout, TypeOK
  <2>2. inv[d]["stray"] = Nobody
    BY <2>1 DEF Single
  <2> QED BY <1>0, <2>1, <2>2, GivenUpRuns DEF TypeOK
<1>3. CASE StrayDies(d)
  BY <1>0, <1>3 DEF StrayDies, TypeOK, Who
<1> QED BY <1>1, <1>2, <1>3 DEF Outage

\* Every step keeps Single.
LEMMA SingleNext ==
  ASSUME TypeOK, Control, Unhurried, \A d \in Deployment : Single(d), [Next]_vars,
         NEW e \in Deployment
  PROVE  Single(e)'
<1>r. "run" \in Who /\ "stray" \in Who
  BY DEF Who
<1>1. CASE UNCHANGED vars
  BY <1>1 DEF vars, Single
<1>2. ASSUME NEW d \in Deployment, d # e,
             \/ HandlerStep(d) \/ MachineStep(d) \/ Outage(d)
             \/ \E w \in Who : Instruction(d, w) \/ Failure(d, w)
      PROVE  Single(e)'
  BY <1>2, <1>r, OthersSame DEF Single
<1>3. CASE HandlerStep(e)
  <2>1. inv' = inv /\ (exec'[e] = exec[e] \/ handler[e] = "created")
    BY <1>3 DEF HandlerStep, Handle, CreateRecord, RejectLate, StartExecution,
       WritePending, StartFails
  <2>2. handler[e] = "created" => inv[e]["stray"] = Nobody
    BY <1>r DEF Control, ControlOf
  <2> QED BY <2>1, <2>2 DEF Single
<1>4. CASE MachineStep(e)
  <2>1. exec[e].state \in {"running", "failing"}
    BY <1>4 DEF MachineStep, Skip, Invoke, Waiting
  <2>2. inv'[e]["stray"] = inv[e]["stray"]
    BY <1>4 DEF MachineStep, Skip, Invoke, TypeOK, Who
  <2> QED BY <2>1, <2>2 DEF Single
<1>5. CASE Outage(e)
  <2>1. inv[e]["run"] # Nobody => inv[e]["stray"] = Nobody
    BY <1>r, OneAtATime
  <2> QED BY <1>5, <2>1, OutageParts DEF Single
<1>6. ASSUME NEW w \in Who, Instruction(e, w) \/ Failure(e, w)
      PROVE  Single(e)'
  <2>1. Stepped(e, w) \/ Finished(e, w)
    BY <1>6, InstructionMoves
  <2>2. CASE Stepped(e, w)
    BY <1>r, <2>2 DEF Stepped, Moved, Single
  <2>3. CASE Finished(e, w)
    <3>1. w = "run" => inv[e]["stray"] = Nobody
      BY <1>r, <2>3, OneAtATime DEF Finished
    <3> QED BY <1>r, <2>3, <3>1 DEF Finished, Single, Who
  <2> QED BY <2>1, <2>2, <2>3
<1> QED BY <1>1, <1>2, <1>3, <1>4, <1>5, <1>6 DEF Next

\* Nothing runs at first.
LEMMA SingleInit ==
  ASSUME Init, NEW d \in Deployment
  PROVE  Single(d)
BY NobodyAtFirst DEF Single, Who

-----------------------------------------------------------------------------
(* What comes to exist.                                                    *)

\* A resource that did not exist is made by an instruction that provides it.
LEMMA MadeBy ==
  ASSUME TypeOK, [Next]_vars, NEW r \in aws' \ aws
  PROVE  \E d \in Deployment, w \in Who, k \in Kind, op \in Created :
           /\ Now(d, w, op, k) /\ r = New(d, w, k)
           /\ GoOnWith(d, w, {r}) /\ UNCHANGED <<handler, status, manifest, exec, event>>
<1>1. CASE UNCHANGED vars
  BY <1>1 DEF vars
<1>2. ASSUME NEW d \in Deployment, HandlerStep(d) \/ MachineStep(d) \/ Outage(d)
      PROVE  FALSE
  BY <1>2 DEF HandlerStep, MachineStep, Outage, CreateRecord, RejectLate,
     StartExecution, WritePending, StartFails, Skip, Invoke, TimerFires, Crash,
     MachineTimeout, StrayDies
<1>3. ASSUME NEW d \in Deployment, NEW w \in Who, Failure(d, w)
      PROVE  FALSE
  BY <1>3 DEF Failure, StepFails, BeginFails, LastResort, RaiseFrom
<1>4. ASSUME NEW d \in Deployment, NEW w \in Who,
             Begin(d, w) \/ Proceed(d, w) \/ Lookup(d, w) \/ Record(d, w)
               \/ Drop(d, w) \/ Return(d, w) \/ WriteSucceeded(d, w)
               \/ WriteFailed(d, w) \/ Snapshot(d, w) \/ Sweep(d, w) \/ Swept(d, w)
      PROVE  FALSE
  BY <1>4 DEF Begin, Proceed, Lookup, Record, Drop, Return, WriteSucceeded,
     WriteFailed, Snapshot, Sweep, Swept
<1>5. ASSUME NEW d \in Deployment, NEW w \in Who, Ensure(d, w)
      PROVE  \E k \in Kind, op \in Created :
               /\ Now(d, w, op, k) /\ r = New(d, w, k)
               /\ GoOnWith(d, w, {r}) /\ UNCHANGED <<handler, status, manifest, exec, event>>
  <2>1. PICK k \in Kind :
          LET there == Existing(k, Label(d, k))
              made == IF there = {} THEN {New(d, w, k)} ELSE {}
          IN  /\ Now(d, w, "ensure", k) /\ aws' = aws \cup made
              /\ GoOnWith(d, w, there \cup made)
              /\ UNCHANGED <<handler, status, manifest, exec, event>>
    BY <1>5 DEF Ensure
  <2> DEFINE there == Existing(k, Label(d, k))
             made == IF there = {} THEN {New(d, w, k)} ELSE {}
  <2>2. r \in made
    BY <2>1
  <2>3. there = {} /\ r = New(d, w, k)
    BY <2>2
  <2>4. there \cup made = {r}
    BY <2>3
  <2> HIDE DEF there, made
  <2>5. GoOnWith(d, w, there \cup made) /\ Now(d, w, "ensure", k)
        /\ UNCHANGED <<handler, status, manifest, exec, event>>
    BY <2>1 DEF there, made
  <2> QED BY <2>3, <2>4, <2>5 DEF Created
<1>6. ASSUME NEW d \in Deployment, NEW w \in Who, Create(d, w)
      PROVE  \E k \in Kind, op \in Created :
               /\ Now(d, w, op, k) /\ r = New(d, w, k)
               /\ GoOnWith(d, w, {r}) /\ UNCHANGED <<handler, status, manifest, exec, event>>
  <2>1. PICK k \in Kind :
          /\ Now(d, w, "fresh", k) \/ Now(d, w, "create", k)
          /\ aws' = aws \cup {New(d, w, k)} /\ GoOnWith(d, w, {New(d, w, k)})
          /\ UNCHANGED <<handler, status, manifest, exec, event>>
    BY <1>6 DEF Create
  <2>2. r = New(d, w, k)
    BY <2>1
  <2> QED BY <2>1, <2>2 DEF Created
<1> QED BY <1>1, <1>2, <1>3, <1>4, <1>5, <1>6 DEF Next, Instruction

\* Everything carries the name its maker gives it.
Labelled == \A r \in aws : r.label = Label(r.maker, r.kind)

\* What a new resource is.
LEMMA NewLabelled ==
  ASSUME NEW d, NEW w, NEW k
  PROVE  /\ New(d, w, k).kind = k /\ New(d, w, k).label = Label(d, k)
         /\ New(d, w, k).maker = d
BY DEF New

\* Every step keeps Labelled.
LEMMA LabelledNext ==
  ASSUME TypeOK, Labelled, [Next]_vars
  PROVE  Labelled'
<1> SUFFICES ASSUME NEW r \in aws' PROVE r.label = Label(r.maker, r.kind)
  BY DEF Labelled, Label
<1>1. CASE r \in aws
  BY <1>1 DEF Labelled
<1>2. CASE r \notin aws
  <2>1. PICK d \in Deployment, w \in Who, k \in Kind : r = New(d, w, k)
    BY <1>2, MadeBy
  <2> QED BY <2>1, NewLabelled
<1> QED BY <1>1, <1>2

\* A row of d's own under a name of its own.
LEMMA PrivateRow ==
  ASSUME TypeOK, NEW d \in Deployment, NEW row \in Own(d), Private(row)
  PROVE  row.label = d /\ row.maker = d /\ row.kind \in Kind
<1>1. row.maker \in Deployment /\ row.kind \in Kind
  BY DEF Own, Resource
<1> QED BY <1>1, LabelIs DEF Own, Private

\* What a row under a private name stands for is made by nobody else's step, and
\* by no failure handler.
LEMMA HitShrinks ==
  ASSUME TypeOK, [Next]_vars, NEW d \in Deployment, NEW row \in Own(d), Private(row),
         \A w \in Who : inv[d][w] # Nobody => inv[d][w].step = "failure"
  PROVE  Hit(row)' \subseteq Hit(row)
<1> SUFFICES ASSUME NEW r \in Hit(row)' PROVE r \in Hit(row)
  OBVIOUS
<1>1. /\ r \in aws'
      /\ \/ r = row
         \/ /\ r.kind = row.kind /\ r.label = row.label
            /\ row.kind \in ByName
  BY DEF Hit
<1>2. CASE r \in aws
  BY <1>1, <1>2 DEF Hit
<1>3. CASE r \notin aws
  <2>1. PICK e \in Deployment, w \in Who, k \in Kind, op \in Created :
          Now(e, w, op, k) /\ r = New(e, w, k)
    BY <1>1, <1>3, MadeBy
  <2>2. e = d
    <3>1. r.label = d
      BY <1>1, PrivateRow
    <3> QED BY <2>1, <3>1, NewLabelled, LabelIs
  <2>3. I(op, k) \in Providing(k) /\ inv[d][w].step = "failure"
        /\ inv[d][w].step \in Step /\ inv[d][w].pc \in DOMAIN Program[d][inv[d][w].step]
        /\ Program[d][inv[d][w].step][inv[d][w].pc] = I(op, k)
    BY <2>1, <2>2, NowIs DEF Providing, Created
  <2> QED BY <2>3, ProvidersInside
<1> QED BY <1>2, <1>3

\* Only the steps of a deployment write its manifest, and they only add to it.
LEMMA ManifestGrows ==
  ASSUME TypeOK, NEW d \in Deployment,
         \/ HandlerStep(d) \/ MachineStep(d) \/ Outage(d)
         \/ \E w \in Who : Instruction(d, w) \/ Failure(d, w)
  PROVE  /\ \A e \in Deployment : e # d => manifest'[e] = manifest[e]
         /\ manifest[d] \subseteq manifest'[d]
<1>1. CASE HandlerStep(d) \/ MachineStep(d) \/ Outage(d)
  BY <1>1 DEF HandlerStep, CreateRecord, RejectLate, StartExecution, WritePending,
     StartFails, MachineStep, Skip, Invoke, Outage, TimerFires, Crash, MachineTimeout,
     StrayDies
<1>2. ASSUME NEW w \in Who, Record(d, w)
      PROVE  /\ \A e \in Deployment : e # d => manifest'[e] = manifest[e]
             /\ manifest[d] \subseteq manifest'[d]
  BY <1>2 DEF Record, TypeOK
<1>3. ASSUME NEW w \in Who, Instruction(d, w) \/ Failure(d, w), ~Record(d, w)
      PROVE  UNCHANGED manifest
  BY <1>3 DEF Instruction, Failure, Begin, Proceed, Ensure, Create, Lookup,
     Drop, Return, WriteSucceeded, WriteFailed, Snapshot, Sweep, Swept,
     StepFails, BeginFails, RaiseFrom, LastResort
<1> QED BY <1>1, <1>2, <1>3

\* What the snapshot and the sweep leave to be done.
LEMMA TodoIs ==
  ASSUME TypeOK, NEW d \in Deployment, NEW w \in Who, inv[d][w] # Nobody,
         NEW rows \in SUBSET Resource,
         \/ inv' = [inv EXCEPT ![d][w].pc = @ + 1, ![d][w].todo = rows]
         \/ inv' = [inv EXCEPT ![d][w].todo = rows]
  PROVE  inv'[d][w].todo = rows
<1> DEFINE j == [inv[d][w] EXCEPT !.pc = inv[d][w].pc + 1]
           i == [j EXCEPT !.todo = rows]
           h == [inv[d][w] EXCEPT !.todo = rows]
<1>1. \/ inv' = [inv EXCEPT ![d] = [inv[d] EXCEPT ![w] = i]]
      \/ inv' = [inv EXCEPT ![d] = [inv[d] EXCEPT ![w] = h]]
  BY DEF TypeOK
<1>2. j \in Invocation
  <2>1. inv[d][w] \in Invocation /\ inv[d][w].pc + 1 \in Nat \ {0}
    BY Known
  <2> QED BY <2>1, InvocationUpdates
<1>3. h.todo = rows
  BY Known, InvocationUpdates
<1> HIDE DEF j
<1>4. i.todo = rows
  BY <1>2, InvocationUpdates
<1> HIDE DEF i, h
<1> QED BY <1>1, <1>3, <1>4 DEF TypeOK

\* What the failure handler does, instruction by instruction.
LEMMA FailureHandler ==
  ASSUME TypeOK, NEW d \in Deployment, NEW w \in Who, inv[d][w] # Nobody,
         inv[d][w].step = "failure", Instruction(d, w) \/ Failure(d, w)
  PROVE  /\ manifest' = manifest
         /\ \/ inv[d][w].pc \in {1, 2} /\ At(d, w, inv[d][w].pc + 1) /\ UNCHANGED aws
            \/ At(d, w, 4) /\ inv'[d][w].todo = manifest[d] /\ UNCHANGED aws
            \/ inv[d][w].pc = 4 /\ At(d, w, 4) /\ Sweep(d, w)
            \/ inv[d][w].pc = 4 /\ inv[d][w].todo = {} /\ At(d, w, 5) /\ UNCHANGED aws
            \/ Fault("store") /\ At(d, w, 5) /\ UNCHANGED aws
            \/ inv[d][w].pc = 5 /\ Gone(d, w) /\ Return(d, w)
<1>0. ASSUME NEW op, NEW k, Now(d, w, op, k)
      PROVE  \/ inv[d][w].pc = 1 /\ op = "begin"
             \/ inv[d][w].pc = 2 /\ op = "fail"
             \/ inv[d][w].pc = 3 /\ op = "snapshot"
             \/ inv[d][w].pc = 4 /\ op = "sweep"
             \/ inv[d][w].pc = 5 /\ op = "return"
  BY <1>0, TailOps
<1>1. CASE Begin(d, w) \/ WriteFailed(d, w)
  <2>1. inv[d][w].pc \in {1, 2}
    BY <1>0, <1>1 DEF Begin, WriteFailed
  <2> QED BY <1>1, <2>1, GoOnAt DEF Begin, WriteFailed
<1>2. CASE Snapshot(d, w)
  <2>1. inv[d][w].pc = 3 /\ 3 + 1 = 4
    BY <1>0, <1>2 DEF Snapshot
  <2>2. Len(Program[d][inv[d][w].step]) = 5
    BY TailPrograms
  <2>3. /\ UNCHANGED <<manifest, aws>>
        /\ \/ inv' = [inv EXCEPT ![d][w].pc = @ + 1, ![d][w].todo = manifest[d]]
           \/ Fault("store") /\ GoTo(d, w, 5)
    BY <1>2, <2>2 DEF Snapshot
  <2>4. manifest[d] \in SUBSET Resource
    BY DEF TypeOK
  <2>5. GoTo(d, w, 5) => At(d, w, 5)
    BY GoToAt
  <2>6. inv' = [inv EXCEPT ![d][w].pc = @ + 1, ![d][w].todo = manifest[d]]
          => At(d, w, 4) /\ inv'[d][w].todo = manifest[d]
    <3> SUFFICES ASSUME inv' = [inv EXCEPT ![d][w].pc = @ + 1, ![d][w].todo = manifest[d]]
                 PROVE  At(d, w, 4) /\ inv'[d][w].todo = manifest[d]
      OBVIOUS
    <3>1. At(d, w, inv[d][w].pc + 1)
      BY <2>4, TodoAt
    <3>2. inv'[d][w].todo = manifest[d]
      BY <2>4, TodoIs
    <3> QED BY <2>1, <3>1, <3>2
  <2> QED BY <2>3, <2>5, <2>6
<1>3. CASE Sweep(d, w)
  <2>1. inv[d][w].pc = 4
    BY <1>0, <1>3 DEF Sweep
  <2>2. PICK row \in inv[d][w].todo : inv' = [inv EXCEPT ![d][w].todo = inv[d][w].todo \ {row}]
    BY <1>3 DEF Sweep
  <2>3. inv[d][w].todo \ {row} \in SUBSET Resource
    BY Known
  <2> QED BY <1>3, <2>1, <2>2, <2>3, TodoAt DEF Sweep
<1>4. CASE Swept(d, w)
  <2>1. inv[d][w].pc = 4 /\ 4 + 1 = 5
    BY <1>0, <1>4 DEF Swept
  <2> QED BY <1>4, <2>1, GoOnAt DEF Swept
<1>5. CASE LastResort(d, w)
  <2>1. Len(Program[d][inv[d][w].step]) = 5
    BY TailPrograms
  <2>2. Fault("store") /\ GoTo(d, w, 5) /\ UNCHANGED <<manifest, aws>>
    BY <1>5, <2>1 DEF LastResort
  <2>3. GoTo(d, w, 5) => At(d, w, 5)
    BY GoToAt
  <2> QED BY <2>2, <2>3
<1>6. CASE Return(d, w)
  <2>1. inv[d][w].pc = 5
    BY <1>0, <1>6 DEF Return
  <2>2. Gone(d, w)
    BY <1>6, EndGone DEF Return
  <2> QED BY <1>6, <2>1, <2>2 DEF Return
<1> DEFINE Else == \E op \in {"call", "join", "ensure", "create", "fresh", "found", "record",
                            "record_new", "drop", "succeed", "raise"}, k \in Kind \cup {"none"} :
                    Now(d, w, op, k)
<1>7. CASE Proceed(d, w) \/ Ensure(d, w) \/ Create(d, w) \/ Lookup(d, w) \/ Record(d, w)
             \/ Drop(d, w) \/ WriteSucceeded(d, w)
  <2>1. (Proceed(d, w) \/ WriteSucceeded(d, w)) => Else
    BY DEF Proceed, WriteSucceeded
  <2>2. (Ensure(d, w) \/ Create(d, w)) => Else
    BY DEF Ensure, Create
  <2>3. (Lookup(d, w) \/ Record(d, w) \/ Drop(d, w)) => Else
    BY DEF Lookup, Record, Drop
  <2> QED BY <1>0, <1>7, <2>1, <2>2, <2>3
<1>8. CASE StepFails(d, w) \/ BeginFails(d, w)
  <2>1. StepFails(d, w) => Else
    BY DEF StepFails
  <2>2. ~BeginFails(d, w)
    BY DEF BeginFails
  <2> QED BY <1>0, <1>8, <2>1, <2>2
<1> QED BY <1>1, <1>2, <1>3, <1>4, <1>5, <1>6, <1>7, <1>8 DEF Instruction, Failure

-----------------------------------------------------------------------------
(* The cleanup.                                                            *)

\* What the failure handler has still to delete of what the manifest lists: the
\* rows to do, and nothing once it is about to return.
Cleaning(d) ==
  \A w \in Who : inv[d][w] # Nobody /\ inv[d][w].step = "failure" =>
    \A row \in manifest[d] : Private(row) /\ HasArm(row.kind) =>
      /\ inv[d][w].pc = 4 => row \in inv[d][w].todo \/ Hit(row) = {}
      /\ inv[d][w].pc = 5 => Hit(row) = {} \/ Fault("store")

\* Another deployment's step brings back nothing that a cleanup has deleted.
LEMMA CleaningElsewhere ==
  ASSUME TypeOK, OwnRows, Control, NEW d \in Deployment, Single(d), Cleaning(d),
         [Next]_vars, manifest'[d] = manifest[d],
         \A w \in Who : inv'[d][w] # Nobody /\ inv'[d][w].step = "failure" =>
           \/ inv'[d][w].pc \notin {4, 5}
           \/ \E v \in Who : inv'[d][w] = inv[d][v]
  PROVE  Cleaning(d)'
<1> SUFFICES ASSUME NEW w \in Who, inv'[d][w] # Nobody, inv'[d][w].step = "failure",
                    inv'[d][w].pc \in {4, 5},
                    NEW row \in manifest[d], Private(row), HasArm(row.kind)
             PROVE  /\ inv'[d][w].pc = 4 => row \in inv'[d][w].todo \/ Hit(row)' = {}
                    /\ inv'[d][w].pc = 5 => Hit(row)' = {} \/ Fault("store")
  BY DEF Cleaning, Private, HasArm, Fault
<1>1. PICK v \in Who : inv'[d][w] = inv[d][v]
  OBVIOUS
<1>2. row \in Own(d)
  BY DEF OwnRows
<1>3. \A u \in Who : inv[d][u] # Nobody => inv[d][u].step = "failure"
  BY <1>1, OneAtATime
<1>4. Hit(row)' \subseteq Hit(row)
  BY <1>2, <1>3, HitShrinks
<1> QED BY <1>1, <1>4 DEF Cleaning

\* A sweep without failing deletes leaves one row less to do and nothing of it.
LEMMA SweepCleans ==
  ASSUME TypeOK, OwnRows, Control, "delete" \notin Faults, NEW d \in Deployment,
         Single(d), Cleaning(d), NEW w \in Who, inv[d][w].pc = 4, At(d, w, 4),
         inv[d][w] # Nobody, inv[d][w].step = "failure", Sweep(d, w)
  PROVE  Cleaning(d)'
<1>0. manifest' = manifest
  BY DEF Sweep
<1>1. \A v \in Who : inv'[d][v] # Nobody => v = w
  BY OneAtATime DEF At
<1>2. PICK row \in inv[d][w].todo :
        /\ aws' = aws \ Cleanup(row)
        /\ inv' = [inv EXCEPT ![d][w].todo = inv[d][w].todo \ {row}]
  BY DEF Sweep, Fault
<1>3. inv'[d][w].todo = inv[d][w].todo \ {row}
  <2>1. inv[d][w].todo \ {row} \in SUBSET Resource
    BY Known
  <2> QED BY <1>2, <2>1, TodoIs
<1>4. ASSUME NEW r \in manifest[d], Private(r), HasArm(r.kind)
      PROVE  r \in inv'[d][w].todo \/ Hit(r)' = {}
  <2>1. Hit(r)' = Hit(r) \ Cleanup(row)
    BY <1>2 DEF Hit
  <2>2. r = row => Cleanup(row) = Hit(r)
    BY <1>4 DEF Cleanup
  <2>3. r \in inv[d][w].todo \/ Hit(r) = {}
    BY <1>4 DEF Cleaning
  <2> QED BY <1>3, <2>1, <2>2, <2>3
<1>5. inv'[d][w].pc = 4
  BY DEF At
<1> QED BY <1>0, <1>1, <1>4, <1>5 DEF Cleaning, Private, HasArm, Fault

\* A step of the failure handler keeps Cleaning, and lets it return only when
\* nothing is left to delete.
LEMMA CleaningHandler ==
  ASSUME TypeOK, OwnRows, Control, "delete" \notin Faults, NEW d \in Deployment,
         Single(d), Cleaning(d), [Next]_vars, NEW w \in Who, inv[d][w] # Nobody,
         inv[d][w].step = "failure", Instruction(d, w) \/ Failure(d, w)
  PROVE  Cleaning(d)'
<1>0. manifest' = manifest
  BY FailureHandler
<1>1. \A v \in Who : inv[d][v] # Nobody => v = w
  BY OneAtATime
<1>2. ASSUME NEW pc, At(d, w, pc), UNCHANGED aws,
             pc = 4 => inv'[d][w].todo = manifest[d],
             pc = 5 => Fault("store") \/ (inv[d][w].pc = 4 /\ inv[d][w].todo = {})
      PROVE  Cleaning(d)'
  <2>1. \A v \in Who : inv'[d][v] # Nobody => v = w
    BY <1>1, <1>2 DEF At
  <2>2. inv'[d][w].pc = pc
    BY <1>2 DEF At
  <2>3. \A row : Hit(row)' = Hit(row)
    BY <1>2 DEF Hit
  <2>4. inv[d][w].pc = 4 /\ inv[d][w].todo = {} =>
          \A row \in manifest[d] : Private(row) /\ HasArm(row.kind) => Hit(row) = {}
    BY DEF Cleaning
  <2> QED BY <1>0, <1>2, <2>1, <2>2, <2>3, <2>4 DEF Cleaning, Private, HasArm, Fault
<1>3. CASE inv[d][w].pc \in {1, 2} /\ At(d, w, inv[d][w].pc + 1) /\ UNCHANGED aws
  <2>1. inv[d][w].pc + 1 \notin {4, 5}
    BY <1>3
  <2> QED BY <1>2, <1>3, <2>1
<1>4. CASE inv[d][w].pc = 5 /\ Gone(d, w) /\ Return(d, w)
  <2>1. \A v \in Who : inv'[d][v] = Nobody
    BY <1>1, <1>4 DEF Gone
  <2> QED BY <2>1 DEF Cleaning
<1>5. CASE inv[d][w].pc = 4 /\ At(d, w, 4) /\ Sweep(d, w)
  BY <1>5, SweepCleans
<1>6. CASE At(d, w, 4) /\ inv'[d][w].todo = manifest[d] /\ UNCHANGED aws
  BY <1>2, <1>6
<1>7. CASE At(d, w, 5) /\ UNCHANGED aws /\
           (Fault("store") \/ (inv[d][w].pc = 4 /\ inv[d][w].todo = {}))
  BY <1>2, <1>7
<1> QED BY <1>3, <1>4, <1>5, <1>6, <1>7, FailureHandler

\* Every step keeps Cleaning.
LEMMA CleaningNext ==
  ASSUME TypeOK, OwnRows, Control, "delete" \notin Faults, Unhurried,
         \A d \in Deployment : Single(d) /\ Cleaning(d), [Next]_vars, NEW e \in Deployment
  PROVE  Cleaning(e)'
<1>1. CASE UNCHANGED vars
  BY <1>1, CleaningElsewhere DEF vars
<1>2. ASSUME NEW d \in Deployment, d # e,
             \/ HandlerStep(d) \/ MachineStep(d) \/ Outage(d)
             \/ \E w \in Who : Instruction(d, w) \/ Failure(d, w)
      PROVE  Cleaning(e)'
  BY <1>2, OthersSame, ManifestGrows, CleaningElsewhere
<1>3. CASE HandlerStep(e)
  BY <1>3, CleaningElsewhere DEF HandlerStep, CreateRecord, RejectLate, StartExecution,
     WritePending, StartFails
<1>4. CASE Skip(e)
  BY <1>4, CleaningElsewhere DEF Skip
<1>5. CASE Invoke(e)
  <2>1. /\ inv'[e]["run"] = Invoked(Current(e), exec[e].try) /\ UNCHANGED manifest
        /\ \A v \in Who : v # "run" => inv'[e][v] = inv[e][v]
    BY <1>5 DEF Invoke, TypeOK, Who
  <2>2. inv'[e]["run"].pc = 1
    BY <2>1 DEF Invoked
  <2> QED BY <2>1, <2>2, CleaningElsewhere
<1>6. CASE Outage(e)
  <2>1. UNCHANGED manifest
    BY <1>6, OutageParts
  <2>2. \A w \in Who : inv'[e][w] # Nobody => \E v \in Who : inv'[e][w] = inv[e][v]
    BY <1>6, OutageParts DEF Who
  <2> QED BY <2>1, <2>2, CleaningElsewhere
<1>7. ASSUME NEW w \in Who, Instruction(e, w) \/ Failure(e, w)
      PROVE  Cleaning(e)'
  <2>1. Stepped(e, w) \/ Finished(e, w)
    BY <1>7, InstructionMoves
  <2>2. /\ inv[e][w] # Nobody
        /\ \A v \in Who : v # w => inv'[e][v] = inv[e][v]
        /\ inv'[e][w] # Nobody => inv'[e][w].step = inv[e][w].step
    BY <2>1 DEF Stepped, Moved, Finished
  <2>3. CASE inv[e][w].step = "failure"
    BY <1>7, <2>2, <2>3, CleaningHandler
  <2>4. CASE inv[e][w].step # "failure"
    <3>1. \A v \in Who : inv[e][v] # Nobody => v = w
      BY <2>2, OneAtATime
    <3>2. \A v \in Who : inv'[e][v] # Nobody => inv'[e][v].step # "failure"
      BY <2>2, <2>4, <3>1
    <3> QED BY <3>2 DEF Cleaning
  <2> QED BY <2>3, <2>4
<1> QED BY <1>1, <1>2, <1>3, <1>4, <1>5, <1>6, <1>7 DEF Next, MachineStep

\* There is no cleanup at first,
LEMMA CleaningInit ==
  ASSUME Init, NEW d \in Deployment
  PROVE  Cleaning(d)
BY NobodyAtFirst DEF Cleaning

\* When no delete fails, no read or write of the record does and no invocation
\* runs beside its retry, the cleanup of a failed deployment leaves nothing of
\* what the manifest lists, however often it was killed and run again.
THEOREM SweepLeavesNothing ==
  ASSUME Faults \cap {"delete", "store"} = {}, Unhurried
  PROVE  Spec => []SweptClean
<1> DEFINE IInv == TypeOK /\ OwnRows /\ Control /\ \A d \in Deployment : Single(d) /\ Cleaning(d)
<1>0. "delete" \notin Faults /\ Unhurried /\ ~Fault("store")
  BY DEF Fault
<1>1. Init => IInv
  BY TypeInit, OwnInit, ControlInit, SingleInit, CleaningInit
<1>2. IInv /\ [Next]_vars => IInv'
  <2> SUFFICES ASSUME IInv, [Next]_vars PROVE IInv'
    OBVIOUS
  <2>1. TypeOK' /\ OwnRows' /\ Control'
    BY TypeNext, OwnNext, ControlNext
  <2>2. \A d \in Deployment : Single(d)' /\ Cleaning(d)'
    BY <1>0, SingleNext, CleaningNext
  <2> QED BY <2>1, <2>2
<1>3. IInv => SweptClean
  <2> SUFFICES ASSUME IInv, NEW d \in Deployment, CleanedUp(d),
                      NEW row \in manifest[d], Private(row), HasArm(row.kind)
               PROVE  Hit(row) = {}
    BY DEF SweptClean
  <2>1. inv[d]["run"] # Nobody /\ inv[d]["run"].step = "failure" /\ "run" \in Who
    BY DEF CleanedUp, Who
  <2>2. inv[d]["run"].pc = 5
    BY <2>1, TailOps DEF CleanedUp
  <2> QED BY <1>0, <2>1, <2>2 DEF Cleaning
<1> QED BY <1>1, <1>2, <1>3, PTL DEF Spec

-----------------------------------------------------------------------------
(* What the cleanup is told about.                                         *)

\* A resource of a guarded kind that the instructions of b provide is recorded
\* by the next one.
Followed(b) ==
  \A i \in 1 .. Len(b), k \in Kind \ Unguarded :
    b[i] \in Providing(k) => i + 1 \in 1 .. Len(b) /\ b[i + 1] = I("record", k)

\* So it is in what is put together of two such pieces.
LEMMA FollowedConcat ==
  ASSUME NEW S, NEW p \in Seq(S), NEW q \in Seq(S), Followed(p), Followed(q)
  PROVE  p \o q \in Seq(S) /\ Followed(p \o q)
<1> DEFINE r == p \o q
<1>1. /\ r \in Seq(S) /\ Len(r) = Len(p) + Len(q)
      /\ \A i \in 1 .. Len(p) : r[i] = p[i]
      /\ \A i \in 1 .. Len(q) : r[Len(p) + i] = q[i]
  BY ConcatAt
<1>2. Len(p) \in Nat /\ Len(q) \in Nat
  BY LenProperties
<1> HIDE DEF r
<1>3. ASSUME NEW i \in 1 .. Len(r), NEW k \in Kind \ Unguarded, r[i] \in Providing(k)
      PROVE  i + 1 \in 1 .. Len(r) /\ r[i + 1] = I("record", k)
  <2>1. CASE i <= Len(p)
    <3>1. i \in 1 .. Len(p) /\ p[i] \in Providing(k)
      BY <1>1, <1>2, <1>3, <2>1
    <3>2. i + 1 \in 1 .. Len(p) /\ p[i + 1] = I("record", k)
      BY <3>1 DEF Followed
    <3> QED BY <1>1, <1>2, <3>2
  <2>2. CASE i > Len(p)
    <3>1. PICK j \in 1 .. Len(q) : i = Len(p) + j
      <4>1. i - Len(p) \in 1 .. Len(q) /\ i = Len(p) + (i - Len(p))
        BY <1>1, <1>2, <2>2
      <4> QED BY <4>1
    <3>2. q[j] \in Providing(k)
      BY <1>1, <1>3, <3>1
    <3>3. j + 1 \in 1 .. Len(q) /\ q[j + 1] = I("record", k)
      BY <3>2 DEF Followed
    <3>4. i + 1 = Len(p) + (j + 1) /\ i + 1 \in 1 .. Len(r)
      BY <1>1, <1>2, <3>1, <3>3
    <3> QED BY <1>1, <3>3, <3>4
  <2> QED BY <1>1, <1>2, <2>1, <2>2
<1>4. Followed(r)
  BY <1>3 DEF Followed
<1> QED BY <1>1, <1>4 DEF r

\* What a provider is, and what is none.
LEMMA ProviderIs ==
  /\ \A op, j, k : I(op, j) \in Providing(k) => op \in Created /\ j = k
  /\ \A op, j, k : op \notin Created => I(op, j) \notin Providing(k)
BY DEF I, Providing, Created

\* The bodies that are written out.
LEMMA SomeFollowed ==
  /\ Followed(<<>>) /\ Followed(GuardrailsBody) /\ Followed(McpServerBody)
  /\ Followed(EvaluationBody) /\ Followed(LaunchBody) /\ Followed(CodegenBody)
  /\ Followed(MemoryBody) /\ Followed(KbRoleBody) /\ Followed(CollectionBody)
  /\ Followed(VectorBucketBody) /\ Followed(IngestBody) /\ Followed(PolicyRulesBody)
  /\ Followed(<<I("found", "knowledge_base")>>)
<1>1. Followed(<<>>) /\ Followed(LaunchBody) /\ Followed(CodegenBody)
      /\ Followed(IngestBody) /\ Followed(PolicyRulesBody)
      /\ Followed(<<I("found", "knowledge_base")>>)
  BY ProviderIs DEF Followed, LaunchBody, CodegenBody, IngestBody, PolicyRulesBody, Call, Created
<1>2. Followed(GuardrailsBody)
  BY ProviderIs DEF Followed, GuardrailsBody, Call, Created
<1>3. Followed(McpServerBody)
  BY ProviderIs DEF Followed, McpServerBody, Call, Created, Unguarded
<1>4. Followed(EvaluationBody) /\ Followed(KbRoleBody)
  BY ProviderIs DEF Followed, EvaluationBody, KbRoleBody, Call, Created, Unguarded
<1>5. Followed(MemoryBody)
  BY ProviderIs DEF Followed, MemoryBody, Call, Join, Created, Unguarded
<1>6. Followed(CollectionBody) /\ Followed(VectorBucketBody)
  BY ProviderIs DEF Followed, CollectionBody, VectorBucketBody, Created
<1> QED BY <1>1, <1>2, <1>3, <1>4, <1>5, <1>6

\* The bodies that are put together of pieces.
LEMMA JoinedFollowed ==
  ASSUME NEW d \in Deployment
  PROVE  /\ Followed(KnowledgeBaseBody(d)) /\ Followed(PolicyBody(d))
         /\ Followed(IamBody(d)) /\ Followed(ConfigureBody(d)) /\ Followed(HarnessBody(d))
<1> DEFINE S == [op : Ops, kind : Kind \cup {"none"}]
<1>1. \A op \in Ops, k \in Kind \cup {"none"} : I(op, k) \in S
  BY DEF I
<1>2. <<>> \in Seq(S) /\ Followed(<<>>)
  BY SomeFollowed
<1> HIDE DEF S
<1>3. \A p, q \in Seq(S) : Followed(p) /\ Followed(q) => p \o q \in Seq(S) /\ Followed(p \o q)
  BY FollowedConcat
<1>4. Followed(KnowledgeBaseBody(d))
  <2> DEFINE found == <<I("found", "knowledge_base")>>
             base == <<Call, I("create", "knowledge_base"), I("record", "knowledge_base"), Join>>
  <2>1. /\ KbRoleBody \in Seq(S) /\ found \in Seq(S) /\ CollectionBody \in Seq(S)
        /\ VectorBucketBody \in Seq(S) /\ base \in Seq(S) /\ IngestBody \in Seq(S)
    BY <1>1, SomeKinds DEF KbRoleBody, CollectionBody, VectorBucketBody, IngestBody, Call, Join, Ops
  <2>2. Followed(base)
    BY ProviderIs DEF Followed, Call, Join, Created
  <2>3. Followed(found)
    BY SomeFollowed
  <2>4. StoreBody(d) \in Seq(S) /\ Followed(StoreBody(d))
    BY <2>1, SomeFollowed DEF StoreBody
  <2>5. KnowledgeBaseBody(d) = KbRoleBody \o found \o StoreBody(d) \o base \o IngestBody
    BY DEF KnowledgeBaseBody
  <2> HIDE DEF found, base
  <2>6. KbRoleBody \o found \in Seq(S) /\ Followed(KbRoleBody \o found)
    BY <1>3, <2>1, <2>3, SomeFollowed
  <2>7. /\ KbRoleBody \o found \o StoreBody(d) \in Seq(S)
        /\ Followed(KbRoleBody \o found \o StoreBody(d))
    BY <1>3, <2>4, <2>6
  <2>8. /\ KbRoleBody \o found \o StoreBody(d) \o base \in Seq(S)
        /\ Followed(KbRoleBody \o found \o StoreBody(d) \o base)
    BY <1>3, <2>1, <2>2, <2>7
  <2>9. Followed(KbRoleBody \o found \o StoreBody(d) \o base \o IngestBody)
    BY <1>3, <2>1, <2>8, SomeFollowed
  <2> QED BY <2>5, <2>9
<1>5. Followed(PolicyBody(d))
  <2> DEFINE engine == <<I("found", "policy_engine"), I("create", "policy_engine"),
                         I("record", "policy_engine"), Join>>
  <2>1. engine \in Seq(S) /\ PolicyRulesBody \in Seq(S)
    BY <1>1, SomeKinds DEF PolicyRulesBody, Call, Join, Ops
  <2>2. Followed(engine)
    BY ProviderIs DEF Followed, Join, Created
  <2>3. PolicyBody(d) \in {<<>>, engine \o PolicyRulesBody}
    BY DEF PolicyBody
  <2> HIDE DEF engine
  <2> QED BY <1>2, <1>3, <2>1, <2>2, <2>3, SomeFollowed
<1>6. Followed(IamBody(d))
  <2>1. Followed(<<I("ensure", "exec_role"), Call>>)
    BY ProviderIs DEF Followed, Call, Created, Unguarded
  <2> QED BY <1>2, <2>1 DEF IamBody
<1>7. Followed(ConfigureBody(d))
  <2> DEFINE runtime == <<Call, I("ensure", "agent_runtime"), I("record", "agent_runtime")>>
             role == <<I("record", "exec_role")>>
  <2>1. runtime \in Seq(S) /\ role \in Seq(S)
    BY <1>1, SomeKinds DEF Call, Ops
  <2>2. Followed(runtime)
    BY ProviderIs DEF Followed, Call, Created
  <2>3. Followed(role)
    BY ProviderIs DEF Followed, Created
  <2>4. ConfigureBody(d) \in {runtime \o role, runtime \o <<>>}
    BY DEF ConfigureBody
  <2> HIDE DEF runtime, role
  <2> QED BY <1>2, <1>3, <2>1, <2>2, <2>3, <2>4
<1>8. Followed(HarnessBody(d))
  <2> DEFINE provider(op) == IF "gateway" \in Plan[d]
                             THEN <<I(op, "harness_provider")>> ELSE <<>>
             role == <<I("ensure", "harness_role"), Call>>
             harness == <<I("ensure", "harness"), I("record", "harness"),
                          I("record", "harness_role")>>
             handles == <<I("begin", "none"), Call>>
  <2>1. /\ role \in Seq(S) /\ harness \in Seq(S) /\ handles \in Seq(S)
        /\ provider("ensure") \in Seq(S) /\ provider("record") \in Seq(S)
    BY <1>1, <1>2, SomeKinds DEF Call, Ops
  <2>2. Followed(role) /\ Followed(handles)
    BY ProviderIs DEF Followed, Call, Created, Unguarded
  <2>3. Followed(harness)
    BY ProviderIs DEF Followed, Created
  <2>4. Followed(provider("ensure"))
    <3>1. Followed(<<I("ensure", "harness_provider")>>)
      BY ProviderIs DEF Followed, Created, Unguarded
    <3> QED BY <1>2, <3>1
  <2>5. Followed(provider("record"))
    <3>1. Followed(<<I("record", "harness_provider")>>)
      BY ProviderIs DEF Followed, Created, Unguarded
    <3> QED BY <1>2, <3>1
  <2>6. HarnessBody(d) = role \o provider("ensure") \o harness \o provider("record") \o handles
    BY DEF HarnessBody
  <2> HIDE DEF role, harness, handles, provider
  <2>7. role \o provider("ensure") \in Seq(S) /\ Followed(role \o provider("ensure"))
    BY <1>3, <2>1, <2>2, <2>4
  <2>8. /\ role \o provider("ensure") \o harness \in Seq(S)
        /\ Followed(role \o provider("ensure") \o harness)
    BY <1>3, <2>1, <2>3, <2>7
  <2>9. /\ role \o provider("ensure") \o harness \o provider("record") \in Seq(S)
        /\ Followed(role \o provider("ensure") \o harness \o provider("record"))
    BY <1>3, <2>1, <2>5, <2>8
  <2> QED BY <1>3, <2>1, <2>2, <2>6, <2>9
<1> QED BY <1>4, <1>5, <1>6, <1>7, <1>8

\* Every step but the gateway's records what it provides with its next
\* instruction, unless the kind is an unguarded one.
LEMMA RecordedNext ==
  ASSUME NEW d \in Deployment, NEW s \in Step, s # "gateway",
         NEW i \in DOMAIN Program[d][s], NEW k \in Kind \ Unguarded,
         Program[d][s][i] \in Providing(k)
  PROVE  i + 1 \in DOMAIN Program[d][s] /\ Program[d][s][i + 1] = I("record", k)
<1> DEFINE p == Program[d][s]
           b == Body(d, s)
<1>1. Followed(b)
  <2>1. CASE s \in {"guardrails", "mcp_server", "evaluation", "codegen", "iam",
                    "runtime_configure", "runtime_launch"}
    BY <2>1, SomeFollowed, JoinedFollowed DEF Body
  <2>2. CASE s \in {"knowledge_base", "memory", "policy", "harness"}
    BY <2>2, SomeFollowed, JoinedFollowed DEF Body
  <2>3. CASE s \in {"status_update", "failure"}
    BY <2>3, ProvidersInside
  <2>4. CASE s \notin {"guardrails", "mcp_server", "evaluation", "codegen", "iam",
                       "runtime_configure", "runtime_launch", "knowledge_base", "memory",
                       "policy", "harness", "status_update", "failure"}
    BY <2>4, SomeFollowed DEF Body, AuthBody
  <2> QED BY <2>1, <2>2, <2>3, <2>4
<1>2. /\ DOMAIN p = 1 .. Len(b) + 2 /\ p[1] = I("begin", "none")
      /\ p[Len(b) + 2] = I("return", "none")
      /\ \A j \in 1 .. Len(b) : p[j + 1] = b[j]
      /\ Len(b) \in Nat
  BY PlainLayout, Layout
<1>3. \A op \in {"begin", "return"} : I(op, "none") \notin Providing(k)
  BY ProviderIs DEF Created
<1>4. p[i] \in Providing(k) /\ i \in DOMAIN p
  OBVIOUS
<1> HIDE DEF p, b
<1>5. i # 1 /\ i # Len(b) + 2
  BY <1>2, <1>3, <1>4
<1>6. PICK j \in 1 .. Len(b) : i = j + 1
  <2>1. i - 1 \in 1 .. Len(b) /\ i = (i - 1) + 1
    BY <1>2, <1>4, <1>5
  <2> QED BY <2>1
<1>7. b[j] \in Providing(k)
  BY <1>2, <1>4, <1>6
<1>8. j + 1 \in 1 .. Len(b) /\ b[j + 1] = I("record", k)
  BY <1>1, <1>7 DEF Followed
<1>9. i + 1 \in DOMAIN p /\ p[(j + 1) + 1] = I("record", k)
  BY <1>2, <1>6, <1>8
<1> QED BY <1>6, <1>9 DEF p

\* What the gateway step executes.
LEMMA GatewayProgram ==
  ASSUME NEW d \in Deployment
  PROVE  LET p == Program[d]["gateway"]
         IN  /\ DOMAIN p = 1 .. 13 /\ AbortPc = 9
             /\ p[1] = I("begin", "none") /\ p[2] = I("ensure", "gateway_role")
             /\ p[3] = Call /\ p[4] = I("ensure", "gateway") /\ p[5] = Call
             /\ p[6] = I("record", "gateway") /\ p[7] = I("record", "gateway_role")
             /\ p[8] = I("return", "none") /\ p[9] = I("drop", "gateway")
             /\ p[10] = I("drop", "gateway_role") /\ p[11] = I("record", "gateway")
             /\ p[12] = I("record", "gateway_role") /\ p[13] = I("raise", "none")
<1> DEFINE p == Program[d]["gateway"]
           b == Body(d, "gateway")
<1>0. "gateway" \in Step
  BY DEF Step, Chain, TailPos
<1>1. /\ DOMAIN p = 1 .. Len(p) /\ Len(p) = Len(b) + 2 + 5
      /\ p[1] = I("begin", "none") /\ p[Len(b) + 2] = I("return", "none")
      /\ \A i \in 1 .. Len(b) : p[i + 1] = b[i]
      /\ b = GatewayBody /\ Len(b) = 6 /\ \A i \in 1 .. 5 : p[i + 8] = GatewayAbort[i]
  BY <1>0, Layout
<1> HIDE DEF p, b
<1>2. DOMAIN p = 1 .. 13 /\ p[8] = I("return", "none")
  BY <1>1
<1>3. /\ p[2] = b[1] /\ p[3] = b[2] /\ p[4] = b[3] /\ p[5] = b[4] /\ p[6] = b[5] /\ p[7] = b[6]
  BY <1>1
<1>4. /\ p[9] = GatewayAbort[1] /\ p[10] = GatewayAbort[2] /\ p[11] = GatewayAbort[3]
      /\ p[12] = GatewayAbort[4] /\ p[13] = GatewayAbort[5]
  BY <1>1
<1>5. /\ b[1] = I("ensure", "gateway_role") /\ b[2] = Call /\ b[3] = I("ensure", "gateway")
      /\ b[4] = Call /\ b[5] = I("record", "gateway") /\ b[6] = I("record", "gateway_role")
  BY <1>1 DEF GatewayBody
<1>6. /\ GatewayAbort[1] = I("drop", "gateway") /\ GatewayAbort[2] = I("drop", "gateway_role")
      /\ GatewayAbort[3] = I("record", "gateway") /\ GatewayAbort[4] = I("record", "gateway_role")
      /\ GatewayAbort[5] = I("raise", "none")
  BY DEF GatewayAbort
<1>7. AbortPc = 9
  BY DEF AbortPc, GatewayBody
<1> QED BY <1>1, <1>2, <1>3, <1>4, <1>5, <1>6, <1>7 DEF p

\* What d has made under names of its own and the cleanup must know of.
Owed(d) == {r \in aws : r.maker = d /\ Private(r) /\ r.kind \notin Unguarded}

\* Invocation w of d has r in hand and is going to record it: with its next
\* instruction, or from within the gateway step, by whichever way it takes.
Recording(d, w, r) ==
  /\ inv[d][w] # Nobody /\ r \in inv[d][w].got
  /\ \/ Now(d, w, "record", r.kind)
     \/ /\ inv[d][w].step = "gateway" /\ r.kind = "gateway"
        /\ inv[d][w].pc \in {5, 9, 10}
     \/ /\ inv[d][w].step = "gateway" /\ r.kind = "gateway_role"
        /\ inv[d][w].pc \in {3, 4, 5, 6, 9, 10, 11}

\* The execution of d timed out and no failure handler runs, nor will.
Abandoned(d) ==
  /\ exec[d].state = "timed_out"
  /\ \A w \in Who : inv[d][w] # Nobody => inv[d][w].step # "failure"

\* What the cleanup must know of is in the manifest, or about to be, or there
\* will be no cleanup.
Listed(d) ==
  \A r \in Owed(d) : \/ r \in manifest[d] \/ Abandoned(d)
                     \/ \E w \in Who : Recording(d, w, r)

\* The next instruction is one, and the action that executes it, or fails to.
LEMMA ActsAs ==
  ASSUME NEW d \in Deployment, NEW w \in Who, NEW op, NEW k, Now(d, w, op, k),
         Instruction(d, w) \/ Failure(d, w)
  PROVE  /\ op = "call" => Proceed(d, w) \/ StepFails(d, w)
         /\ op = "ensure" => Ensure(d, w) \/ StepFails(d, w)
         /\ op = "record" => Record(d, w)
         /\ op = "drop" => Drop(d, w)
<1>0. \A o, m : Now(d, w, o, m) => o = op /\ m = k
  BY DEF Now, I
<1>1. Begin(d, w) \/ BeginFails(d, w) => op = "begin"
  BY <1>0 DEF Begin, BeginFails
<1>2. Proceed(d, w) => op \in {"call", "join"}
  BY <1>0 DEF Proceed
<1>3. Ensure(d, w) => op = "ensure"
  BY <1>0 DEF Ensure
<1>4. Create(d, w) => op \in {"fresh", "create"}
  BY <1>0 DEF Create
<1>5. Lookup(d, w) => op = "found"
  BY <1>0 DEF Lookup
<1>6. Record(d, w) => op \in {"record", "record_new"}
  BY <1>0 DEF Record
<1>7. Drop(d, w) => op = "drop"
  BY <1>0 DEF Drop
<1>8. /\ Return(d, w) => op = "return"
      /\ WriteSucceeded(d, w) => op = "succeed"
      /\ WriteFailed(d, w) => op = "fail"
      /\ Snapshot(d, w) => op = "snapshot"
      /\ Sweep(d, w) => op = "sweep"
      /\ Swept(d, w) => op = "sweep"
  BY <1>0 DEF Return, WriteSucceeded, WriteFailed, Snapshot, Sweep, Swept
<1>9. LastResort(d, w) => op \in {"begin", "succeed", "fail"}
  BY <1>0 DEF LastResort
<1>10. StepFails(d, w) => op \in {"call", "ensure", "create", "fresh", "raise"}
  <2>1. StepFails(d, w) => \E o \in {"call", "ensure", "create", "fresh", "raise"} : \E m : Now(d, w, o, m)
    BY DEF StepFails
  <2> QED BY <1>0, <2>1
<1> QED BY <1>1, <1>2, <1>3, <1>4, <1>5, <1>6, <1>7, <1>8, <1>9, <1>10
        DEF Instruction, Failure

\* Invocation w goes on at pc and has in hand what it had.
Keeps(d, w, pc) == At(d, w, pc) /\ inv[d][w].got \subseteq inv'[d][w].got

\* The ways of going on that keep what is in hand.
LEMMA KeepsGoing ==
  ASSUME TypeOK, NEW d \in Deployment, NEW w \in Who, inv[d][w] # Nobody
  PROVE  /\ \A pc \in Nat \ {0} : GoTo(d, w, pc) => Keeps(d, w, pc)
         /\ GoOn(d, w) => Keeps(d, w, inv[d][w].pc + 1)
         /\ \A new \in SUBSET Resource :
              GoOnWith(d, w, new) =>
                Keeps(d, w, inv[d][w].pc + 1) /\ new \subseteq inv'[d][w].got
<1>0. inv[d][w] \in Invocation /\ inv[d][w].pc + 1 \in Nat \ {0}
      /\ inv[d][w].got \in SUBSET Resource
  BY Known
<1>1. ASSUME NEW pc \in Nat \ {0}, GoTo(d, w, pc)
      PROVE  Keeps(d, w, pc)
  <2> DEFINE i == [inv[d][w] EXCEPT !.pc = pc]
  <2>1. inv' = [inv EXCEPT ![d] = [inv[d] EXCEPT ![w] = i]]
    BY <1>1 DEF TypeOK, GoTo
  <2>2. i.got = inv[d][w].got
    BY <1>0, InvocationUpdates
  <2> HIDE DEF i
  <2>3. inv'[d][w].got = inv[d][w].got
    BY <2>1, <2>2 DEF TypeOK
  <2> QED BY <1>1, <2>3, GoToAt DEF Keeps
<1>2. ASSUME NEW new \in SUBSET Resource, GoOnWith(d, w, new)
      PROVE  Keeps(d, w, inv[d][w].pc + 1) /\ new \subseteq inv'[d][w].got
  <2> DEFINE j == [inv[d][w] EXCEPT !.pc = inv[d][w].pc + 1]
             i == [j EXCEPT !.got = inv[d][w].got \cup new]
  <2>1. inv' = [inv EXCEPT ![d] = [inv[d] EXCEPT ![w] = i]]
    BY <1>2 DEF TypeOK, GoOnWith, GoToWith
  <2>2. j \in Invocation
    BY <1>0, InvocationUpdates
  <2> HIDE DEF j
  <2>3. i.got = inv[d][w].got \cup new
    BY <1>0, <2>2, InvocationUpdates
  <2> HIDE DEF i
  <2>4. inv'[d][w].got = inv[d][w].got \cup new
    BY <2>1, <2>3 DEF TypeOK
  <2> QED BY <1>2, <2>4, GoOnAt DEF Keeps
<1>3. GoOn(d, w) => Keeps(d, w, inv[d][w].pc + 1)
  BY <1>0, <1>1 DEF GoOn
<1> QED BY <1>1, <1>2, <1>3

\* What has been created is in hand, and recorded in time.
LEMMA MadeRecording ==
  ASSUME TypeOK, NEW d \in Deployment, NEW w \in Who, NEW op \in Created, NEW k \in Kind,
         Now(d, w, op, k), k \notin Unguarded, NEW r, r = New(d, w, k), GoOnWith(d, w, {r})
  PROVE  Recording(d, w, r)'
<1> DEFINE s == inv[d][w].step
           pc == inv[d][w].pc
<1>0. /\ inv[d][w] # Nobody /\ s \in Step /\ pc \in DOMAIN Program[d][s]
      /\ Program[d][s][pc] = I(op, k) /\ pc \in Nat \ {0}
  BY NowIs
<1>1. r.kind = k
  BY NewLabelled
<1>2. /\ inv'[d][w] # Nobody /\ inv'[d][w].step = s /\ inv'[d][w].pc = pc + 1
      /\ r \in inv'[d][w].got
  <2>1. {r} \in SUBSET Resource
    BY <1>0, NewIsOwn DEF Own
  <2>2. Keeps(d, w, inv[d][w].pc + 1) /\ {r} \subseteq inv'[d][w].got
    BY <1>0, <2>1, KeepsGoing
  <2> QED BY <2>2 DEF Keeps, At
<1>3. CASE s # "gateway"
  <2>1. I(op, k) \in Providing(k)
    BY DEF Providing, Created
  <2>2. pc + 1 \in DOMAIN Program[d][s] /\ Program[d][s][pc + 1] = I("record", k)
    BY <1>0, <1>3, <2>1, RecordedNext
  <2>3. Now(d, w, "record", r.kind)'
    BY <1>1, <1>2, <2>2 DEF Now
  <2> QED BY <1>2, <2>3 DEF Recording
<1>4. CASE s = "gateway"
  <2>1. \/ pc = 2 /\ k = "gateway_role"
        \/ pc = 4 /\ k = "gateway"
    <3>1. pc \in 1 .. 13
      BY <1>0, <1>4, GatewayProgram
    <3>2. \A j \in {1, 3, 5, 6, 7, 8, 9, 10, 11, 12, 13} : Program[d]["gateway"][j].op \notin Created
      BY GatewayProgram DEF I, Call, Created
    <3>3. Program[d]["gateway"][2].kind = "gateway_role" /\ Program[d]["gateway"][4].kind = "gateway"
      BY GatewayProgram DEF I
    <3>4. Program[d]["gateway"][pc].op = op /\ Program[d]["gateway"][pc].kind = k
      BY <1>0, <1>4 DEF I
    <3> QED BY <3>1, <3>2, <3>3, <3>4
  <2>2. \/ inv'[d][w].pc = 3 /\ r.kind = "gateway_role"
        \/ inv'[d][w].pc = 5 /\ r.kind = "gateway"
    BY <1>1, <1>2, <2>1
  <2> QED BY <1>2, <1>4, <2>2 DEF Recording
<1> QED BY <1>3, <1>4

\* The failure handler records nothing.
LEMMA RecorderSteps ==
  ASSUME TypeOK, NEW d \in Deployment, NEW w \in Who, NEW r, Recording(d, w, r)
  PROVE  inv[d][w] # Nobody /\ inv[d][w].step # "failure"
<1>1. Now(d, w, "record", r.kind) => inv[d][w].step # "failure"
  BY TailOps
<1> QED BY <1>1 DEF Recording

\* A record of the kind it has in hand lists it.
LEMMA RecordLists ==
  ASSUME TypeOK, "record" \notin Faults, NEW d \in Deployment, NEW w \in Who, NEW r,
         Now(d, w, "record", r.kind), r \in inv[d][w].got, Record(d, w)
  PROVE  r \in manifest'[d]
<1>1. PICK k \in Kind :
        /\ Now(d, w, "record", k) \/ Now(d, w, "record_new", k)
        /\ manifest' = [manifest EXCEPT ![d] = @ \cup
              {x \in Handles(d, w, k) : Now(d, w, "record_new", k) => x = New(d, w, k)}]
  BY DEF Record, Fault
<1>2. k = r.kind /\ ~Now(d, w, "record_new", k)
  BY <1>1 DEF Now, I
<1>3. r \in Handles(d, w, k)
  BY <1>2 DEF Handles
<1> QED BY <1>1, <1>2, <1>3 DEF TypeOK

\* Where the gateway step goes from the instructions between the creation of the
\* gateway or its role and their record: on, or to its abort section.
LEMMA GatewayGoesOn ==
  ASSUME TypeOK, NEW d \in Deployment, NEW w \in Who, inv[d][w] # Nobody,
         inv[d][w].step = "gateway", inv[d][w].pc \in {3, 4, 5, 6, 9, 10, 11},
         Instruction(d, w) \/ Failure(d, w)
  PROVE  \/ Keeps(d, w, inv[d][w].pc + 1)
         \/ inv[d][w].pc \in {3, 4, 5} /\ Keeps(d, w, 9)
<1> DEFINE pc == inv[d][w].pc
<1>1. /\ pc \in {3, 5} => Now(d, w, "call", "none")
      /\ pc = 4 => Now(d, w, "ensure", "gateway")
      /\ pc = 6 => Now(d, w, "record", "gateway")
      /\ pc = 9 => Now(d, w, "drop", "gateway")
      /\ pc = 10 => Now(d, w, "drop", "gateway_role")
      /\ pc = 11 => Now(d, w, "record", "gateway")
  BY GatewayProgram DEF Now, Call
<1>2. ASSUME StepFails(d, w), pc \in {3, 4, 5}
      PROVE  Keeps(d, w, 9)
  <2>1. AbortPc = 9 /\ inv[d][w].pc \in 2 .. 9 - 1
    BY <1>2, GatewayProgram
  <2>2. GoTo(d, w, 9)
    BY <1>2, <2>1 DEF StepFails, RaiseFrom
  <2>3. 9 \in Nat \ {0}
    OBVIOUS
  <2> QED BY <2>2, <2>3, KeepsGoing
<1>3. Proceed(d, w) \/ Record(d, w) \/ Drop(d, w) => Keeps(d, w, inv[d][w].pc + 1)
  BY KeepsGoing DEF Proceed, Record, Drop
<1>4. Ensure(d, w) => Keeps(d, w, inv[d][w].pc + 1)
  <2> SUFFICES ASSUME Ensure(d, w) PROVE Keeps(d, w, inv[d][w].pc + 1)
    OBVIOUS
  <2>1. PICK k \in Kind :
          LET there == Existing(k, Label(d, k))
              made == IF there = {} THEN {New(d, w, k)} ELSE {}
          IN  GoOnWith(d, w, there \cup made)
    BY DEF Ensure
  <2> DEFINE there == Existing(k, Label(d, k))
             made == IF there = {} THEN {New(d, w, k)} ELSE {}
  <2>2. made \in SUBSET Own(d) /\ there \in SUBSET Own(d)
    BY NewIsOwn, ExistingIsOwn
  <2>3. there \cup made \in SUBSET Resource
    BY <2>2 DEF Own
  <2> HIDE DEF there, made
  <2>4. GoOnWith(d, w, there \cup made)
    BY <2>1 DEF there, made
  <2> QED BY <2>3, <2>4, KeepsGoing
<1>5. CASE pc \in {3, 5}
  BY <1>1, <1>2, <1>3, <1>5, ActsAs
<1>6. CASE pc = 4
  BY <1>1, <1>2, <1>4, <1>6, ActsAs
<1>7. CASE pc \in {6, 11}
  BY <1>1, <1>3, <1>7, ActsAs
<1>8. CASE pc \in {9, 10}
  BY <1>1, <1>3, <1>8, ActsAs
<1> QED BY <1>5, <1>6, <1>7, <1>8

\* What an invocation has in hand is recorded or still to be.
LEMMA RecordingStep ==
  ASSUME TypeOK, "record" \notin Faults, NEW d \in Deployment, NEW w \in Who, NEW r,
         Recording(d, w, r), Instruction(d, w) \/ Failure(d, w)
  PROVE  r \in manifest'[d] \/ Recording(d, w, r)'
<1> DEFINE pc == inv[d][w].pc
<1>0. inv[d][w] # Nobody /\ r \in inv[d][w].got
  BY DEF Recording
<1>1. CASE Now(d, w, "record", r.kind)
  BY <1>0, <1>1, ActsAs, RecordLists
<1>2. CASE inv[d][w].step = "gateway" /\ r.kind = "gateway" /\ pc \in {5, 9, 10}
  <2>1. PICK at \in {6, 9, 10, 11} : Keeps(d, w, at)
    <3>1. pc \in {3, 4, 5, 6, 9, 10, 11} /\ (pc + 1) \in {6, 10, 11}
      BY <1>2
    <3> QED BY <1>0, <1>2, <3>1, GatewayGoesOn
  <2>2. /\ inv'[d][w] # Nobody /\ inv'[d][w].step = "gateway" /\ inv'[d][w].pc = at
        /\ r \in inv'[d][w].got
    BY <1>0, <1>2, <2>1 DEF Keeps, At
  <2>3. at \in {6, 11} => Now(d, w, "record", r.kind)'
    BY <1>2, <2>2, GatewayProgram DEF Now
  <2> QED BY <1>2, <2>2, <2>3 DEF Recording
<1>3. CASE inv[d][w].step = "gateway" /\ r.kind = "gateway_role"
           /\ pc \in {3, 4, 5, 6, 9, 10, 11}
  <2>1. PICK at \in {4, 5, 6, 7, 9, 10, 11, 12} : Keeps(d, w, at)
    <3>1. (pc + 1) \in {4, 5, 6, 7, 10, 11, 12}
      BY <1>3
    <3> QED BY <1>0, <1>3, <3>1, GatewayGoesOn
  <2>2. /\ inv'[d][w] # Nobody /\ inv'[d][w].step = "gateway" /\ inv'[d][w].pc = at
        /\ r \in inv'[d][w].got
    BY <1>0, <1>3, <2>1 DEF Keeps, At
  <2>3. at \in {7, 12} => Now(d, w, "record", r.kind)'
    BY <1>3, <2>2, GatewayProgram DEF Now
  <2> QED BY <1>3, <2>2, <2>3 DEF Recording
<1> QED BY <1>1, <1>2, <1>3 DEF Recording

\* An execution that timed out stays so.
LEMMA AbandonedNext ==
  ASSUME TypeOK, Control, Unhurried, NEW e \in Deployment, Single(e), Abandoned(e), [Next]_vars
  PROVE  Abandoned(e)'
<1>1. CASE UNCHANGED vars
  BY <1>1 DEF vars, Abandoned
<1>2. ASSUME NEW d \in Deployment, d # e,
             \/ HandlerStep(d) \/ MachineStep(d) \/ Outage(d)
             \/ \E w \in Who : Instruction(d, w) \/ Failure(d, w)
      PROVE  Abandoned(e)'
  BY <1>2, OthersSame DEF Abandoned
<1>3. CASE HandlerStep(e)
  <2>1. inv' = inv /\ (exec'[e] = exec[e] \/ handler[e] = "created")
    BY <1>3 DEF HandlerStep, Handle, CreateRecord, RejectLate, StartExecution,
       WritePending, StartFails
  <2>2. handler[e] # "created"
    BY DEF Control, ControlOf, Abandoned
  <2> QED BY <2>1, <2>2 DEF Abandoned
<1>4. CASE MachineStep(e)
  BY <1>4 DEF MachineStep, Skip, Invoke, Waiting, Abandoned
<1>5. CASE Outage(e)
  <2>1. inv[e]["run"] = Nobody
    BY OneAtATime DEF Abandoned, Who
  <2>2. UNCHANGED exec /\ inv'[e]["run"] = Nobody /\ inv'[e]["stray"] = Nobody
    BY <1>5, <2>1, OutageParts DEF Abandoned
  <2> QED BY <2>2 DEF Abandoned, Who
<1>6. ASSUME NEW w \in Who, Instruction(e, w) \/ Failure(e, w)
      PROVE  Abandoned(e)'
  <2>1. Stepped(e, w) \/ Finished(e, w)
    BY <1>6, InstructionMoves
  <2>2. /\ inv[e][w] # Nobody
        /\ \A v \in Who : v # w => inv'[e][v] = inv[e][v]
        /\ inv'[e][w] # Nobody => inv'[e][w].step = inv[e][w].step
    BY <2>1 DEF Stepped, Moved, Finished
  <2>3. UNCHANGED exec
    BY <2>1, <2>2, OneAtATime DEF Stepped, Finished, Abandoned, Who
  <2> QED BY <2>2, <2>3 DEF Abandoned
<1> QED BY <1>1, <1>2, <1>3, <1>4, <1>5, <1>6 DEF Next

\* An outage abandons what an invocation was going to record, or leaves it to
\* the invocation that goes on.
LEMMA OutageAbandons ==
  ASSUME TypeOK, Control, Faults \cap {"kill", "exhaust", "crash"} = {},
         NEW e \in Deployment, Single(e), NEW w \in Who, NEW r, Recording(e, w, r), Outage(e)
  PROVE  Abandoned(e)'
<1>1. inv[e][w] # Nobody /\ inv[e][w].step # "failure"
  BY RecorderSteps
<1>2. \A v \in Who : inv[e][v] # Nobody => v = w
  BY <1>1, OneAtATime
<1>3. Unhurried
  BY DEF Unhurried
<1>4. CASE exec[e].state \in {"running", "failing"} /\ exec'[e].state = "timed_out"
           /\ inv'[e]["run"] = Nobody /\ inv'[e]["stray"] = inv[e]["run"]
  <2>1. inv[e]["run"] # Nobody => inv[e]["run"].step # "failure"
    BY <1>1, <1>2 DEF Who
  <2> QED BY <1>4, <2>1 DEF Abandoned, Who
<1>5. CASE UNCHANGED exec /\ inv[e]["stray"] # Nobody
           /\ inv'[e]["run"] = inv[e]["run"] /\ inv'[e]["stray"] = Nobody
  <2>1. inv[e]["run"] = Nobody
    BY <1>2, <1>5 DEF Who
  <2> QED BY <1>5, <2>1 DEF Abandoned, Single, Who
<1> QED BY <1>3, <1>4, <1>5, OutageParts

\* No invocation is killed or dies while a machine waits for it, and what is
\* created is recorded.
Undisturbed == Faults \cap {"record", "kill", "exhaust", "crash"} = {}

\* Every step keeps Listed.
LEMMA ListedNext ==
  ASSUME TypeOK, Control, Undisturbed, NEW e \in Deployment, Single(e), Listed(e), [Next]_vars
  PROVE  Listed(e)'
<1>0. Unhurried /\ "record" \notin Faults /\ Faults \cap {"kill", "exhaust", "crash"} = {}
  BY DEF Undisturbed, Unhurried
<1> SUFFICES ASSUME NEW r \in Owed(e)'
             PROVE  r \in manifest'[e] \/ Abandoned(e)' \/ \E w \in Who : Recording(e, w, r)'
  BY DEF Listed
<1>1. r \in aws' /\ r.maker = e /\ Private(r) /\ r.kind \notin Unguarded
  BY DEF Owed, Private, Unguarded
<1>2. CASE r \notin aws
  <2>1. PICK d \in Deployment, w \in Who, k \in Kind, op \in Created :
          Now(d, w, op, k) /\ r = New(d, w, k) /\ GoOnWith(d, w, {r})
    BY <1>1, <1>2, MadeBy
  <2>2. d = e /\ k \notin Unguarded
    BY <1>1, <2>1, NewLabelled
  <2> QED BY <2>1, <2>2, MadeRecording
<1>3. CASE r \in aws /\ r \in manifest[e]
  <2>1. manifest[e] \subseteq manifest'[e]
    <3>1. CASE UNCHANGED vars
      BY <3>1 DEF vars
    <3>2. CASE Next
      BY <3>2, ManifestGrows DEF Next
    <3> QED BY <3>1, <3>2
  <2> QED BY <1>3, <2>1
<1>4. CASE r \in aws /\ Abandoned(e)
  BY <1>0, <1>4, AbandonedNext
<1>5. ASSUME r \in aws, NEW w \in Who, Recording(e, w, r)
      PROVE  r \in manifest'[e] \/ Abandoned(e)' \/ \E v \in Who : Recording(e, v, r)'
  <2>0. inv'[e][w] = inv[e][w] => Recording(e, w, r)'
    BY <1>5 DEF Recording, Now
  <2>1. CASE UNCHANGED vars
    BY <2>0, <2>1 DEF vars
  <2>2. ASSUME NEW d \in Deployment, d # e,
               \/ HandlerStep(d) \/ MachineStep(d) \/ Outage(d)
               \/ \E v \in Who : Instruction(d, v) \/ Failure(d, v)
        PROVE  Recording(e, w, r)'
    BY <2>0, <2>2, OthersSame
  <2>3. CASE HandlerStep(e) \/ Skip(e)
    BY <2>0, <2>3 DEF HandlerStep, CreateRecord, RejectLate, StartExecution,
       WritePending, StartFails, Skip
  <2>4. CASE Invoke(e)
    <3>1. inv[e]["run"] = Nobody /\ \A v \in Who : v # "run" => inv'[e][v] = inv[e][v]
      BY <2>4 DEF Invoke, Waiting, TypeOK, Who
    <3> QED BY <1>5, <2>0, <3>1 DEF Recording
  <2>5. CASE Outage(e)
    BY <1>0, <1>5, <2>5, OutageAbandons
  <2>6. ASSUME NEW v \in Who, Instruction(e, v) \/ Failure(e, v)
        PROVE  r \in manifest'[e] \/ Recording(e, w, r)'
    <3>1. Stepped(e, v) \/ Finished(e, v)
      BY <2>6, InstructionMoves
    <3>2. v # w => inv'[e][w] = inv[e][w]
      BY <3>1 DEF Stepped, Moved, Finished
    <3>3. CASE v = w
      BY <1>0, <1>5, <2>6, <3>3, RecordingStep
    <3> QED BY <2>0, <3>2, <3>3
  <2> QED BY <2>1, <2>2, <2>3, <2>4, <2>5, <2>6 DEF Next, MachineStep
<1>6. r \in aws => r \in Owed(e)
  BY <1>1 DEF Owed
<1> QED BY <1>2, <1>3, <1>4, <1>5, <1>6 DEF Listed

\* nothing to list,
LEMMA ListedInit ==
  ASSUME Init, NEW d \in Deployment
  PROVE  Listed(d)
BY DEF Init, Listed, Owed

\* A failed deployment has left nothing that the cleanup must know of.
NoneLeft(d) == exec[d].state = "failed" => Owed(d) = {}

\* An execution fails when its failure handler returns.
LEMMA FailsAtTheEnd ==
  ASSUME TypeOK, Control, Undisturbed, NEW e \in Deployment, Single(e), [Next]_vars,
         exec'[e].state = "failed", exec[e].state # "failed"
  PROVE  /\ UNCHANGED aws
         /\ inv[e]["run"] # Nobody /\ inv[e]["run"].step = "failure" /\ inv[e]["run"].pc = 5
<1>1. CASE UNCHANGED vars
  BY <1>1 DEF vars
<1>2. ASSUME NEW d \in Deployment, d # e,
             \/ HandlerStep(d) \/ MachineStep(d) \/ Outage(d)
             \/ \E w \in Who : Instruction(d, w) \/ Failure(d, w)
      PROVE  FALSE
  BY <1>2, OthersSame
<1>3. ~HandlerStep(e)
  BY DEF HandlerStep, CreateRecord, RejectLate, StartExecution, WritePending, StartFails, TypeOK
<1>4. ~MachineStep(e)
  BY SkipExec DEF MachineStep, Invoke
<1>5. ~Outage(e)
  BY OutageParts DEF Undisturbed, Unhurried
<1>6. ASSUME NEW w \in Who, Instruction(e, w) \/ Failure(e, w)
      PROVE  /\ UNCHANGED aws
             /\ inv[e]["run"] # Nobody /\ inv[e]["run"].step = "failure" /\ inv[e]["run"].pc = 5
  <2>1. Stepped(e, w) \/ Finished(e, w)
    BY <1>6, InstructionMoves
  <2>2. Finished(e, w) /\ w = "run"
    BY <2>1 DEF Stepped, Finished, Who
  <2>3. inv[e][w] # Nobody /\ inv'[e][w] = Nobody
    BY <2>2 DEF Finished
  <2>4. exec'[e] \in {Caught(e), Returned(e)} /\ exec[e].state \in {"running", "failing"}
    BY <2>2, <2>3, OneAtATime DEF Finished
  <2>5. exec[e].state = "failing"
    <3>1. exec[e].state = "running" => Caught(e).state = "failing"
      BY CaughtRow
    <3>2. exec[e].state = "running" => Returned(e).state \in {"running", "succeeded"}
      BY ReturnedRow
    <3> QED BY <2>4, <3>1, <3>2
  <2>6. inv[e][w].step = "failure"
    BY <2>2, <2>3, <2>5, OneAtATime
  <2>7. inv[e][w].pc = 5 /\ Return(e, w)
    <3>1. \A pc : At(e, w, pc) => inv'[e][w] # Nobody
      BY DEF At
    <3> QED BY <1>6, <2>3, <2>6, <3>1, FailureHandler
  <2> QED BY <2>2, <2>3, <2>6, <2>7 DEF Return
<1> QED BY <1>1, <1>2, <1>3, <1>4, <1>5, <1>6 DEF Next

\* Every step keeps NoneLeft.
LEMMA NoneLeftNext ==
  ASSUME TypeOK, OwnRows, Control, Undisturbed, "store" \notin Faults, NEW e \in Deployment,
         Single(e), Cleaning(e), Listed(e), NoneLeft(e), [Next]_vars
  PROVE  NoneLeft(e)'
<1> SUFFICES ASSUME exec'[e].state = "failed", NEW r \in Owed(e)' PROVE FALSE
  BY DEF NoneLeft
<1>1. r \in aws' /\ r.maker = e /\ Private(r) /\ r.kind \notin Unguarded
  BY DEF Owed, Private, Unguarded
<1>2. CASE exec[e].state = "failed"
  <2>1. r \notin aws
    BY <1>1, <1>2 DEF NoneLeft, Owed
  <2>2. PICK d \in Deployment, w \in Who, k \in Kind, op \in Created :
          Now(d, w, op, k) /\ r = New(d, w, k)
    BY <1>1, <2>1, MadeBy
  <2>3. inv[e][w] # Nobody
    BY <1>1, <2>2, NewLabelled DEF Now
  <2> QED BY <1>2, <2>3, OneAtATime
<1>3. CASE exec[e].state # "failed"
  <2>1. /\ UNCHANGED aws /\ "run" \in Who
        /\ inv[e]["run"] # Nobody /\ inv[e]["run"].step = "failure" /\ inv[e]["run"].pc = 5
    BY <1>3, FailsAtTheEnd DEF Who
  <2>2. r \in Owed(e)
    BY <1>1, <2>1 DEF Owed
  <2>3. \A w \in Who : ~Recording(e, w, r)
    BY <2>1, OneAtATime, RecorderSteps
  <2>4. r \in manifest[e]
    BY <2>1, <2>2, <2>3, OneAtATime DEF Listed, Abandoned
  <2>5. HasArm(r.kind)
    BY <1>1 DEF HasArm, Unguarded
  <2>6. Hit(r) = {}
    BY <1>1, <2>1, <2>4, <2>5 DEF Cleaning, Fault
  <2> QED BY <1>1, <2>1, <2>6 DEF Hit
<1> QED BY <1>2, <1>3

\* and nothing left.
LEMMA NoneLeftInit ==
  ASSUME Init, NEW d \in Deployment
  PROVE  NoneLeft(d)
BY DEF Init, NoneLeft, Owed

\* A step that raises leaves nothing of its deployment behind but resources of the
\* unguarded kinds, whatever raises, times out as a whole or is adopted, if
\* invocations are not killed and what is recorded, deleted or written is.
THEOREM OrphansAreUnguarded ==
  ASSUME Faults \cap {"record", "delete", "kill", "exhaust", "crash", "store"} = {}
  PROVE  Spec => []OnlyUnguardedOrphans
<1> DEFINE IInv == /\ TypeOK /\ OwnRows /\ Control
                   /\ \A d \in Deployment : Single(d) /\ Cleaning(d) /\ Listed(d) /\ NoneLeft(d)
<1>0. "delete" \notin Faults /\ Unhurried /\ Undisturbed /\ "store" \notin Faults
  BY DEF Unhurried, Undisturbed
<1>1. Init => IInv
  BY TypeInit, OwnInit, ControlInit, SingleInit, CleaningInit, ListedInit, NoneLeftInit
<1>2. IInv /\ [Next]_vars => IInv'
  <2> SUFFICES ASSUME IInv, [Next]_vars PROVE IInv'
    OBVIOUS
  <2>1. TypeOK' /\ OwnRows' /\ Control'
    BY TypeNext, OwnNext, ControlNext
  <2>2. \A d \in Deployment : Single(d)' /\ Cleaning(d)'
    BY <1>0, SingleNext, CleaningNext
  <2>3. \A d \in Deployment : Listed(d)' /\ NoneLeft(d)'
    BY <1>0, ListedNext, NoneLeftNext
  <2> QED BY <2>1, <2>2, <2>3
<1>3. IInv => OnlyUnguardedOrphans
  BY DEF NoneLeft, Owed, OnlyUnguardedOrphans
<1> QED BY <1>1, <1>2, <1>3, PTL DEF Spec

-----------------------------------------------------------------------------
(* The order of the cleanup.                                               *)

\* What is deleted of a backing kind goes when nothing it backs is left.
LEMMA BackingGoesLast ==
  ASSUME TypeOK, OwnRows, Control, Labelled, [Next]_vars,
         \A d \in Deployment : Single(d) /\ Cleaning(d) /\ Listed(d),
         NEW r \in aws \ aws', r.kind \in {"vector_bucket", "kb_role"}
  PROVE  Existing("knowledge_base", r.label) = {}
<1>1. PICK d \in Deployment, w \in Who : Sweep(d, w)
  BY OnlyTwoDelete, DropDeletes
<1>2. /\ inv[d][w] # Nobody /\ inv[d][w].step = "failure" /\ inv[d][w].pc = 4
  BY <1>1, TailOps DEF Sweep
<1>3. PICK row \in inv[d][w].todo :
        /\ \A other \in inv[d][w].todo : Priority(row.kind) <= Priority(other.kind)
        /\ r \in Hit(row)
  BY <1>1 DEF Sweep, Cleanup
<1>4. r.kind = row.kind /\ r.label = row.label
  BY <1>3 DEF Hit
<1>5. r.label = d
  <2>1. row \in Own(d)
    BY <1>2, <1>3, Known
  <2>2. row.kind \notin SharedKind
    BY <1>4, PlanAssumption DEF UserNamed
  <2> QED BY <1>4, <2>1, <2>2, LabelIs DEF Own
<1> SUFFICES ASSUME NEW kb \in aws, kb.kind = "knowledge_base", kb.label = d
             PROVE  FALSE
  BY <1>5 DEF Existing
<1>6. kb.maker = d
  <2>1. kb.maker \in Deployment /\ d = Label(kb.maker, kb.kind)
    BY DEF TypeOK, Resource, Labelled
  <2> QED BY <2>1, LabelIs
<1>7. kb \in Owed(d)
  BY <1>6 DEF Owed, Private, Unguarded
<1>8. \A v \in Who : ~Recording(d, v, kb)
  BY <1>2, OneAtATime, RecorderSteps
<1>9. kb \in manifest[d]
  BY <1>2, <1>7, <1>8 DEF Listed, Abandoned
<1>10. kb \in inv[d][w].todo
  <2>1. kb \in Hit(kb) /\ HasArm(kb.kind) /\ Private(kb)
    BY <1>6 DEF Hit, HasArm, Private
  <2> QED BY <1>2, <1>9, <2>1 DEF Cleaning
<1>11. Priority(row.kind) <= Priority("knowledge_base")
  BY <1>3, <1>10
<1>12. Priority("knowledge_base") = 0 /\ Priority(row.kind) \in {8, 9}
  BY <1>4 DEF Priority
<1> QED BY <1>11, <1>12

\* The vector bucket and the role outlive the knowledge base they serve, whether
\* or not reads and writes of the record fail, when no delete does and nothing
\* that exists was kept off the manifest.
THEOREM BackingStays ==
  ASSUME Faults \cap {"record", "delete", "kill", "exhaust", "crash"} = {}
  PROVE  Spec => BackingOutlives
<1> DEFINE IInv == /\ TypeOK /\ OwnRows /\ Control /\ Labelled
                   /\ \A d \in Deployment : Single(d) /\ Cleaning(d) /\ Listed(d)
           Last == \A r \in aws \ aws' : r.kind \in {"vector_bucket", "kb_role"} =>
                     Existing("knowledge_base", r.label) = {}
<1>0. "delete" \notin Faults /\ Unhurried /\ Undisturbed
  BY DEF Unhurried, Undisturbed
<1>1. Init => IInv
  <2>1. Init => Labelled
    BY DEF Init, Labelled
  <2> QED BY <2>1, TypeInit, OwnInit, ControlInit, SingleInit, CleaningInit, ListedInit
<1>2. IInv /\ [Next]_vars => IInv'
  <2> SUFFICES ASSUME IInv, [Next]_vars PROVE IInv'
    OBVIOUS
  <2>1. TypeOK' /\ OwnRows' /\ Control' /\ Labelled'
    BY TypeNext, OwnNext, ControlNext, LabelledNext
  <2>2. \A d \in Deployment : Single(d)' /\ Cleaning(d)' /\ Listed(d)'
    BY <1>0, SingleNext, CleaningNext, ListedNext
  <2> QED BY <2>1, <2>2
<1>3. IInv /\ [Next]_vars => Last
  BY BackingGoesLast
<1>4. IInv /\ [Next]_vars => [Last]_vars
  BY <1>3
<1> QED BY <1>1, <1>2, <1>4, PTL DEF Spec, BackingOutlives

=============================================================================
