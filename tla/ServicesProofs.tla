--------------------------- MODULE ServicesProofs ---------------------------
(* Proofs about the services the control plane drives and the call that    *)
(* drives them without the state machine: the generated agent's tools      *)
(* (AgentTools), the targets of a gateway (GatewayTargets) and the         *)
(* deployment in one call (DirectDeploy), for any number of invocations,   *)
(* threads, attempts and deployments.                                      *)
EXTENDS AgentTools, GatewayTargets, DirectDeploy,
        FiniteSetTheorems, SequenceTheorems, WellFoundedInduction, TLAPS

-----------------------------------------------------------------------------
(* The tools of the generated agent.                                       *)


Discovering(t) == thread[t] \in {"session", "list", "found", "failed"}

\* Attempts are used up only where the discovery has failed.
TriesLeft == \A t \in Threads : tries[t] < MaxTries \/ thread[t] = "failed"

\* Whoever answers has an agent.
AgentThere == \A t \in Threads : thread[t] = "run" => the_agent # "none"

ShapeInv == ToolsTypeOK /\ TriesLeft /\ AgentThere

LEMMA ShapeInit == ToolsInit => ShapeInv
  BY ToolsAssumption DEF ToolsInit, ShapeInv, ToolsTypeOK, TriesLeft, AgentThere, Free

LEMMA ShapeStep == ShapeInv /\ [ToolsNext]_toolVars => ShapeInv'
<1> SUFFICES ASSUME ShapeInv, [ToolsNext]_toolVars PROVE ShapeInv'
  OBVIOUS
<1> USE ToolsAssumption DEF ShapeInv, ToolsTypeOK, TriesLeft, AgentThere, Go, Threads
<1>1. CASE UNCHANGED toolVars
  BY <1>1 DEF toolVars
<1>2. CASE PlaneServes
  BY <1>2 DEF PlaneServes
<1>3. ASSUME NEW t \in Threads, BeginInvoke(t) PROVE ShapeInv'
  BY <1>3 DEF BeginInvoke
<1>4. ASSUME NEW t \in Threads, Cached(t) \/ Enter(t) \/ LookUp(t) PROVE ShapeInv'
  BY <1>4 DEF Cached, Enter, LookUp
<1>5. ASSUME NEW t \in Threads, TakeLock(t) PROVE ShapeInv'
  BY <1>5 DEF TakeLock
<1>6. ASSUME NEW t \in Threads, OpenSession(t) PROVE ShapeInv'
  <2>1. /\ agent_lock' \in Threads \cup {Free}
        /\ answers' \subseteq {"error", "bare", "tooled"}
    BY <1>6 DEF OpenSession
  <2>2. tries' \in [Threads -> 0..MaxTries] /\ TriesLeft' /\ AgentThere'
    BY <1>6 DEF OpenSession
  <2>3. sessions' \in [Threads -> SUBSET (0..MaxTries)]
    BY <1>6 DEF OpenSession
  <2>4. thread' \in [Threads -> {"idle", "enter", "lock", "session", "list", "found",
                                "failed", "build", "run"}]
    BY <1>6 DEF OpenSession
  <2> QED BY <1>6, <2>1, <2>2, <2>3, <2>4 DEF OpenSession
<1>7. ASSUME NEW t \in Threads, ListTools(t) PROVE ShapeInv'
  <2>1. tries[t] + 1 \in 0..MaxTries
    BY <1>7 DEF ListTools
  <2> QED BY <1>7, <2>1 DEF ListTools, Retry, MayRetry
<1>8. ASSUME NEW t \in Threads, Found(t) PROVE ShapeInv'
  BY <1>8 DEF Found
<1>9. ASSUME NEW t \in Threads, Failed(t) PROVE ShapeInv'
  <2>1. /\ agent_lock' \in Threads \cup {Free}
        /\ answers' \subseteq {"error", "bare", "tooled"}
        /\ tool_list' \in {"none", "empty", "tools"}
    BY <1>9 DEF Failed
  <2>2. tries' \in [Threads -> 0..MaxTries] /\ TriesLeft' /\ AgentThere'
    BY <1>9 DEF Failed
  <2>3. thread' \in [Threads -> {"idle", "enter", "lock", "session", "list", "found",
                                "failed", "build", "run"}]
    BY <1>9 DEF Failed
  <2>4. UNCHANGED <<plane, the_agent, sessions, served>>
    BY <1>9 DEF Failed
  <2> QED BY <2>1, <2>2, <2>3, <2>4
<1>10. ASSUME NEW t \in Threads, Build(t) \/ Answer(t) PROVE ShapeInv'
  <2>1. /\ the_agent' \in {"none", "bare", "tooled"}
        /\ answers' \subseteq {"error", "bare", "tooled"}
    BY <1>10 DEF Build, Answer
  <2>2. thread' \in [Threads -> {"idle", "enter", "lock", "session", "list", "found",
                                "failed", "build", "run"}]
    BY <1>10 DEF Build, Answer
  <2>3. TriesLeft' /\ AgentThere'
    BY <1>10 DEF Build, Answer
  <2>4. UNCHANGED <<plane, tool_list, agent_lock, tries, sessions, served>>
    BY <1>10 DEF Build, Answer
  <2> QED BY <2>1, <2>2, <2>3, <2>4
<1> QED BY <1>1, <1>2, <1>3, <1>4, <1>5, <1>6, <1>7, <1>8, <1>9, <1>10 DEF ToolsNext

\* Threads, caches and attempts stay in their ranges.
THEOREM ToolsTyped == ToolsSpec => []ToolsTypeOK
<1>1. ShapeInv => ToolsTypeOK
  BY DEF ShapeInv
<1> QED BY <1>1, ShapeInit, ShapeStep, PTL DEF ToolsSpec

-----------------------------------------------------------------------------
(* The gateway host.  A thread discovers only while it holds the lock and  *)
(* there is no agent; so a session is open only at the thread that has the *)
(* lock, and once there is an agent nobody opens or stops one any more.    *)

LockHeld ==
  \A t \in Threads : Discovering(t) => agent_lock = t /\ the_agent = "none"
AgentTooled ==
  /\ the_agent # "bare" /\ "bare" \notin answers
  /\ \A t \in Threads : thread[t] # "build"
  /\ \A t \in Threads : thread[t] = "run" => the_agent = "tooled"
SessionsHeld ==
  /\ \A t, u \in Threads : \A m \in sessions[t], n \in sessions[u] : t = u /\ m = n
  /\ the_agent = "none" =>
       \A t \in Threads : \/ sessions[t] = {}
                          \/ thread[t] \in {"list", "found"} /\ sessions[t] \subseteq {tries[t]}
HostInv == ShapeInv /\ LockHeld /\ AgentTooled /\ SessionsHeld

LEMMA HostInit == ToolsInit => HostInv
<1>1. ToolsInit => LockHeld /\ AgentTooled /\ SessionsHeld
  BY DEF ToolsInit, LockHeld, AgentTooled, SessionsHeld, Discovering
<1> QED BY <1>1, ShapeInit DEF HostInv

\* Steps that leave lock, agent and sessions as they are and start no discovery.
LEMMA HostMoves ==
  ASSUME HostInv, NEW t \in Threads, NEW there \in {"idle", "enter", "lock", "run"},
         ~Discovering(t), Go(t, there), there = "run" => the_agent = "tooled",
         UNCHANGED <<the_agent, agent_lock, sessions, tries>>,
         answers' \subseteq answers \cup {"tooled"}
  PROVE  LockHeld' /\ AgentTooled' /\ SessionsHeld'
<1>1. /\ thread'[t] = there
      /\ \A u \in Threads \ {t} : thread'[u] = thread[u]
  BY DEF Go, HostInv, ShapeInv, ToolsTypeOK
<1>2. LockHeld'
  BY <1>1 DEF HostInv, LockHeld, Discovering
<1>3. AgentTooled'
  BY <1>1 DEF HostInv, AgentTooled
<1>4. SessionsHeld'
  BY <1>1 DEF HostInv, SessionsHeld, Discovering
<1> QED BY <1>2, <1>3, <1>4

\* The lock is taken by one who finds no agent; nobody else discovers then.
LEMMA HostTakesLock ==
  ASSUME HostInv, NEW t \in Threads, TakeLock(t)
  PROVE  LockHeld' /\ AgentTooled' /\ SessionsHeld'
<1> USE DEF HostInv, ShapeInv, ToolsTypeOK
<1>1. CASE the_agent # "none"
  <2>1. the_agent = "tooled"
    BY <1>1 DEF AgentTooled
  <2> QED BY <1>1, <2>1, HostMoves DEF TakeLock, Discovering
<1>2. CASE the_agent = "none"
  <2>1. /\ thread'[t] = "session" /\ agent_lock' = t /\ thread[t] = "lock"
        /\ \A u \in Threads \ {t} : thread'[u] = thread[u]
        /\ UNCHANGED <<the_agent, sessions, tries, answers>>
    BY <1>2 DEF TakeLock, Go
  <2>2. \A u \in Threads : ~Discovering(u)
    BY ToolsAssumption DEF TakeLock, LockHeld, Threads, Free
  <2>3. LockHeld'
    BY <1>2, <2>1, <2>2 DEF LockHeld, Discovering
  <2>4. AgentTooled'
    BY <1>2, <2>1 DEF AgentTooled
  <2>5. SessionsHeld'
    BY <2>1 DEF SessionsHeld
  <2> QED BY <2>3, <2>4, <2>5
<1> QED BY <1>1, <1>2

\* An attempt begins with no session of anybody's, or the discovery ends.
LEMMA HostOpens ==
  ASSUME HostInv, NEW t \in Threads, OpenSession(t)
  PROVE  LockHeld' /\ AgentTooled' /\ SessionsHeld'
<1> USE DEF HostInv, ShapeInv, ToolsTypeOK
<1>1. thread[t] = "session" /\ Discovering(t)
  BY DEF OpenSession, Discovering
<1>2. agent_lock = t /\ the_agent = "none" /\ the_agent' = "none"
  BY <1>1 DEF LockHeld, OpenSession
<1>3. \A u \in Threads \ {t} : ~Discovering(u)
  BY <1>2 DEF LockHeld
<1>4. \A u \in Threads : sessions[u] = {}
  BY <1>1, <1>2, <1>3 DEF SessionsHeld, Discovering
<1>5. \A u \in Threads \ {t} : thread'[u] = thread[u]
  BY DEF OpenSession, Go
<1>6. CASE Go(t, "list")
  <2>1. thread'[t] = "list"
    BY <1>6 DEF Go
  <2>2. /\ sessions' = [sessions EXCEPT ![t] = @ \cup {tries[t]}]
        /\ UNCHANGED <<agent_lock, answers, tries>>
    BY <1>6, <2>1 DEF OpenSession, Go
  <2>3. sessions'[t] = {tries[t]} /\ \A u \in Threads \ {t} : sessions'[u] = {}
    BY <1>4, <2>2
  <2>4. LockHeld'
    BY <1>2, <1>3, <1>5, <2>1, <2>2 DEF LockHeld, Discovering
  <2>5. AgentTooled'
    BY <1>2, <1>5, <2>1, <2>2 DEF AgentTooled
  <2>6. SessionsHeld'
    BY <2>1, <2>2, <2>3 DEF SessionsHeld
  <2> QED BY <2>4, <2>5, <2>6
<1>7. CASE ~Go(t, "list")
  <2>1. /\ thread'[t] = "idle" /\ sessions' = sessions
        /\ answers' \subseteq answers \cup {"error"}
    BY <1>7 DEF OpenSession, Go
  <2>2. LockHeld'
    BY <1>3, <1>5, <2>1 DEF LockHeld, Discovering
  <2>3. AgentTooled'
    BY <1>2, <1>5, <2>1 DEF AgentTooled
  <2>4. SessionsHeld'
    BY <1>4, <2>1 DEF SessionsHeld
  <2> QED BY <2>2, <2>3, <2>4
<1> QED BY <1>6, <1>7

\* A listing keeps the session it found tools in, or stops it.
LEMMA HostLists ==
  ASSUME HostInv, NEW t \in Threads, ListTools(t)
  PROVE  LockHeld' /\ AgentTooled' /\ SessionsHeld'
<1> USE DEF HostInv, ShapeInv, ToolsTypeOK
<1>1. /\ thread[t] = "list" /\ Discovering(t)
      /\ UNCHANGED <<the_agent, agent_lock, answers>>
  BY DEF ListTools, Discovering
<1>2. agent_lock = t /\ the_agent = "none"
  BY <1>1 DEF LockHeld
<1>3. \A u \in Threads \ {t} : ~Discovering(u)
  BY <1>2 DEF LockHeld
<1>4. /\ sessions[t] \subseteq {tries[t]}
      /\ \A u \in Threads \ {t} : sessions[u] = {}
  BY <1>1, <1>2, <1>3 DEF SessionsHeld, Discovering
<1>5. /\ thread'[t] \in {"found", "session", "failed"}
      /\ \A u \in Threads \ {t} : thread'[u] = thread[u]
  BY DEF ListTools, Retry, Go
<1>6. LockHeld'
  BY <1>1, <1>2, <1>3, <1>5 DEF LockHeld, Discovering
<1>7. AgentTooled'
  BY <1>1, <1>2, <1>5 DEF AgentTooled
<1>8. SessionsHeld'
  <2>1. CASE UNCHANGED <<sessions, tries>> /\ thread'[t] = "found"
    BY <1>4, <2>1 DEF SessionsHeld
  <2>2. CASE Retry(t)
    <3>1. \A u \in Threads : sessions'[u] = {}
      BY <1>4, <2>2 DEF Retry
    <3> QED BY <3>1 DEF SessionsHeld
  <2> QED BY <2>1, <2>2 DEF ListTools, Go
<1> QED BY <1>6, <1>7, <1>8

\* The discovery ends, with an agent or with an error.
LEMMA HostEnds ==
  ASSUME HostInv, AgentHost = "gateway", NEW t \in Threads, Found(t) \/ Failed(t)
  PROVE  LockHeld' /\ AgentTooled' /\ SessionsHeld'
<1> USE DEF HostInv, ShapeInv, ToolsTypeOK
<1>1. Discovering(t) /\ thread[t] \in {"found", "failed"} /\ sessions' = sessions
  BY DEF Found, Failed, Discovering
<1>2. agent_lock = t /\ the_agent = "none"
  BY <1>1 DEF LockHeld
<1>3. \A u \in Threads \ {t} : ~Discovering(u)
  BY <1>2 DEF LockHeld
<1>4. \A u \in Threads \ {t} : thread'[u] = thread[u]
  BY DEF Found, Failed, Go
<1>5. \A u \in Threads : thread[u] # "run"
  BY <1>2 DEF AgentTooled
<1>6. CASE Found(t)
  <2>1. thread'[t] = "run" /\ the_agent' = "tooled" /\ answers' = answers
    BY <1>6 DEF Found, Go
  <2>2. LockHeld'
    BY <1>3, <1>4, <2>1 DEF LockHeld, Discovering
  <2>3. AgentTooled'
    BY <1>4, <2>1 DEF AgentTooled
  <2>4. SessionsHeld'
    BY <1>1, <2>1 DEF SessionsHeld
  <2> QED BY <2>2, <2>3, <2>4
<1>7. CASE Failed(t)
  <2>1. /\ thread'[t] = "idle" /\ thread[t] = "failed" /\ the_agent' = the_agent
        /\ answers' \subseteq answers \cup {"error"}
    BY <1>7 DEF Failed, Go
  <2>2. LockHeld'
    BY <1>3, <1>4, <2>1 DEF LockHeld, Discovering
  <2>3. AgentTooled'
    BY <1>4, <1>5, <2>1 DEF AgentTooled
  <2>4. \A u \in Threads : sessions[u] = {}
    BY <1>2, <1>3, <2>1 DEF SessionsHeld, Discovering
  <2>5. SessionsHeld'
    BY <1>1, <2>4 DEF SessionsHeld
  <2> QED BY <2>2, <2>3, <2>5
<1> QED BY <1>6, <1>7

LEMMA HostStep ==
  ASSUME AgentHost = "gateway", HostInv, [ToolsNext]_toolVars
  PROVE  HostInv'
<1>1. ShapeInv'
  BY ShapeStep DEF HostInv
<1>2. CASE UNCHANGED toolVars \/ PlaneServes
  <2>1. UNCHANGED <<the_agent, agent_lock, thread, tries, sessions, answers>>
    BY <1>2 DEF toolVars, PlaneServes
  <2> QED BY <1>1, <2>1 DEF HostInv, LockHeld, AgentTooled, SessionsHeld, Discovering
<1>3. ASSUME NEW t \in Threads, BeginInvoke(t) \/ Cached(t) \/ Enter(t) \/ Answer(t)
      PROVE  LockHeld' /\ AgentTooled' /\ SessionsHeld'
  <2>1. the_agent \in {"none", "tooled"} /\ (thread[t] = "run" => the_agent = "tooled")
    BY DEF HostInv, ShapeInv, ToolsTypeOK, AgentTooled
  <2>2. ~Discovering(t)
    BY <1>3 DEF BeginInvoke, Cached, Enter, Answer, Discovering
  <2>3. /\ UNCHANGED <<the_agent, agent_lock, sessions, tries>>
        /\ answers' \subseteq answers \cup {"tooled"}
    BY <1>3, <2>1 DEF BeginInvoke, Cached, Enter, Answer
  <2>4. PICK there \in {"idle", "enter", "lock", "run"} :
          Go(t, there) /\ (there = "run" => the_agent = "tooled")
    BY <1>3, <2>1 DEF BeginInvoke, Cached, Enter, Answer
  <2> QED BY <2>2, <2>3, <2>4, HostMoves
<1>4. ASSUME NEW t \in Threads, LookUp(t) \/ Build(t) PROVE FALSE
  BY <1>4 DEF LookUp, Build, HostInv, AgentTooled
<1>5. CASE ToolsNext /\ ~PlaneServes
  <2>1. LockHeld' /\ AgentTooled' /\ SessionsHeld'
    BY <1>3, <1>4, <1>5, HostTakesLock, HostOpens, HostLists, HostEnds DEF ToolsNext
  <2> QED BY <1>1, <2>1 DEF HostInv
<1> QED BY <1>2, <1>5

\* An agent that has a gateway answers with the gateway's tools or with an
\* error, never without them (ToolsOrError), as the gateway host is generated.
THEOREM HostToolsOrError ==
  ASSUME AgentHost = "gateway" PROVE ToolsSpec => []ToolsOrError
<1>1. HostInv => ToolsOrError
  BY DEF HostInv, AgentTooled, ToolsOrError
<1>2. HostInv /\ [ToolsNext]_toolVars => HostInv'
  BY HostStep
<1> QED BY <1>1, <1>2, HostInit, PTL DEF ToolsSpec

-----------------------------------------------------------------------------
LEMMA AtMostOne ==
  ASSUME NEW S, \A x, y \in S : x = y
  PROVE  Cardinality(S) <= 1
<1>1. CASE S = {}
  BY <1>1, FS_EmptySet
<1>2. CASE S # {}
  <2>1. PICK x : S = {x}
    BY <1>2
  <2> QED BY <2>1, FS_Singleton
<1> QED BY <1>1, <1>2

LEMMA HostOneSession ==
  ASSUME HostInv PROVE OneSession
<1> DEFINE D == {t \in Threads : thread[t] \in {"session", "list", "found", "failed"}}
           O == UNION {{t} \X sessions[t] : t \in Threads}
<1>1. \A t, u \in D : t = u
  BY DEF HostInv, LockHeld, Discovering
<1>2. \A p, q \in O : p = q
  <2>1. TAKE p, q \in O
  <2>2. PICK t \in Threads : \E m \in sessions[t] : p = <<t, m>>
    OBVIOUS
  <2>3. PICK u \in Threads : \E n \in sessions[u] : q = <<u, n>>
    OBVIOUS
  <2> QED BY <2>2, <2>3 DEF HostInv, SessionsHeld
<1>3. Cardinality(D) <= 1
  BY <1>1, AtMostOne
<1>4. Cardinality(O) <= 1
  BY <1>2, AtMostOne
<1> QED BY <1>3, <1>4 DEF OneSession

\* The discoveries of a gateway host do not overlap, and at most one MCP
\* session is left of all their attempts (OneSession).
THEOREM HostKeepsOneSession == ToolsSpec => []OneSession
<1>1. CASE AgentHost # "gateway"
  <2>1. OneSession
    BY <1>1 DEF OneSession
  <2>2. []OneSession
    BY <2>1, PTL
  <2> QED BY <2>2
<1>2. CASE AgentHost = "gateway"
  <2>1. HostInv /\ [ToolsNext]_toolVars => HostInv'
    BY <1>2, HostStep
  <2> QED BY <2>1, HostInit, HostOneSession, PTL DEF ToolsSpec
<1> QED BY <1>1, <1>2

-----------------------------------------------------------------------------
(* The targets of a gateway.                                               *)


Places == 1..13

LEMMA CourseFacts ==
  /\ DOMAIN Course = Places /\ Len(Course) = 13
  /\ \A i \in Places : Course[i] \notin {"failing", "ended"}
  /\ Course[1] = "auth" /\ Course[2] = "role" /\ Course[3] = "gateway"
  /\ Course[4] = "tools" /\ Course[5] = "runtime" /\ Course[6] = "custom"
  /\ Course[7] = "kb" /\ Course[8] = "connector" /\ Course[9] = "external"
  /\ Course[10] = "config" /\ Course[11] = "lambda" /\ Course[12] = "verify"
  /\ Course[13] = "probe"
<1>1. Len(Course) = 13 /\ DOMAIN Course = Places
  BY DEF Course, Places
<1>2. Places = {1, 2, 3, 4, 5, 6, 7, 8, 9, 10, 11, 12, 13}
  BY DEF Places
<1>3. \A i \in Places : Course[i] \notin {"failing", "ended"}
  BY <1>2 DEF Course
<1> QED BY <1>1, <1>3 DEF Course

LEMMA CourseOnce == \A i, j \in Places : Course[i] = Course[j] => i = j
<1>1. Places = {1, 2, 3, 4, 5, 6, 7, 8, 9, 10, 11, 12, 13}
  BY DEF Places
<1> QED BY <1>1, CourseFacts

\* The next part that is due: there is one before the end, and nothing due is
\* left out on the way.
NextDue(i, j) ==
  j \in (i + 1)..13 /\ Due(Course[j]) /\ \A k \in (i + 1)..(j - 1) : ~Due(Course[k])

LEMMA SomethingDue == \A i \in 1..12 : \E j \in Places : NextDue(i, j)
<1>1. NextDue(12, 13)
  BY CourseFacts DEF NextDue, Due, Family
<1>2. ASSUME NEW i \in 1..11, NEW j \in Places, NextDue(i + 1, j)
      PROVE  \E n \in Places : NextDue(i, n)
  <2>1. CASE Due(Course[i + 1])
    BY <2>1 DEF NextDue, Places
  <2>2. CASE ~Due(Course[i + 1])
    <3>1. NextDue(i, j)
      BY <1>2, <2>2 DEF NextDue, Places
    <3> QED BY <3>1
  <2> QED BY <2>1, <2>2
<1> DEFINE S == {i \in 1..12 : \E j \in Places : NextDue(i, j)}
<1>3. 12 \in S
  BY <1>1 DEF Places
<1>4. \A n \in S : n > 1 => n - 1 \in S
  <2> SUFFICES ASSUME NEW n \in S, n > 1 PROVE n - 1 \in S
    OBVIOUS
  <2>1. n - 1 \in 1..11 /\ (n - 1) + 1 = n
    OBVIOUS
  <2>2. PICK j \in Places : NextDue((n - 1) + 1, j)
    BY <2>1
  <2>3. \E k \in Places : NextDue(n - 1, k)
    BY <1>2, <2>1, <2>2
  <2> QED BY <2>1, <2>3
<1> HIDE DEF S
<1>5. 11 \in S
  BY <1>3, <1>4
<1>6. 10 \in S
  BY <1>5, <1>4
<1>7. 9 \in S
  BY <1>6, <1>4
<1>8. 8 \in S
  BY <1>7, <1>4
<1>9. 7 \in S
  BY <1>8, <1>4
<1>10. 6 \in S
  BY <1>9, <1>4
<1>11. 5 \in S
  BY <1>10, <1>4
<1>12. 4 \in S
  BY <1>11, <1>4
<1>13. 3 \in S
  BY <1>12, <1>4
<1>14. 2 \in S
  BY <1>13, <1>4
<1>15. 1 \in S
  BY <1>14, <1>4
<1>16. \A i \in 1..12 : i \in S
  BY <1>3, <1>5, <1>6, <1>7, <1>8, <1>9, <1>10, <1>11, <1>12, <1>13, <1>14, <1>15
<1> QED BY <1>16 DEF S

LEMMA AfterIs ==
  ASSUME NEW i \in 1..12
  PROVE  \E j \in Places : After(Course[i]) = Course[j] /\ NextDue(i, j)
<1> DEFINE spot == CHOOSE n \in DOMAIN Course : Course[n] = Course[i]
<1>1. spot = i
  BY CourseFacts, CourseOnce DEF Places
<1> DEFINE next == CHOOSE j \in (spot + 1)..Len(Course) :
                      Due(Course[j]) /\ \A k \in (spot + 1)..(j - 1) : ~Due(Course[k])
<1>2. \E j \in (spot + 1)..Len(Course) :
         Due(Course[j]) /\ \A k \in (spot + 1)..(j - 1) : ~Due(Course[k])
  BY <1>1, SomethingDue, CourseFacts DEF NextDue
<1>3. next \in (spot + 1)..Len(Course) /\ Due(Course[next])
      /\ \A k \in (spot + 1)..(next - 1) : ~Due(Course[k])
  BY <1>2
<1>4. After(Course[i]) = Course[next]
  BY DEF After
<1> HIDE DEF spot, next
<1>5. next \in Places /\ NextDue(i, next)
  BY <1>1, <1>3, CourseFacts DEF NextDue, Places
<1> QED BY <1>4, <1>5

-----------------------------------------------------------------------------
(* What a deploy goes through, and what it has served when it is there.     *)

Must == {"tools", "runtime", "connector", "external", "config", "lambda"}

\* The families that are there, or that the deploy goes on without.
Served == targets \cup ask.void \cup unseen

ServedSoFar ==
  \A n \in Places : section = Course[n] =>
    \A m \in 1..(n - 1) : Course[m] \in Must /\ Due(Course[m]) => Course[m] \in Served

\* Past the verification, a gateway that was asked for tools has a target.
ServesTools ==
  section = "probe" /\ ask.families \cap {"tools", "custom"} # {} => targets # {}

\* The verification is not passed over.
LEMMA ProbeComesLast ==
  ASSUME NEW i \in 1..11 PROVE After(Course[i]) # "probe"
<1>1. PICK j \in Places : After(Course[i]) = Course[j] /\ NextDue(i, j)
  BY AfterIs
<1>2. Due(Course[12])
  BY CourseFacts DEF Due, Family
<1>3. j # 13
  BY <1>1, <1>2 DEF NextDue
<1>4. 13 \in Places /\ Course[13] = "probe"
  BY CourseFacts DEF Places
<1> QED BY <1>1, <1>3, <1>4, CourseOnce

\* A part that is done is followed by one that is due, with its target made.
LEMMA Passes ==
  ASSUME NEW i \in 1..12, section = Course[i], section' = After(Course[i]),
         ask' = ask, attempt' = attempt,
         \A m \in 1..i : Course[m] \in Must /\ Due(Course[m]) => Course[m] \in Served'
  PROVE  ServedSoFar' /\ section' \notin {"failing", "ended"}
<1>1. PICK j \in Places : section' = Course[j] /\ NextDue(i, j)
  BY AfterIs
<1>2. section' \notin {"failing", "ended"}
  BY <1>1, CourseFacts
<1>3. \A f : Due(f)' <=> Due(f)
  BY DEF Due, Wanted
<1>4. ASSUME NEW n \in Places, section' = Course[n], NEW m \in 1..(n - 1),
             Course[m] \in Must, Due(Course[m])'
      PROVE  Course[m] \in Served'
  <2>1. n = j
    BY <1>1, <1>4, CourseOnce
  <2>2. Due(Course[m])
    BY <1>3, <1>4
  <2>3. CASE m \in 1..i
    BY <1>4, <2>2, <2>3
  <2>4. CASE m \in (i + 1)..(j - 1)
    BY <1>1, <2>2, <2>4 DEF NextDue
  <2>5. m \in 1..i \/ m \in (i + 1)..(j - 1)
    BY <2>1 DEF Places
  <2> QED BY <2>3, <2>4, <2>5
<1> QED BY <1>2, <1>4 DEF ServedSoFar

\* A step that makes something, the course of a deploy before it has an answer.
Makes ==
  \/ Authorize \/ EnsureGatewayRole \/ CreateNewGateway \/ AdoptGateway
  \/ AddTools \/ AddRuntime \/ AddCustom \/ AddKb
  \/ AddConnectors \/ AddExternal \/ AddConfig \/ AddUserLambda \/ Verify

PartDone(i) ==
  /\ section = Course[i] /\ section' = After(Course[i])
  /\ Served \subseteq Served' /\ (Course[i] \in Must => Course[i] \in Served')

LEMMA MakesGoesOn ==
  ASSUME ServedSoFar, Makes
  PROVE  /\ ServedSoFar' /\ ServesTools' /\ section # "ended" /\ section' # "ended"
         /\ UNCHANGED <<ask, attempt, answer, dropped>>
<1>1. section # "ended" /\ UNCHANGED <<ask, attempt, answer, dropped>>
  BY DEF Makes, Authorize, EnsureGatewayRole, CreateNewGateway, AdoptGateway, AddTools,
     AddRuntime, AddCustom, AddKb, AddConnectors, AddExternal, AddConfig, AddUserLambda,
     Verify, AddWith, Done, Raises, gatewayHistory, worldOfGateway
<1>2. ASSUME section' = "failing"
      PROVE  ServedSoFar' /\ section' # "ended"
  BY <1>1, <1>2, CourseFacts DEF ServedSoFar, ServesTools
\* The targets of a part done are those before it and its own.
<1>3. ASSUME NEW i \in 1..12, PartDone(i)
      PROVE  ServedSoFar' /\ section' # "ended"
  <2>1. i \in Places
    BY DEF Places
  <2>2. \A m \in 1..i : Course[m] \in Must /\ Due(Course[m]) => Course[m] \in Served'
    <3> TAKE m \in 1..i
    <3>1. CASE m = i
      BY <1>3, <3>1 DEF PartDone
    <3>2. CASE m \in 1..(i - 1)
      BY <1>3, <2>1, <3>2 DEF PartDone, ServedSoFar
    <3> QED BY <3>1, <3>2
  <2> QED BY <1>1, <1>3, <2>2, Passes DEF PartDone
<1>4. ASSUME section' # "failing"
      PROVE  ServedSoFar' /\ section' # "ended"
  <2>1. CASE CreateNewGateway
    <3>1. /\ section = Course[3] /\ section' = After(Course[3]) /\ 3 \in 1..12
          /\ \A m \in 1..3 : Course[m] \notin Must
      <4>1. 1..3 = {1, 2, 3}
        OBVIOUS
      <4> QED BY <1>4, <2>1, <4>1, CourseFacts DEF CreateNewGateway, Done, Raises, Must
    <3> QED BY <1>1, <3>1, Passes
  <2>2. CASE Authorize
    <3>1. PartDone(1)
      BY <1>4, <2>2, CourseFacts DEF PartDone, Authorize, Done, Raises, Must, Served,
       worldOfGateway, gatewayHistory
    <3> QED BY <1>1, <1>3, <3>1
  <2>3. CASE EnsureGatewayRole
    <3>1. PartDone(2)
      BY <1>4, <2>3, CourseFacts DEF PartDone, EnsureGatewayRole, Done, Raises, Must, Served,
       worldOfGateway, gatewayHistory
    <3> QED BY <1>1, <1>3, <3>1
  <2>4. CASE AdoptGateway
    <3>1. PartDone(3)
      BY <1>4, <2>4, CourseFacts DEF PartDone, AdoptGateway, Done, Raises, Must, Served,
       worldOfGateway, gatewayHistory
    <3> QED BY <1>1, <1>3, <3>1
  <2>5. CASE AddTools
    <3>1. PartDone(4)
      BY <1>4, <2>5, CourseFacts DEF PartDone, AddTools, TargetOrSkip, Skipped, EnsureTarget,
       AddTarget, Done, Raises, Served
    <3> QED BY <1>1, <1>3, <3>1
  <2>6. CASE AddRuntime
    <3>1. PartDone(5)
      BY <1>4, <2>6, CourseFacts DEF PartDone, AddRuntime, EnsureTarget, AddTarget, Done,
       Raises, Served
    <3> QED BY <1>1, <1>3, <3>1
  <2>7. CASE AddCustom
    <3>1. PartDone(6)
      BY <1>4, <2>7, CourseFacts DEF PartDone, AddCustom, Done, AddTarget, Must, Served,
       worldOfGateway, gatewayHistory
    <3> QED BY <1>1, <1>3, <3>1
  <2>8. CASE AddKb
    <3>1. PartDone(7)
      BY <1>4, <2>8, CourseFacts DEF PartDone, AddKb, Done, AddTarget, Must, Served,
       worldOfGateway, gatewayHistory
    <3> QED BY <1>1, <1>3, <3>1
  <2>9. CASE AddConnectors
    <3>1. PartDone(8)
      BY <1>4, <2>9, CourseFacts DEF PartDone, AddConnectors, AddWith, EnsureTarget, AddTarget, Done,
       Raises, Served
    <3> QED BY <1>1, <1>3, <3>1
  <2>10. CASE AddExternal
    <3>1. PartDone(9)
      BY <1>4, <2>10, CourseFacts DEF PartDone, AddExternal, AddWith, EnsureTarget, AddTarget, Done,
       Raises, Served
    <3> QED BY <1>1, <1>3, <3>1
  <2>11. CASE AddConfig
    <3>1. PartDone(10)
      BY <1>4, <2>11, CourseFacts DEF PartDone, AddConfig, TargetOrSkip, Skipped, EnsureTarget,
       AddTarget, Done, Raises, Served
    <3> QED BY <1>1, <1>3, <3>1
  <2>12. CASE AddUserLambda
    <3>1. PartDone(11)
      BY <1>4, <2>12, CourseFacts DEF PartDone, AddUserLambda, TargetOrSkip, Skipped, EnsureTarget,
       AddTarget, Done, Raises, Served
    <3> QED BY <1>1, <1>3, <3>1
  <2>13. CASE Verify
    <3>1. PartDone(12)
      BY <1>4, <2>13, CourseFacts DEF PartDone, Verify, Done, Raises, worldOfGateway, Must,
       Served, gatewayHistory
    <3> QED BY <1>1, <1>3, <3>1
  <2> QED BY <2>1, <2>2, <2>3, <2>4, <2>5, <2>6, <2>7, <2>8, <2>9, <2>10, <2>11, <2>12,
             <2>13 DEF Makes
<1>5. ServesTools'
  <2>1. CASE Verify
    BY <1>1, <2>1 DEF Verify, Done, Raises, ServesTools, Wanted, worldOfGateway
  <2>2. CASE ~Verify
    <3>1. section' = "failing" \/ \E i \in 1..11 : section' = After(Course[i])
      BY <2>2, CourseFacts DEF Makes, Authorize, EnsureGatewayRole, CreateNewGateway,
         AdoptGateway, AddTools, AddRuntime, AddCustom, AddKb, AddConnectors, AddExternal,
         AddConfig, AddUserLambda, AddWith, Done, Raises
    <3> QED BY <3>1, ProbeComesLast DEF ServesTools
  <2> QED BY <2>1, <2>2
<1> QED BY <1>1, <1>2, <1>4, <1>5

-----------------------------------------------------------------------------
(* What a deploy has made and does not name.                                 *)

\* While a deploy runs, it names what is there, or has lost sight of it in one
\* of the known ways.
Kept(r) ==
  \/ r \in refs \/ r.of = "old" \/ r \in slipped \/ r \in dropped
  \/ r.kind \in Unlisted

Running ==
  /\ Role \in refs
  /\ section # "ended" => answer = NoAnswer /\ \A r \in here : Kept(r)

AccountInv == Running /\ ServedSoFar /\ ServesTools /\ GatewayAccounted

LEMMA AccountInit == GatewayInit => AccountInv
<1> SUFFICES ASSUME GatewayInit PROVE AccountInv
  OBVIOUS
<1>1. \A r \in here : Kept(r)
  BY DEF GatewayInit, Kept, Role, Ever, Of, Unlisted
<1>2. ServedSoFar
  <2> SUFFICES ASSUME NEW n \in Places, section = Course[n] PROVE 1..(n - 1) = {}
    BY DEF ServedSoFar
  <2>1. 1 \in Places /\ Course[n] = Course[1]
    BY CourseFacts DEF GatewayInit, Places
  <2>2. n = 1
    BY <2>1, CourseOnce
  <2> QED BY <2>2
<1>3. Role \in refs /\ answer = NoAnswer /\ section # "ended"
  BY DEF GatewayInit
<1>4. GatewayAccounted
  BY <1>3 DEF GatewayAccounted, ToldOfAll, ServedAsAsked, NoAnswer
<1>5. ServesTools
  BY DEF GatewayInit, ServesTools
<1> QED BY <1>1, <1>2, <1>3, <1>4, <1>5 DEF AccountInv, Running

\* What a step makes it names, or loses in one of the known ways.
LEMMA MakesNames ==
  ASSUME Role \in refs, Makes
  PROVE  /\ refs \subseteq refs' /\ slipped \subseteq slipped' /\ dropped' = dropped
         /\ \A r \in here' : r \in here \/ r \in refs' \/ r \in slipped' \/ r.kind \in Unlisted
<1> USE DEF Unlisted, Of, Ever
<1>1. CASE Authorize
  BY <1>1 DEF Authorize
<1>2. CASE EnsureGatewayRole
  BY <1>2 DEF EnsureGatewayRole, gatewayHistory
<1>3. CASE CreateNewGateway
  BY <1>3 DEF CreateNewGateway, gatewayHistory, worldOfGateway
<1>4. CASE AdoptGateway
  BY <1>4 DEF AdoptGateway
<1>5. CASE AddTools \/ AddUserLambda
  BY <1>5 DEF AddTools, AddUserLambda
<1>6. CASE AddRuntime
  BY <1>6 DEF AddRuntime
<1>7. CASE AddCustom
  BY <1>7 DEF AddCustom
<1>8. CASE AddKb
  BY <1>8 DEF AddKb
<1>9. CASE AddConnectors \/ AddExternal
  <2>1. PICK family, kinds : AddWith(family, kinds)
    BY <1>9 DEF AddConnectors, AddExternal
  <2>2. CASE here' = here \cup Made(kinds) /\ refs' = refs \cup Made(kinds) /\ slipped' = slipped
    BY <2>1, <2>2 DEF AddWith
  <2>3. CASE refs' = refs /\ \E n \in 0..Len(kinds) : RollBack(Made(SubSeq(kinds, 1, n)))
    BY <2>1, <2>3 DEF AddWith, RollBack
  <2> QED BY <2>1, <2>2, <2>3 DEF AddWith
<1>10. CASE AddConfig
  BY <1>10 DEF AddConfig, ConfigThings
<1>11. CASE Verify
  BY <1>11 DEF Verify, gatewayHistory, worldOfGateway
<1> QED BY <1>1, <1>2, <1>3, <1>4, <1>5, <1>6, <1>7, <1>8, <1>9, <1>10, <1>11 DEF Makes

\* A deploy that has its answer has its last step behind it.
LEMMA EndsAccounted ==
  ASSUME AccountInv, Finish \/ AbortConnectors \/ GiveUpGateway \/ AbortDeploy
  PROVE  AccountInv'
<1>1. /\ section # "ended" /\ section' = "ended" /\ refs' = refs /\ dropped' = dropped
      /\ slipped \subseteq slipped' /\ here' \subseteq here
      /\ ask' = ask /\ attempt' = attempt /\ trusts' = trusts
  BY DEF Finish, AbortConnectors, GiveUpGateway, AbortDeploy, Tell, worldOfGateway,
     gatewayHistory, CleanUpOf
<1>2. Role \in refs /\ \A r \in here : Kept(r)
  BY <1>1 DEF AccountInv, Running
<1>3. ServedSoFar' /\ ServesTools'
  BY <1>1, CourseFacts DEF ServedSoFar, ServesTools
\* What it had lost sight of stays lost.
<1>4. \A r \in here' : r \in refs \/ Overlooked(r)'
  BY <1>1, <1>2 DEF Kept, Overlooked
<1>5. CASE Finish
  <2>1. /\ answer'.inventory = refs /\ (trusts = Mine \/ ~answer'.probed)
        /\ section = "probe" /\ targets' = targets /\ unseen' = unseen
    BY <1>5 DEF Finish, Tell, Mute, worldOfGateway, gatewayHistory
  <2>2. ToldOfAll'
    BY <1>1, <1>4, <2>1 DEF ToldOfAll
  <2>3. \A f \in Must : Due(f) => f \in Served
    <3>1. \A m \in 1..12 : Course[m] \in Must /\ Due(Course[m]) => Course[m] \in Served
      <4>1. 13 \in Places /\ section = Course[13]
        BY <2>1, CourseFacts DEF Places
      <4> QED BY <4>1 DEF AccountInv, ServedSoFar
    <3>2. \A f \in Must : \E m \in 1..12 : Course[m] = f
      BY CourseFacts DEF Must
    <3> QED BY <3>1, <3>2
  <2>4. \A f \in ask.families \cap Must :
          f \in Served \cup (IF attempt = 0 THEN {} ELSE {"connector", "external"})
    BY <2>3 DEF Due, Wanted, Must
  <2>5. ServedAsAsked'
    <3>1. Mine' = Mine
      BY <1>1 DEF Mine
    <3>2. ask.families \cap {"tools", "custom"} # {} => targets # {}
      BY <2>1 DEF AccountInv, ServesTools
    <3> QED BY <1>1, <2>1, <2>4, <3>1, <3>2 DEF ServedAsAsked, Must, Served, Tolerated
  <2> QED BY <1>1, <1>2, <1>3, <2>2, <2>5 DEF AccountInv, Running, GatewayAccounted
<1>6. ASSUME ~answer'.success, ToldOfAll'
      PROVE  AccountInv'
  BY <1>1, <1>2, <1>3, <1>6 DEF AccountInv, Running, GatewayAccounted, ServedAsAsked
<1>7. CASE AbortConnectors
  <2>1. ~answer'.success
    BY <1>7 DEF AbortConnectors, Tell
  <2> DEFINE named == refs \ {Ever("toolRole"), Ever("toolFunction")}
  <2>2. PICK left : /\ here' = here \ ((named \ left) \ {r \in named : r.kind = "kbFunction"})
                    /\ slipped' = slipped \cup (refs \ named) \cup left
    <3>1. CASE CleanUpOf(named, {}) /\ slipped' = slipped \cup (refs \ named)
      <4>1. /\ here' = here \ ((named \ {}) \ {r \in named : r.kind = "kbFunction"})
            /\ slipped' = slipped \cup (refs \ named) \cup {}
        BY <3>1 DEF CleanUpOf
      <4> QED BY <4>1
    <3>2. ASSUME NEW r \in named, CleanUpOf(named, {r}),
                 slipped' = slipped \cup (refs \ named) \cup {r}
          PROVE  \E left : /\ here' = here \ ((named \ left) \ {x \in named : x.kind = "kbFunction"})
                           /\ slipped' = slipped \cup (refs \ named) \cup left
      BY <3>2 DEF CleanUpOf
    <3> QED BY <1>7, <3>1, <3>2 DEF AbortConnectors
  <2>3. \A r \in here' : r \in slipped' \/ r.kind = "kbFunction" \/ r \notin refs
    BY <2>2
  <2>4. ToldOfAll'
    BY <1>4, <2>1, <2>3 DEF ToldOfAll, Overlooked
  <2> QED BY <1>6, <2>1, <2>4
<1>8. CASE GiveUpGateway
  <2>1. ~answer'.success /\ answer'.after = "retries"
    BY <1>8 DEF GiveUpGateway, Tell
  <2> QED BY <1>6, <2>1 DEF ToldOfAll, Overlooked
<1>9. CASE AbortDeploy
  <2>1. ~answer'.success /\ answer'.inventory = {r \in refs : r.kind # "kbFunction"}
    BY <1>9 DEF AbortDeploy, Tell, Inventory
  <2>2. ToldOfAll'
    BY <1>4, <2>1 DEF ToldOfAll, Overlooked
  <2> QED BY <1>6, <2>1, <2>2
<1> QED BY <1>5, <1>7, <1>8, <1>9

LEMMA AccountStep == AccountInv /\ [GatewayNext]_gatewayVars => AccountInv'
<1> SUFFICES ASSUME AccountInv, [GatewayNext]_gatewayVars PROVE AccountInv'
  OBVIOUS
<1>1. Running /\ ServedSoFar /\ ServesTools /\ GatewayAccounted
  BY DEF AccountInv
<1>2. CASE UNCHANGED gatewayVars
  BY <1>1, <1>2 DEF AccountInv, Running, Kept, ServedSoFar, ServesTools, Served, Due, Wanted,
     GatewayAccounted, ToldOfAll, Overlooked, ServedAsAsked, Tolerated, Mine, gatewayVars,
     worldOfGateway, gatewayHistory
<1>3. CASE Makes
  <2>1. /\ ServedSoFar' /\ ServesTools'
        /\ section # "ended" /\ section' # "ended" /\ answer' = answer
    BY <1>1, <1>3, MakesGoesOn
  <2>2. /\ refs \subseteq refs' /\ slipped \subseteq slipped' /\ dropped' = dropped
        /\ \A r \in here' : r \in here \/ r \in refs' \/ r \in slipped' \/ r.kind \in Unlisted
    BY <1>1, <1>3, MakesNames DEF Running
  <2>3. \A r \in here' : Kept(r)'
    BY <1>1, <2>1, <2>2 DEF Running, Kept
  <2>4. GatewayAccounted'
    BY <1>1, <2>1 DEF GatewayAccounted, ToldOfAll, ServedAsAsked, Running, NoAnswer
  <2> QED BY <1>1, <2>1, <2>2, <2>3, <2>4 DEF AccountInv, Running
<1>4. CASE Recreate
  <2>1. /\ section # "ended" /\ section' = "auth" /\ refs' = {Role} /\ answer' = answer
        /\ here' \subseteq here /\ dropped' = dropped \cup here
    BY <1>4 DEF Recreate
  <2>2. \A r \in here' : Kept(r)'
    BY <2>1 DEF Kept
  <2>3. ServedSoFar'
    <3> SUFFICES ASSUME NEW n \in Places, section' = Course[n] PROVE 1..(n - 1) = {}
      BY DEF ServedSoFar
    <3>1. 1 \in Places /\ Course[n] = Course[1]
      BY <2>1, CourseFacts DEF Places
    <3>2. n = 1
      BY <3>1, CourseOnce
    <3> QED BY <3>2
  <2>4. Role' = Role /\ ServesTools'
    BY <2>1 DEF Role, Ever, Of, ServesTools
  <2>5. GatewayAccounted'
    BY <1>1, <2>1 DEF GatewayAccounted, ToldOfAll, ServedAsAsked, Running, NoAnswer
  <2> QED BY <1>1, <2>1, <2>2, <2>3, <2>4, <2>5 DEF AccountInv, Running
<1> QED BY <1>2, <1>3, <1>4, EndsAccounted DEF GatewayNext, Makes

\* Whatever is asked for and however many calls fail, deploy_gateway tells of
\* all it leaves but for what it is known to lose sight of, and a success has
\* the targets asked for and an authorizer that takes its own tokens.
THEOREM Accounted == GatewaySpec => []GatewayAccounted
<1>1. AccountInv => GatewayAccounted
  BY DEF AccountInv
<1> QED BY <1>1, AccountInit, AccountStep, PTL DEF GatewaySpec

-----------------------------------------------------------------------------
(* The programs of a direct deployment.                                    *)

DirectThings ==
  {"upload", "mcp_role", "put_role_policy", "mcp_runtime", "wait", "gateway",
   "gateway_role", "user_pool", "tool_lambda", "probe", "secret", "policy_engine",
   "policies", "update_gateway", "guardrail", "guardrail_version", "memory",
   "memory_role", "harness_role", "harness", "code", "runtime_role", "runtime"}
Makers == {"make", "new", "mint", "take", "try"}
Unrecorded == {"policy_engine", "policies", "guardrail", "guardrail_version"}
MemoryThings == {"memory", "memory_role"}

\* A step of any program.  Nothing is recorded in a part that records nothing,
\* memories belong to their part, and code and runtime to theirs.
DirectSteps ==
  {x \in [do : Makers \cup {"record", "find", "upload", "call"}, what : SUBSET DirectThings,
          part : {"mcp", "gateway", "policy", "guardrails", "memory", "harness", "runtime"}] :
     /\ x.part \in {"policy", "guardrails"} => x.do # "record"
     /\ x.part = "memory" /\ x.do = "record" => x.what \subseteq MemoryThings
     /\ x.part # "memory" => x.what \cap MemoryThings = {} /\ x.do # "find"
     /\ x.do \in {"upload", "take"} => x.part = "runtime"
     /\ x.do = "new" => x.part \in {"guardrails", "memory"}}

\* What s records, and that what it makes is recorded by it afterwards, or is
\* among what follows it records.
RecordedBy(s) == {x \in DirectThings : \E j \in 1..Len(s) : s[j].do = "record" /\ x \in s[j].what}
Accounts(s, later) ==
  \A i \in 1..Len(s) : s[i].do \in Makers =>
    \A x \in s[i].what \ (Unrecorded \cup MemoryThings) :
      x \in later \/ \E j \in (i + 1)..Len(s) : s[j].do = "record" /\ x \in s[j].what

LEMMA JoinAt ==
  ASSUME NEW S, NEW s \in Seq(S), NEW t \in Seq(S)
  PROVE  /\ s \o t \in Seq(S) /\ Len(s \o t) = Len(s) + Len(t)
         /\ Len(s) \in Nat /\ Len(t) \in Nat
         /\ \A i \in 1..Len(s) : (s \o t)[i] = s[i]
         /\ \A i \in 1..Len(t) : (s \o t)[Len(s) + i] = t[i]
         /\ \A k \in 1..Len(s \o t) :
              k \in 1..Len(s) \/ \E i \in 1..Len(t) : k = Len(s) + i
<1>1. /\ s \o t \in Seq(S) /\ Len(s \o t) = Len(s) + Len(t)
      /\ \A i \in 1 .. Len(s) + Len(t) : (s \o t)[i] = IF i <= Len(s) THEN s[i] ELSE t[i - Len(s)]
      /\ Len(s) \in Nat /\ Len(t) \in Nat
  BY ConcatProperties, LenProperties
<1>2. ASSUME NEW m \in Nat, NEW n \in Nat, NEW k \in 1..(m + n)
      PROVE  k \in 1..m \/ \E i \in 1..n : k = m + i
  <2>1. CASE k <= m  BY <2>1
  <2>2. CASE k > m
    <3>1. k - m \in 1..n /\ k = m + (k - m)  BY <2>2
    <3> QED  BY <3>1
  <2> QED  BY <2>1, <2>2
<1>3. \A i \in 1..Len(s) : (s \o t)[i] = s[i]
  BY <1>1
<1>4. ASSUME NEW i \in 1..Len(t) PROVE (s \o t)[Len(s) + i] = t[i]
  <2>1. Len(s) + i \in 1..(Len(s) + Len(t)) /\ ~(Len(s) + i <= Len(s)) /\ (Len(s) + i) - Len(s) = i
    BY <1>1
  <2> QED  BY <1>1, <2>1
<1>5. \A k \in 1..Len(s \o t) : k \in 1..Len(s) \/ \E i \in 1..Len(t) : k = Len(s) + i
  BY <1>1, <1>2
<1> QED  BY <1>1, <1>3, <1>4, <1>5

LEMMA JoinAccounts ==
  ASSUME NEW s \in Seq(DirectSteps), NEW t \in Seq(DirectSteps), NEW later,
         Accounts(s, later \cup RecordedBy(t)), Accounts(t, later)
  PROVE  s \o t \in Seq(DirectSteps) /\ Accounts(s \o t, later)
<1>1. /\ s \o t \in Seq(DirectSteps) /\ Len(s \o t) = Len(s) + Len(t)
      /\ Len(s) \in Nat /\ Len(t) \in Nat
      /\ \A i \in 1..Len(s) : (s \o t)[i] = s[i]
      /\ \A i \in 1..Len(t) : (s \o t)[Len(s) + i] = t[i]
      /\ \A k \in 1..Len(s \o t) : k \in 1..Len(s) \/ \E i \in 1..Len(t) : k = Len(s) + i
  <2>1. s \in Seq(DirectSteps) /\ t \in Seq(DirectSteps)
    OBVIOUS
  <2> QED  BY <2>1, JoinAt, SMTT(60)
<1> DEFINE p == s \o t
<1> SUFFICES ASSUME NEW k \in 1..Len(p), p[k].do \in Makers,
                    NEW x \in p[k].what \ (Unrecorded \cup MemoryThings), x \notin later
             PROVE  \E j \in (k + 1)..Len(p) : p[j].do = "record" /\ x \in p[j].what
  BY <1>1 DEF Accounts
<1> HIDE DEF p
<1>2. /\ Len(p) = Len(s) + Len(t) /\ \A i \in 1..Len(s) : p[i] = s[i]
      /\ \A i \in 1..Len(t) : p[Len(s) + i] = t[i]
  BY <1>1 DEF p
<1>3. CASE k \in 1..Len(s)
  <2>1. p[k] = s[k]
    BY <1>2, <1>3
  <2>2. x \in RecordedBy(t) \/ \E j \in (k + 1)..Len(s) : s[j].do = "record" /\ x \in s[j].what
    BY <1>3, <2>1 DEF Accounts
  <2>3. CASE x \in RecordedBy(t)
    <3>1. PICK j \in 1..Len(t) : t[j].do = "record" /\ x \in t[j].what
      BY <2>3 DEF RecordedBy
    <3>2. p[Len(s) + j] = t[j] /\ Len(s) + j \in (k + 1)..Len(p)
      BY <1>1, <1>2, <1>3, <3>1
    <3> QED  BY <3>1, <3>2
  <2>4. CASE \E j \in (k + 1)..Len(s) : s[j].do = "record" /\ x \in s[j].what
    <3>1. PICK j \in (k + 1)..Len(s) : s[j].do = "record" /\ x \in s[j].what
      BY <2>4
    <3>2. j \in 1..Len(s) /\ j \in (k + 1)..Len(p)
      BY <1>1, <1>2, <1>3
    <3>3. p[j] = s[j]
      BY <1>2, <3>2
    <3> QED  BY <3>1, <3>2, <3>3
  <2> QED  BY <2>2, <2>3, <2>4
<1>4. ASSUME NEW i \in 1..Len(t), k = Len(s) + i
      PROVE  \E j \in (k + 1)..Len(p) : p[j].do = "record" /\ x \in p[j].what
  <2>1. p[k] = t[i]
    BY <1>2, <1>4
  <2>2. PICK j \in (i + 1)..Len(t) : t[j].do = "record" /\ x \in t[j].what
    BY <2>1 DEF Accounts
  <2>3. j \in 1..Len(t) /\ Len(s) + j \in (k + 1)..Len(p)
    BY <1>1, <1>2, <1>4
  <2>4. p[Len(s) + j] = t[j]
    BY <1>2, <2>3
  <2> QED  BY <2>2, <2>3, <2>4
<1> QED  BY <1>1, <1>3, <1>4 DEF p

\* A piece of a program, of some parts, that leaves it to the rest to record
\* no more than what is named.
Whole(s, parts, later) ==
  /\ s \in Seq(DirectSteps) /\ Accounts(s, later)
  /\ \A i \in 1..Len(s) : s[i].part \in parts

LEMMA NothingWhole == \A P : Whole(<< >>, P, {})
BY DEF Accounts, Whole

LEMMA WholeMore ==
  ASSUME NEW s, NEW P, NEW L, NEW Q, NEW M, Whole(s, P, L), P \subseteq Q, L \subseteq M
  PROVE  Whole(s, Q, M)
BY DEF Whole, Accounts

LEMMA JoinWhole ==
  ASSUME NEW s, NEW t, NEW P, NEW L, NEW M, Whole(s, P, M), Whole(t, P, L),
         M \subseteq L \cup RecordedBy(t)
  PROVE  Whole(s \o t, P, L)
<1>1. Accounts(s, L \cup RecordedBy(t))
  BY DEF Whole, Accounts
<1>2. s \o t \in Seq(DirectSteps) /\ Accounts(s \o t, L)
  BY <1>1, JoinAccounts DEF Whole
<1>3. /\ \A i \in 1..Len(s) : (s \o t)[i] = s[i]
      /\ \A i \in 1..Len(t) : (s \o t)[Len(s) + i] = t[i]
      /\ \A k \in 1..Len(s \o t) : k \in 1..Len(s) \/ \E i \in 1..Len(t) : k = Len(s) + i
  BY JoinAt DEF Whole
<1>4. ASSUME NEW k \in 1..Len(s \o t) PROVE (s \o t)[k].part \in P
  <2>1. CASE k \in 1..Len(s)
    BY <1>3, <2>1 DEF Whole
  <2>2. ASSUME NEW i \in 1..Len(t), k = Len(s) + i PROVE (s \o t)[k].part \in P
    BY <1>3, <2>2 DEF Whole
  <2> QED  BY <1>3, <2>1, <2>2
<1> QED  BY <1>2, <1>4 DEF Whole

\* A role that is granted is recorded later.
LEMMA RoleGranted ==
  ASSUME NEW role \in {"mcp_role", "harness_role", "runtime_role"},
         NEW part \in {"mcp", "harness", "runtime"}
  PROVE  Whole(GrantedRole(role, part), {part}, {role})
<1>1. PICK a, b : a = DirectStep("make", {role}, part) /\ b = DirectStep("call", {"put_role_policy"}, part)
  OBVIOUS
<1>2. /\ a \in DirectSteps /\ b \in DirectSteps /\ a.what = {role} /\ b.do = "call"
      /\ a.part = part /\ b.part = part
  BY <1>1 DEF DirectStep, DirectSteps, Makers, DirectThings, MemoryThings
<1>3. GrantedRole(role, part) = <<a, b>>
  BY <1>1 DEF GrantedRole
<1>4. <<a, b>> \in Seq(DirectSteps)
  BY <1>2
<1>5. Accounts(<<a, b>>, {role})
  BY <1>2 DEF Accounts, Makers
<1> QED  BY <1>2, <1>3, <1>4, <1>5 DEF Whole

\* What a program is put together from.
LEMMA McpWhole == Whole(DirectMcp, {"mcp"}, {})
<1>1. PICK a, b, c, e, f : /\ a = DirectStep("record", {"mcp_role"}, "mcp")
                           /\ b = DirectStep("make", {"mcp_runtime"}, "mcp")
                           /\ c = DirectStep("record", {"mcp_runtime"}, "mcp")
                           /\ e = DirectStep("call", {"wait"}, "mcp")
                           /\ f = DirectStep("call", {"upload"}, "mcp")
  OBVIOUS
<1>2. /\ a \in DirectSteps /\ b \in DirectSteps /\ c \in DirectSteps /\ e \in DirectSteps
      /\ f \in DirectSteps /\ f.do = "call" /\ f.part = "mcp"
      /\ a.do = "record" /\ a.what = {"mcp_role"} /\ b.what = {"mcp_runtime"}
      /\ c.do = "record" /\ c.what = {"mcp_runtime"} /\ e.do = "call"
      /\ a.part = "mcp" /\ b.part = "mcp" /\ c.part = "mcp" /\ e.part = "mcp"
  BY <1>1 DEF DirectStep, DirectSteps, Makers, DirectThings, MemoryThings
<1>3. PICK t, u, g : t = <<a, b, c, e>> /\ u = <<f>> /\ g = GrantedRole("mcp_role", "mcp")  OBVIOUS
<1>4. t \in Seq(DirectSteps) /\ Len(t) = 4 /\ t[1] = a /\ t[2] = b /\ t[3] = c /\ t[4] = e
  BY <1>2, <1>3
<1>5. Whole(t, {"mcp"}, {}) /\ "mcp_role" \in RecordedBy(t)
  BY <1>2, <1>4 DEF Accounts, Makers, RecordedBy, DirectThings, Whole
<1>6. Whole(u, {"mcp"}, {})
  BY <1>2, <1>3 DEF Accounts, Makers, Whole
<1>7. Whole(g, {"mcp"}, {"mcp_role"})
  BY <1>3, RoleGranted
<1>8. Whole(u \o g, {"mcp"}, {"mcp_role"})
  BY <1>6, <1>7, JoinWhole
<1>9. Whole((u \o g) \o t, {"mcp"}, {})
  BY <1>5, <1>8, JoinWhole
<1>10. DirectMcp = (u \o g) \o t
  BY <1>1, <1>3, Zenon DEF DirectMcp
<1> QED  BY <1>9, <1>10, Zenon

LEMMA GatewayWhole == Whole(DirectGateway, {"gateway"}, {})
<1>1. PICK a, b : a = DirectStep("make", GatewayGroup, "gateway")
                  /\ b = DirectStep("record", GatewayGroup, "gateway")
  OBVIOUS
<1>2. /\ a \in DirectSteps /\ b \in DirectSteps /\ a.what = GatewayGroup
      /\ b.do = "record" /\ b.what = GatewayGroup /\ a.part = "gateway" /\ b.part = "gateway"
  BY <1>1 DEF DirectStep, DirectSteps, Makers, DirectThings, MemoryThings, GatewayGroup
<1>3. PICK t : t = <<a, b>>  OBVIOUS
<1>4. t \in Seq(DirectSteps) /\ Len(t) = 2 /\ t[1] = a /\ t[2] = b
  BY <1>2, <1>3
<1>5. Whole(t, {"gateway"}, {})
  BY <1>2, <1>4 DEF Accounts, Makers, Whole
<1> QED  BY <1>1, <1>3, <1>5, Zenon DEF DirectGateway

LEMMA LitellmWhole ==
  ASSUME NEW key \in BOOLEAN PROVE Whole(LitellmGateway(key), {"gateway"}, {})
<1>1. PICK a, b, c : /\ a = DirectStep("call", {"probe"}, "gateway")
                     /\ b = DirectStep("mint", {"secret"}, "gateway")
                     /\ c = DirectStep("record", {"secret"}, "gateway")
  OBVIOUS
<1>2. /\ a \in DirectSteps /\ b \in DirectSteps /\ c \in DirectSteps /\ a.do = "call"
      /\ b.what = {"secret"} /\ c.do = "record" /\ c.what = {"secret"}
      /\ a.part = "gateway" /\ b.part = "gateway" /\ c.part = "gateway"
  BY <1>1 DEF DirectStep, DirectSteps, Makers, DirectThings, MemoryThings
<1>3. PICK t, u, v : t = <<a>> /\ u = If(~key, <<b>>) /\ v = <<c>>  OBVIOUS
<1>4. Whole(t, {"gateway"}, {}) /\ Whole(v, {"gateway"}, {}) /\ RecordedBy(v) = {"secret"}
  BY <1>2, <1>3 DEF Accounts, Makers, Whole, RecordedBy, DirectThings
<1>5. Whole(u, {"gateway"}, {"secret"})
  <2>1. CASE key
    BY <1>3, <2>1, NothingWhole, WholeMore DEF If
  <2>2. CASE ~key
    <3>1. u = <<b>>  BY <1>3, <2>2 DEF If
    <3> QED  BY <1>2, <3>1 DEF Accounts, Makers, Whole
  <2> QED  BY <2>1, <2>2
<1>6. Whole(t \o u, {"gateway"}, {"secret"})
  BY <1>4, <1>5, JoinWhole
<1>7. Whole((t \o u) \o v, {"gateway"}, {})
  BY <1>4, <1>6, JoinWhole
<1>8. LitellmGateway(key) = (t \o u) \o v
  BY <1>1, <1>3, Zenon DEF LitellmGateway
<1> QED  BY <1>7, <1>8, Zenon

LEMMA PolicyWhole == Whole(DirectPolicy, {"policy"}, {})
<1>1. PICK a, b, c : /\ a = DirectStep("make", {"policy_engine"}, "policy")
                     /\ b = DirectStep("try", {"policies"}, "policy")
                     /\ c = DirectStep("call", {"update_gateway"}, "policy")
  OBVIOUS
<1>2. /\ a \in DirectSteps /\ b \in DirectSteps /\ c \in DirectSteps
      /\ a.what \subseteq Unrecorded /\ b.what \subseteq Unrecorded /\ c.do = "call"
      /\ a.part = "policy" /\ b.part = "policy" /\ c.part = "policy"
  BY <1>1 DEF DirectStep, DirectSteps, Makers, DirectThings, MemoryThings, Unrecorded
<1>3. PICK t : t = <<a, b, c>>  OBVIOUS
<1>4. t \in Seq(DirectSteps) /\ Len(t) = 3 /\ t[1] = a /\ t[2] = b /\ t[3] = c
  BY <1>2, <1>3
<1>5. Whole(t, {"policy"}, {})
  BY <1>2, <1>4 DEF Accounts, Makers, Whole
<1> QED  BY <1>1, <1>3, <1>5, Zenon DEF DirectPolicy

LEMMA GuardrailWhole == Whole(DirectGuardrail, {"guardrails"}, {})
<1>1. PICK a, b : /\ a = DirectStep("new", {"guardrail"}, "guardrails")
                  /\ b = DirectStep("make", {"guardrail_version"}, "guardrails")
  OBVIOUS
<1>2. /\ a \in DirectSteps /\ b \in DirectSteps /\ a.what \subseteq Unrecorded
      /\ b.what \subseteq Unrecorded /\ a.part = "guardrails" /\ b.part = "guardrails"
  BY <1>1 DEF DirectStep, DirectSteps, Makers, DirectThings, MemoryThings, Unrecorded
<1>3. PICK t : t = <<a, b>>  OBVIOUS
<1>4. t \in Seq(DirectSteps) /\ Len(t) = 2 /\ t[1] = a /\ t[2] = b
  BY <1>2, <1>3
<1>5. Whole(t, {"guardrails"}, {})
  BY <1>2, <1>4 DEF Accounts, Makers, Whole
<1> QED  BY <1>1, <1>3, <1>5, Zenon DEF DirectGuardrail

LEMMA MemoryIs ==
  /\ DirectMemory \in Seq(DirectSteps) /\ Len(DirectMemory) = 6
  /\ \A i \in 1..6 : DirectMemory[i].part = "memory"
  /\ DirectMemory[1].do = "find" /\ DirectMemory[1].what = {"memory"}
  /\ DirectMemory[2].do = "make" /\ DirectMemory[2].what = {"memory_role"}
  /\ DirectMemory[3].do = "call"
  /\ DirectMemory[4].do = "record" /\ DirectMemory[4].what = {"memory_role"}
  /\ DirectMemory[5].do = "new" /\ DirectMemory[5].what = {"memory"}
  /\ DirectMemory[6].do = "record" /\ DirectMemory[6].what = {"memory"}
<1>1. PICK a, b, c, e, f, g :
        /\ a = DirectStep("find", {"memory"}, "memory")
        /\ b = DirectStep("make", {"memory_role"}, "memory")
        /\ c = DirectStep("call", {"put_role_policy"}, "memory")
        /\ e = DirectStep("record", {"memory_role"}, "memory")
        /\ f = DirectStep("new", {"memory"}, "memory")
        /\ g = DirectStep("record", {"memory"}, "memory")
  OBVIOUS
<1>2. /\ a \in DirectSteps /\ b \in DirectSteps /\ c \in DirectSteps
      /\ e \in DirectSteps /\ f \in DirectSteps /\ g \in DirectSteps
  BY <1>1 DEF DirectStep, DirectSteps, Makers, DirectThings, MemoryThings
<1>3. PICK t : t = <<a, b, c, e, f, g>>  OBVIOUS
<1>4. /\ t \in Seq(DirectSteps) /\ Len(t) = 6 /\ t[1] = a /\ t[2] = b /\ t[3] = c
      /\ t[4] = e /\ t[5] = f /\ t[6] = g
  BY <1>2, <1>3
<1>5. DirectMemory = t
  BY <1>1, <1>3, Zenon DEF DirectMemory
<1>6. \A i \in 1..6 : t[i].part = "memory"
  BY <1>1, <1>4 DEF DirectStep
<1> QED  BY <1>1, <1>4, <1>5, <1>6 DEF DirectStep

LEMMA MemoryWhole == Whole(DirectMemory, {"memory"}, {})
<1>1. \A i \in 1..6 : DirectMemory[i].do \in Makers => DirectMemory[i].what \subseteq MemoryThings
  BY MemoryIs DEF Makers, MemoryThings
<1> QED  BY <1>1, MemoryIs DEF Whole, Accounts

LEMMA HarnessWhole == Whole(DirectHarness, {"harness"}, {}) /\ Len(DirectHarness) >= 1
<1>1. PICK a, b, c, e : /\ a = DirectStep("make", {"harness"}, "harness")
                        /\ b = DirectStep("record", {"harness"}, "harness")
                        /\ c = DirectStep("record", {"harness_role"}, "harness")
                        /\ e = DirectStep("call", {"wait"}, "harness")
  OBVIOUS
<1>2. /\ a \in DirectSteps /\ b \in DirectSteps /\ c \in DirectSteps /\ e \in DirectSteps
      /\ a.what = {"harness"} /\ b.do = "record" /\ b.what = {"harness"}
      /\ c.do = "record" /\ c.what = {"harness_role"} /\ e.do = "call"
      /\ a.part = "harness" /\ b.part = "harness" /\ c.part = "harness" /\ e.part = "harness"
  BY <1>1 DEF DirectStep, DirectSteps, Makers, DirectThings, MemoryThings
<1>3. PICK t, u, g : /\ t = <<b, c, e>> /\ u = <<a>>
                     /\ g = GrantedRole("harness_role", "harness")
  OBVIOUS
<1>4. t \in Seq(DirectSteps) /\ Len(t) = 3 /\ t[1] = b /\ t[2] = c /\ t[3] = e
  BY <1>2, <1>3
<1>5. /\ Whole(t, {"harness"}, {})
      /\ "harness" \in RecordedBy(t) /\ "harness_role" \in RecordedBy(t)
  BY <1>2, <1>4 DEF Accounts, Makers, RecordedBy, DirectThings, Whole
<1>6. Whole(u, {"harness"}, {"harness", "harness_role"})
  BY <1>2, <1>3 DEF Accounts, Makers, Whole
<1>7. Whole(g, {"harness"}, {"harness_role"})
  BY <1>3, RoleGranted
<1>8. Whole(g \o u, {"harness"}, {"harness", "harness_role"})
  BY <1>6, <1>7, JoinWhole
<1>9. Whole((g \o u) \o t, {"harness"}, {})
  BY <1>5, <1>8, JoinWhole
<1>10. DirectHarness = (g \o u) \o t
  BY <1>1, <1>3, Zenon DEF DirectHarness, HarnessRole, HarnessMade
<1>11. PICK h : h = g \o u  OBVIOUS
<1>12. h \in Seq(DirectSteps) /\ t \in Seq(DirectSteps)
  BY <1>4, <1>8, <1>11 DEF Whole
<1>13. Len(h \o t) = Len(h) + Len(t) /\ Len(h) \in Nat
  BY <1>12, JoinAt
<1>14. Len(h \o t) >= 1
  BY <1>4, <1>13
<1> QED  BY <1>9, <1>10, <1>11, <1>14, Zenon

LEMMA RuntimeIs ==
  /\ Whole(DirectRuntime, {"runtime"}, {}) /\ Len(DirectRuntime) = 7
  /\ DirectRuntime[1].do = "upload" /\ DirectRuntime[2].do = "make"
  /\ DirectRuntime[3].do = "call" /\ DirectRuntime[4].do = "record"
  /\ DirectRuntime[5].do = "take" /\ DirectRuntime[6].do = "record"
  /\ DirectRuntime[7].do = "call"
<1>1. PICK a, b, c, e, f, x, y : /\ a = DirectStep("upload", {"code"}, "runtime")
                                 /\ b = DirectStep("record", {"runtime_role"}, "runtime")
                                 /\ c = DirectStep("take", {"runtime"}, "runtime")
                                 /\ e = DirectStep("record", {"runtime"}, "runtime")
                                 /\ f = DirectStep("call", {"wait"}, "runtime")
                                 /\ x = DirectStep("make", {"runtime_role"}, "runtime")
                                 /\ y = DirectStep("call", {"put_role_policy"}, "runtime")
  OBVIOUS
<1>2. /\ a \in DirectSteps /\ b \in DirectSteps /\ c \in DirectSteps /\ e \in DirectSteps
      /\ f \in DirectSteps /\ x \in DirectSteps /\ y \in DirectSteps
      /\ a.do = "upload" /\ b.do = "record" /\ b.what = {"runtime_role"}
      /\ c.do = "take" /\ c.what = {"runtime"} /\ e.do = "record" /\ e.what = {"runtime"}
      /\ f.do = "call" /\ x.do = "make" /\ y.do = "call"
      /\ a.part = "runtime" /\ b.part = "runtime" /\ c.part = "runtime" /\ e.part = "runtime"
      /\ f.part = "runtime"
  BY <1>1 DEF DirectStep, DirectSteps, Makers, DirectThings, MemoryThings
<1>3. PICK t, u, g : /\ t = <<b, c, e, f>> /\ u = <<a>>
                     /\ g = GrantedRole("runtime_role", "runtime")
  OBVIOUS
<1>4. /\ t \in Seq(DirectSteps) /\ Len(t) = 4 /\ t[1] = b /\ t[2] = c /\ t[3] = e /\ t[4] = f
      /\ u \in Seq(DirectSteps) /\ Len(u) = 1 /\ u[1] = a
      /\ g \in Seq(DirectSteps) /\ Len(g) = 2 /\ g[1] = x /\ g[2] = y
  BY <1>1, <1>2, <1>3 DEF GrantedRole
<1>5. /\ Whole(t, {"runtime"}, {}) /\ "runtime_role" \in RecordedBy(t)
  BY <1>2, <1>4 DEF Accounts, Makers, RecordedBy, DirectThings, Whole
<1>6. Whole(u, {"runtime"}, {})
  BY <1>2, <1>3 DEF Accounts, Makers, Whole
<1>7. Whole(g, {"runtime"}, {"runtime_role"})
  BY <1>3, RoleGranted
<1>8. Whole(u \o g, {"runtime"}, {"runtime_role"})
  BY <1>6, <1>7, JoinWhole
<1>9. Whole((u \o g) \o t, {"runtime"}, {})
  BY <1>5, <1>8, JoinWhole
<1>10. DirectRuntime = (u \o g) \o t
  BY <1>1, <1>3, Zenon DEF DirectRuntime
<1>11. PICK h : h = u \o g  OBVIOUS
<1>12. h \in Seq(DirectSteps) /\ Len(h) = 3 /\ h[1] = a /\ h[2] = x /\ h[3] = y
  <2>1. /\ h \in Seq(DirectSteps) /\ Len(h) = Len(u) + Len(g)
        /\ \A i \in 1..Len(u) : h[i] = u[i]
        /\ \A i \in 1..Len(g) : h[Len(u) + i] = g[i]
    <3>1. u \in Seq(DirectSteps) /\ g \in Seq(DirectSteps)
      BY <1>4
    <3> QED  BY <1>11, <3>1, JoinAt
  <2>2. h[1 + 1] = x /\ h[1 + 2] = y /\ h[1] = a
    BY <1>4, <2>1
  <2> QED  BY <1>4, <2>1, <2>2
<1>13. PICK p : p = h \o t  OBVIOUS
<1>14. /\ Len(p) = 7 /\ p[1] = a /\ p[2] = x /\ p[3] = y
       /\ p[4] = b /\ p[5] = c /\ p[6] = e /\ p[7] = f
  <2>1. /\ p \in Seq(DirectSteps) /\ Len(p) = Len(h) + Len(t)
        /\ \A i \in 1..Len(h) : p[i] = h[i]
        /\ \A i \in 1..Len(t) : p[Len(h) + i] = t[i]
    <3>1. h \in Seq(DirectSteps) /\ t \in Seq(DirectSteps)
      BY <1>4, <1>12
    <3> QED  BY <1>13, <3>1, JoinAt
  <2>2. p[1] = a /\ p[2] = x /\ p[3] = y
    BY <1>12, <2>1
  <2>3. p[3 + 1] = b /\ p[3 + 2] = c /\ p[3 + 3] = e /\ p[3 + 4] = f
    BY <1>4, <1>12, <2>1
  <2> QED  BY <1>4, <1>12, <2>1, <2>2, <2>3
<1>15. DirectRuntime = p
  BY <1>10, <1>11, <1>13, Zenon
<1> QED  BY <1>2, <1>9, <1>10, <1>14, <1>15

\* Where the memory part and the runtime part of a program are.
MemoryAt(p, a) ==
  /\ a + 6 <= Len(p) /\ \A i \in 1..6 : p[a + i] = DirectMemory[i]
  /\ \A i \in 1..Len(p) : p[i].part = "memory" => i \in (a + 1)..(a + 6)
RuntimeAt(p, n) ==
  /\ Len(p) = n + 7 /\ \A i \in 1..7 : p[n + i] = DirectRuntime[i]
  /\ \A i \in 1..n : p[i].part # "runtime"

LEMMA ProgramFront ==
  ASSUME NEW w \in WishSpace
  PROVE  \E f, m, t :
           /\ DirectProgram(w) = (f \o m) \o t
           /\ Whole(f, {"mcp", "gateway", "policy", "guardrails"}, {})
           /\ (w.memory /\ m = DirectMemory) \/ (~w.memory /\ m = << >>)
           /\ t = IF w.harness THEN DirectHarness ELSE DirectRuntime
<1>1. PICK c1, c2, c3, c4, c5 :
        /\ c1 = If(w.mcp, DirectMcp) /\ c2 = If(w.gateway = "agentcore", DirectGateway)
        /\ c3 = If(w.gateway \in {"litellm", "litellm_ref"}, LitellmGateway(w.gateway = "litellm_ref"))
        /\ c4 = If(w.policy /\ w.gateway = "agentcore", DirectPolicy)
        /\ c5 = If(w.guardrails, DirectGuardrail)
  OBVIOUS
<1> DEFINE P == {"mcp", "gateway", "policy", "guardrails"}
<1>2. Whole(c1, {"mcp"}, {})
  BY <1>1, McpWhole, NothingWhole DEF If
<1>3. Whole(c2, {"gateway"}, {})
  BY <1>1, GatewayWhole, NothingWhole DEF If
<1>4. Whole(c3, {"gateway"}, {})
  <2>1. (w.gateway = "litellm_ref") \in BOOLEAN
    OBVIOUS
  <2>2. Whole(LitellmGateway(w.gateway = "litellm_ref"), {"gateway"}, {})
    BY <2>1, LitellmWhole, Zenon
  <2> QED  BY <1>1, <2>2, NothingWhole, Zenon DEF If
<1>5. Whole(c4, {"policy"}, {})
  BY <1>1, PolicyWhole, NothingWhole DEF If
<1>6. Whole(c5, {"guardrails"}, {})
  BY <1>1, GuardrailWhole, NothingWhole DEF If
<1>7. Whole(c1, P, {}) /\ Whole(c2, P, {}) /\ Whole(c3, P, {}) /\ Whole(c4, P, {}) /\ Whole(c5, P, {})
  BY <1>2, <1>3, <1>4, <1>5, <1>6, WholeMore
<1> HIDE DEF P
<1>8. Whole(c1 \o c2, P, {})  BY <1>7, JoinWhole
<1>9. Whole((c1 \o c2) \o c3, P, {})  BY <1>7, <1>8, JoinWhole
<1>10. Whole(((c1 \o c2) \o c3) \o c4, P, {})  BY <1>7, <1>9, JoinWhole
<1>11. Whole((((c1 \o c2) \o c3) \o c4) \o c5, P, {})  BY <1>7, <1>10, JoinWhole
<1>12. PICK f, m, t : /\ f = (((c1 \o c2) \o c3) \o c4) \o c5 /\ m = If(w.memory, DirectMemory)
                      /\ t = IF w.harness THEN DirectHarness ELSE DirectRuntime
  OBVIOUS
<1>13. DirectProgram(w) = (f \o m) \o t
  BY <1>1, <1>12, Zenon DEF DirectProgram
<1>14. (w.memory /\ m = DirectMemory) \/ (~w.memory /\ m = << >>)
  BY <1>12 DEF If
<1>15. Whole(f, P, {})
  BY <1>11, <1>12, Zenon
<1> QED  BY <1>12, <1>13, <1>14, <1>15, Zenon DEF P

LEMMA ProgramFacts ==
  ASSUME NEW w \in WishSpace, NEW p, p = DirectProgram(w)
  PROVE  /\ p \in Seq(DirectSteps) /\ Accounts(p, {}) /\ Len(p) >= 1
         /\ (\E a \in Nat : MemoryAt(p, a)) \/ \A i \in 1..Len(p) : p[i].part # "memory"
         /\ IF w.harness THEN \A i \in 1..Len(p) : p[i].part # "runtime"
            ELSE \E n \in Nat : RuntimeAt(p, n)
<1> DEFINE P == {"mcp", "gateway", "policy", "guardrails"}
<1>1. PICK f, m, t :
        /\ DirectProgram(w) = (f \o m) \o t
        /\ Whole(f, P, {})
        /\ (w.memory /\ m = DirectMemory) \/ (~w.memory /\ m = << >>)
        /\ t = IF w.harness THEN DirectHarness ELSE DirectRuntime
  BY ProgramFront, Zenon
<1>2. Whole(m, {"memory"}, {})
  BY <1>1, MemoryWhole, NothingWhole
<1>3. Whole(t, {"harness", "runtime"}, {}) /\ Len(t) \in Nat
      /\ Whole(t, IF w.harness THEN {"harness"} ELSE {"runtime"}, {})
  <2>1. Whole(t, IF w.harness THEN {"harness"} ELSE {"runtime"}, {})
    BY <1>1, HarnessWhole, RuntimeIs
  <2>2. Whole(t, {"harness", "runtime"}, {})
    <3>1. (IF w.harness THEN {"harness"} ELSE {"runtime"}) \subseteq {"harness", "runtime"}
      OBVIOUS
    <3> QED  BY <2>1, <3>1, WholeMore
  <2> QED  BY <2>1, <2>2, LenProperties DEF Whole
<1>4. PICK h : h = f \o m  OBVIOUS
<1>5. p = h \o t
  BY <1>1, <1>4, Zenon
<1>6. /\ f \in Seq(DirectSteps) /\ m \in Seq(DirectSteps) /\ t \in Seq(DirectSteps)
      /\ Len(f) \in Nat /\ Len(m) \in Nat
  BY <1>1, <1>2, <1>3, LenProperties DEF Whole
<1>7. /\ h \in Seq(DirectSteps) /\ Len(h) = Len(f) + Len(m) /\ Len(h) \in Nat
      /\ \A i \in 1..Len(f) : h[i] = f[i]
      /\ \A i \in 1..Len(m) : h[Len(f) + i] = m[i]
      /\ \A k \in 1..Len(h) : k \in 1..Len(f) \/ \E i \in 1..Len(m) : k = Len(f) + i
  BY <1>4, <1>6, JoinAt
<1>8. /\ p \in Seq(DirectSteps) /\ Len(p) = Len(h) + Len(t)
      /\ \A i \in 1..Len(h) : p[i] = h[i]
      /\ \A i \in 1..Len(t) : p[Len(h) + i] = t[i]
      /\ \A k \in 1..Len(p) : k \in 1..Len(h) \/ \E i \in 1..Len(t) : k = Len(h) + i
  <2>1. h \in Seq(DirectSteps) /\ t \in Seq(DirectSteps)
    BY <1>6, <1>7
  <2> QED  BY <1>5, <2>1, JoinAt
<1>9. Accounts(p, {})
  <2> DEFINE Q == {"mcp", "gateway", "policy", "guardrails", "memory", "harness", "runtime"}
  <2>1. Whole(f, Q, {}) /\ Whole(m, Q, {}) /\ Whole(t, Q, {})
    BY <1>1, <1>2, <1>3, WholeMore
  <2> HIDE DEF Q
  <2>2. Whole(h, Q, {})
    BY <1>4, <2>1, JoinWhole
  <2>3. Whole(p, Q, {})
    BY <1>5, <2>1, <2>2, JoinWhole
  <2> QED  BY <2>3 DEF Whole
<1>10. \A i \in 1..Len(h) : h[i].part \in P \cup {"memory"}
  <2>1. \A i \in 1..Len(f) : h[i].part \in P
    BY <1>1, <1>7 DEF Whole
  <2>2. \A i \in 1..Len(m) : h[Len(f) + i].part = "memory"
    BY <1>2, <1>7 DEF Whole
  <2> QED  BY <1>7, <2>1, <2>2
<1>11. \A i \in 1..Len(t) : p[Len(h) + i].part = IF w.harness THEN "harness" ELSE "runtime"
  BY <1>3, <1>8 DEF Whole
<1>12. \A i \in 1..Len(h) : p[i] = h[i] /\ p[i].part \in P \cup {"memory"}
  BY <1>8, <1>10
<1>13. (\E a \in Nat : MemoryAt(p, a)) \/ \A i \in 1..Len(p) : p[i].part # "memory"
  <2>1. \A k \in 1..Len(p) : p[k].part = "memory" => k \in 1..Len(h)
    BY <1>8, <1>11
  <2>2. \A k \in 1..Len(h) : h[k].part = "memory" => \E i \in 1..Len(m) : k = Len(f) + i
    BY <1>1, <1>7 DEF Whole
  <2>3. CASE m = << >>
    <3>1. Len(m) = 0  BY <2>3
    <3>2. \A k \in 1..Len(h) : h[k].part # "memory"
      BY <2>2, <3>1
    <3> QED  BY <1>8, <2>1, <3>2
  <2>4. CASE m = DirectMemory
    <3>1. Len(m) = 6
      BY <2>4, MemoryIs
    <3>2. Len(f) + 6 <= Len(p)
      BY <1>3, <1>6, <1>7, <1>8, <3>1
    <3>3. ASSUME NEW i \in 1..6 PROVE p[Len(f) + i] = DirectMemory[i]
      <4>1. Len(f) + i \in 1..Len(h)
        BY <1>6, <1>7, <3>1
      <4> QED  BY <1>7, <1>8, <2>4, <3>1, <4>1
    <3>4. ASSUME NEW k \in 1..Len(p), p[k].part = "memory"
          PROVE  k \in (Len(f) + 1)..(Len(f) + 6)
      <4>1. k \in 1..Len(h) /\ h[k].part = "memory"
        BY <1>8, <2>1, <3>4
      <4>2. PICK i \in 1..6 : k = Len(f) + i
        BY <2>2, <3>1, <4>1
      <4> QED  BY <1>6, <4>2
    <3> QED  BY <1>6, <3>2, <3>3, <3>4 DEF MemoryAt
  <2> QED  BY <1>1, <2>3, <2>4
<1>14. w.harness => \A i \in 1..Len(p) : p[i].part # "runtime"
  BY <1>8, <1>11, <1>12
<1>15. ~w.harness => \E n \in Nat : RuntimeAt(p, n)
  <2> SUFFICES ASSUME ~w.harness PROVE \E n \in Nat : RuntimeAt(p, n)
    OBVIOUS
  <2>1. t = DirectRuntime /\ Len(t) = 7
    BY <1>1, RuntimeIs
  <2>2. RuntimeAt(p, Len(h))
    BY <1>8, <1>12, <2>1 DEF RuntimeAt
  <2> QED  BY <1>7, <2>2
<1>16. Len(p) >= 1
  <2>1. Len(t) >= 1
    <3>1. CASE w.harness
      BY <1>1, <3>1, HarnessWhole
    <3>2. CASE ~w.harness
      <4>1. Len(t) = 7  BY <1>1, <3>2, RuntimeIs
      <4> QED  BY <4>1
    <3> QED  BY <3>1, <3>2
  <2> QED  BY <1>3, <1>7, <1>8, <2>1
<1> QED  BY <1>8, <1>9, <1>13, <1>14, <1>15, <1>16

-----------------------------------------------------------------------------
(* Going through a program.                                                *)

\* What is used of a program.
Good(p) ==
  /\ p \in Seq(DirectSteps) /\ Accounts(p, {}) /\ Len(p) >= 1
  /\ (\E a \in Nat : MemoryAt(p, a)) \/ \A i \in 1..Len(p) : p[i].part # "memory"

\* From step i to step k: to the next, out of a part that may fail, or past the
\* grant and the record of a memory role that was found.
Leap(p, i, k) ==
  /\ i \in 1..Len(p) /\ k \in (i + 1)..(Len(p) + 1)
  /\ \A j \in i..(k - 1) : p[j].part = p[i].part
  /\ k > i + 1 => /\ p[i].part \in Lenient
                  /\ \/ k <= Len(p) => p[k].part # p[i].part
                     \/ p[i].do = "make" /\ "memory_role" \in p[i].what

\* Made and neither written nor lost: a later step records it, or it is one of
\* the things this path leaves out, or the role of a memory that was not made.
Ledger(p, i, made, written, lost) ==
  /\ \A x \in made \ (written \cup Unrecorded \cup lost) :
       \/ x \notin MemoryThings /\ \E j \in i..Len(p) : p[j].do = "record" /\ x \in p[j].what
       \/ x = "memory" /\ i <= Len(p) /\ p[i].do = "record" /\ p[i].what = {"memory"}
       \/ /\ x = "memory_role" /\ "memory" \notin made
          /\ \A a \in Nat : MemoryAt(p, a) => i = a + 3 \/ i = a + 4 \/ i >= a + 7
  /\ \A a \in Nat : MemoryAt(p, a) /\ i <= a + 5 => "memory" \notin made

\* Past the upload the code is its own, past the take the runtime runs it.
Held(p, i, mine, runs) ==
  \A n \in Nat : RuntimeAt(p, n) => (i > n + 1 => mine) /\ (i > n + 5 => runs)

\* The steps of the memory part.
LEMMA MemorySteps ==
  ASSUME NEW p, NEW a \in Nat, MemoryAt(p, a), Len(p) \in Nat
  PROVE  /\ \A i \in 1..6 : a + i \in 1..Len(p) /\ p[a + i].part = "memory"
         /\ p[a + 1].do = "find"
         /\ p[a + 2].do = "make" /\ p[a + 2].what = {"memory_role"}
         /\ p[a + 3].do = "call"
         /\ p[a + 4].do = "record" /\ p[a + 4].what = {"memory_role"}
         /\ p[a + 5].do = "new" /\ p[a + 5].what = {"memory"}
         /\ p[a + 6].do = "record" /\ p[a + 6].what = {"memory"}
         /\ \A i \in 1..Len(p) : p[i].part = "memory" =>
              i = a + 1 \/ i = a + 2 \/ i = a + 3 \/ i = a + 4 \/ i = a + 5 \/ i = a + 6
<1>1. \A i \in 1..6 : p[a + i] = DirectMemory[i]
  BY DEF MemoryAt
<1>2. \A i \in 1..6 : a + i \in 1..Len(p) /\ p[a + i].part = "memory"
  BY <1>1, MemoryIs DEF MemoryAt
<1>3. /\ p[a + 1] = DirectMemory[1] /\ p[a + 2] = DirectMemory[2] /\ p[a + 3] = DirectMemory[3]
      /\ p[a + 4] = DirectMemory[4] /\ p[a + 5] = DirectMemory[5] /\ p[a + 6] = DirectMemory[6]
  BY <1>1
<1>4. \A i \in 1..Len(p) : p[i].part = "memory" =>
        i = a + 1 \/ i = a + 2 \/ i = a + 3 \/ i = a + 4 \/ i = a + 5 \/ i = a + 6
  <2>1. \A i \in (a + 1)..(a + 6) :
          i = a + 1 \/ i = a + 2 \/ i = a + 3 \/ i = a + 4 \/ i = a + 5 \/ i = a + 6
    OBVIOUS
  <2>2. \A i \in 1..Len(p) : p[i].part = "memory" => i \in (a + 1)..(a + 6)
    BY DEF MemoryAt
  <2> QED  BY <2>1, <2>2, Zenon
<1> QED  BY <1>2, <1>3, <1>4, MemoryIs

\* There is one memory part.
LEMMA OneMemory ==
  ASSUME NEW p, NEW a \in Nat, NEW b \in Nat, MemoryAt(p, a), MemoryAt(p, b), Len(p) \in Nat
  PROVE  a = b
<1>1. a + 1 \in 1..Len(p) /\ p[a + 1].part = "memory"
  BY MemorySteps
<1>2. b + 1 \in 1..Len(p) /\ p[b + 1].part = "memory"
  BY MemorySteps
<1>3. a + 1 \in (b + 1)..(b + 6)
  BY <1>1 DEF MemoryAt
<1>4. b + 1 \in (a + 1)..(a + 6)
  BY <1>2 DEF MemoryAt
<1> QED  BY <1>3, <1>4

LEMMA GoodSteps ==
  ASSUME NEW p, Good(p)
  PROVE  /\ Len(p) \in Nat /\ \A i \in 1..Len(p) : p[i] \in DirectSteps
BY LenProperties, ElementOfSeq DEF Good

\* Leaping on, nothing is forgotten.
LEMMA LedgerPass ==
  ASSUME NEW p, NEW i, NEW k, NEW made, NEW written, NEW lost, NEW more, Good(p),
         Ledger(p, i, made, written, lost), Leap(p, i, k), p[i].do # "record", lost \subseteq more
  PROVE  Ledger(p, k, made, written, more)
<1>1. /\ Len(p) \in Nat /\ i \in 1..Len(p) /\ k \in Nat /\ k > i /\ k <= Len(p) + 1
      /\ \A j \in 1..Len(p) : p[j] \in DirectSteps
  BY GoodSteps DEF Leap
<1>2. ASSUME NEW a \in Nat, MemoryAt(p, a), k <= a + 5 PROVE "memory" \notin made
  BY <1>1, <1>2 DEF Ledger
<1>3. ASSUME NEW x \in made \ (written \cup Unrecorded \cup more)
      PROVE  \/ x \notin MemoryThings /\ \E j \in k..Len(p) : p[j].do = "record" /\ x \in p[j].what
             \/ /\ x = "memory_role" /\ "memory" \notin made
                /\ \A a \in Nat : MemoryAt(p, a) => k = a + 3 \/ k = a + 4 \/ k >= a + 7
  <2>1. \/ x \notin MemoryThings /\ \E j \in i..Len(p) : p[j].do = "record" /\ x \in p[j].what
        \/ /\ x = "memory_role" /\ "memory" \notin made
           /\ \A a \in Nat : MemoryAt(p, a) => i = a + 3 \/ i = a + 4 \/ i >= a + 7
    BY <1>3 DEF Ledger
  <2>2. CASE x \notin MemoryThings /\ \E j \in i..Len(p) : p[j].do = "record" /\ x \in p[j].what
    <3>1. PICK j \in i..Len(p) : p[j].do = "record" /\ x \in p[j].what
      BY <2>2
    <3>2. CASE j >= k
      BY <1>1, <2>2, <3>1, <3>2
    <3>3. CASE j < k
      <4>1. j # i /\ j \in i..(k - 1) /\ j \in 1..Len(p)
        BY <1>1, <3>1, <3>3
      <4>2. p[j].part = p[i].part /\ p[i].part \in Lenient
        BY <1>1, <4>1, <3>3 DEF Leap
      <4>3. p[j] \in DirectSteps
        BY <1>1, <4>1
      <4> QED  BY <2>2, <3>1, <4>2, <4>3 DEF Lenient, DirectSteps
    <3> QED  BY <1>1, <3>2, <3>3
  <2>3. CASE /\ x = "memory_role" /\ "memory" \notin made
             /\ \A a \in Nat : MemoryAt(p, a) => i = a + 3 \/ i = a + 4 \/ i >= a + 7
    <3> SUFFICES ASSUME NEW a \in Nat, MemoryAt(p, a) PROVE k = a + 3 \/ k = a + 4 \/ k >= a + 7
      BY <2>3
    <3>1. p[a + 3].do = "call" /\ p[a + 3].part = "memory" /\ p[a + 4].do = "record"
      BY <1>1, MemorySteps
    <3>2. CASE i = a + 3
      <4>1. CASE k = i + 1
        BY <3>2, <4>1
      <4>2. CASE k > i + 1
        <5>1. k <= Len(p) => p[k].part # "memory"
          BY <3>1, <3>2, <4>2 DEF Leap
        <5>2. \A j \in 1..6 : a + j \in 1..Len(p) /\ p[a + j].part = "memory"
          BY <1>1, MemorySteps
        <5>2a. /\ a + 5 <= Len(p) /\ p[a + 5].part = "memory"
               /\ a + 6 <= Len(p) /\ p[a + 6].part = "memory"
          BY <1>1, <5>2
        <5>3. k # a + 5 /\ k # a + 6
          BY <5>1, <5>2a
        <5> QED  BY <1>1, <3>2, <4>2, <5>3
      <4> QED  BY <1>1, <4>1, <4>2
    <3>3. CASE i >= a + 7
      BY <1>1, <3>3
    <3> QED  BY <2>3, <3>1, <3>2, <3>3
  <2> QED  BY <2>1, <2>2, <2>3
<1> QED  BY <1>2, <1>3 DEF Ledger

\* What is made is recorded further on.
LEMMA LedgerMake ==
  ASSUME NEW p, NEW i \in 1..Len(p), NEW made, NEW written, NEW lost, NEW more, Good(p),
         Ledger(p, i, made, written, lost), p[i].do \in Makers, more \subseteq p[i].what
  PROVE  Ledger(p, i + 1, made \cup more, written, lost)
<1>1. Len(p) \in Nat /\ i \in Nat /\ \A j \in 1..Len(p) : p[j] \in DirectSteps
  BY GoodSteps
<1>2. more \cap MemoryThings # {} => p[i].part = "memory" /\ \E a \in Nat : MemoryAt(p, a)
  <2>1. more \cap MemoryThings # {} => p[i].part = "memory"
    BY <1>1 DEF DirectSteps
  <2>2. p[i].part = "memory" => \E a \in Nat : MemoryAt(p, a)
    BY DEF Good
  <2> QED  BY <2>1, <2>2
<1>3. ASSUME NEW a \in Nat, MemoryAt(p, a), more \cap MemoryThings # {}
      PROVE  \/ i = a + 2 /\ more \subseteq {"memory_role"}
             \/ i = a + 5 /\ more \subseteq {"memory"}
  <2>1. i = a + 1 \/ i = a + 2 \/ i = a + 3 \/ i = a + 4 \/ i = a + 5 \/ i = a + 6
    BY <1>1, <1>2, <1>3, MemorySteps
  <2>2. /\ p[a + 1].do = "find"
        /\ p[a + 2].do = "make" /\ p[a + 2].what = {"memory_role"}
        /\ p[a + 3].do = "call" /\ p[a + 4].do = "record"
        /\ p[a + 5].do = "new" /\ p[a + 5].what = {"memory"}
        /\ p[a + 6].do = "record"
    BY <1>1, <1>3, MemorySteps
  <2> QED  BY <2>1, <2>2 DEF Makers
<1>4. ASSUME NEW a \in Nat, MemoryAt(p, a), i + 1 <= a + 5 PROVE "memory" \notin made \cup more
  <2>1. "memory" \notin made
    BY <1>1, <1>4 DEF Ledger
  <2>2. "memory" \notin more
    BY <1>1, <1>3, <1>4 DEF MemoryThings
  <2> QED  BY <2>1, <2>2
<1>5. ASSUME NEW x \in (made \cup more) \ (written \cup Unrecorded \cup lost)
      PROVE  \/ x \notin MemoryThings /\ \E j \in (i + 1)..Len(p) : p[j].do = "record" /\ x \in p[j].what
             \/ x = "memory" /\ i + 1 <= Len(p) /\ p[i + 1].do = "record" /\ p[i + 1].what = {"memory"}
             \/ /\ x = "memory_role" /\ "memory" \notin made \cup more
                /\ \A a \in Nat : MemoryAt(p, a) => i + 1 = a + 3 \/ i + 1 = a + 4 \/ i + 1 >= a + 7
  <2>1. CASE x \in more /\ x \notin MemoryThings
    BY <1>5, <2>1 DEF Good, Accounts
  <2>2. CASE x \in more /\ x \in MemoryThings
    <3>1. PICK a \in Nat : MemoryAt(p, a)
      BY <1>2, <2>2
    <3>2. (i = a + 2 /\ x = "memory_role") \/ (i = a + 5 /\ x = "memory")
      BY <1>3, <2>2, <3>1
    <3>3. CASE i = a + 2 /\ x = "memory_role"
      <4>1. "memory" \notin made \cup more
        BY <1>1, <1>4, <3>1, <3>3
      <4>2. \A b \in Nat : MemoryAt(p, b) => b = a
        BY <1>1, <3>1, OneMemory
      <4> QED  BY <3>3, <4>1, <4>2
    <3>4. CASE i = a + 5 /\ x = "memory"
      <4>1. /\ p[a + 6].do = "record" /\ p[a + 6].what = {"memory"}
            /\ a + 6 <= Len(p) /\ i + 1 = a + 6
        BY <1>1, <3>1, <3>4, MemorySteps DEF MemoryAt
      <4> QED  BY <3>4, <4>1
    <3> QED  BY <3>2, <3>3, <3>4
  <2>3. CASE x \in made
    <3>1. p[i].do # "record"
      BY DEF Makers
    <3>2. \/ x \notin MemoryThings /\ \E j \in i..Len(p) : p[j].do = "record" /\ x \in p[j].what
          \/ /\ x = "memory_role" /\ "memory" \notin made
             /\ \A a \in Nat : MemoryAt(p, a) => i = a + 3 \/ i = a + 4 \/ i >= a + 7
      BY <1>5, <2>3, <3>1 DEF Ledger
    <3>3. CASE x \notin MemoryThings /\ \E j \in i..Len(p) : p[j].do = "record" /\ x \in p[j].what
      <4>1. PICK j \in i..Len(p) : p[j].do = "record" /\ x \in p[j].what
        BY <3>3
      <4>2. j \in (i + 1)..Len(p)
        BY <1>1, <3>1, <4>1
      <4> QED  BY <3>3, <4>1, <4>2
    <3>4. CASE /\ x = "memory_role" /\ "memory" \notin made
               /\ \A a \in Nat : MemoryAt(p, a) => i = a + 3 \/ i = a + 4 \/ i >= a + 7
      <4>1. ASSUME NEW a \in Nat, MemoryAt(p, a) PROVE i >= a + 7
        <5>1. p[a + 3].do = "call" /\ p[a + 4].do = "record"
          BY <1>1, <4>1, MemorySteps
        <5> QED  BY <3>4, <4>1, <5>1 DEF Makers
      <4>2. "memory" \notin more
        <5> SUFFICES ASSUME "memory" \in more PROVE FALSE
          OBVIOUS
        <5>1. PICK a \in Nat : MemoryAt(p, a)
          BY <1>2 DEF MemoryThings
        <5>2. i = a + 2 \/ i = a + 5
          BY <1>3, <5>1 DEF MemoryThings
        <5>3. i >= a + 7
          BY <4>1, <5>1
        <5> QED  BY <1>1, <5>2, <5>3
      <4>3. \A a \in Nat : MemoryAt(p, a) => i + 1 >= a + 7
        BY <1>1, <4>1
      <4> QED  BY <3>4, <4>2, <4>3
    <3> QED  BY <3>2, <3>3, <3>4
  <2> QED  BY <1>5, <2>1, <2>2, <2>3
<1> QED  BY <1>4, <1>5 DEF Ledger

\* What is recorded is written or lost.
LEMMA LedgerRecord ==
  ASSUME NEW p, NEW i \in 1..Len(p), NEW made, NEW written, NEW lost, NEW written2, NEW lost2,
         Good(p), Ledger(p, i, made, written, lost), p[i].do = "record",
         written \subseteq written2, lost \subseteq lost2, p[i].what \subseteq written2 \cup lost2
  PROVE  Ledger(p, i + 1, made, written2, lost2)
<1>1. Len(p) \in Nat /\ i \in Nat
  BY GoodSteps
<1>2. \A a \in Nat : MemoryAt(p, a) /\ i + 1 <= a + 5 => "memory" \notin made
  BY <1>1 DEF Ledger
<1>3. ASSUME NEW x \in made \ (written2 \cup Unrecorded \cup lost2)
      PROVE  \/ x \notin MemoryThings /\ \E j \in (i + 1)..Len(p) : p[j].do = "record" /\ x \in p[j].what
             \/ /\ x = "memory_role" /\ "memory" \notin made
                /\ \A a \in Nat : MemoryAt(p, a) => i + 1 = a + 3 \/ i + 1 = a + 4 \/ i + 1 >= a + 7
  <2>1. x \notin p[i].what
    BY <1>3
  <2>2. \/ x \notin MemoryThings /\ \E j \in i..Len(p) : p[j].do = "record" /\ x \in p[j].what
        \/ /\ x = "memory_role" /\ "memory" \notin made
           /\ \A a \in Nat : MemoryAt(p, a) => i = a + 3 \/ i = a + 4 \/ i >= a + 7
    BY <1>3, <2>1 DEF Ledger
  <2>3. CASE x \notin MemoryThings /\ \E j \in i..Len(p) : p[j].do = "record" /\ x \in p[j].what
    <3>1. PICK j \in i..Len(p) : p[j].do = "record" /\ x \in p[j].what
      BY <2>3
    <3>2. j \in (i + 1)..Len(p)
      BY <1>1, <2>1, <3>1
    <3> QED  BY <2>3, <3>1, <3>2
  <2>4. CASE /\ x = "memory_role" /\ "memory" \notin made
             /\ \A a \in Nat : MemoryAt(p, a) => i = a + 3 \/ i = a + 4 \/ i >= a + 7
    <3>1. ASSUME NEW a \in Nat, MemoryAt(p, a) PROVE i + 1 >= a + 7
      <4>1. p[a + 3].do = "call" /\ p[a + 4].what = {"memory_role"}
        BY <1>1, <3>1, MemorySteps
      <4>2. i >= a + 7
        BY <2>1, <2>4, <3>1, <4>1
      <4> QED  BY <1>1, <4>2
    <3> QED  BY <2>4, <3>1
  <2> QED  BY <2>2, <2>3, <2>4
<1> QED  BY <1>2, <1>3 DEF Ledger

\* At the end of the program nothing is left to record.
LEMMA LedgerEnd ==
  ASSUME NEW p, NEW made, NEW written, NEW lost, Good(p),
         Ledger(p, Len(p) + 1, made, written, lost), NEW x \in made \ written
  PROVE  \/ x \in Unrecorded \/ x \in lost
         \/ x = "memory_role" /\ "memory" \notin made
<1>1. Len(p) \in Nat
  BY GoodSteps
<1>2. (Len(p) + 1)..Len(p) = {} /\ ~(Len(p) + 1 <= Len(p))
  BY <1>1
<1> QED  BY <1>2 DEF Ledger

\* The steps of the runtime part, which is left only at the end.
LEMMA RuntimeSteps ==
  ASSUME NEW p, NEW n \in Nat, RuntimeAt(p, n), Good(p)
  PROVE  /\ Len(p) = n + 7
         /\ \A i \in 1..Len(p) : p[i].part = "runtime" <=> i > n
         /\ \A i \in 1..Len(p) : p[i].do = "upload" => i = n + 1
         /\ \A i \in 1..Len(p) : p[i].do = "take" => i = n + 5
         /\ p[n + 1].do = "upload" /\ p[n + 5].do = "take"
<1>1. Len(p) = n + 7 /\ \A i \in 1..7 : p[n + i] = DirectRuntime[i]
  BY DEF RuntimeAt
<1>2. \A i \in 1..7 : DirectRuntime[i].part = "runtime"
  BY RuntimeIs DEF Whole
<1>3. ASSUME NEW i \in 1..Len(p), i > n PROVE i - n \in 1..7 /\ p[i] = DirectRuntime[i - n]
  <2>1. i \in Int /\ i > n /\ i <= n + 7
    BY <1>1, <1>3
  <2>2. i - n \in 1..7 /\ n + (i - n) = i
    BY <2>1
  <2> QED  BY <1>1, <2>2
<1>4. \A i \in 1..Len(p) : p[i].part = "runtime" <=> i > n
  <2> SUFFICES ASSUME NEW i \in 1..Len(p) PROVE p[i].part = "runtime" <=> i > n
    OBVIOUS
  <2>1. CASE i > n
    BY <1>2, <1>3, <2>1
  <2>2. CASE ~(i > n)
    <3>1. i \in 1..n  BY <1>1, <2>2
    <3> QED  BY <2>2, <3>1 DEF RuntimeAt
  <2> QED  BY <2>1, <2>2
<1>5. ASSUME NEW i \in 1..Len(p), p[i].do \in {"upload", "take"}
      PROVE  (p[i].do = "upload" => i = n + 1) /\ (p[i].do = "take" => i = n + 5)
  <2>1. p[i].part = "runtime"
    BY <1>5, GoodSteps DEF DirectSteps
  <2>2. PICK k \in 1..7 : k = i - n /\ p[i] = DirectRuntime[k]
    BY <1>3, <1>4, <2>1
  <2>3. (p[i].do = "upload" => k = 1) /\ (p[i].do = "take" => k = 5)
    BY <2>2, RuntimeIs
  <2>4. i = n + k
    BY <1>1, <2>2
  <2> QED  BY <2>3, <2>4
<1>6. p[n + 1].do = "upload" /\ p[n + 5].do = "take"
  BY <1>1, RuntimeIs
<1> QED  BY <1>1, <1>4, <1>5, <1>6

LEMMA HeldPass ==
  ASSUME NEW p, NEW i, NEW k, NEW mine \in BOOLEAN, NEW runs \in BOOLEAN, Good(p),
         Held(p, i, mine, runs), Leap(p, i, k), p[i].do \notin {"upload", "take"}
  PROVE  Held(p, k, mine, runs)
<1> SUFFICES ASSUME NEW n \in Nat, RuntimeAt(p, n)
             PROVE  (k > n + 1 => mine) /\ (k > n + 5 => runs)
  BY DEF Held
<1>1. /\ Len(p) \in Nat /\ i \in 1..Len(p) /\ k \in Nat /\ k > i /\ k <= Len(p) + 1
  BY GoodSteps DEF Leap
<1>2. /\ Len(p) = n + 7
      /\ \A j \in 1..Len(p) : p[j].part = "runtime" <=> j > n
      /\ p[n + 1].do = "upload" /\ p[n + 5].do = "take"
  BY RuntimeSteps
<1>3. i # n + 1 /\ i # n + 5
  BY <1>2
<1>4. CASE i > n
  <2>1. k = i + 1
    BY <1>1, <1>2, <1>4 DEF Leap, Lenient
  <2>2. (i > n + 1 => mine) /\ (i > n + 5 => runs)
    BY DEF Held
  <2> QED  BY <1>1, <1>3, <2>1, <2>2
<1>5. CASE i <= n
  <2>1. k <= n + 1
    <3> SUFFICES ASSUME k > n + 1 PROVE FALSE
      BY <1>1
    <3>1. i \in Nat /\ i >= 1 /\ k \in Nat /\ Len(p) = n + 7
      BY <1>1, <1>2
    <3>2. n + 1 \in i..(k - 1) /\ n + 1 \in 1..(n + 7)
      BY <1>5, <3>1
    <3>3. p[n + 1].part = p[i].part
      BY <3>2 DEF Leap
    <3>4. n + 1 \in 1..Len(p) /\ n + 1 > n
      BY <3>1, <3>2
    <3>5. p[n + 1].part = "runtime"
      BY <1>2, <3>4
    <3>6. p[i].part # "runtime"
      BY <1>1, <1>2, <1>5, <3>1
    <3> QED  BY <3>3, <3>5, <3>6
  <2> QED  BY <1>1, <2>1
<1> QED  BY <1>1, <1>4, <1>5

LEMMA HeldUpload ==
  ASSUME NEW p, NEW i \in 1..Len(p), NEW runs \in BOOLEAN, Good(p), p[i].do = "upload"
  PROVE  Held(p, i + 1, TRUE, runs)
<1> SUFFICES ASSUME NEW n \in Nat, RuntimeAt(p, n) PROVE i + 1 > n + 5 => runs
  BY DEF Held
<1>1. i = n + 1
  BY RuntimeSteps
<1> QED  BY <1>1

LEMMA HeldTake ==
  ASSUME NEW p, NEW i \in 1..Len(p), NEW mine \in BOOLEAN, NEW runs \in BOOLEAN,
         NEW runs2 \in BOOLEAN, Good(p), Held(p, i, mine, runs), p[i].do = "take", mine => runs2
  PROVE  Held(p, i + 1, mine, runs2)
<1> SUFFICES ASSUME NEW n \in Nat, RuntimeAt(p, n) PROVE mine /\ runs2
  BY DEF Held
<1>1. i = n + 5
  BY RuntimeSteps
<1>2. i > n + 1
  BY <1>1
<1> QED  BY <1>2 DEF Held

-----------------------------------------------------------------------------
(* Where a step of a deployment leads.                                     *)

LEMMA LeastOf == ASSUME NEW T, T \subseteq Nat, T # {} PROVE \E m \in T : \A k \in T : m <= k
<1> DEFINE R == {ss \in Nat \X Nat : ss[1] < ss[2]}
<1>2. \A a, b \in Nat : a < b => <<a, b>> \in R
  OBVIOUS
<1>3. IsWellFoundedOn(R, Nat)
  BY NatLessThanWellFounded, Zenon DEF OpToRel
<1> HIDE DEF R
<1>4. PICK x \in T : \A y \in T : ~ (<<y, x>> \in R)
  BY <1>3, WFMin, Zenon
<1>5. ASSUME NEW y \in T PROVE x <= y
  <2>1. x \in Nat /\ y \in Nat  OBVIOUS
  <2>2. ~ (y < x)  BY <1>2, <1>4, <2>1, Zenon
  <2> QED  BY <2>1, <2>2
<1> QED  BY <1>5

\* The place behind a part: the first step of another one, or the end.
IsBehind(p, i, b) ==
  /\ \A j \in i..(b - 1) : p[j].part = p[i].part
  /\ b <= Len(p) => p[b].part # p[i].part

LEMMA BehindThere ==
  ASSUME NEW p, Len(p) \in Nat, NEW i \in 1..Len(p)
  PROVE  \E b \in i..(Len(p) + 1) : IsBehind(p, i, b)
<1> DEFINE T == {k \in i..(Len(p) + 1) : k = Len(p) + 1 \/ p[k].part # p[i].part}
<1>1. T \subseteq Nat /\ Len(p) + 1 \in T
  OBVIOUS
<1>2. PICK b \in T : \A k \in T : b <= k
  BY <1>1, LeastOf
<1>3. ASSUME NEW j \in i..(b - 1) PROVE p[j].part = p[i].part
  <2>1. j \in i..(Len(p) + 1) /\ ~(b <= j)
    BY <1>2
  <2>2. j \notin T
    BY <1>2, <2>1
  <2> QED  BY <2>1, <2>2
<1>4. b <= Len(p) => p[b].part # p[i].part
  BY <1>2
<1> QED  BY <1>3, <1>4 DEF IsBehind

Prog(d) == Programs[wish[d]]

LEMMA ProgramGood ==
  ASSUME NEW d, wish[d] \in Wishes
  PROVE  /\ Good(Prog(d)) /\ Size(d) = Len(Prog(d)) /\ Size(d) \in Nat
         /\ At(d) = Prog(d)[at[d]]
         /\ ~wish[d].harness => \E n \in Nat : RuntimeAt(Prog(d), n)
<1>1. PICK w : w = wish[d] /\ w \in WishSpace
  BY DirectAssumption
<1>2. PICK p : p = DirectProgram(w) OBVIOUS
<1>3. Prog(d) = p
  BY <1>1, <1>2, Zenon DEF Prog, Programs
<1>4. /\ p \in Seq(DirectSteps) /\ Accounts(p, {}) /\ Len(p) >= 1
      /\ (\E a \in Nat : MemoryAt(p, a)) \/ \A i \in 1..Len(p) : p[i].part # "memory"
      /\ IF w.harness THEN \A i \in 1..Len(p) : p[i].part # "runtime"
         ELSE \E n \in Nat : RuntimeAt(p, n)
  BY <1>1, <1>2, ProgramFacts
<1>5. Good(p)
  BY <1>4 DEF Good
<1>6. Len(p) \in Nat
  BY <1>5, GoodSteps
<1>7. Size(d) = Len(Prog(d)) /\ At(d) = Prog(d)[at[d]]
  BY Zenon DEF Size, At, Prog
<1> QED  BY <1>1, <1>3, <1>4, <1>5, <1>6, <1>7

LEMMA BehindLeap ==
  ASSUME NEW d, wish[d] \in Wishes, at[d] \in 1..Size(d), At(d).part \in Lenient
  PROVE  Leap(Prog(d), at[d], Behind(d))
<1>1. PICK p, i : p = Prog(d) /\ i = at[d]
  OBVIOUS
<1>2. Len(p) \in Nat /\ i \in 1..Len(p) /\ p[i].part \in Lenient
  BY <1>1, ProgramGood
<1>3. Behind(d) = CHOOSE b \in i..(Len(p) + 1) : IsBehind(p, i, b)
  BY <1>1, Zenon DEF Behind, IsBehind, Prog, Size, At
<1>4. PICK b : b = Behind(d) /\ b \in i..(Len(p) + 1) /\ IsBehind(p, i, b)
  BY <1>2, <1>3, BehindThere
<1>5. b # i
  BY <1>2, <1>4 DEF IsBehind
<1>6. Leap(p, i, b)
  BY <1>2, <1>4, <1>5 DEF Leap, IsBehind
<1> QED  BY <1>1, <1>4, <1>6

LEMMA NextLeap ==
  ASSUME NEW p, Len(p) \in Nat, NEW i \in 1..Len(p)
  PROVE  Leap(p, i, i + 1)
<1>1. i + 1 \in (i + 1)..(Len(p) + 1) /\ i..((i + 1) - 1) = {i} /\ ~(i + 1 > i + 1)
  OBVIOUS
<1> QED  BY <1>1 DEF Leap

LEMMA FoundLeap ==
  ASSUME NEW p, Good(p), NEW i \in 1..Len(p), p[i].do = "make", "memory_role" \in p[i].what
  PROVE  Leap(p, i, i + 3) /\ p[i].what = {"memory_role"}
<1>1. Len(p) \in Nat /\ i \in Nat /\ p[i] \in DirectSteps
  BY GoodSteps
<1>2. p[i].part = "memory"
  BY <1>1 DEF DirectSteps, MemoryThings
<1>3. PICK a \in Nat : MemoryAt(p, a)
  BY <1>2 DEF Good
<1>4. /\ \A j \in 1..6 : a + j \in 1..Len(p) /\ p[a + j].part = "memory"
      /\ p[a + 1].do = "find"
      /\ p[a + 2].do = "make" /\ p[a + 2].what = {"memory_role"}
      /\ p[a + 3].do = "call" /\ p[a + 4].do = "record"
      /\ p[a + 5].do = "new" /\ p[a + 6].do = "record"
      /\ \A j \in 1..Len(p) : p[j].part = "memory" =>
           j = a + 1 \/ j = a + 2 \/ j = a + 3 \/ j = a + 4 \/ j = a + 5 \/ j = a + 6
  BY <1>1, <1>3, MemorySteps
<1>5. i = a + 2
  BY <1>2, <1>4
<1>6. /\ p[a + 2].part = "memory" /\ p[a + 3].part = "memory" /\ p[a + 4].part = "memory"
      /\ a + 5 \in 1..Len(p)
  BY <1>4
<1>7. ASSUME NEW j \in i..((i + 3) - 1) PROVE p[j].part = p[i].part
  <2>1. j = a + 2 \/ j = a + 3 \/ j = a + 4
    BY <1>1, <1>5
  <2> QED  BY <1>5, <1>6, <2>1
<1>8. i + 3 \in (i + 1)..(Len(p) + 1)
  BY <1>1, <1>5, <1>6
<1> QED  BY <1>2, <1>4, <1>5, <1>7, <1>8 DEF Leap, Lenient

-----------------------------------------------------------------------------
(* The invariant of direct deployments.                                    *)

LostOf(d) == {x \in DirectThings : <<d, x>> \in refused}

DirectShape ==
  /\ wish \in [Direct -> Wishes] /\ at \in [Direct -> Nat]
  /\ outcome \in [Direct -> {"none", "success", "failed"}]
  /\ madeBy \in [Direct -> SUBSET DirectThings] /\ inManifest \in [Direct -> SUBSET DirectThings]
  /\ \A d \in Direct :
       /\ madeBy[d] \subseteq live
       /\ at[d] <= Size(d) + 1
       /\ outcome[d] = "none" => at[d] <= Size(d)
       /\ outcome[d] = "success" => at[d] = Size(d) + 1
       /\ at[d] = 0 => outcome[d] = "none" /\ madeBy[d] = {}
  /\ stored \subseteq Direct /\ running \subseteq Direct
  /\ disturbed \subseteq Direct /\ lapsed \subseteq Direct

\* What an undisturbed deployment has made is in its manifest or comes to it,
\* and past its steps the code and the runtime are its own.
Tracked(d) ==
  at[d] > 0 /\ outcome[d] # "failed" =>
    Ledger(Prog(d), at[d], madeBy[d], inManifest[d], LostOf(d))
Alone(d) ==
  at[d] > 0 /\ d \notin disturbed =>
    /\ \A o \in Direct \ {d} : ~Deploying(o)
    /\ outcome[d] # "failed" =>
         Held(Prog(d), at[d], stored = {d}, running = {d} \/ d \in lapsed)
DirectInv == DirectShape /\ \A d \in Direct : Tracked(d) /\ Alone(d)

\* A step of d, and where it leaves d.
Steps(d) ==
  /\ wish' = wish /\ disturbed' = disturbed
  /\ \A o \in Direct \ {d} : /\ at'[o] = at[o] /\ outcome'[o] = outcome[o]
                             /\ madeBy'[o] = madeBy[o] /\ inManifest'[o] = inManifest[o]
                             /\ LostOf(o)' = LostOf(o)
LeftAs(d) ==
  outcome'[d] # "failed" =>
    /\ Ledger(Prog(d), at'[d], madeBy'[d], inManifest'[d], LostOf(d)')
    /\ d \notin disturbed => Held(Prog(d), at'[d], stored' = {d}, running' = {d} \/ d \in lapsed')

LEMMA StepKeeps ==
  ASSUME DirectInv, NEW d \in Direct, Deploying(d), Steps(d), LeftAs(d), DirectShape'
  PROVE  DirectInv'
<1>1. ASSUME NEW o \in Direct PROVE Prog(o)' = Prog(o)
  BY DEF Prog, Programs, Steps
<1>2. Tracked(d)'
  BY <1>1, Zenon DEF Tracked, LeftAs
<1>3. Alone(d)'
  <2> SUFFICES ASSUME d \notin disturbed
               PROVE  /\ \A o \in Direct \ {d} : ~Deploying(o)'
                      /\ (outcome[d] # "failed")' =>
                           Held(Prog(d)', at'[d], stored' = {d}, running' = {d} \/ d \in lapsed')
    BY Zenon DEF Alone, Steps
  <2>1. \A o \in Direct \ {d} : ~Deploying(o)
    BY DEF DirectInv, Alone, Deploying
  <2>2. \A o \in Direct \ {d} : ~Deploying(o)'
    BY <2>1 DEF Deploying, Steps
  <2> QED  BY <1>1, <2>2, Zenon DEF LeftAs
<1>4. ASSUME NEW o \in Direct \ {d} PROVE Tracked(o)' /\ Alone(o)'
  <2>1. /\ at'[o] = at[o] /\ outcome'[o] = outcome[o] /\ madeBy'[o] = madeBy[o]
        /\ inManifest'[o] = inManifest[o] /\ LostOf(o)' = LostOf(o)
    BY DEF Steps
  <2>2. Tracked(o)'
    <3>1. Tracked(o) /\ Prog(o)' = Prog(o)
      BY <1>1 DEF DirectInv
    <3> QED  BY <2>1, <3>1, Zenon DEF Tracked
  <2>3. Alone(o)'
    <3>1. at[o] > 0 => o \in disturbed
      BY DEF DirectInv, Alone
    <3> QED  BY <2>1, <3>1, Zenon DEF Alone, Steps
  <2> QED  BY <2>2, <2>3
<1> QED  BY <1>2, <1>3, <1>4 DEF DirectInv

\* What is known of d and of its step.
LEMMA Deployer ==
  ASSUME DirectInv, NEW d \in Direct, Deploying(d)
  PROVE  /\ wish[d] \in Wishes /\ Good(Prog(d)) /\ Size(d) = Len(Prog(d)) /\ Size(d) \in Nat
         /\ at[d] \in 1..Len(Prog(d)) /\ At(d) = Prog(d)[at[d]] /\ At(d) \in DirectSteps
         /\ Ledger(Prog(d), at[d], madeBy[d], inManifest[d], LostOf(d))
         /\ d \notin disturbed => Held(Prog(d), at[d], stored = {d}, running = {d} \/ d \in lapsed)
<1>1. wish[d] \in Wishes
  BY DEF DirectInv, DirectShape
<1>2. Good(Prog(d)) /\ Size(d) = Len(Prog(d)) /\ Size(d) \in Nat /\ At(d) = Prog(d)[at[d]]
  BY <1>1, ProgramGood
<1>3. at[d] \in 1..Len(Prog(d))
  BY <1>2 DEF DirectInv, DirectShape, Deploying
<1>4. At(d) \in DirectSteps
  BY <1>2, <1>3, GoodSteps
<1>5. outcome[d] # "failed" /\ at[d] > 0
  BY DEF Deploying
<1> QED  BY <1>1, <1>2, <1>3, <1>4, <1>5 DEF DirectInv, Tracked, Alone

LEMMA ShapeReach ==
  ASSUME DirectInv, NEW d \in Direct, Deploying(d), NEW k, Reach(d, k), Leap(Prog(d), at[d], k),
         wish' = wish,
         madeBy' \in [Direct -> SUBSET DirectThings], inManifest' \in [Direct -> SUBSET DirectThings],
         \A o \in Direct : madeBy'[o] \subseteq live',
         \A o \in Direct \ {d} : madeBy'[o] = madeBy[o],
         stored' \subseteq Direct, running' \subseteq Direct, disturbed' \subseteq Direct,
         lapsed' \subseteq Direct
  PROVE  /\ DirectShape' /\ at'[d] = k /\ outcome'[d] # "failed"
         /\ \A o \in Direct \ {d} : at'[o] = at[o] /\ outcome'[o] = outcome[o]
<1>1. /\ Size(d) \in Nat /\ at[d] \in 1..Size(d) /\ Size(d) = Len(Prog(d))
  BY Deployer
<1>2. k \in Nat /\ k > 0 /\ k <= Size(d) + 1
  BY <1>1 DEF Leap
<1>3. /\ at' \in [Direct -> Nat] /\ at'[d] = k
      /\ \A o \in Direct \ {d} : at'[o] = at[o]
  BY <1>2 DEF Reach, DirectInv, DirectShape
<1>4. /\ outcome' \in [Direct -> {"none", "success", "failed"}]
      /\ outcome'[d] = IF k > Size(d) THEN "success" ELSE "none"
      /\ \A o \in Direct \ {d} : outcome'[o] = outcome[o]
  BY DEF Reach, DirectInv, DirectShape, Deploying
<1>5. \A o \in Direct : Size(o)' = Size(o)
  BY Zenon DEF Size, Programs
<1>6. ASSUME NEW o \in Direct
      PROVE  /\ at'[o] <= Size(o)' + 1
             /\ outcome'[o] = "none" => at'[o] <= Size(o)'
             /\ outcome'[o] = "success" => at'[o] = Size(o)' + 1
             /\ at'[o] = 0 => outcome'[o] = "none" /\ madeBy'[o] = {}
  <2>1. CASE o = d
    <3>1. Size(o)' = Size(d) /\ at'[o] = k
          /\ outcome'[o] = IF k > Size(d) THEN "success" ELSE "none"
      BY <1>3, <1>4, <1>5, <2>1
    <3> QED  BY <1>1, <1>2, <3>1
  <2>2. CASE o # d
    <3>1. Size(o)' = Size(o) /\ at'[o] = at[o] /\ outcome'[o] = outcome[o] /\ madeBy'[o] = madeBy[o]
      BY <1>3, <1>4, <1>5, <2>2
    <3>2. /\ at[o] <= Size(o) + 1
          /\ outcome[o] = "none" => at[o] <= Size(o)
          /\ outcome[o] = "success" => at[o] = Size(o) + 1
          /\ at[o] = 0 => outcome[o] = "none" /\ madeBy[o] = {}
      BY DEF DirectInv, DirectShape
    <3> QED  BY <3>1, <3>2, Zenon
  <2> QED  BY <2>1, <2>2
<1>7. wish' \in [Direct -> Wishes]
  BY DEF DirectInv, DirectShape
<1>8. DirectShape'
  BY <1>3, <1>4, <1>6, <1>7, Zenon DEF DirectShape
<1> QED  BY <1>3, <1>4, <1>8

\* What does not touch the code or the runtime leaves them held.
LEMMA StillHeld ==
  ASSUME DirectInv, NEW d \in Direct, Deploying(d), NEW k, Leap(Prog(d), at[d], k),
         At(d).do \notin {"upload", "take"}
  PROVE  d \notin disturbed => Held(Prog(d), k, stored = {d}, running = {d} \/ d \in lapsed)
<1>1. /\ Good(Prog(d)) /\ At(d) = Prog(d)[at[d]]
      /\ d \notin disturbed => Held(Prog(d), at[d], stored = {d}, running = {d} \/ d \in lapsed)
  BY Deployer
<1> QED  BY <1>1, HeldPass

\* A step that makes nothing and records nothing.
LEMMA GoneOn ==
  ASSUME DirectInv, NEW d \in Direct, Deploying(d), NEW k, Reach(d, k), Leap(Prog(d), at[d], k),
         At(d).do \notin {"record", "upload", "take"},
         UNCHANGED directRest, inManifest' = inManifest,
         madeBy' = madeBy, live \subseteq live'
  PROVE  DirectInv'
<1>0. /\ wish' = wish /\ refused' = refused /\ stored' = stored /\ running' = running
      /\ disturbed' = disturbed /\ lapsed' = lapsed
  BY DEF directRest
<1>1. \A o \in Direct : madeBy'[o] \subseteq live'
  BY DEF DirectInv, DirectShape
<1>2. /\ madeBy' \in [Direct -> SUBSET DirectThings] /\ inManifest' \in [Direct -> SUBSET DirectThings]
      /\ stored' \subseteq Direct /\ running' \subseteq Direct /\ disturbed' \subseteq Direct
      /\ lapsed' \subseteq Direct
  BY <1>0 DEF DirectInv, DirectShape
<1>3. \A o \in Direct \ {d} : madeBy'[o] = madeBy[o]
  OBVIOUS
<1>4. /\ DirectShape' /\ at'[d] = k /\ outcome'[d] # "failed"
      /\ \A o \in Direct \ {d} : at'[o] = at[o] /\ outcome'[o] = outcome[o]
  BY <1>0, <1>1, <1>2, <1>3, ShapeReach
<1>5. \A o \in Direct : LostOf(o)' = LostOf(o)
  BY <1>0 DEF LostOf
<1>6. Steps(d)
  BY <1>0, <1>4, <1>5 DEF Steps
<1>7. /\ Good(Prog(d)) /\ At(d) = Prog(d)[at[d]]
      /\ Ledger(Prog(d), at[d], madeBy[d], inManifest[d], LostOf(d))
      /\ d \notin disturbed => Held(Prog(d), at[d], stored = {d}, running = {d} \/ d \in lapsed)
  BY Deployer
<1>8. Ledger(Prog(d), k, madeBy[d], inManifest[d], LostOf(d))
  BY <1>7, LedgerPass
<1>9. d \notin disturbed => Held(Prog(d), k, stored = {d}, running = {d} \/ d \in lapsed)
  BY StillHeld
<1>10. LeftAs(d)
  BY <1>0, <1>4, <1>5, <1>8, <1>9 DEF LeftAs
<1> QED  BY <1>4, <1>6, <1>10, StepKeeps

\* A step that makes things: those in more, of what the step names.
LEMMA MadeOn ==
  ASSUME DirectInv, NEW d \in Direct, Deploying(d), Advance(d),
         At(d).do \in Makers \ {"take"}, NEW more, more \subseteq At(d).what,
         madeBy' = [madeBy EXCEPT ![d] = @ \cup more], live' = live \cup At(d).what,
         UNCHANGED directRest, inManifest' = inManifest
  PROVE  DirectInv'
<1>0. /\ wish' = wish /\ refused' = refused /\ stored' = stored /\ running' = running
      /\ disturbed' = disturbed /\ lapsed' = lapsed
  BY DEF directRest
<1>1. /\ Good(Prog(d)) /\ At(d) = Prog(d)[at[d]] /\ at[d] \in 1..Len(Prog(d))
      /\ At(d) \in DirectSteps
      /\ Ledger(Prog(d), at[d], madeBy[d], inManifest[d], LostOf(d))
      /\ d \notin disturbed => Held(Prog(d), at[d], stored = {d}, running = {d} \/ d \in lapsed)
  BY Deployer
<1>2. Leap(Prog(d), at[d], at[d] + 1)
  BY <1>1, GoodSteps, NextLeap
<1>3. more \subseteq DirectThings
  BY <1>1 DEF DirectSteps
<1>4. /\ madeBy' \in [Direct -> SUBSET DirectThings] /\ inManifest' \in [Direct -> SUBSET DirectThings]
      /\ stored' \subseteq Direct /\ running' \subseteq Direct /\ disturbed' \subseteq Direct
      /\ lapsed' \subseteq Direct
      /\ madeBy'[d] = madeBy[d] \cup more
      /\ \A o \in Direct \ {d} : madeBy'[o] = madeBy[o]
  BY <1>0, <1>3 DEF DirectInv, DirectShape
<1>5. \A o \in Direct : madeBy'[o] \subseteq live'
  BY <1>4 DEF DirectInv, DirectShape
<1>6. Reach(d, at[d] + 1)
  BY DEF Advance
<1>7. /\ DirectShape' /\ at'[d] = at[d] + 1 /\ outcome'[d] # "failed"
      /\ \A o \in Direct \ {d} : at'[o] = at[o] /\ outcome'[o] = outcome[o]
  BY <1>0, <1>2, <1>4, <1>5, <1>6, ShapeReach
<1>8. \A o \in Direct : LostOf(o)' = LostOf(o)
  BY <1>0 DEF LostOf
<1>9. Steps(d)
  BY <1>0, <1>4, <1>7, <1>8 DEF Steps
<1>10. Ledger(Prog(d), at[d] + 1, madeBy[d] \cup more, inManifest[d], LostOf(d))
  BY <1>1, LedgerMake
<1>11. d \notin disturbed => Held(Prog(d), at[d] + 1, stored = {d}, running = {d} \/ d \in lapsed)
  <2>1. At(d).do \notin {"upload", "take"}
    BY DEF Makers
  <2> QED  BY <1>2, <2>1, StillHeld, Zenon
<1>12. LeftAs(d)
  BY <1>0, <1>4, <1>7, <1>8, <1>10, <1>11 DEF LeftAs
<1> QED  BY <1>7, <1>9, <1>12, StepKeeps

LEMMA MakeOrFindKeeps ==
  ASSUME DirectInv, NEW d \in Direct, MakeOrFind(d) PROVE DirectInv'
<1>1. Deploying(d) /\ At(d).do = "make"
  BY DEF MakeOrFind, DoesDirect
<1>2. /\ Good(Prog(d)) /\ At(d) = Prog(d)[at[d]] /\ at[d] \in 1..Len(Prog(d))
  BY <1>1, Deployer
<1>3. /\ inManifest' = inManifest /\ UNCHANGED directRest
      /\ live' = live \cup At(d).what
      /\ madeBy' = [madeBy EXCEPT ![d] = @ \cup (At(d).what \ live)]
  BY DEF MakeOrFind, Obtain
<1>4. CASE "memory_role" \in At(d).what \cap live
  <2>1. Reach(d, at[d] + 3)
    BY <1>4 DEF MakeOrFind
  <2>2. Leap(Prog(d), at[d], at[d] + 3) /\ At(d).what = {"memory_role"}
    BY <1>1, <1>2, <1>4, FoundLeap
  <2>3. madeBy' = madeBy
    BY <1>3, <1>4, <2>2 DEF DirectInv, DirectShape
  <2> QED  BY <1>1, <1>3, <2>1, <2>2, <2>3, GoneOn
<1>5. CASE ~("memory_role" \in At(d).what \cap live)
  <2>1. Advance(d)
    BY <1>5 DEF MakeOrFind
  <2>2. At(d).do \in Makers \ {"take"} /\ At(d).what \ live \subseteq At(d).what
    BY <1>1 DEF Makers
  <2> QED  BY <1>1, <1>3, <2>1, <2>2, MadeOn
<1> QED  BY <1>4, <1>5

LEMMA MakeNewKeeps ==
  ASSUME DirectInv, NEW d \in Direct, MakeNew(d) PROVE DirectInv'
<1>1. Deploying(d) /\ At(d).do \in {"new", "mint"}
  BY DEF MakeNew, DoesDirect
<1>2. inManifest' = inManifest /\ UNCHANGED directRest
  BY DEF MakeNew
<1>3. CASE At(d).do = "new" /\ At(d).what \subseteq live
  <2>1. Reach(d, Behind(d)) /\ live' = live /\ madeBy' = madeBy
    BY <1>3 DEF MakeNew
  <2>2. At(d) \in DirectSteps /\ wish[d] \in Wishes /\ at[d] \in 1..Size(d)
    BY <1>1, Deployer
  <2>3. At(d).part \in Lenient
    BY <1>3, <2>2 DEF DirectSteps, Lenient
  <2>4. Leap(Prog(d), at[d], Behind(d))
    BY <2>2, <2>3, BehindLeap
  <2> QED  BY <1>1, <1>2, <1>3, <2>1, <2>4, GoneOn
<1>4. CASE ~(At(d).do = "new" /\ At(d).what \subseteq live)
  <2>1. /\ Advance(d) /\ live' = live \cup At(d).what
        /\ madeBy' = [madeBy EXCEPT ![d] = @ \cup (At(d).what \ {})]
    BY <1>4 DEF MakeNew, Obtain
  <2>2. At(d).do \in Makers \ {"take"} /\ At(d).what \ {} \subseteq At(d).what
    BY <1>1 DEF Makers
  <2> QED  BY <1>1, <1>2, <2>1, <2>2, MadeOn
<1> QED  BY <1>3, <1>4

LEMMA FindMemoryKeeps ==
  ASSUME DirectInv, NEW d \in Direct, FindMemory(d) PROVE DirectInv'
<1>1. Deploying(d) /\ At(d).do = "find"
  BY DEF FindMemory, DoesDirect
<1>2. /\ Good(Prog(d)) /\ at[d] \in 1..Len(Prog(d)) /\ At(d) \in DirectSteps
      /\ wish[d] \in Wishes /\ at[d] \in 1..Size(d)
  BY <1>1, Deployer
<1>3. inManifest' = inManifest /\ UNCHANGED directRest /\ live' = live /\ madeBy' = madeBy
  BY DEF FindMemory
<1>4. At(d).part \in Lenient
  BY <1>1, <1>2 DEF DirectSteps, Lenient
<1>5. Leap(Prog(d), at[d], Behind(d)) /\ Leap(Prog(d), at[d], at[d] + 1)
  BY <1>2, <1>4, BehindLeap, GoodSteps, NextLeap
<1>6. Reach(d, Behind(d)) \/ Reach(d, at[d] + 1)
  BY DEF FindMemory, Advance
<1> QED  BY <1>1, <1>3, <1>5, <1>6, GoneOn

LEMMA PlainCallKeeps ==
  ASSUME DirectInv, NEW d \in Direct, PlainCall(d) PROVE DirectInv'
<1>1. Deploying(d) /\ At(d).do \in {"call", "try"} /\ Advance(d)
  BY DEF PlainCall, DoesDirect
<1>2. inManifest' = inManifest /\ UNCHANGED directRest
  BY DEF PlainCall
<1>3. CASE At(d).do = "try"
  <2>1. /\ live' = live \cup At(d).what
        /\ madeBy' = [madeBy EXCEPT ![d] = @ \cup (At(d).what \ live)]
    BY <1>3 DEF PlainCall, Obtain
  <2>2. At(d).do \in Makers \ {"take"} /\ At(d).what \ live \subseteq At(d).what
    BY <1>3 DEF Makers
  <2> QED  BY <1>1, <1>2, <2>1, <2>2, MadeOn
<1>4. CASE At(d).do = "call"
  <2>1. live' = live /\ madeBy' = madeBy
    BY <1>4 DEF PlainCall
  <2>2. Good(Prog(d)) /\ at[d] \in 1..Len(Prog(d))
    BY <1>1, Deployer
  <2>3. Leap(Prog(d), at[d], at[d] + 1) /\ Reach(d, at[d] + 1)
    BY <1>1, <2>2, GoodSteps, NextLeap DEF Advance
  <2> QED  BY <1>1, <1>2, <1>4, <2>1, <2>3, GoneOn
<1> QED  BY <1>1, <1>3, <1>4

\* A deployment that is given up.
LEMMA GivenUp ==
  ASSUME DirectInv, NEW d \in Direct, Deploying(d),
         outcome' = [outcome EXCEPT ![d] = "failed"],
         UNCHANGED <<at, live, madeBy, inManifest>>, UNCHANGED directRest
  PROVE  DirectInv'
<1>0. /\ wish' = wish /\ refused' = refused /\ stored' = stored /\ running' = running
      /\ disturbed' = disturbed /\ lapsed' = lapsed
      /\ at' = at /\ live' = live /\ madeBy' = madeBy /\ inManifest' = inManifest
  BY DEF directRest
<1>1. /\ outcome' \in [Direct -> {"none", "success", "failed"}] /\ outcome'[d] = "failed"
      /\ \A o \in Direct \ {d} : outcome'[o] = outcome[o]
  BY DEF DirectInv, DirectShape
<1>2. \A o \in Direct : LostOf(o)' = LostOf(o) /\ Size(o)' = Size(o)
  BY <1>0 DEF LostOf, Size, Programs
<1>3. Steps(d) /\ LeftAs(d)
  BY <1>0, <1>1, <1>2 DEF Steps, LeftAs
<1>4. ASSUME NEW o \in Direct
      PROVE  /\ madeBy'[o] \subseteq live'
             /\ at'[o] <= Size(o)' + 1
             /\ outcome'[o] = "none" => at'[o] <= Size(o)'
             /\ outcome'[o] = "success" => at'[o] = Size(o)' + 1
             /\ at'[o] = 0 => outcome'[o] = "none" /\ madeBy'[o] = {}
  <2>1. /\ madeBy[o] \subseteq live
        /\ at[o] <= Size(o) + 1
        /\ outcome[o] = "none" => at[o] <= Size(o)
        /\ outcome[o] = "success" => at[o] = Size(o) + 1
        /\ at[o] = 0 => outcome[o] = "none" /\ madeBy[o] = {}
    BY DEF DirectInv, DirectShape
  <2>2. Size(o)' = Size(o) /\ at'[o] = at[o] /\ madeBy'[o] = madeBy[o] /\ live' = live
    BY <1>0, <1>2
  <2>3. CASE o = d
    <3>1. at[o] # 0 /\ outcome'[o] = "failed"
      BY <1>1, <2>3 DEF Deploying, DirectInv, DirectShape
    <3> QED  BY <2>1, <2>2, <3>1
  <2>4. CASE o # d
    <3>1. outcome'[o] = outcome[o]
      BY <1>1, <2>4
    <3> QED  BY <2>1, <2>2, <3>1, Zenon
  <2> QED  BY <2>3, <2>4
<1>5. /\ wish \in [Direct -> Wishes] /\ at \in [Direct -> Nat]
      /\ madeBy \in [Direct -> SUBSET DirectThings] /\ inManifest \in [Direct -> SUBSET DirectThings]
      /\ stored \subseteq Direct /\ running \subseteq Direct /\ disturbed \subseteq Direct
      /\ lapsed \subseteq Direct
  BY DEF DirectInv, DirectShape
<1>6. DirectShape'
  BY <1>0, <1>1, <1>4, <1>5, Zenon DEF DirectShape
<1> QED  BY <1>3, <1>6, StepKeeps

LEMMA CallRaisesKeeps ==
  ASSUME DirectInv, NEW d \in Direct, CallRaises(d) PROVE DirectInv'
<1>1. /\ Deploying(d) /\ At(d).do \in {"make", "new", "mint", "try", "take", "upload", "call"}
  BY DEF CallRaises, DoesDirect
<1>2. /\ UNCHANGED directRest /\ UNCHANGED <<live, madeBy, inManifest>>
  BY DEF CallRaises
<1>3. /\ Good(Prog(d)) /\ at[d] \in 1..Len(Prog(d)) /\ At(d) \in DirectSteps
      /\ wish[d] \in Wishes /\ at[d] \in 1..Size(d)
  BY <1>1, Deployer
<1>4. CASE At(d).do = "try"
  <2>1. Leap(Prog(d), at[d], at[d] + 1) /\ Reach(d, at[d] + 1)
    BY <1>3, <1>4, GoodSteps, NextLeap DEF CallRaises, Advance
  <2> QED  BY <1>1, <1>2, <1>4, <2>1, GoneOn
<1>5. CASE At(d).do # "try" /\ At(d).part \in Lenient
  <2>1. Leap(Prog(d), at[d], Behind(d))
    BY <1>3, <1>5, BehindLeap
  <2>2. Reach(d, Behind(d))
    BY <1>5 DEF CallRaises
  <2>3. At(d).do \notin {"record", "upload", "take"}
    BY <1>1, <1>3, <1>5 DEF DirectSteps, Lenient
  <2> QED  BY <1>1, <1>2, <2>1, <2>2, <2>3, GoneOn
<1>6. CASE At(d).do # "try" /\ At(d).part \notin Lenient
  <2>1. outcome' = [outcome EXCEPT ![d] = "failed"] /\ at' = at
    BY <1>6 DEF CallRaises
  <2> QED  BY <1>1, <1>2, <2>1, GivenUp
<1> QED  BY <1>4, <1>5, <1>6

LEMMA CutOffKeeps ==
  ASSUME DirectInv, NEW d \in Direct, CutOff(d) PROVE DirectInv'
BY GivenUp DEF CutOff

\* A step of the runtime's part, or one that records: nothing new is held back.
LEMMA RanOn ==
  ASSUME DirectInv, NEW d \in Direct, Deploying(d), Advance(d), wish' = wish,
         disturbed' = disturbed, NEW more, more \subseteq At(d).what,
         madeBy' = [madeBy EXCEPT ![d] = @ \cup more], live' = live \cup more,
         NEW noted, noted \subseteq DirectThings,
         inManifest' = [inManifest EXCEPT ![d] = @ \cup noted],
         \A o \in Direct \ {d} : LostOf(o)' = LostOf(o),
         stored' \subseteq Direct, running' \subseteq Direct, lapsed' \subseteq Direct,
         Ledger(Prog(d), at[d] + 1, madeBy[d] \cup more, inManifest[d] \cup noted, LostOf(d)'),
         d \notin disturbed =>
           Held(Prog(d), at[d] + 1, stored' = {d}, running' = {d} \/ d \in lapsed')
  PROVE  DirectInv'
<1>1. /\ Good(Prog(d)) /\ at[d] \in 1..Len(Prog(d)) /\ At(d) \in DirectSteps
  BY Deployer
<1>2. Leap(Prog(d), at[d], at[d] + 1)
  BY <1>1, GoodSteps, NextLeap
<1>3. more \subseteq DirectThings
  BY <1>1 DEF DirectSteps
<1>4. /\ madeBy' \in [Direct -> SUBSET DirectThings] /\ madeBy'[d] = madeBy[d] \cup more
      /\ \A o \in Direct \ {d} : madeBy'[o] = madeBy[o]
  BY <1>3 DEF DirectInv, DirectShape
<1>5. /\ inManifest' \in [Direct -> SUBSET DirectThings] /\ inManifest'[d] = inManifest[d] \cup noted
      /\ \A o \in Direct \ {d} : inManifest'[o] = inManifest[o]
  BY DEF DirectInv, DirectShape
<1>6. \A o \in Direct : madeBy'[o] \subseteq live'
  BY <1>4 DEF DirectInv, DirectShape
<1>7. disturbed' \subseteq Direct /\ Reach(d, at[d] + 1)
  BY DEF DirectInv, DirectShape, Advance
<1>8. /\ DirectShape' /\ at'[d] = at[d] + 1 /\ outcome'[d] # "failed"
      /\ \A o \in Direct \ {d} : at'[o] = at[o] /\ outcome'[o] = outcome[o]
  BY <1>2, <1>4, <1>5, <1>6, <1>7, ShapeReach
<1>9. Steps(d)
  BY <1>4, <1>5, <1>8 DEF Steps
<1>10. LeftAs(d)
  BY <1>4, <1>5, <1>8, Zenon DEF LeftAs
<1> QED  BY <1>8, <1>9, <1>10, StepKeeps

\* What neither makes nor records leaves both as they are.
LEMMA AsTheyAre ==
  ASSUME DirectInv, NEW d \in Direct, NEW none, none = {}
  PROVE  /\ madeBy = [madeBy EXCEPT ![d] = @ \cup none] /\ live = live \cup none
         /\ inManifest = [inManifest EXCEPT ![d] = @ \cup none]
         /\ madeBy[d] = madeBy[d] \cup none /\ inManifest[d] = inManifest[d] \cup none
         /\ none \subseteq At(d).what /\ none \subseteq DirectThings
         /\ stored \subseteq Direct /\ running \subseteq Direct /\ lapsed \subseteq Direct
BY DEF DirectInv, DirectShape

LEMMA UploadCodeKeeps ==
  ASSUME DirectInv, NEW d \in Direct, UploadCode(d) PROVE DirectInv'
<1>1. Deploying(d) /\ At(d).do = "upload" /\ Advance(d)
  BY DEF UploadCode, DoesDirect
<1>2. /\ wish' = wish /\ live' = live /\ madeBy' = madeBy /\ inManifest' = inManifest
      /\ refused' = refused /\ running' = running /\ disturbed' = disturbed /\ lapsed' = lapsed
      /\ stored' = {d}
  BY DEF UploadCode
<1>3. /\ Good(Prog(d)) /\ at[d] \in 1..Len(Prog(d)) /\ At(d) = Prog(d)[at[d]]
      /\ Ledger(Prog(d), at[d], madeBy[d], inManifest[d], LostOf(d))
  BY <1>1, Deployer
<1>4. \A o \in Direct : LostOf(o)' = LostOf(o)
  BY <1>2 DEF LostOf
<1>5. Ledger(Prog(d), at[d] + 1, madeBy[d], inManifest[d], LostOf(d)')
  <2>1. Leap(Prog(d), at[d], at[d] + 1) /\ Prog(d)[at[d]].do # "record"
    BY <1>1, <1>3, GoodSteps, NextLeap
  <2> QED  BY <1>3, <1>4, <2>1, LedgerPass
<1>6. Held(Prog(d), at[d] + 1, stored' = {d}, running' = {d} \/ d \in lapsed')
  <2>1. (running' = {d} \/ d \in lapsed') \in BOOLEAN /\ Prog(d)[at[d]].do = "upload"
    BY <1>1, <1>3
  <2>2. Held(Prog(d), at[d] + 1, TRUE, running' = {d} \/ d \in lapsed')
    BY <1>3, <2>1, HeldUpload, Zenon
  <2>3. (stored' = {d}) = TRUE
    BY <1>2
  <2> QED  BY <2>2, <2>3, Zenon
<1>7. PICK none : none = {}
  OBVIOUS
<1>8. /\ madeBy' = [madeBy EXCEPT ![d] = @ \cup none] /\ live' = live \cup none
      /\ inManifest' = [inManifest EXCEPT ![d] = @ \cup none]
      /\ madeBy[d] = madeBy[d] \cup none /\ inManifest[d] = inManifest[d] \cup none
      /\ none \subseteq At(d).what /\ none \subseteq DirectThings
      /\ stored' \subseteq Direct /\ running' \subseteq Direct /\ lapsed' \subseteq Direct
  BY <1>2, <1>7, AsTheyAre
<1>9. Ledger(Prog(d), at[d] + 1, madeBy[d] \cup none, inManifest[d] \cup none, LostOf(d)')
  BY <1>5, <1>8, Zenon
<1>10. wish' = wish /\ disturbed' = disturbed
  BY <1>2
<1>11. \A o \in Direct \ {d} : LostOf(o)' = LostOf(o)
  BY <1>4
<1>12. d \notin disturbed =>
         Held(Prog(d), at[d] + 1, stored' = {d}, running' = {d} \/ d \in lapsed')
  BY <1>6
<1> QED  BY <1>1, <1>8, <1>9, <1>10, <1>11, <1>12, RanOn

LEMMA TakeRuntimeKeeps ==
  ASSUME DirectInv, NEW d \in Direct, TakeRuntime(d) PROVE DirectInv'
<1>1. Deploying(d) /\ At(d).do = "take" /\ Advance(d)
  BY DEF TakeRuntime, DoesDirect
<1>2. PICK more : more = At(d).what \ live
  OBVIOUS
<1>3. /\ wish' = wish /\ inManifest' = inManifest /\ refused' = refused /\ stored' = stored
      /\ disturbed' = disturbed /\ lapsed' = lapsed /\ running' = stored
      /\ live' = live \cup more /\ madeBy' = [madeBy EXCEPT ![d] = @ \cup more]
  BY <1>2 DEF TakeRuntime, Obtain
<1>4. /\ Good(Prog(d)) /\ at[d] \in 1..Len(Prog(d)) /\ At(d) = Prog(d)[at[d]]
      /\ Ledger(Prog(d), at[d], madeBy[d], inManifest[d], LostOf(d))
      /\ d \notin disturbed => Held(Prog(d), at[d], stored = {d}, running = {d} \/ d \in lapsed)
  BY <1>1, Deployer
<1>5. \A o \in Direct : LostOf(o)' = LostOf(o)
  BY <1>3 DEF LostOf
<1>6. Ledger(Prog(d), at[d] + 1, madeBy[d] \cup more, inManifest[d], LostOf(d)')
  <2>1. Prog(d)[at[d]].do \in Makers /\ more \subseteq Prog(d)[at[d]].what
    BY <1>1, <1>2, <1>4 DEF Makers
  <2> QED  BY <1>4, <1>5, <2>1, LedgerMake
<1>7. d \notin disturbed =>
        Held(Prog(d), at[d] + 1, stored' = {d}, running' = {d} \/ d \in lapsed')
  <2>1. /\ (stored = {d}) \in BOOLEAN /\ (running = {d} \/ d \in lapsed) \in BOOLEAN
        /\ (stored = {d} \/ d \in lapsed) \in BOOLEAN /\ Prog(d)[at[d]].do = "take"
        /\ stored = {d} => (stored = {d} \/ d \in lapsed)
    BY <1>1, <1>4
  <2>2. d \notin disturbed =>
          Held(Prog(d), at[d] + 1, stored = {d}, stored = {d} \/ d \in lapsed)
    BY <1>4, <2>1, HeldTake, Zenon
  <2> QED  BY <1>3, <2>2
<1>8. PICK none : none = {}
  OBVIOUS
<1>9. /\ inManifest' = [inManifest EXCEPT ![d] = @ \cup none]
      /\ inManifest[d] = inManifest[d] \cup none
      /\ none \subseteq DirectThings /\ more \subseteq At(d).what
      /\ stored' \subseteq Direct /\ running' \subseteq Direct /\ lapsed' \subseteq Direct
  BY <1>2, <1>3, <1>8, AsTheyAre
<1>10. Ledger(Prog(d), at[d] + 1, madeBy[d] \cup more, inManifest[d] \cup none, LostOf(d)')
  BY <1>6, <1>9, Zenon
<1>11. \A o \in Direct \ {d} : LostOf(o)' = LostOf(o)
  BY <1>5
<1>12. /\ wish' = wish /\ disturbed' = disturbed /\ live' = live \cup more
       /\ madeBy' = [madeBy EXCEPT ![d] = @ \cup more]
  BY <1>3
<1> QED  BY <1>1, <1>7, <1>9, <1>10, <1>11, <1>12, RanOn

LEMMA UpdateLapsesKeeps ==
  ASSUME DirectInv, NEW d \in Direct, UpdateLapses(d) PROVE DirectInv'
<1>1. Deploying(d) /\ At(d).do = "take" /\ Advance(d)
  BY DEF UpdateLapses, DoesDirect
<1>2. /\ wish' = wish /\ live' = live /\ madeBy' = madeBy /\ inManifest' = inManifest
      /\ refused' = refused /\ stored' = stored /\ running' = running /\ disturbed' = disturbed
      /\ lapsed' = lapsed \cup {d}
  BY DEF UpdateLapses
<1>3. /\ Good(Prog(d)) /\ at[d] \in 1..Len(Prog(d)) /\ At(d) = Prog(d)[at[d]]
      /\ Ledger(Prog(d), at[d], madeBy[d], inManifest[d], LostOf(d))
      /\ d \notin disturbed => Held(Prog(d), at[d], stored = {d}, running = {d} \/ d \in lapsed)
  BY <1>1, Deployer
<1>4. \A o \in Direct : LostOf(o)' = LostOf(o)
  BY <1>2 DEF LostOf
<1>5. Ledger(Prog(d), at[d] + 1, madeBy[d], inManifest[d], LostOf(d)')
  <2>1. Leap(Prog(d), at[d], at[d] + 1) /\ Prog(d)[at[d]].do # "record"
    BY <1>1, <1>3, GoodSteps, NextLeap
  <2> QED  BY <1>3, <1>4, <2>1, LedgerPass
<1>6. d \notin disturbed =>
        Held(Prog(d), at[d] + 1, stored' = {d}, running' = {d} \/ d \in lapsed')
  <2>1. /\ (stored = {d}) \in BOOLEAN /\ (running = {d} \/ d \in lapsed) \in BOOLEAN
        /\ (running' = {d} \/ d \in lapsed') \in BOOLEAN /\ Prog(d)[at[d]].do = "take"
        /\ stored = {d} => (running' = {d} \/ d \in lapsed')
    BY <1>1, <1>2, <1>3
  <2>2. d \notin disturbed =>
          Held(Prog(d), at[d] + 1, stored = {d}, running' = {d} \/ d \in lapsed')
    BY <1>3, <2>1, HeldTake, Zenon
  <2> QED  BY <1>2, <2>2
<1>7. PICK none : none = {}
  OBVIOUS
<1>8. /\ madeBy' = [madeBy EXCEPT ![d] = @ \cup none] /\ live' = live \cup none
      /\ inManifest' = [inManifest EXCEPT ![d] = @ \cup none]
      /\ madeBy[d] = madeBy[d] \cup none /\ inManifest[d] = inManifest[d] \cup none
      /\ none \subseteq At(d).what /\ none \subseteq DirectThings
      /\ stored' \subseteq Direct /\ running' \subseteq Direct /\ lapsed' \subseteq Direct
  BY <1>2, <1>7, AsTheyAre
<1>9. Ledger(Prog(d), at[d] + 1, madeBy[d] \cup none, inManifest[d] \cup none, LostOf(d)')
  BY <1>5, <1>8, Zenon
<1>10. wish' = wish /\ disturbed' = disturbed
  BY <1>2
<1>11. \A o \in Direct \ {d} : LostOf(o)' = LostOf(o)
  BY <1>4
<1>12. d \notin disturbed =>
         Held(Prog(d), at[d] + 1, stored' = {d}, running' = {d} \/ d \in lapsed')
  BY <1>6
<1> QED  BY <1>1, <1>8, <1>9, <1>10, <1>11, <1>12, RanOn

\* What a step that records notes or loses is all that it names.
LEMMA RecordedOn ==
  ASSUME DirectInv, NEW d \in Direct, Deploying(d), At(d).do = "record", Advance(d),
         UNCHANGED <<wish, live, madeBy, stored, running, disturbed, lapsed>>,
         NEW noted, noted \subseteq At(d).what,
         inManifest' = [inManifest EXCEPT ![d] = @ \cup noted],
         \A o \in Direct \ {d} : LostOf(o)' = LostOf(o),
         LostOf(d) \subseteq LostOf(d)', At(d).what \subseteq noted \cup LostOf(d)'
  PROVE  DirectInv'
<1>1. /\ Good(Prog(d)) /\ at[d] \in 1..Len(Prog(d)) /\ At(d) = Prog(d)[at[d]]
      /\ At(d) \in DirectSteps
      /\ Ledger(Prog(d), at[d], madeBy[d], inManifest[d], LostOf(d))
      /\ d \notin disturbed => Held(Prog(d), at[d], stored = {d}, running = {d} \/ d \in lapsed)
  BY Deployer
<1>2. Ledger(Prog(d), at[d] + 1, madeBy[d], inManifest[d] \cup noted, LostOf(d)')
  <2>1. /\ Prog(d)[at[d]].do = "record" /\ inManifest[d] \subseteq inManifest[d] \cup noted
        /\ Prog(d)[at[d]].what \subseteq (inManifest[d] \cup noted) \cup LostOf(d)'
    BY <1>1
  <2> QED  BY <1>1, <2>1, LedgerRecord
<1>3. d \notin disturbed =>
        Held(Prog(d), at[d] + 1, stored' = {d}, running' = {d} \/ d \in lapsed')
  <2>1. At(d).do \notin {"upload", "take"}
    OBVIOUS
  <2>2. Leap(Prog(d), at[d], at[d] + 1)
    BY <1>1, GoodSteps, NextLeap
  <2>3. d \notin disturbed => Held(Prog(d), at[d] + 1, stored = {d}, running = {d} \/ d \in lapsed)
    BY <2>1, <2>2, StillHeld, Zenon
  <2> QED  BY <2>3
<1>4. PICK none : none = {}
  OBVIOUS
<1>5. /\ madeBy' = [madeBy EXCEPT ![d] = @ \cup none] /\ live' = live \cup none
      /\ madeBy[d] = madeBy[d] \cup none /\ none \subseteq At(d).what
      /\ stored' \subseteq Direct /\ running' \subseteq Direct /\ lapsed' \subseteq Direct
  BY <1>4, AsTheyAre
<1>6. noted \subseteq DirectThings
  BY <1>1 DEF DirectSteps
<1>7. Ledger(Prog(d), at[d] + 1, madeBy[d] \cup none, inManifest[d] \cup noted, LostOf(d)')
  BY <1>2, <1>5, Zenon
<1> QED  BY <1>3, <1>5, <1>6, <1>7, RanOn

LEMMA RecordMadeKeeps ==
  ASSUME DirectInv, NEW d \in Direct, RecordMade(d) PROVE DirectInv'
<1>1. /\ Deploying(d) /\ At(d).do = "record" /\ Advance(d)
      /\ inManifest' = [inManifest EXCEPT ![d] = @ \cup At(d).what]
  BY DEF RecordMade, DoesDirect
<1>2. UNCHANGED <<wish, live, madeBy, stored, running, disturbed, lapsed>> /\ refused' = refused
  BY DEF RecordMade, directRest
<1>3. \A o \in Direct : LostOf(o)' = LostOf(o)
  BY <1>2 DEF LostOf
<1>4. At(d).what \subseteq At(d).what /\ At(d).what \subseteq At(d).what \cup LostOf(d)'
  OBVIOUS
<1> QED  BY <1>1, <1>2, <1>3, <1>4, RecordedOn

LEMMA RecordRefusedKeeps ==
  ASSUME DirectInv, NEW d \in Direct, RecordRefused(d) PROVE DirectInv'
<1>1. /\ Deploying(d) /\ At(d).do = "record" /\ Advance(d) /\ refused = {}
      /\ UNCHANGED <<wish, live, madeBy, stored, running, disturbed, lapsed>>
  BY DEF RecordRefused, DoesDirect
<1>2. PICK x \in At(d).what :
        /\ refused' = {<<d, x>>}
        /\ inManifest' = [inManifest EXCEPT ![d] = @ \cup (At(d).what \ {x})]
  BY DEF RecordRefused
<1>3. At(d).what \subseteq DirectThings
  BY <1>1, Deployer DEF DirectSteps
<1>4. \A o \in Direct \ {d} : LostOf(o)' = LostOf(o)
  BY <1>1, <1>2 DEF LostOf
<1>5. LostOf(d) = {} /\ LostOf(d)' = {x}
  BY <1>1, <1>2, <1>3 DEF LostOf
<1>6. /\ At(d).what \ {x} \subseteq At(d).what /\ LostOf(d) \subseteq LostOf(d)'
      /\ At(d).what \subseteq (At(d).what \ {x}) \cup LostOf(d)'
  BY <1>5
<1> QED  BY <1>1, <1>2, <1>4, <1>6, RecordedOn

LEMMA BeginDirectKeeps ==
  ASSUME DirectInv, NEW d \in Direct, BeginDirect(d) PROVE DirectInv'
<1>1. /\ at[d] = 0 /\ outcome[d] = "none" /\ madeBy[d] = {}
      /\ at' = [at EXCEPT ![d] = 1]
      /\ wish' = wish /\ outcome' = outcome /\ live' = live /\ madeBy' = madeBy
      /\ inManifest' = inManifest /\ refused' = refused /\ stored' = stored /\ running' = running
      /\ lapsed' = lapsed
      /\ disturbed' = disturbed \cup {o \in Direct \ {d} : at[o] > 0}
                      \cup {x \in {d} : \E o \in Direct \ {d} : Deploying(o)}
  BY DEF BeginDirect, DirectInv, DirectShape
<1>2. /\ at' \in [Direct -> Nat] /\ at'[d] = 1 /\ \A o \in Direct \ {d} : at'[o] = at[o]
      /\ \A o \in Direct \ {d} : at[o] \in Nat
  BY <1>1 DEF DirectInv, DirectShape
<1>3. wish[d] \in Wishes
  BY DEF DirectInv, DirectShape
<1>4. Size(d) \in Nat /\ Size(d) >= 1
  BY <1>3, ProgramGood DEF Good
<1>5. \A o \in Direct : /\ LostOf(o)' = LostOf(o) /\ Size(o)' = Size(o) /\ Prog(o)' = Prog(o)
  BY <1>1 DEF LostOf, Size, Programs, Prog
<1>6. DirectShape'
  <2>1. /\ wish' \in [Direct -> Wishes] /\ outcome' \in [Direct -> {"none", "success", "failed"}]
        /\ madeBy' \in [Direct -> SUBSET DirectThings]
        /\ inManifest' \in [Direct -> SUBSET DirectThings]
        /\ stored' \subseteq Direct /\ running' \subseteq Direct /\ lapsed' \subseteq Direct
        /\ disturbed' \subseteq Direct
    BY <1>1 DEF DirectInv, DirectShape
  <2>2. ASSUME NEW o \in Direct
        PROVE  /\ madeBy'[o] \subseteq live'
               /\ at'[o] <= Size(o)' + 1
               /\ outcome'[o] = "none" => at'[o] <= Size(o)'
               /\ outcome'[o] = "success" => at'[o] = Size(o)' + 1
               /\ at'[o] = 0 => outcome'[o] = "none" /\ madeBy'[o] = {}
    <3>1. /\ madeBy[o] \subseteq live
          /\ at[o] <= Size(o) + 1
          /\ outcome[o] = "none" => at[o] <= Size(o)
          /\ outcome[o] = "success" => at[o] = Size(o) + 1
          /\ at[o] = 0 => outcome[o] = "none" /\ madeBy[o] = {}
      BY DEF DirectInv, DirectShape
    <3>2. /\ Size(o)' = Size(o) /\ outcome'[o] = outcome[o] /\ madeBy'[o] = madeBy[o]
          /\ live' = live
      BY <1>1, <1>5
    <3>3. CASE o = d
      <4>1. at'[o] = 1 /\ Size(o)' = Size(d) /\ outcome'[o] = "none"
        BY <1>1, <1>2, <3>2, <3>3
      <4> QED  BY <1>4, <3>1, <3>2, <4>1
    <3>4. CASE o # d
      <4>1. at'[o] = at[o]
        BY <1>2, <3>4
      <4> QED  BY <3>1, <3>2, <4>1, Zenon
    <3> QED  BY <3>3, <3>4
  <2> QED  BY <1>2, <2>1, <2>2, Zenon DEF DirectShape
<1>7. ASSUME NEW o \in Direct \ {d} PROVE Tracked(o)' /\ Alone(o)'
  <2>1. Tracked(o)
    BY DEF DirectInv
  <2>2. Tracked(o)'
    <3>1. at'[o] = at[o] /\ Prog(o)' = Prog(o) /\ LostOf(o)' = LostOf(o)
      BY <1>2, <1>5
    <3> QED  BY <1>1, <2>1, <3>1, Zenon DEF Tracked
  <2>3. at[o] > 0 => o \in disturbed'
    BY <1>1
  <2>4. Alone(o)'
    <3>1. at'[o] = at[o]
      BY <1>2
    <3> QED  BY <2>3, <3>1, Zenon DEF Alone
  <2> QED  BY <2>2, <2>4
<1>8. Tracked(d)'
  <2>1. \A p, w, l : Ledger(p, 1, {}, w, l)
    BY DEF Ledger
  <2>2. at'[d] = 1 /\ madeBy'[d] = {}
    BY <1>1, <1>2
  <2>3. Ledger(Prog(d)', at'[d], madeBy'[d], inManifest'[d], LostOf(d)')
    BY <2>1, <2>2, Zenon
  <2> QED  BY <2>3, Zenon DEF Tracked
<1>9. Alone(d)'
  <2>1. d \notin disturbed' => \A o \in Direct \ {d} : ~Deploying(o)
    BY <1>1
  <2>2. d \notin disturbed' => \A o \in Direct \ {d} : ~Deploying(o)'
    BY <1>1, <1>2, <2>1 DEF Deploying
  <2>3. \A p, m, r : Held(p, 1, m, r)
    <3>1. \A n \in Nat : ~(1 > n + 1) /\ ~(1 > n + 5)
      OBVIOUS
    <3> QED  BY <3>1, Zenon DEF Held
  <2> QED  BY <1>2, <2>2, <2>3, Zenon DEF Alone
<1> QED  BY <1>6, <1>7, <1>8, <1>9 DEF DirectInv

LEMMA DirectStarts == DirectInit => DirectInv
<1> SUFFICES ASSUME DirectInit PROVE DirectInv
  OBVIOUS
<1>1. /\ wish \in [Direct -> Wishes] /\ at = [d \in Direct |-> 0]
      /\ outcome = [d \in Direct |-> "none"] /\ live = {}
      /\ stored = {} /\ running = {} /\ disturbed = {} /\ lapsed = {}
      /\ madeBy = [d \in Direct |-> {}] /\ inManifest = [d \in Direct |-> {}]
  BY DEF DirectInit
<1>2. ASSUME NEW d \in Direct
      PROVE  /\ madeBy[d] \subseteq live
             /\ at[d] <= Size(d) + 1
             /\ outcome[d] = "none" => at[d] <= Size(d)
             /\ outcome[d] = "success" => at[d] = Size(d) + 1
             /\ at[d] = 0 => outcome[d] = "none" /\ madeBy[d] = {}
  <2>1. wish[d] \in Wishes /\ at[d] = 0 /\ outcome[d] = "none" /\ madeBy[d] = {}
    BY <1>1
  <2>2. Size(d) \in Nat
    BY <2>1, ProgramGood
  <2> QED  BY <2>1, <2>2
<1>3. DirectShape
  BY <1>1, <1>2 DEF DirectShape
<1>4. \A d \in Direct : at[d] = 0
  <2>1. at = [d \in Direct |-> 0]
    BY <1>1
  <2> QED  BY <2>1, Zenon
<1>5. ~(0 > 0)
  OBVIOUS
<1>6. \A d \in Direct : Tracked(d) /\ Alone(d)
  BY <1>4, <1>5, Zenon DEF Tracked, Alone
<1> QED  BY <1>3, <1>6, Zenon DEF DirectInv

\* The invariant of direct deployments holds throughout.
THEOREM DirectInvariant == DirectSpec => []DirectInv
<1>1. DirectInit => DirectInv
  BY DirectStarts
<1>2. ASSUME DirectInv, [DirectNext]_directVars PROVE DirectInv'
  <2>1. CASE DirectNext
    <3>1. PICK d \in Direct :
            \/ BeginDirect(d) \/ MakeOrFind(d) \/ MakeNew(d) \/ FindMemory(d)
            \/ UploadCode(d) \/ TakeRuntime(d) \/ UpdateLapses(d)
            \/ RecordMade(d) \/ RecordRefused(d) \/ PlainCall(d)
            \/ CallRaises(d) \/ CutOff(d)
      BY <2>1, Zenon DEF DirectNext
    <3>2. CASE BeginDirect(d)    BY <1>2, <3>2, BeginDirectKeeps
    <3>3. CASE MakeOrFind(d)     BY <1>2, <3>3, MakeOrFindKeeps
    <3>4. CASE MakeNew(d)        BY <1>2, <3>4, MakeNewKeeps
    <3>5. CASE FindMemory(d)     BY <1>2, <3>5, FindMemoryKeeps
    <3>6. CASE UploadCode(d)     BY <1>2, <3>6, UploadCodeKeeps
    <3>7. CASE TakeRuntime(d)    BY <1>2, <3>7, TakeRuntimeKeeps
    <3>8. CASE UpdateLapses(d)   BY <1>2, <3>8, UpdateLapsesKeeps
    <3>9. CASE RecordMade(d)     BY <1>2, <3>9, RecordMadeKeeps
    <3>10. CASE RecordRefused(d) BY <1>2, <3>10, RecordRefusedKeeps
    <3>11. CASE PlainCall(d)     BY <1>2, <3>11, PlainCallKeeps
    <3>12. CASE CallRaises(d)    BY <1>2, <3>12, CallRaisesKeeps
    <3>13. CASE CutOff(d)        BY <1>2, <3>13, CutOffKeeps
    <3> QED  BY <3>1, <3>2, <3>3, <3>4, <3>5, <3>6, <3>7, <3>8, <3>9, <3>10, <3>11, <3>12, <3>13, Zenon
  <2>2. CASE UNCHANGED directVars
    <3>1. /\ wish' = wish /\ at' = at /\ outcome' = outcome /\ live' = live /\ madeBy' = madeBy
          /\ inManifest' = inManifest /\ refused' = refused /\ stored' = stored
          /\ running' = running /\ disturbed' = disturbed /\ lapsed' = lapsed
      BY <2>2 DEF directVars
    <3>2. \A o \in Direct : /\ LostOf(o)' = LostOf(o) /\ Size(o)' = Size(o) /\ Prog(o)' = Prog(o)
                            /\ Deploying(o)' = Deploying(o)
      BY <3>1, Zenon DEF LostOf, Size, Programs, Prog, Deploying
    <3>3. DirectShape'
      BY <1>2, <3>1, <3>2, Zenon DEF DirectInv, DirectShape
    <3>4. ASSUME NEW o \in Direct PROVE Tracked(o)' /\ Alone(o)'
      <4>1. Tracked(o) /\ Alone(o)
        BY <1>2 DEF DirectInv
      <4>2. Tracked(o)'
        BY <3>1, <3>2, <4>1, Zenon DEF Tracked
      <4>3. Alone(o)'
        BY <3>1, <3>2, <4>1, Zenon DEF Alone
      <4> QED  BY <4>2, <4>3
    <3> QED  BY <3>3, <3>4 DEF DirectInv
  <2> QED  BY <1>2, <2>1, <2>2
<1> QED  BY <1>1, <1>2, PTL DEF DirectSpec

\* No deployment has made what is not there, and none runs off the end of its
\* program.
THEOREM DirectTypes == DirectSpec => []DirectTypeOK
<1>1. ASSUME DirectInv PROVE DirectTypeOK
  <2>1. ASSUME NEW d \in Direct PROVE at[d] \in 0..(Size(d) + 1)
    <3>1. wish[d] \in Wishes /\ at[d] \in Nat /\ at[d] <= Size(d) + 1
      BY <1>1 DEF DirectInv, DirectShape
    <3>2. Size(d) \in Nat
      BY <3>1, ProgramGood
    <3> QED  BY <3>1, <3>2
  <2> QED  BY <1>1, <2>1 DEF DirectTypeOK, DirectInv, DirectShape
<1> QED  BY <1>1, DirectInvariant, PTL

\* What a direct deployment that ended well made is in its manifest, but for
\* what the path leaves out, the row that was refused and the role of a memory
\* that was not made.
THEOREM DirectRecords == DirectSpec => []DirectIsRecorded
<1>1. ASSUME DirectInv PROVE DirectIsRecorded
  <2> SUFFICES ASSUME NEW d \in Direct, outcome[d] = "success",
                      NEW x \in madeBy[d] \ inManifest[d]
               PROVE  \/ x \in {"policy_engine", "policies", "guardrail", "guardrail_version"}
                      \/ <<d, x>> \in refused
                      \/ x = "memory_role" /\ "memory" \notin madeBy[d]
    BY DEF DirectIsRecorded
  <2>1. wish[d] \in Wishes /\ at[d] = Size(d) + 1
    BY <1>1 DEF DirectInv, DirectShape
  <2>2. Good(Prog(d)) /\ at[d] = Len(Prog(d)) + 1 /\ Len(Prog(d)) \in Nat
    BY <2>1, ProgramGood
  <2>3. Ledger(Prog(d), Len(Prog(d)) + 1, madeBy[d], inManifest[d], LostOf(d))
    BY <1>1, <2>2 DEF DirectInv, Tracked
  <2>4. \/ x \in Unrecorded \/ x \in LostOf(d)
        \/ x = "memory_role" /\ "memory" \notin madeBy[d]
    BY <2>2, <2>3, LedgerEnd
  <2> QED  BY <2>4 DEF Unrecorded, LostOf
<1> QED  BY <1>1, DirectInvariant, PTL

\* A direct deployment that ended well left the runtime on its own code, unless
\* another of its name ran beside it or after it, or the runtime was there and
\* could not be updated.
THEOREM DirectRuns == DirectSpec => []DirectRunsItsCode
<1>1. ASSUME DirectInv PROVE DirectRunsItsCode
  <2> SUFFICES ASSUME NEW d \in Direct, outcome[d] = "success", ~wish[d].harness,
                      d \notin disturbed
               PROVE  running = {d} \/ d \in lapsed
    BY DEF DirectRunsItsCode
  <2>1. wish[d] \in Wishes /\ at[d] = Size(d) + 1
    BY <1>1 DEF DirectInv, DirectShape
  <2>2. at[d] = Len(Prog(d)) + 1 /\ Len(Prog(d)) \in Nat
    BY <2>1, ProgramGood
  <2>3. PICK n \in Nat : RuntimeAt(Prog(d), n)
    BY <2>1, ProgramGood
  <2>4. at[d] > 0 /\ at[d] > n + 5
    <3>1. Len(Prog(d)) = n + 7
      BY <2>3 DEF RuntimeAt
    <3> QED  BY <2>2, <3>1
  <2>5. Held(Prog(d), at[d], stored = {d}, running = {d} \/ d \in lapsed)
    BY <1>1, <2>4 DEF DirectInv, Alone
  <2> QED  BY <2>3, <2>4, <2>5 DEF Held
<1> QED  BY <1>1, DirectInvariant, PTL

=============================================================================
