----------------------------- MODULE AgentTools -----------------------------
(* How a generated agent comes by the tools of its gateway, inside one     *)
(* container: the discovery loop with its fresh MCP session per attempt,   *)
(* the cached agent, the warm thread and the invocations that need it.     *)
(* code_generator.py writes two forms of it.  The gateway host builds the  *)
(* agent under a lock and starts the warm thread; the memory host caches   *)
(* the tools in a list of its own and has neither.  The servers of         *)
(* AgentCore run an entrypoint on a pool thread, so invocations overlap.   *)
EXTENDS Naturals, FiniteSets

CONSTANTS
  AgentHost,     \* "gateway" or "memory"
  Invoker,       \* the invocations that may be under way at once
  Warm,          \* the warm thread of the gateway host
  MaxTries,      \* attempts of one discovery
  MaxCalls       \* bound: invocations of the container

ASSUME ToolsAssumption ==
  /\ AgentHost \in {"gateway", "memory"}
  /\ Warm \notin Invoker
  /\ "free" \notin Invoker \cup {Warm}
  /\ MaxTries \in Nat \ {0}
  /\ MaxCalls \in Nat

VARIABLES
  plane,       \* the tools/list of the gateway: "lagging" or "serving"
  tool_list,   \* _gateway_tools of the memory host: "none", "empty", "tools"
  the_agent,   \* _agent: "none", "bare" or "tooled"
  agent_lock,  \* who holds _agent_lock, "free" if nobody
  thread,      \* where each thread is
  tries,       \* attempts of its discovery so far
  sessions,    \* who has an MCP session open, and in which state
  answers,     \* what the finished invocations ran on
  served       \* invocations begun

toolVars == <<plane, tool_list, the_agent, agent_lock, thread, tries, sessions,
              answers, served>>

Threads == Invoker \cup {Warm}
Free == "free"

-----------------------------------------------------------------------------
ToolsInit ==
  /\ plane = "lagging"
  /\ tool_list = "none"
  /\ the_agent = "none"
  /\ agent_lock = Free
  /\ thread = [t \in Threads |-> IF t = Warm /\ AgentHost = "gateway"
                                 THEN "enter" ELSE "idle"]
  /\ tries = [t \in Threads |-> 0]
  /\ sessions = [t \in Threads |-> {}]
  /\ answers = {}
  /\ served = 0

Go(t, there) == thread' = [thread EXCEPT ![t] = there]

\* The target's tools become servable.
PlaneServes ==
  /\ plane = "lagging"
  /\ plane' = "serving"
  /\ UNCHANGED <<tool_list, the_agent, agent_lock, thread, tries, sessions, answers, served>>

\* invoke(payload) begins on a pool thread.
BeginInvoke(t) ==
  /\ t \in Invoker /\ thread[t] = "idle"
  /\ served < MaxCalls
  /\ served' = served + 1
  /\ Go(t, "enter")
  /\ UNCHANGED <<plane, tool_list, the_agent, agent_lock, tries, sessions, answers>>

\* _get_agent: the cached agent, or the way to a discovery.
Cached(t) ==
  /\ thread[t] = "enter"
  /\ the_agent # "none"
  /\ Go(t, "run")
  /\ UNCHANGED <<plane, tool_list, the_agent, agent_lock, tries, sessions, answers, served>>

\* The gateway host takes the lock and looks again.
Enter(t) ==
  /\ AgentHost = "gateway"
  /\ thread[t] = "enter"
  /\ the_agent = "none"
  /\ Go(t, "lock")
  /\ UNCHANGED <<plane, tool_list, the_agent, agent_lock, tries, sessions, answers, served>>

TakeLock(t) ==
  /\ thread[t] = "lock"
  /\ agent_lock = Free
  /\ IF the_agent # "none"
     THEN Go(t, "run") /\ UNCHANGED agent_lock
     ELSE Go(t, "session") /\ agent_lock' = t
  /\ UNCHANGED <<plane, tool_list, the_agent, tries, sessions, answers, served>>

\* The memory host: a list that is None is set to [] before it is looked for.
LookUp(t) ==
  /\ AgentHost = "memory"
  /\ thread[t] = "enter"
  /\ the_agent = "none"
  /\ IF tool_list = "none"
     THEN tool_list' = "empty" /\ Go(t, "session")
     ELSE Go(t, "build") /\ UNCHANGED tool_list
  /\ UNCHANGED <<plane, the_agent, agent_lock, tries, sessions, answers, served>>

\* One attempt: a fresh client; its start may raise, which ends the discovery.
OpenSession(t) ==
  /\ thread[t] = "session"
  /\ \/ /\ sessions' = [sessions EXCEPT ![t] = @ \cup {tries[t]}]
        /\ Go(t, "list") /\ UNCHANGED <<agent_lock, answers, tries>>
     \/ /\ Go(t, "idle")
        /\ agent_lock' = IF agent_lock = t THEN Free ELSE agent_lock
        /\ answers' = IF t = Warm THEN answers ELSE answers \cup {"error"}
        /\ tries' = [tries EXCEPT ![t] = 0]
        /\ UNCHANGED sessions
  /\ UNCHANGED <<plane, tool_list, the_agent, served>>

\* Mutant of MayRetry: one attempt too many.
MayRetryOnceMore(t) == tries[t] + 1 <= MaxTries

\* for attempt in range(...): another one is left.
MayRetry(t) == tries[t] + 1 < MaxTries

\* Mutant of Retry: the client of an empty attempt is left running.
RetryLeaking(t) ==
  /\ UNCHANGED sessions
  /\ tries' = [tries EXCEPT ![t] = @ + 1]
  /\ Go(t, IF MayRetry(t) THEN "session" ELSE "failed")

\* tools/list answers, or is empty, or raises; the client of an attempt that
\* found nothing is stopped before the next.
Retry(t) ==
  /\ sessions' = [sessions EXCEPT ![t] = @ \ {tries[t]}]
  /\ tries' = [tries EXCEPT ![t] = @ + 1]
  /\ Go(t, IF MayRetry(t) THEN "session" ELSE "failed")

ListTools(t) ==
  /\ thread[t] = "list"
  /\ \/ /\ plane = "serving"
        /\ Go(t, "found") /\ UNCHANGED <<sessions, tries>>
     \/ Retry(t)
  /\ UNCHANGED <<plane, tool_list, the_agent, agent_lock, answers, served>>

\* The discovery found tools.
Found(t) ==
  /\ thread[t] = "found"
  /\ tries' = [tries EXCEPT ![t] = 0]
  /\ IF AgentHost = "gateway"
     THEN /\ the_agent' = "tooled" /\ agent_lock' = Free
          /\ Go(t, "run") /\ UNCHANGED tool_list
     ELSE /\ tool_list' = "tools"
          /\ Go(t, "build") /\ UNCHANGED <<the_agent, agent_lock>>
  /\ UNCHANGED <<plane, sessions, answers, served>>

\* Mutant of Failed: the gate is gone, an agent without tools is built and kept
FailedBuilds(t) ==
  /\ thread[t] = "failed"
  /\ tries' = [tries EXCEPT ![t] = 0]
  /\ agent_lock' = IF agent_lock = t THEN Free ELSE agent_lock
  /\ the_agent' = "bare"
  /\ Go(t, "run")
  /\ UNCHANGED <<plane, tool_list, sessions, answers, served>>

\* The attempts are used up: RuntimeError.  The memory host has stored [].
Failed(t) ==
  /\ thread[t] = "failed"
  /\ tries' = [tries EXCEPT ![t] = 0]
  /\ agent_lock' = IF agent_lock = t THEN Free ELSE agent_lock
  /\ tool_list' = IF AgentHost = "memory" THEN "empty" ELSE tool_list
  /\ answers' = IF t = Warm THEN answers ELSE answers \cup {"error"}
  /\ Go(t, "idle")
  /\ UNCHANGED <<plane, the_agent, sessions, served>>

\* The memory host builds its agent on whatever the list holds.
Build(t) ==
  /\ thread[t] = "build"
  /\ the_agent' = IF tool_list = "tools" THEN "tooled" ELSE "bare"
  /\ Go(t, "run")
  /\ UNCHANGED <<plane, tool_list, agent_lock, tries, sessions, answers, served>>

\* The agent answers the prompt; the warm thread ends.
Answer(t) ==
  /\ thread[t] = "run"
  /\ Go(t, "idle")
  /\ answers' = IF t = Warm THEN answers ELSE answers \cup {the_agent}
  /\ UNCHANGED <<plane, tool_list, the_agent, agent_lock, tries, sessions, served>>

ToolsNext ==
  \/ PlaneServes
  \/ \E t \in Threads :
       \/ BeginInvoke(t) \/ Cached(t) \/ Enter(t) \/ TakeLock(t) \/ LookUp(t)
       \/ OpenSession(t) \/ ListTools(t) \/ Found(t) \/ Failed(t)
       \/ Build(t) \/ Answer(t)

ToolsSpec == ToolsInit /\ [][ToolsNext]_toolVars

-----------------------------------------------------------------------------
(* Properties                                                              *)

ToolsTypeOK ==
  /\ plane \in {"lagging", "serving"}
  /\ tool_list \in {"none", "empty", "tools"}
  /\ the_agent \in {"none", "bare", "tooled"}
  /\ agent_lock \in Threads \cup {Free}
  /\ thread \in [Threads -> {"idle", "enter", "lock", "session", "list", "found",
                             "failed", "build", "run"}]
  /\ tries \in [Threads -> 0..MaxTries]
  /\ sessions \in [Threads -> SUBSET (0..MaxTries)]
  /\ answers \subseteq {"error", "bare", "tooled"}
  /\ served \in 0..MaxCalls

\* An agent that has a gateway answers with the gateway's tools or not at
\* all: "Fail loudly rather than let the model bluff a canary out of the
\* system prompt" (code_generator.py:1433).
ToolsOrError == "bare" \notin answers

\* The discoveries of a gateway host do not overlap, and of all the sessions
\* its attempts open at most one is left: the one the agent's tools live on
\* (code_generator.py:603: "so its daemon thread + http session are not leaked
\* across the retries on a cold start").
OneSession ==
  AgentHost = "gateway" =>
    /\ Cardinality({t \in Threads : thread[t] \in {"session", "list", "found", "failed"}}) <= 1
    /\ Cardinality(UNION {{t} \X sessions[t] : t \in Threads}) <= 1
=============================================================================
