-------------------------- MODULE DeploymentPromise --------------------------
(***************************************************************************)
(* What the record of a deployment promises to who reads it: the words of  *)
(* its status, and which of the kinds of resource it asked for it holds.   *)
(* Nothing is built before the record says so, "succeeded" is said when    *)
(* everything is there and takes nothing back, and after "failed" only     *)
(* the cleanup goes on.                                                    *)
(***************************************************************************)

CONSTANTS
  Deployment,
  Kind,
  Goal,     \* the kinds each deployment asked for
  Volatile  \* those a step may take back that fails half way

VARIABLES
  phase,  \* what the record says
  held    \* the kinds that exist under a name of the deployment's own

vars == <<phase, held>>

Says(d, from, to) ==
  phase[d] \in from /\ phase' = [phase EXCEPT ![d] = to] /\ UNCHANGED held

Accept(d) == Says(d, {"none"}, "pending")
Work(d) == Says(d, {"pending"}, "in_progress")
Refuse(d) == Says(d, {"pending"}, "failed")
Deliver(d) == Goal[d] \subseteq held[d] /\ Says(d, {"in_progress"}, "succeeded")
GiveUp(d) == Says(d, {"in_progress"}, "failed")

Provide(d) ==
  /\ phase[d] = "in_progress" /\ UNCHANGED phase
  /\ \E k \in Kind : held' = [held EXCEPT ![d] = @ \cup {k}]

TakeBack(d) ==
  /\ phase[d] \in {"in_progress", "failed"} /\ UNCHANGED phase
  /\ \E k \in Kind :
       /\ phase[d] = "in_progress" => k \in Volatile
       /\ held' = [held EXCEPT ![d] = @ \ {k}]

Init == phase = [d \in Deployment |-> "none"] /\ held = [d \in Deployment |-> {}]

Next ==
  \E d \in Deployment :
    \/ Accept(d) \/ Work(d) \/ Refuse(d) \/ Deliver(d) \/ GiveUp(d)
    \/ Provide(d) \/ TakeBack(d)

Spec == Init /\ [][Next]_vars

=============================================================================
