---------------------------- MODULE MCWorkSettles ----------------------------
(* What must come to an end by itself, in one run: a deployment by the     *)
(* state machine and the saving of what is drawn.  They share no state: a  *)
(* behaviour is one of focus, and the other stays in its initial state.    *)
EXTENDS MCDeploymentPipeline, FlowEditor

CONSTANTS f1, f2, k1, k2

\* One flow or two when the page is loaded.
SomeFlows == {{f1}, {f1, f2}}

VARIABLE focus

WorkInit ==
  /\ focus \in {"pipeline", "editor"}
  /\ Init /\ EditorInit
  /\ focus = "pipeline" => stored[f2] = Absent /\ calls[k1] # Free

WorkNext ==
  \/ focus = "pipeline" /\ Next /\ UNCHANGED <<focus, editorVars>>
  \/ focus = "editor" /\ EditorNext /\ UNCHANGED <<focus, vars>>

\* The fairness of each of them, in its turn.
Turn(part, action) == focus = part /\ action

WorkFair ==
  /\ \A d \in Deployment : /\ WF_vars(Turn("pipeline", MachineStep(d)))
                           /\ WF_vars(Turn("pipeline", Instruction(d, "run")))
  /\ WF_editorVars(Turn("editor", Follow)) /\ WF_editorVars(Turn("editor", Autosave))
  /\ \A c \in Fetch : /\ WF_editorVars(Turn("editor", Serve(c)))
                     /\ WF_editorVars(Turn("editor", Answer(c) \/ Failed(c)))

WorkSpec == WorkInit /\ [][WorkNext]_<<focus, vars, editorVars>> /\ WorkFair
=============================================================================
