----------------------------- MODULE FlowEditor -----------------------------
(***************************************************************************)
(* The editor in the browser: one canvas, its undo history, the autosave   *)
(* timer, the list of flows, and the requests under way to the server that *)
(* keeps the flows.  A handler runs without interruption up to the request *)
(* it awaits; the rest of it is a step of its own.  So is the effect that  *)
(* tells the autosave which flow is open: React runs it after the change   *)
(* was drawn.  Requests overtake each other; the server handles each in up *)
(* to two steps, the read and the put of the whole row.                    *)
(***************************************************************************)
EXTENDS Naturals, Sequences, SequencesExt

CONSTANTS
  Flow,          \* ids of flows
  NoFlow,        \* no flow is open
  Fetch,          \* requests at one time
  FlowsThere,      \* the flows there may be when the page is loaded
  EditorFaults,  \* what may fail
  MaxHistory,    \* actions that the undo stack holds
  MaxDeeds,      \* bound on changes and undos
  MaxAsks        \* bound on what is asked of the list of flows

EditorFaultKinds == {"request", "answer"}

ASSUME EditorAssumption ==
  /\ NoFlow \notin Flow /\ FlowsThere \subseteq SUBSET Flow
  /\ EditorFaults \subseteq EditorFaultKinds
  /\ MaxHistory \in Nat \ {0} /\ MaxDeeds \in Nat /\ MaxAsks \in Nat

VARIABLES
  stored,   \* the server's row of each flow
  opened,   \* activeFlowId
  followed, \* flowIdRef, what the autosave takes for it
  canvas,   \* what is drawn
  timer,    \* whether the autosave timer is set
  sidebar,  \* the flows of the list
  undone,   \* the undo stack and the redo stack
  calls,    \* the requests under way
  deeds, asks,
  crossed,  \* flows into which undo or redo has put another flow's drawing
  shown,    \* the last that was on the canvas of each flow
  lost      \* flows whose last drawing nothing will save any more

editorVars == <<stored, opened, followed, canvas, timer, sidebar, undone, calls,
                deeds, asks, crossed, shown, lost>>

(* A drawing: the flow it was begun in, the change it was left at, and     *)
(* whether there is something on it that no save keeps: a node without a   *)
(* configuration, as most are when they are dropped on the canvas, a label *)
(* of one's own, a connection of a kind that the server has no name for.   *)
Drawing == [flow : Flow \cup {NoFlow}, at : 0..MaxDeeds, unkept : BOOLEAN]
Blank(f) == [flow |-> f, at |-> 0, unkept |-> FALSE]
Absent == [flow |-> NoFlow, at |-> MaxDeeds + 1, unkept |-> FALSE]

(* toBackendNodes, toBackendEdges: what of it is sent.                     *)
ToBackend(d) == [d EXCEPT !.unkept = FALSE]

Free == [kind |-> "free"]
Asking(kind, f, d) ==
  [kind |-> kind, flow |-> f, drawing |-> d, list |-> {}, stage |-> "sent"]

Writers == {"save", "rename"}

\* A save or a rename of f is under way and has not been put yet.
Writing(f) ==
  \E c \in Fetch : /\ calls[c].kind \in Writers /\ calls[c].flow = f
                  /\ calls[c].stage \in {"sent", "write"}

-----------------------------------------------------------------------------
(* The stores' changes.                                                    *)

\* Changes and undos are bounded, and so is a redo by the undo before it.
Deed == deeds < MaxDeeds /\ deeds' = deeds + 1
Outside == UNCHANGED <<stored, opened, followed, sidebar, calls, asks>>

\* Mutant of Touched: no timer while a request is under way.
TouchedWhenIdle ==
  timer \/ (followed # NoFlow /\ \A c \in Fetch : calls[c] = Free)

\* The subscriber of the autosave: any change of the drawing sets the timer
\* anew, unless no flow is followed.  (It ignores the first change of all, which
\* comes when no flow is.)
Touched == timer \/ followed # NoFlow

\* Flows that a change now leaves without their last drawing: the one that is
\* open, if its timer was set.
Forsaken ==
  IF timer /\ opened # NoFlow /\ (ToBackend(canvas) # stored[opened] \/ Writing(opened))
  THEN {opened} ELSE {}

\* What d on the canvas means for the flow that is open.
Show(d) ==
  /\ canvas' = d /\ timer' = Touched
  /\ shown' = IF opened = NoFlow THEN shown ELSE [shown EXCEPT ![opened] = d]
  /\ lost' = IF opened = NoFlow \/ timer \/ followed # NoFlow THEN lost ELSE lost \cup {opened}

Trimmed(s) ==
  IF Len(s) > MaxHistory THEN SubSeq(s, Len(s) - MaxHistory + 1, Len(s)) ELSE s

Pushed(before, after) ==
  [undo |-> Trimmed(Append(undone.undo, [before |-> before, after |-> after])),
   redo |-> << >>]

\* addNode, deleteNode, updateNodePosition, updateNodeConfiguration, addEdge,
\* deleteEdge: recorded.
Change ==
  /\ Deed
  /\ \E unkept \in BOOLEAN :
       LET d == [canvas EXCEPT !.at = deeds + 1, !.unkept = unkept] IN
       Show(d) /\ undone' = Pushed(canvas, d)
  /\ Outside /\ UNCHANGED crossed

\* onNodesChange, onEdgesChange, setViewport: a drag, a selection, a pan, or the
\* removal of what is selected.
Drag ==
  /\ Deed
  /\ \E unkept \in {canvas.unkept, FALSE} :
       Show([canvas EXCEPT !.at = deeds + 1, !.unkept = unkept])
  /\ Outside /\ UNCHANGED <<undone, crossed>>

\* loadTemplate: templates, clones and generated agents replace the drawing.
LoadTemplate ==
  /\ Deed
  /\ \E unkept \in BOOLEAN :
       LET d == [flow |-> opened, at |-> deeds + 1, unkept |-> unkept] IN
       Show(d) /\ undone' = Pushed(canvas, d)
  /\ Outside /\ UNCHANGED crossed

Restored(d) ==
  /\ Show(d)
  /\ crossed' = IF opened # NoFlow /\ d.flow # opened THEN crossed \cup {opened} ELSE crossed
  /\ Outside

Undo ==
  /\ Deed /\ undone.undo # << >>
  /\ LET a == Last(undone.undo) IN
     /\ Restored(a.before)
     /\ undone' = [undo |-> Front(undone.undo), redo |-> Append(undone.redo, a)]

Redo ==
  /\ undone.redo # << >> /\ UNCHANGED deeds
  /\ LET a == Last(undone.redo) IN
     /\ Restored(a.after)
     /\ undone' = [undo |-> Append(undone.undo, a), redo |-> Front(undone.redo)]

-----------------------------------------------------------------------------
(* The autosave.                                                           *)

\* The effect that follows a change of activeFlowId.
Follow ==
  /\ followed # opened
  /\ followed' = opened
  /\ UNCHANGED <<stored, opened, canvas, timer, sidebar, undone, calls, deeds, asks,
                 crossed, shown, lost>>

\* Mutant of MaySave: without the guard for a flow that is no longer open.
MaySaveFollowed == followed # NoFlow

MaySave == followed # NoFlow /\ opened = followed /\ opened \in sidebar

\* The flow that an autosave may skip: open and not followed yet, or not listed.
Skipped == {f \in {opened} \ {NoFlow} : f # followed \/ f \notin sidebar}

\* The timer ends: of what is on the canvas now, what the server is to keep is
\* sent to the flow followed.  A save in the middle of another write of the row
\* may be undone by it.
Autosave ==
  /\ timer /\ timer' = FALSE
  /\ IF MaySave
     THEN \E c \in Fetch :
            /\ calls[c] = Free
            /\ calls' = [calls EXCEPT ![c] = Asking("save", followed, ToBackend(canvas))]
            /\ lost' = IF Writing(followed) THEN lost \cup {followed} ELSE lost \ {followed}
     ELSE lost' = lost \cup Skipped /\ UNCHANGED calls
  /\ UNCHANGED <<stored, opened, followed, canvas, sidebar, undone, deeds, asks,
                 crossed, shown>>

-----------------------------------------------------------------------------
(* What is asked of the list of flows.  Open stands for a click and for    *)
(* the sidebar's own opening of the first flow, NewFlow likewise.           *)

Ask(kind, f) ==
  /\ asks < MaxAsks /\ asks' = asks + 1
  /\ \E c \in Fetch :
       calls[c] = Free /\ calls' = [calls EXCEPT ![c] = Asking(kind, f, Blank(NoFlow))]
  /\ UNCHANGED <<stored, opened, followed, canvas, timer, sidebar, undone, deeds,
                 crossed, shown>>

Open(f) == f \in sidebar /\ Ask("open", f) /\ UNCHANGED lost
Delete(f) == f \in sidebar /\ Ask("delete", f) /\ UNCHANGED lost
Rename(f) ==
  /\ f \in sidebar /\ Ask("rename", f)
  /\ lost' = IF Writing(f) THEN lost \cup {f} ELSE lost
NewFlow == Ask("create", NoFlow) /\ UNCHANGED lost

-----------------------------------------------------------------------------
(* The server.  A put does not look whether the row is still there.        *)

Browser == UNCHANGED <<opened, followed, canvas, timer, sidebar, undone, deeds, asks, crossed>>
Answered(c, call) == calls' = [calls EXCEPT ![c] = call]

ServerList(c) ==
  /\ calls[c].kind = "list" /\ calls[c].stage = "sent"
  /\ Answered(c, [calls[c] EXCEPT !.stage = "answered",
                                  !.list = {f \in Flow : stored[f] # Absent}])
  /\ UNCHANGED <<stored, shown, lost>> /\ Browser

\* The read with which a save, a rename, an open or a delete begins.
ServerRead(c) ==
  /\ calls[c].kind \in {"open", "save", "rename"} /\ calls[c].stage = "sent"
  /\ LET q == calls[c]
         row == stored[q.flow] IN
     /\ Answered(c, IF row = Absent THEN [q EXCEPT !.stage = "missing"]
                    ELSE IF q.kind = "save" THEN [q EXCEPT !.stage = "write"]
                    ELSE [q EXCEPT !.drawing = row,
                                   !.stage = IF q.kind = "open" THEN "answered" ELSE "write"])
     /\ lost' = IF row = Absent /\ q.kind = "save" THEN lost \cup {q.flow} ELSE lost
  /\ UNCHANGED <<stored, shown>> /\ Browser

ServerPut(c) ==
  /\ calls[c].kind \in Writers /\ calls[c].stage = "write"
  /\ stored' = [stored EXCEPT ![calls[c].flow] = calls[c].drawing]
  /\ Answered(c, [calls[c] EXCEPT !.stage = "answered"])
  /\ UNCHANGED <<shown, lost>> /\ Browser

ServerCreate(c) ==
  /\ calls[c].kind = "create" /\ calls[c].stage = "sent"
  /\ \E f \in Flow :
       /\ stored[f] = Absent /\ shown[f] = Absent
       /\ \A k \in Fetch : calls[k] # Free => calls[k].flow # f
       /\ stored' = [stored EXCEPT ![f] = Blank(f)]
       /\ shown' = [shown EXCEPT ![f] = Blank(f)]
       /\ Answered(c, [calls[c] EXCEPT !.stage = "answered", !.flow = f])
  /\ UNCHANGED lost /\ Browser

\* A writer that has read the row puts it again afterwards.
ServerDelete(c) ==
  /\ calls[c].kind = "delete" /\ calls[c].stage = "sent"
  /\ LET f == calls[c].flow IN
     IF stored[f] = Absent
     THEN Answered(c, [calls[c] EXCEPT !.stage = "missing"]) /\ UNCHANGED <<stored, lost>>
     ELSE /\ stored' = [stored EXCEPT ![f] = Absent]
          /\ lost' = lost \cup {f}
          /\ Answered(c, [calls[c] EXCEPT !.stage = "answered"])
  /\ UNCHANGED shown /\ Browser

Serve(c) == ServerList(c) \/ ServerRead(c) \/ ServerPut(c) \/ ServerCreate(c) \/ ServerDelete(c)

-----------------------------------------------------------------------------
(* The rest of each handler, when its answer arrives.                      *)

Arrived(c, kind) ==
  /\ calls[c].kind = kind /\ calls[c].stage = "answered"
  /\ calls' = [calls EXCEPT ![c] = Free]

\* A flow's drawing takes the place of what is on the canvas.
Load(f, d) ==
  /\ canvas' = d /\ timer' = Touched
  /\ opened' = f
  /\ shown' = [shown EXCEPT ![f] = d]
  /\ lost' = LET others == lost \cup (Forsaken \ {f}) IN
             IF d = stored[f] /\ ~Writing(f) THEN others \ {f} ELSE others \cup {f}

Opened(c) ==
  /\ Arrived(c, "open")
  /\ Load(calls[c].flow, calls[c].drawing)
  /\ UNCHANGED <<stored, followed, sidebar, undone, deeds, asks, crossed>>

Created(c) ==
  /\ Arrived(c, "create")
  /\ Load(calls[c].flow, Blank(calls[c].flow))
  /\ sidebar' = sidebar \cup {calls[c].flow}
  /\ UNCHANGED <<stored, followed, undone, deeds, asks, crossed>>

Deleted(c) ==
  /\ Arrived(c, "delete")
  /\ LET f == calls[c].flow IN
     /\ sidebar' = sidebar \ {f}
     /\ IF opened = f
        THEN canvas' = Blank(NoFlow) /\ timer' = Touched /\ opened' = NoFlow
        ELSE UNCHANGED <<canvas, timer, opened>>
     /\ shown' = [shown EXCEPT ![f] = Absent]
     /\ lost' = IF stored[f] # Absent \/ Writing(f) THEN lost \cup {f} ELSE lost \ {f}
  /\ UNCHANGED <<stored, followed, undone, deeds, asks, crossed>>

Listed(c) ==
  /\ Arrived(c, "list")
  /\ sidebar' = calls[c].list
  /\ UNCHANGED <<stored, opened, followed, canvas, timer, undone, deeds, asks, crossed,
                 shown, lost>>

\* The answer to a save or a rename changes neither canvas nor list.
Written(c) ==
  /\ \E kind \in Writers : Arrived(c, kind)
  /\ UNCHANGED <<stored, shown, lost>> /\ Browser

\* The row was not there, the server raised, or the answer did not come: every
\* handler puts the message into the store's error and ends.
Failed(c) ==
  /\ calls[c] # Free
  /\ \/ calls[c].stage = "missing"
     \/ calls[c].stage \in {"sent", "write"} /\ "request" \in EditorFaults
     \/ calls[c].stage = "answered" /\ "answer" \in EditorFaults
  /\ calls' = [calls EXCEPT ![c] = Free]
  /\ lost' = IF calls[c].kind = "save" /\ calls[c].stage # "answered"
             THEN lost \cup {calls[c].flow} ELSE lost
  /\ UNCHANGED <<stored, shown>> /\ Browser

Answer(c) == Opened(c) \/ Created(c) \/ Deleted(c) \/ Listed(c) \/ Written(c)

-----------------------------------------------------------------------------
\* The page is loaded and has asked for the list.
EditorInit ==
  /\ \E there \in FlowsThere :
       stored = [f \in Flow |-> IF f \in there THEN Blank(f) ELSE Absent]
  /\ opened = NoFlow /\ followed = NoFlow
  /\ canvas = Blank(NoFlow) /\ timer = FALSE
  /\ sidebar = {} /\ undone = [undo |-> << >>, redo |-> << >>]
  /\ \E c \in Fetch :
       calls = [k \in Fetch |-> IF k = c THEN Asking("list", NoFlow, Blank(NoFlow)) ELSE Free]
  /\ deeds = 0 /\ asks = 0
  /\ crossed = {} /\ lost = {} /\ shown = stored

Drawn == Change \/ Drag \/ LoadTemplate \/ Undo \/ Redo
Asked == NewFlow \/ \E f \in Flow : Open(f) \/ Delete(f) \/ Rename(f)

EditorNext ==
  \/ Drawn \/ Asked \/ Follow \/ Autosave
  \/ \E c \in Fetch : Serve(c) \/ Answer(c) \/ Failed(c)

\* Effects, timers, the server and answers; nothing of the user, no failure
\* but of what is missing.
EditorFair ==
  /\ WF_editorVars(Follow) /\ WF_editorVars(Autosave)
  /\ \A c \in Fetch : WF_editorVars(Serve(c)) /\ WF_editorVars(Answer(c) \/ Failed(c))

EditorSpec == EditorInit /\ [][EditorNext]_editorVars /\ EditorFair

-----------------------------------------------------------------------------
EditorTypeOK ==
  /\ stored \in [Flow -> {ToBackend(d) : d \in Drawing} \cup {Absent}]
  /\ shown \in [Flow -> Drawing \cup {Absent}]
  /\ opened \in Flow \cup {NoFlow} /\ followed \in Flow \cup {NoFlow}
  /\ canvas \in Drawing /\ timer \in BOOLEAN
  /\ sidebar \subseteq Flow /\ crossed \subseteq Flow /\ lost \subseteq Flow
  /\ Len(undone.undo) <= MaxHistory /\ Len(undone.redo) <= MaxHistory
  /\ deeds \in 0..MaxDeeds /\ asks \in 0..MaxAsks
  /\ \A c \in Fetch : calls[c] # Free =>
       calls[c].flow \in Flow \cup {NoFlow} /\ calls[c].drawing \in Drawing

\* However requests, answers, effects and the timer interleave, the row of a
\* flow holds what was drawn in that flow.  Only the undo history, which no
\* change of the flow clears, carries a drawing from one flow into another.
FlowsKeepApart ==
  \A f \in Flow : stored[f] = Absent \/ stored[f].flow = f \/ f \in crossed

EditorInv == EditorTypeOK /\ FlowsKeepApart

\* The row of a flow holds in the end what a save keeps of the last that was on
\* its canvas, and a flow that was deleted has none: the nodes that have a
\* configuration, where they stand, and the connections.  The rest is never
\* saved.  Of what is kept, lost is only what the canvas showed when
\* another flow took it over before the timer ended, when nothing was
\* followed, or when the flow was not in the list; a save that failed; a row
\* that two writes, or a write and an open, had in hand at once; and a flow of
\* whose deletion the browser has not heard.
WorkIsSaved ==
  <>[](\A f \in Flow : stored[f] = ToBackend(shown[f]) \/ f \in lost)
=============================================================================
