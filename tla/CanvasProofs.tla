---------------------------- MODULE CanvasProofs ----------------------------
(* Proofs about the canvas, in the editor (FlowEditor), as a document its  *)
(* users save (WorkflowStore) and as a template they export (CfnTemplate), *)
(* for any histories, callers, documents, requests, tools and policies.    *)
EXTENDS FlowEditor, WorkflowStore, CfnTemplate, SequenceTheorems, WellFoundedInduction,
        TLAPS

-----------------------------------------------------------------------------
(* The editor.                                                             *)

(* Types, in groups. *)

\* The drawings that a save has passed, and those of which there is nothing else.
Kept == {d \in Drawing : d.unkept = FALSE}

RowsOK == stored \in [Flow -> Kept \cup {Absent}] /\ shown \in [Flow -> Drawing \cup {Absent}]

PageOK ==
  /\ opened \in Flow \cup {NoFlow} /\ followed \in Flow \cup {NoFlow}
  /\ canvas \in Drawing /\ timer \in BOOLEAN
  /\ sidebar \subseteq Flow /\ crossed \subseteq Flow /\ lost \subseteq Flow
  /\ deeds \in 0..MaxDeeds /\ asks \in 0..MaxAsks

Action == [before : Drawing, after : Drawing]

\* An undo moves an action to the other stack, so together they hold no more
\* than one may.
HistoryOK ==
  /\ undone \in [undo : Seq(Action), redo : Seq(Action)]
  /\ Len(undone.undo) + Len(undone.redo) <= MaxHistory

Call ==
  [kind : {"list", "open", "save", "rename", "delete", "create"},
   flow : Flow \cup {NoFlow}, drawing : Kept, list : SUBSET Flow,
   stage : {"sent", "write", "answered", "missing"}]

\* A request is about a flow, except a list, and a creation before its answer.
AboutFlow(q) ==
  q.kind \in {"open", "save", "rename", "delete"} \/ (q.kind = "create" /\ q.stage = "answered")
    => q.flow \in Flow

CallsOK ==
  /\ calls \in [Fetch -> Call \cup {Free}]
  /\ \A c \in Fetch : calls[c] # Free => AboutFlow(calls[c])

\* The type invariant with what it needs to be inductive.
EditorTypes == RowsOK /\ PageOK /\ HistoryOK /\ CallsOK

\* A save keeps the flow of a drawing, and what was kept before it keeps whole.
LEMMA KeptIs ==
  /\ Kept \subseteq Drawing
  /\ \A d \in Drawing : ToBackend(d) \in Kept /\ ToBackend(d).flow = d.flow
  /\ \A d \in Kept : ToBackend(d) = d
<1>1. \A d \in Drawing : ToBackend(d) \in Kept /\ ToBackend(d).flow = d.flow
  BY DEF ToBackend, Kept, Drawing
<1>2. \A d \in Kept : ToBackend(d) = d
  BY DEF ToBackend, Kept, Drawing
<1> QED BY <1>1, <1>2 DEF Kept

\* The strengthened type invariant implies the one the runs check.
LEMMA EditorTypesSuffice == EditorTypes => EditorTypeOK
<1> SUFFICES ASSUME EditorTypes PROVE EditorTypeOK
  OBVIOUS
<1>1. Len(undone.undo) \in Nat /\ Len(undone.redo) \in Nat
  BY DEF EditorTypes, HistoryOK
<1>2. Len(undone.undo) <= MaxHistory /\ Len(undone.redo) <= MaxHistory
  BY <1>1, EditorAssumption DEF EditorTypes, HistoryOK
<1>3. \A c \in Fetch : calls[c] # Free =>
         calls[c].flow \in Flow \cup {NoFlow} /\ calls[c].drawing \in Drawing
  BY KeptIs DEF EditorTypes, CallsOK, Call
<1>4. stored \in [Flow -> {ToBackend(d) : d \in Drawing} \cup {Absent}]
  <2>1. Kept \subseteq {ToBackend(d) : d \in Drawing}
    BY KeptIs
  <2> QED  BY <2>1 DEF EditorTypes, RowsOK
<1> QED  BY <1>2, <1>3, <1>4 DEF EditorTypes, EditorTypeOK, RowsOK, PageOK

\* An empty drawing is one, and no drawing stands for a row that is not there.
LEMMA BlankType ==
  /\ \A f \in Flow \cup {NoFlow} : Blank(f) \in Drawing /\ Blank(f) \in Kept /\ Blank(f).flow = f
  /\ Absent \notin Drawing
BY EditorAssumption DEF Blank, Drawing, Kept, Absent

\* A request just sent.
LEMMA AskingType ==
  ASSUME NEW kind \in {"list", "open", "save", "rename", "delete", "create"},
         NEW f \in Flow \cup {NoFlow}, NEW d \in Kept
  PROVE  /\ Asking(kind, f, d) \in Call
         /\ Asking(kind, f, d).kind = kind /\ Asking(kind, f, d).flow = f
         /\ Asking(kind, f, d).drawing = d /\ Asking(kind, f, d).stage = "sent"
BY DEF Asking, Call

\* No request is Free.
LEMMA FreeIsNone == Free \notin Call
BY DEF Free, Call

\* One request goes on, or ends.
LEMMA CallsPut ==
  ASSUME CallsOK, NEW c \in Fetch, NEW q \in Call \cup {Free}, q # Free => AboutFlow(q),
         calls' = [calls EXCEPT ![c] = q]
  PROVE  CallsOK'
BY DEF CallsOK, AboutFlow

\* A trimmed stack is a stack, no longer than it may be.
LEMMA TrimmedType ==
  ASSUME NEW s \in Seq(Action)
  PROVE  Trimmed(s) \in Seq(Action) /\ Len(Trimmed(s)) <= MaxHistory
<1>1. Len(s) \in Nat /\ MaxHistory \in Nat \ {0}  BY EditorAssumption
<1>2. CASE Len(s) > MaxHistory
  <2> DEFINE m == Len(s) - MaxHistory + 1
  <2>1. m \in 1..Len(s)  BY <1>1, <1>2
  <2>2. SubSeq(s, m, Len(s)) \in Seq(Action) /\ Len(SubSeq(s, m, Len(s))) = Len(s) - m + 1
    BY <1>1, <2>1, SubSeqProperties
  <2> QED  BY <1>1, <1>2, <2>2 DEF Trimmed
<1>3. CASE ~(Len(s) > MaxHistory)
  BY <1>1, <1>3 DEF Trimmed
<1> QED  BY <1>2, <1>3

\* What is pushed is a history.
LEMMA PushedType ==
  ASSUME HistoryOK, NEW b \in Drawing, NEW d \in Drawing, undone' = Pushed(b, d)
  PROVE  HistoryOK'
<1> DEFINE a == [before |-> b, after |-> d]
           s == Trimmed(Append(undone.undo, a))
<1>1. Append(undone.undo, a) \in Seq(Action)  BY DEF HistoryOK, Action
<1>2. s \in Seq(Action) /\ Len(s) <= MaxHistory  BY <1>1, TrimmedType
<1>3. undone' = [undo |-> s, redo |-> << >>]  BY DEF Pushed
<1> HIDE DEF s
<1>4. /\ undone' \in [undo : Seq(Action), redo : Seq(Action)]
      /\ undone'.undo = s /\ undone'.redo = << >>
  BY <1>2, <1>3
<1>5. Len(undone'.undo) + Len(undone'.redo) <= MaxHistory
  BY <1>2, <1>4, EditorAssumption
<1> QED  BY <1>4, <1>5 DEF HistoryOK

\* The last action of a stack, and the rest.
LEMMA LastType ==
  ASSUME NEW s \in Seq(Action), s # << >>
  PROVE  Last(s) \in Action /\ Front(s) \in Seq(Action) /\ Len(Front(s)) = Len(s) - 1
<1>1. Len(s) \in Nat \ {0}  BY EmptySeq
<1>2. SubSeq(s, 1, Len(s) - 1) \in Seq(Action) /\ Len(SubSeq(s, 1, Len(s) - 1)) = Len(s) - 1
  <2>1. \A i \in 1..(Len(s) - 1) : s[i] \in Action  BY <1>1
  <2>2. Len(s) - 1 \in Int /\ 1 \in Int  BY <1>1
  <2>3. SubSeq(s, 1, Len(s) - 1) \in Seq(Action)
    BY <2>1, <2>2, SubSeqProperties
  <2>4. Len(SubSeq(s, 1, Len(s) - 1)) = IF 1 <= Len(s) - 1 THEN Len(s) - 1 - 1 + 1 ELSE 0
    BY <2>1, <2>2, SubSeqProperties
  <2>5. \A n \in Nat \ {0} : (IF 1 <= n - 1 THEN n - 1 - 1 + 1 ELSE 0) = n - 1
    OBVIOUS
  <2>6. Len(SubSeq(s, 1, Len(s) - 1)) = Len(s) - 1
    BY <1>1, <2>4, <2>5, Zenon
  <2> QED  BY <2>3, <2>6
<1> QED  BY <1>1, <1>2 DEF Last, Front

\* What is shown is a drawing, and only flows are lost.
LEMMA ShowType ==
  ASSUME RowsOK, PageOK, NEW d \in Drawing, Show(d)
  PROVE  /\ canvas' \in Drawing /\ timer' \in BOOLEAN /\ lost' \subseteq Flow
         /\ shown' \in [Flow -> Drawing \cup {Absent}]
BY DEF RowsOK, PageOK, Show, Touched

\* A drawing changed is one of the same flow.
LEMMA Redrawn ==
  ASSUME NEW d \in Drawing, NEW n \in 0..MaxDeeds, NEW u \in BOOLEAN
  PROVE  /\ [d EXCEPT !.at = n, !.unkept = u] \in Drawing
         /\ [d EXCEPT !.at = n, !.unkept = u].flow = d.flow
<1>1. PICK e : e = [d EXCEPT !.at = n]  OBVIOUS
<1>2. e \in Drawing /\ e.flow = d.flow
  BY <1>1 DEF Drawing
<1>3. PICK g : g = [e EXCEPT !.unkept = u]  OBVIOUS
<1>4. g \in Drawing /\ g.flow = d.flow
  BY <1>2, <1>3 DEF Drawing
<1> QED  BY <1>1, <1>3, <1>4, Zenon

\* One handler of the page that draws.
LEMMA DrawnTypes ==
  ASSUME EditorTypes, Drawn
  PROVE  EditorTypes'
<1>0. RowsOK /\ PageOK /\ HistoryOK /\ CallsOK  BY DEF EditorTypes
<1>1. canvas \in Drawing /\ deeds \in 0..MaxDeeds /\ MaxDeeds \in Nat
  BY <1>0, EditorAssumption DEF PageOK
<1>d. Deed => deeds + 1 \in 0..MaxDeeds /\ deeds' \in 0..MaxDeeds
  BY <1>1 DEF Deed
<1>o. /\ UNCHANGED <<stored, opened, followed, sidebar, calls, asks>>
      /\ deeds' \in 0..MaxDeeds /\ crossed' \subseteq Flow
  <2>1. CASE Change \/ Drag \/ LoadTemplate
    <3>1. Deed /\ Outside /\ crossed' = crossed
      BY <2>1, Zenon DEF Change, Drag, LoadTemplate
    <3> QED  BY <1>0, <1>d, <3>1 DEF PageOK, Outside
  <2>2. CASE Undo
    BY <1>0, <1>d, <2>2 DEF PageOK, Undo, Restored, Outside
  <2>3. CASE Redo
    BY <1>0, <1>1, <2>3 DEF PageOK, Redo, Restored, Outside
  <2> QED  BY <2>1, <2>2, <2>3 DEF Drawn
<1>2. Deed => \A u \in BOOLEAN : [canvas EXCEPT !.at = deeds + 1, !.unkept = u] \in Drawing
  BY <1>1, <1>d, Redrawn, Zenon
<1>u. canvas.unkept \in BOOLEAN
  BY <1>1 DEF Drawing
<1>v. Change => \E d \in Drawing : Show(d) /\ undone' = Pushed(canvas, d)
  BY <1>2, Zenon DEF Change
<1>w. Drag => \E d \in Drawing : Show(d)
  <2> SUFFICES ASSUME Drag PROVE \E d \in Drawing : Show(d)
    OBVIOUS
  <2>1. PICK u \in {canvas.unkept, FALSE} : Show([canvas EXCEPT !.at = deeds + 1, !.unkept = u])
    BY Zenon DEF Drag
  <2>2. u \in BOOLEAN  BY <1>u
  <2> QED  BY <1>2, <2>1, <2>2, Zenon DEF Drag
<1>3. Deed => \A u \in BOOLEAN : [flow |-> opened, at |-> deeds + 1, unkept |-> u] \in Drawing
  BY <1>0, <1>1 DEF Deed, Drawing, PageOK
<1>4. undone.undo \in Seq(Action) /\ undone.redo \in Seq(Action)
  BY <1>0 DEF HistoryOK
<1>5. PICK d \in Drawing : Show(d)
  <2>1. CASE Change \/ Drag
    BY <2>1, <1>v, <1>w, Zenon
  <2>2. CASE LoadTemplate
    BY <2>2, <1>3 DEF LoadTemplate
  <2>3. CASE Undo
    BY <2>3, <1>4, LastType DEF Undo, Restored, Action
  <2>4. CASE Redo
    BY <2>4, <1>4, LastType DEF Redo, Restored, Action
  <2> QED  BY <2>1, <2>2, <2>3, <2>4 DEF Drawn
<1>6. RowsOK' /\ PageOK'
  BY <1>0, <1>o, <1>5, ShowType DEF RowsOK, PageOK
<1>7. HistoryOK'
  <2>1. CASE Change
    BY <2>1, <1>0, <1>1, <1>v, PushedType, Zenon
  <2>2. CASE Drag
    BY <2>2, <1>0 DEF Drag, HistoryOK
  <2>3. CASE LoadTemplate
    BY <2>3, <1>0, <1>1, <1>3, PushedType DEF LoadTemplate
  <2>4. CASE Undo
    <3> DEFINE a == Last(undone.undo)
               u == Front(undone.undo)
               s == Append(undone.redo, a)
    <3>1. a \in Action /\ u \in Seq(Action) /\ Len(u) = Len(undone.undo) - 1
      BY <2>4, <1>4, LastType DEF Undo
    <3>2. s \in Seq(Action) /\ Len(s) = Len(undone.redo) + 1
      BY <3>1, <1>4
    <3>3. undone' = [undo |-> u, redo |-> s]  BY <2>4 DEF Undo
    <3> HIDE DEF a, u, s
    <3>4. undone' \in [undo : Seq(Action), redo : Seq(Action)] /\ undone'.undo = u /\ undone'.redo = s
      BY <3>1, <3>2, <3>3
    <3>5. Len(undone.undo) \in Nat /\ Len(undone.redo) \in Nat /\ MaxHistory \in Nat
          /\ Len(undone.undo) + Len(undone.redo) <= MaxHistory
      BY <1>0, <1>4, EditorAssumption DEF HistoryOK
    <3>6. Len(undone'.undo) + Len(undone'.redo) <= MaxHistory
      <4>1. \A m, n \in Nat : m + n <= MaxHistory =>
              (m - 1) + (n + 1) <= MaxHistory /\ (m + 1) + (n - 1) <= MaxHistory
        BY <3>5
      <4>2. /\ (Len(undone.undo) - 1) + (Len(undone.redo) + 1) <= MaxHistory
            /\ (Len(undone.undo) + 1) + (Len(undone.redo) - 1) <= MaxHistory
        BY <3>5, <4>1
      <4> QED  BY <3>1, <3>2, <3>4, <4>2, Zenon
    <3> QED  BY <3>4, <3>6 DEF HistoryOK
  <2>5. CASE Redo
    <3> DEFINE a == Last(undone.redo)
               u == Front(undone.redo)
               s == Append(undone.undo, a)
    <3>1. a \in Action /\ u \in Seq(Action) /\ Len(u) = Len(undone.redo) - 1
      BY <2>5, <1>4, LastType DEF Redo
    <3>2. s \in Seq(Action) /\ Len(s) = Len(undone.undo) + 1
      BY <3>1, <1>4
    <3>3. undone' = [undo |-> s, redo |-> u]  BY <2>5 DEF Redo
    <3> HIDE DEF a, u, s
    <3>4. undone' \in [undo : Seq(Action), redo : Seq(Action)] /\ undone'.undo = s /\ undone'.redo = u
      BY <3>1, <3>2, <3>3
    <3>5. Len(undone.undo) \in Nat /\ Len(undone.redo) \in Nat /\ MaxHistory \in Nat
          /\ Len(undone.undo) + Len(undone.redo) <= MaxHistory
      BY <1>0, <1>4, EditorAssumption DEF HistoryOK
    <3>6. Len(undone'.undo) + Len(undone'.redo) <= MaxHistory
      <4>1. \A m, n \in Nat : m + n <= MaxHistory =>
              (m - 1) + (n + 1) <= MaxHistory /\ (m + 1) + (n - 1) <= MaxHistory
        BY <3>5
      <4>2. /\ (Len(undone.undo) - 1) + (Len(undone.redo) + 1) <= MaxHistory
            /\ (Len(undone.undo) + 1) + (Len(undone.redo) - 1) <= MaxHistory
        BY <3>5, <4>1
      <4> QED  BY <3>1, <3>2, <3>4, <4>2, Zenon
    <3> QED  BY <3>4, <3>6 DEF HistoryOK
  <2> QED  BY <2>1, <2>2, <2>3, <2>4, <2>5 DEF Drawn
<1>8. CallsOK'  BY <1>0, <1>o DEF CallsOK
<1> QED  BY <1>6, <1>7, <1>8 DEF EditorTypes

\* What is asked for is asked for by a request.
LEMMA AskTypes ==
  ASSUME CallsOK, PageOK, NEW kind \in {"open", "delete", "rename", "create"},
         NEW f \in Flow \cup {NoFlow}, kind # "create" => f \in Flow, Ask(kind, f)
  PROVE  CallsOK' /\ asks' \in 0..MaxAsks
<1>1. PICK c \in Fetch : calls' = [calls EXCEPT ![c] = Asking(kind, f, Blank(NoFlow))]
  BY DEF Ask
<1>2. PICK q : q = Asking(kind, f, Blank(NoFlow))
  OBVIOUS
<1>3. q \in Call /\ q.kind = kind /\ q.flow = f /\ q.stage = "sent"
  BY <1>2, AskingType, BlankType
<1>4. AboutFlow(q)  BY <1>3 DEF AboutFlow
<1>5. CallsOK'  BY <1>1, <1>2, <1>3, <1>4, CallsPut
<1>6. asks' \in 0..MaxAsks  BY EditorAssumption DEF Ask, PageOK
<1> QED  BY <1>5, <1>6

\* What the user asks of the list, the effect and the timer keep types.
LEMMA AskedTypes ==
  ASSUME EditorTypes, Asked \/ Follow \/ Autosave
  PROVE  EditorTypes'
<1>0. RowsOK /\ PageOK /\ HistoryOK /\ CallsOK  BY DEF EditorTypes
<1>1. CASE Asked
  <2>1. CallsOK' /\ asks' \in 0..MaxAsks
    <3>1. CASE NewFlow
      BY <1>0, <3>1, AskTypes DEF NewFlow
    <3>2. ASSUME NEW f \in Flow, Open(f) \/ Delete(f) \/ Rename(f) PROVE CallsOK' /\ asks' \in 0..MaxAsks
      BY <1>0, <3>2, AskTypes DEF Open, Delete, Rename
    <3> QED  BY <1>1, <3>1, <3>2 DEF Asked
  <2>2. /\ UNCHANGED <<stored, opened, followed, canvas, timer, sidebar, undone, deeds,
                       crossed, shown>>
        /\ lost' \subseteq Flow
    BY <1>0, <1>1 DEF Asked, NewFlow, Open, Delete, Rename, Ask, PageOK
  <2> QED  BY <1>0, <2>1, <2>2 DEF EditorTypes, RowsOK, PageOK, HistoryOK
<1>2. CASE Follow
  BY <1>0, <1>2 DEF Follow, EditorTypes, RowsOK, PageOK, HistoryOK, CallsOK
<1>3. CASE Autosave
  <2>1. /\ UNCHANGED <<stored, opened, followed, canvas, sidebar, undone, deeds, asks,
                       crossed, shown>>
        /\ timer' = FALSE
    BY <1>3 DEF Autosave
  <2>2. lost' \subseteq Flow
    BY <1>0, <1>3 DEF Autosave, PageOK, MaySave, Skipped
  <2>3. CallsOK'
    <3>1. CASE MaySave
      <4>1. PICK c \in Fetch : calls' = [calls EXCEPT ![c] = Asking("save", followed, ToBackend(canvas))]
        BY <1>3, <3>1 DEF Autosave
      <4>2. PICK q : q = Asking("save", followed, ToBackend(canvas))
        OBVIOUS
      <4>3. followed \in Flow  BY <1>0, <3>1 DEF MaySave, PageOK
      <4>4. q \in Call /\ q.flow = followed
        BY <1>0, <4>2, AskingType, KeptIs DEF PageOK
      <4>5. AboutFlow(q)  BY <4>3, <4>4 DEF AboutFlow
      <4> QED  BY <1>0, <4>1, <4>2, <4>4, <4>5, CallsPut
    <3>2. CASE ~MaySave
      BY <1>0, <1>3, <3>2 DEF Autosave, CallsOK
    <3> QED  BY <3>1, <3>2
  <2> QED  BY <1>0, <2>1, <2>2, <2>3 DEF EditorTypes, RowsOK, PageOK, HistoryOK
<1> QED  BY <1>1, <1>2, <1>3

\* The parts of a request.
LEMMA CallParts ==
  ASSUME CallsOK, NEW c \in Fetch, calls[c].kind # "free" \/ calls[c] # Free
  PROVE  calls[c] \in Call /\ AboutFlow(calls[c])
BY DEF CallsOK, Free

\* What the server makes of a request: its next stage, and the row where it
\* read one.
LEMMA ServeShape ==
  ASSUME RowsOK, CallsOK, NEW c \in Fetch, Serve(c)
  PROVE  /\ calls[c] \in Call /\ AboutFlow(calls[c])
         /\ UNCHANGED <<opened, followed, canvas, timer, sidebar, undone, deeds, asks, crossed>>
         /\ \E q \in Call :
              /\ calls' = [calls EXCEPT ![c] = q] /\ q.kind = calls[c].kind
              /\ \/ /\ q.flow = calls[c].flow /\ q.drawing = calls[c].drawing
                    /\ q.kind # "create"
                    /\ \/ q.kind \in {"list", "delete"} \/ q.stage = "missing" \/ q.kind = "save"
                       \/ calls[c].stage = "write" /\ q.stage = "answered"
                 \/ /\ q.flow = calls[c].flow /\ q.kind \in {"open", "rename"}
                    /\ q.drawing = stored[q.flow] /\ stored[q.flow] # Absent
                 \/ q.kind = "create" /\ q.flow \in Flow
<1>0. calls[c] # Free
  <2>1. calls[c].kind # "free"
    <3>1. ServerList(c) \/ ServerRead(c) \/ ServerPut(c) \/ ServerDelete(c) => calls[c].kind # "free"
      BY DEF ServerList, ServerRead, ServerPut, ServerDelete, Writers
    <3>2. ServerCreate(c) => calls[c].kind # "free"
      <4>1. ServerCreate(c) => calls[c].kind = "create"  BY Zenon DEF ServerCreate
      <4> QED  BY <4>1
    <3> QED  BY <3>1, <3>2 DEF Serve
  <2> QED  BY <2>1 DEF Free
<1>1. calls[c] \in Call /\ AboutFlow(calls[c])  BY <1>0, CallParts
<1>2. UNCHANGED <<opened, followed, canvas, timer, sidebar, undone, deeds, asks, crossed>>
  BY Zenon DEF Serve, ServerList, ServerRead, ServerPut, ServerCreate, ServerDelete, Browser
<1>3. PICK o : o = calls[c]  OBVIOUS
<1> DEFINE Right(q) ==
      /\ q \in Call /\ calls' = [calls EXCEPT ![c] = q] /\ q.kind = o.kind
      /\ \/ /\ q.flow = o.flow /\ q.drawing = o.drawing /\ q.kind # "create"
            /\ \/ q.kind \in {"list", "delete"} \/ q.stage = "missing" \/ q.kind = "save"
               \/ o.stage = "write" /\ q.stage = "answered"
         \/ /\ q.flow = o.flow /\ q.kind \in {"open", "rename"}
            /\ q.drawing = stored[q.flow] /\ stored[q.flow] # Absent
         \/ q.kind = "create" /\ q.flow \in Flow
<1>4. \E q : Right(q)
  <2>1. CASE ServerList(c)
    <3>1. PICK l : l = {f \in Flow : stored[f] # Absent}  OBVIOUS
    <3>2. PICK q : q = [o EXCEPT !.stage = "answered", !.list = l]  OBVIOUS
    <3>3. calls' = [calls EXCEPT ![c] = q] /\ o.kind = "list" /\ o \in Call /\ l \in SUBSET Flow
      BY <1>1, <1>3, <2>1, <3>1, <3>2 DEF ServerList, Answered
    <3>4. q \in Call /\ q.kind = o.kind /\ q.flow = o.flow /\ q.drawing = o.drawing
      BY <3>2, <3>3 DEF Call
    <3>5. Right(q)  BY <3>3, <3>4
    <3> QED  BY <3>5
  <2>2. CASE ServerRead(c)
    <3>0. o.kind \in {"open", "save", "rename"} /\ o.flow \in Flow /\ o \in Call
      BY <1>1, <1>3, <2>2 DEF ServerRead, AboutFlow
    <3>1. stored[o.flow] \in Kept \cup {Absent}  BY <3>0 DEF RowsOK
    <3>2. CASE stored[o.flow] = Absent
      <4>1. PICK q : q = [o EXCEPT !.stage = "missing"]  OBVIOUS
      <4>2. calls' = [calls EXCEPT ![c] = q]
        BY <1>3, <2>2, <3>2, <4>1 DEF ServerRead, Answered
      <4>3. q \in Call /\ q.kind = o.kind /\ q.flow = o.flow /\ q.drawing = o.drawing /\ q.stage = "missing"
        BY <3>0, <4>1 DEF Call
      <4>4. Right(q)  BY <3>0, <4>2, <4>3
      <4> QED  BY <4>4
    <3>3. CASE stored[o.flow] # Absent /\ o.kind = "save"
      <4>1. PICK q : q = [o EXCEPT !.stage = "write"]  OBVIOUS
      <4>2. calls' = [calls EXCEPT ![c] = q]
        BY <1>3, <2>2, <3>3, <4>1 DEF ServerRead, Answered
      <4>3. q \in Call /\ q.kind = o.kind /\ q.flow = o.flow /\ q.drawing = o.drawing
        BY <3>0, <4>1 DEF Call
      <4>4. Right(q)  BY <3>3, <4>2, <4>3
      <4> QED  BY <4>4
    <3>4. CASE stored[o.flow] # Absent /\ o.kind # "save"
      <4>0. PICK s \in {"write", "answered"} : s = IF o.kind = "open" THEN "answered" ELSE "write"
        OBVIOUS
      <4>d. PICK d \in Kept : d = stored[o.flow]  BY <3>1, <3>4
      <4>1. PICK q : q = [o EXCEPT !.drawing = d, !.stage = s]  OBVIOUS
      <4>2. calls' = [calls EXCEPT ![c] = q]
        BY <1>3, <2>2, <3>4, <4>0, <4>d, <4>1 DEF ServerRead, Answered
      <4>3. q \in Call /\ q.kind = o.kind /\ q.flow = o.flow /\ q.drawing = d
        BY <3>0, <4>1 DEF Call
      <4>4. Right(q)  BY <3>0, <3>4, <4>d, <4>2, <4>3
      <4> QED  BY <4>4
    <3> QED  BY <3>2, <3>3, <3>4
  <2>3. CASE ServerPut(c)
    <3>1. PICK q : q = [o EXCEPT !.stage = "answered"]  OBVIOUS
    <3>2. calls' = [calls EXCEPT ![c] = q] /\ o.stage = "write" /\ o.kind # "create" /\ o \in Call
      BY <1>1, <1>3, <2>3, <3>1 DEF ServerPut, Answered, Writers
    <3>3. q \in Call /\ q.kind = o.kind /\ q.flow = o.flow /\ q.drawing = o.drawing /\ q.stage = "answered"
      BY <3>1, <3>2 DEF Call
    <3>4. Right(q)  BY <3>2, <3>3
    <3> QED  BY <3>4
  <2>4. CASE ServerCreate(c)
    <3>1. PICK f \in Flow :
            calls' = [calls EXCEPT ![c] = [o EXCEPT !.stage = "answered", !.flow = f]]
      BY <1>3, <2>4, Zenon DEF ServerCreate, Answered
    <3>2. PICK q : q = [o EXCEPT !.stage = "answered", !.flow = f]  OBVIOUS
    <3>3. q \in Call /\ q.kind = o.kind /\ q.flow = f /\ o.kind = "create"
      BY <1>1, <1>3, <2>4, <3>2 DEF ServerCreate, Call
    <3>4. Right(q)  BY <3>1, <3>2, <3>3
    <3> QED  BY <3>4
  <2>5. CASE ServerDelete(c)
    <3>1. PICK s \in {"missing", "answered"} : calls' = [calls EXCEPT ![c] = [o EXCEPT !.stage = s]]
      BY <1>3, <2>5 DEF ServerDelete, Answered
    <3>2. PICK q : q = [o EXCEPT !.stage = s]  OBVIOUS
    <3>3. q \in Call /\ q.kind = o.kind /\ q.flow = o.flow /\ q.drawing = o.drawing /\ o.kind = "delete"
      BY <1>1, <1>3, <2>5, <3>2 DEF ServerDelete, Call
    <3>4. Right(q)  BY <3>1, <3>2, <3>3
    <3> QED  BY <3>4
  <2> QED  BY <2>1, <2>2, <2>3, <2>4, <2>5 DEF Serve
<1> QED  BY <1>1, <1>2, <1>3, <1>4

\* The server keeps types.
LEMMA ServeTypes ==
  ASSUME EditorTypes, NEW c \in Fetch, Serve(c)
  PROVE  EditorTypes'
<1>0. RowsOK /\ PageOK /\ HistoryOK /\ CallsOK  BY DEF EditorTypes
<1>1. /\ calls[c] \in Call /\ AboutFlow(calls[c])
      /\ UNCHANGED <<opened, followed, canvas, timer, sidebar, undone, deeds, asks, crossed>>
  BY <1>0, ServeShape
<1>2. PICK q \in Call :
        /\ calls' = [calls EXCEPT ![c] = q] /\ q.kind = calls[c].kind
        /\ \/ q.flow = calls[c].flow /\ q.kind # "create"
           \/ q.kind = "create" /\ q.flow \in Flow
  BY <1>0, ServeShape
<1>3. CallsOK'
  <2>1. AboutFlow(q)  BY <1>1, <1>2 DEF AboutFlow
  <2> QED  BY <1>0, <1>2, <2>1, CallsPut
<1>4. RowsOK' /\ lost' \subseteq Flow
  <2>1. CASE ServerList(c)
    BY <1>0, <2>1 DEF ServerList, RowsOK, PageOK
  <2>2. CASE ServerRead(c)
    BY <1>0, <1>1, <2>2 DEF ServerRead, RowsOK, PageOK, AboutFlow
  <2>3. CASE ServerPut(c)
    <3>1. calls[c].flow \in Flow /\ calls[c].drawing \in Kept
      BY <1>1, <2>3 DEF ServerPut, Writers, AboutFlow, Call
    <3> QED  BY <1>0, <2>3, <3>1 DEF ServerPut, RowsOK, PageOK
  <2>4. CASE ServerCreate(c)
    BY <1>0, <2>4, BlankType DEF ServerCreate, RowsOK, PageOK
  <2>5. CASE ServerDelete(c)
    BY <1>0, <1>1, <2>5 DEF ServerDelete, RowsOK, PageOK, AboutFlow
  <2> QED  BY <2>1, <2>2, <2>3, <2>4, <2>5 DEF Serve
<1> QED  BY <1>0, <1>1, <1>3, <1>4 DEF EditorTypes, PageOK, HistoryOK

\* A flow that is loaded is the one that is open.
LEMMA LoadTypes ==
  ASSUME RowsOK, PageOK, NEW f \in Flow, NEW d \in Drawing, Load(f, d)
  PROVE  /\ canvas' \in Drawing /\ timer' \in BOOLEAN /\ lost' \subseteq Flow /\ opened' = f
         /\ shown' \in [Flow -> Drawing \cup {Absent}]
BY DEF RowsOK, PageOK, Load, Touched, Forsaken

\* So do the answers, and what comes instead of one.
LEMMA AnswerTypes ==
  ASSUME EditorTypes, NEW c \in Fetch, Answer(c) \/ Failed(c)
  PROVE  EditorTypes'
<1>0. RowsOK /\ PageOK /\ HistoryOK /\ CallsOK  BY DEF EditorTypes
<1>1. calls' = [calls EXCEPT ![c] = Free] /\ calls[c] # Free
  BY DEF Answer, Failed, Opened, Created, Deleted, Listed, Written, Arrived, Free, Writers
<1>2. calls[c] \in Call /\ AboutFlow(calls[c])  BY <1>0, <1>1, CallParts
<1>3. CallsOK'  BY <1>0, <1>1, CallsPut
<1>4. HistoryOK' /\ stored' = stored /\ deeds' = deeds /\ asks' = asks /\ crossed' = crossed
      /\ followed' = followed
  BY <1>0
     DEF Answer, Failed, Opened, Created, Deleted, Listed, Written, Browser, HistoryOK
<1>d. calls[c].drawing \in Drawing /\ calls[c].list \subseteq Flow  BY <1>2, KeptIs DEF Call
<1>5. RowsOK' /\ PageOK'
  <2>1. CASE Opened(c)
    <3>1. calls[c].flow \in Flow  BY <1>2, <2>1 DEF Opened, Arrived, AboutFlow
    <3> QED  BY <1>0, <1>4, <1>d, <2>1, <3>1, LoadTypes DEF Opened, RowsOK, PageOK
  <2>2. CASE Created(c)
    <3>1. calls[c].flow \in Flow  BY <1>2, <2>2 DEF Created, Arrived, AboutFlow
    <3> QED  BY <1>0, <1>4, <2>2, <3>1, BlankType, LoadTypes DEF Created, RowsOK, PageOK
  <2>3. CASE Deleted(c)
    <3>1. calls[c].flow \in Flow  BY <1>2, <2>3 DEF Deleted, Arrived, AboutFlow
    <3> QED  BY <1>0, <1>4, <2>3, <3>1, BlankType DEF Deleted, RowsOK, PageOK, Touched
  <2>4. CASE Listed(c)
    BY <1>0, <1>4, <1>d, <2>4 DEF Listed, RowsOK, PageOK
  <2>5. CASE Written(c)
    BY <1>0, <1>4, <2>5 DEF Written, Browser, RowsOK, PageOK
  <2>6. CASE Failed(c)
    BY <1>0, <1>2, <1>4, <2>6 DEF Failed, Browser, RowsOK, PageOK, AboutFlow
  <2> QED  BY <2>1, <2>2, <2>3, <2>4, <2>5, <2>6 DEF Answer
<1> QED  BY <1>3, <1>4, <1>5 DEF EditorTypes

\* The page as it is loaded.
LEMMA EditorTypesInit == EditorInit => EditorTypes
<1> SUFFICES ASSUME EditorInit PROVE EditorTypes
  OBVIOUS
<1>1. RowsOK
  <2>1. \A f \in Flow : Blank(f) \in Kept  BY BlankType
  <2>2. PICK there \in FlowsThere :
          stored = [f \in Flow |-> IF f \in there THEN Blank(f) ELSE Absent]
    BY DEF EditorInit
  <2>3. stored \in [Flow -> Kept \cup {Absent}]  BY <2>1, <2>2
  <2> QED  BY <2>3, KeptIs DEF RowsOK, EditorInit
<1>4. PageOK
  <2>1. canvas \in Drawing /\ opened = NoFlow /\ followed = NoFlow /\ timer = FALSE
    BY BlankType DEF EditorInit
  <2>2. sidebar = {} /\ crossed = {} /\ lost = {} /\ deeds = 0 /\ asks = 0
    BY DEF EditorInit
  <2>3. deeds \in 0..MaxDeeds /\ asks \in 0..MaxAsks  BY <2>2, EditorAssumption
  <2> QED  BY <2>1, <2>2, <2>3 DEF PageOK
<1>2. HistoryOK
  <2>1. undone = [undo |-> << >>, redo |-> << >>]  BY DEF EditorInit
  <2>2. undone \in [undo : Seq(Action), redo : Seq(Action)] /\ undone.undo = << >> /\ undone.redo = << >>
    BY <2>1
  <2>3. Len(undone.undo) + Len(undone.redo) <= MaxHistory
    BY <2>2, EditorAssumption
  <2> QED  BY <2>2, <2>3 DEF HistoryOK
<1>3. CallsOK
  <2>1. PICK c \in Fetch :
          calls = [k \in Fetch |-> IF k = c THEN Asking("list", NoFlow, Blank(NoFlow)) ELSE Free]
    BY DEF EditorInit
  <2>2. PICK q : q = Asking("list", NoFlow, Blank(NoFlow))  OBVIOUS
  <2>3. q \in Call /\ q.kind = "list"  BY <2>2, AskingType, BlankType
  <2>4. AboutFlow(q)  BY <2>3 DEF AboutFlow
  <2> QED  BY <2>1, <2>2, <2>3, <2>4 DEF CallsOK, AboutFlow
<1> QED  BY <1>1, <1>2, <1>3, <1>4 DEF EditorTypes

\* Every value of the editor stays in its range.
THEOREM EditorTypesInvariant == EditorSpec => []EditorTypes
<1>1. EditorTypes /\ [EditorNext]_editorVars => EditorTypes'
  <2> SUFFICES ASSUME EditorTypes, [EditorNext]_editorVars PROVE EditorTypes'
    OBVIOUS
  <2>1. CASE UNCHANGED editorVars
    BY <2>1 DEF EditorTypes, RowsOK, PageOK, HistoryOK, CallsOK, editorVars
  <2>2. CASE EditorNext
    BY <2>2, DrawnTypes, AskedTypes, ServeTypes, AnswerTypes DEF EditorNext
  <2> QED  BY <2>1, <2>2
<1> QED  BY <1>1, EditorTypesInit, PTL DEF EditorSpec

-----------------------------------------------------------------------------
(* Flows keep apart.                                                       *)

\* A drawing of f, unless undo has carried another flow's into f.
Of(f, d) == d.flow = f \/ f \in crossed

\* The canvas shows the flow that is open.
CanvasInv == opened # NoFlow => Of(opened, canvas)

\* What a request carries: a save what was drawn, an open or a rename, once it
\* has read, what the row holds.
Carries(q) ==
  \/ q.kind = "save"
  \/ q.kind \in {"open", "rename"} /\ q.stage \in {"write", "answered"}

CarriedInv ==
  \A c \in Fetch : calls[c] # Free /\ Carries(calls[c]) => Of(calls[c].flow, calls[c].drawing)

\* The inductive invariant behind FlowsKeepApart: row, canvas and requests.
ApartInv == FlowsKeepApart /\ CanvasInv /\ CarriedInv

\* The page as it is loaded: every row is as blank as it was made.
LEMMA ApartInit == EditorInit => ApartInv
<1> SUFFICES ASSUME EditorInit PROVE ApartInv
  OBVIOUS
<1>1. FlowsKeepApart
  <2>1. \A f \in Flow : Blank(f).flow = f  BY BlankType
  <2>2. PICK there \in FlowsThere :
          stored = [f \in Flow |-> IF f \in there THEN Blank(f) ELSE Absent]
    BY DEF EditorInit
  <2>3. \A f \in Flow : stored[f] = Absent \/ stored[f] = Blank(f)
    BY <2>2
  <2> QED  BY <2>1, <2>3, Zenon DEF FlowsKeepApart
<1>2. CanvasInv  BY DEF EditorInit, CanvasInv
<1>3. CarriedInv
  <2>1. PICK c \in Fetch :
          calls = [k \in Fetch |-> IF k = c THEN Asking("list", NoFlow, Blank(NoFlow)) ELSE Free]
    BY DEF EditorInit
  <2>2. PICK q : q = Asking("list", NoFlow, Blank(NoFlow))  OBVIOUS
  <2>3. ~Carries(q)  BY <2>2, AskingType, BlankType DEF Carries
  <2> QED  BY <2>1, <2>2, <2>3 DEF CarriedInv
<1> QED  BY <1>1, <1>2, <1>3 DEF ApartInv

\* Rows and requests that stay keep what they hold, as crossed flows stay so.
LEMMA RowsStay ==
  ASSUME FlowsKeepApart, crossed \subseteq crossed', stored' = stored
  PROVE  FlowsKeepApart'
BY DEF FlowsKeepApart

LEMMA CarriedStays ==
  ASSUME CarriedInv, crossed \subseteq crossed', calls' = calls
  PROVE  CarriedInv'
BY DEF CarriedInv, Carries, Of

\* One request goes on with what it may carry.
LEMMA CarriedPut ==
  ASSUME CallsOK, CarriedInv, crossed' = crossed, NEW c \in Fetch, NEW q,
         calls' = [calls EXCEPT ![c] = q],
         q # Free /\ Carries(q) => Of(q.flow, q.drawing)
  PROVE  CarriedInv'
<1>1. ASSUME NEW k \in Fetch, (calls[k] # Free)', Carries(calls[k])'
      PROVE  Of(calls[k].flow, calls[k].drawing)'
  <2>1. CASE k = c
    <3>1. calls'[k] = q  BY <2>1 DEF CallsOK
    <3> QED  BY <1>1, <3>1 DEF Of, Carries
  <2>2. CASE k # c
    <3>1. calls'[k] = calls[k]  BY <2>2 DEF CallsOK
    <3> QED  BY <1>1, <3>1 DEF Of, CarriedInv, Carries
  <2> QED  BY <2>1, <2>2
<1> QED  BY <1>1 DEF CarriedInv

\* What is drawn is drawn in the flow that is open; an undo or a redo that
\* brings another's drawing back has crossed it.
LEMMA DrawnApart ==
  ASSUME EditorTypes, ApartInv, Drawn
  PROVE  ApartInv'
<1>0. RowsOK /\ PageOK /\ HistoryOK /\ CallsOK /\ FlowsKeepApart /\ CanvasInv /\ CarriedInv
  BY DEF EditorTypes, ApartInv
<1>1. UNCHANGED <<stored, opened, calls>> /\ crossed \subseteq crossed'
  <2>1. CASE Change \/ Drag \/ LoadTemplate
    <3>1. Outside /\ crossed' = crossed
      BY <2>1, Zenon DEF Change, Drag, LoadTemplate
    <3> QED  BY <3>1 DEF Outside
  <2>2. CASE Undo
    BY <2>2 DEF Undo, Restored, Outside
  <2>3. CASE Redo
    BY <2>3 DEF Redo, Restored, Outside
  <2> QED  BY <2>1, <2>2, <2>3 DEF Drawn
<1>2. CanvasInv'
  <2>1. CASE Change \/ Drag
    <3>1. PICK u : canvas' = [canvas EXCEPT !.at = deeds + 1, !.unkept = u] /\ u \in BOOLEAN
      <4>1. \A u \in {canvas.unkept, FALSE} : u \in BOOLEAN
        BY <1>0 DEF PageOK, Drawing
      <4> QED  BY <2>1, <4>1, Zenon DEF Change, Drag, Show
    <3>2. canvas \in Drawing /\ deeds + 1 \in 0..MaxDeeds
      <4>1. Deed  BY <2>1, Zenon DEF Change, Drag
      <4> QED  BY <1>0, <4>1, EditorAssumption DEF PageOK, Deed
    <3>3. canvas'.flow = canvas.flow
      BY <3>1, <3>2, Redrawn, Zenon
    <3> QED  BY <1>0, <1>1, <3>3 DEF CanvasInv, Of
  <2>2. CASE LoadTemplate
    <3>1. canvas'.flow = opened  BY <2>2 DEF LoadTemplate, Show
    <3> QED  BY <1>1, <3>1 DEF CanvasInv, Of
  <2>3. CASE Undo \/ Redo
    <3>1. PICK d :
            /\ canvas' = d
            /\ crossed' = IF opened # NoFlow /\ d.flow # opened THEN crossed \cup {opened} ELSE crossed
      BY <2>3 DEF Undo, Redo, Restored, Show
    <3> QED  BY <1>1, <3>1 DEF CanvasInv, Of
  <2> QED  BY <2>1, <2>2, <2>3 DEF Drawn
<1> QED  BY <1>0, <1>1, <1>2, RowsStay, CarriedStays DEF ApartInv

\* The timer sends the canvas to the flow that is open; asking carries nothing.
LEMMA AskedApart ==
  ASSUME EditorTypes, ApartInv, Asked \/ Follow \/ Autosave
  PROVE  ApartInv'
<1>0. RowsOK /\ PageOK /\ HistoryOK /\ CallsOK /\ FlowsKeepApart /\ CanvasInv /\ CarriedInv
  BY DEF EditorTypes, ApartInv
<1>1. UNCHANGED <<stored, opened, canvas, crossed>>
  BY DEF Asked, NewFlow, Open, Delete, Rename, Ask, Follow, Autosave
<1>2. CarriedInv'
  <2>1. ASSUME NEW kind \in {"open", "delete", "rename", "create"}, NEW f \in Flow \cup {NoFlow},
               Ask(kind, f)
        PROVE  CarriedInv'
    <3>1. PICK c \in Fetch : calls' = [calls EXCEPT ![c] = Asking(kind, f, Blank(NoFlow))]
      BY <2>1 DEF Ask
    <3>2. PICK q : q = Asking(kind, f, Blank(NoFlow))  OBVIOUS
    <3>3. ~Carries(q)
      BY <3>2, AskingType, BlankType DEF Carries
    <3> QED  BY <1>0, <1>1, <3>1, <3>2, <3>3, CarriedPut
  <2>2. CASE Asked
    BY <2>1, <2>2 DEF Asked, NewFlow, Open, Delete, Rename
  <2>3. CASE Follow
    BY <1>0, <1>1, <2>3, CarriedStays DEF Follow
  <2>4. CASE Autosave /\ MaySave
    <3>1. PICK c \in Fetch : calls' = [calls EXCEPT ![c] = Asking("save", followed, ToBackend(canvas))]
      BY <2>4 DEF Autosave
    <3>2. PICK q : q = Asking("save", followed, ToBackend(canvas))  OBVIOUS
    <3>3. q.flow = followed /\ q.drawing = ToBackend(canvas)
      BY <1>0, <3>2, AskingType, KeptIs DEF PageOK
    <3>4. Of(followed, ToBackend(canvas))
      BY <1>0, <2>4, KeptIs DEF MaySave, CanvasInv, Of, PageOK
    <3> QED  BY <1>0, <1>1, <3>1, <3>2, <3>3, <3>4, CarriedPut
  <2>5. CASE Autosave /\ ~MaySave
    BY <1>0, <1>1, <2>5, CarriedStays DEF Autosave
  <2> QED  BY <2>2, <2>3, <2>4, <2>5
<1> QED  BY <1>0, <1>1, <1>2, RowsStay DEF ApartInv, CanvasInv, Of

\* The server puts what a request carries into the row it is about, and hands
\* out what that row holds.
LEMMA ServeApart ==
  ASSUME EditorTypes, ApartInv, NEW c \in Fetch, Serve(c)
  PROVE  ApartInv'
<1>0. RowsOK /\ PageOK /\ HistoryOK /\ CallsOK /\ FlowsKeepApart /\ CanvasInv /\ CarriedInv
  BY DEF EditorTypes, ApartInv
<1>1. /\ calls[c] \in Call /\ AboutFlow(calls[c])
      /\ UNCHANGED <<opened, canvas, crossed>>
  BY <1>0, ServeShape
<1>2. PICK q \in Call :
        /\ calls' = [calls EXCEPT ![c] = q] /\ q.kind = calls[c].kind
        /\ \/ /\ q.flow = calls[c].flow /\ q.drawing = calls[c].drawing
              /\ q.kind # "create"
              /\ \/ q.kind \in {"list", "delete"} \/ q.stage = "missing" \/ q.kind = "save"
                 \/ calls[c].stage = "write" /\ q.stage = "answered"
           \/ /\ q.flow = calls[c].flow /\ q.kind \in {"open", "rename"}
              /\ q.drawing = stored[q.flow] /\ stored[q.flow] # Absent
           \/ q.kind = "create" /\ q.flow \in Flow
  BY <1>0, ServeShape
<1>f. calls[c] # Free  BY <1>1, FreeIsNone
<1>3. CarriedInv'
  <2>1. ASSUME Carries(q) PROVE Of(q.flow, q.drawing)
    <3>1. CASE q.flow = calls[c].flow /\ q.drawing = calls[c].drawing /\ Carries(calls[c])
      BY <1>0, <1>f, <3>1 DEF CarriedInv
    <3>2. CASE q.flow = calls[c].flow /\ q.kind \in {"open", "rename"}
               /\ q.drawing = stored[q.flow] /\ stored[q.flow] # Absent
      <4>1. q.flow \in Flow  BY <1>1, <1>2, <3>2 DEF AboutFlow
      <4> QED  BY <1>0, <3>2, <4>1 DEF FlowsKeepApart, Of
    <3> QED  BY <1>2, <2>1, <3>1, <3>2 DEF Carries
  <2> QED  BY <1>0, <1>1, <1>2, <2>1, CarriedPut
<1>4. FlowsKeepApart'
  <2>1. CASE ServerList(c) \/ ServerRead(c)
    BY <1>0, <1>1, <2>1 DEF ServerList, ServerRead, FlowsKeepApart
  <2>2. CASE ServerPut(c)
    <3>1. Of(calls[c].flow, calls[c].drawing)
      BY <1>0, <1>f, <2>2 DEF ServerPut, Writers, CarriedInv, Carries
    <3>2. stored' = [stored EXCEPT ![calls[c].flow] = calls[c].drawing]
      BY <2>2 DEF ServerPut
    <3> QED  BY <1>0, <1>1, <3>1, <3>2 DEF FlowsKeepApart, Of, RowsOK
  <2>3. CASE ServerCreate(c)
    <3>1. PICK f \in Flow : stored' = [stored EXCEPT ![f] = Blank(f)]
      BY <2>3, Zenon DEF ServerCreate
    <3>2. PICK b : b = Blank(f) /\ b.flow = f  BY BlankType
    <3> QED  BY <1>0, <1>1, <3>1, <3>2 DEF FlowsKeepApart, RowsOK
  <2>4. CASE ServerDelete(c)
    <3>1. stored' = stored \/ stored' = [stored EXCEPT ![calls[c].flow] = Absent]
      BY <2>4 DEF ServerDelete
    <3> QED  BY <1>0, <1>1, <3>1 DEF FlowsKeepApart, RowsOK
  <2> QED  BY <2>1, <2>2, <2>3, <2>4 DEF Serve
<1>5. CanvasInv'  BY <1>0, <1>1 DEF CanvasInv, Of
<1> QED  BY <1>3, <1>4, <1>5 DEF ApartInv

\* An answer puts the flow's own drawing on the canvas.
LEMMA AnswerApart ==
  ASSUME EditorTypes, ApartInv, NEW c \in Fetch, Answer(c) \/ Failed(c)
  PROVE  ApartInv'
<1>0. RowsOK /\ PageOK /\ HistoryOK /\ CallsOK /\ FlowsKeepApart /\ CanvasInv /\ CarriedInv
  BY DEF EditorTypes, ApartInv
<1>1. calls' = [calls EXCEPT ![c] = Free] /\ calls[c] # Free
  BY DEF Answer, Failed, Opened, Created, Deleted, Listed, Written, Arrived, Free, Writers
<1>2. stored' = stored /\ crossed' = crossed
  BY DEF Answer, Failed, Opened, Created, Deleted, Listed, Written, Browser
<1>3. CarriedInv'  BY <1>0, <1>1, <1>2, CarriedPut
<1>4. CanvasInv'
  <2>1. CASE Opened(c)
    <3>1. Of(calls[c].flow, calls[c].drawing)
      BY <1>0, <1>1, <2>1 DEF Opened, Arrived, CarriedInv, Carries
    <3> QED  BY <1>2, <2>1, <3>1 DEF Opened, Load, CanvasInv, Of
  <2>2. CASE Created(c)
    <3>1. calls[c].flow \in Flow
      BY <1>0, <1>1, <2>2, CallParts DEF Created, Arrived, AboutFlow
    <3>2. canvas' = Blank(calls[c].flow) /\ opened' = calls[c].flow
      BY <2>2 DEF Created, Load
    <3> QED  BY <3>1, <3>2, BlankType DEF CanvasInv, Of
  <2>3. CASE Deleted(c)
    BY <1>0, <1>2, <2>3 DEF Deleted, CanvasInv, Of
  <2>4. CASE Listed(c) \/ Written(c) \/ Failed(c)
    BY <1>0, <1>2, <2>4 DEF Listed, Written, Failed, Browser, CanvasInv, Of
  <2> QED  BY <2>1, <2>2, <2>3, <2>4 DEF Answer
<1> QED  BY <1>0, <1>2, <1>3, <1>4, RowsStay DEF ApartInv

\* Row, canvas and requests hold what was drawn in their flow.
THEOREM ApartInvariant == EditorSpec => []ApartInv
<1>1. EditorTypes /\ ApartInv /\ [EditorNext]_editorVars => ApartInv'
  <2> SUFFICES ASSUME EditorTypes, ApartInv, [EditorNext]_editorVars PROVE ApartInv'
    OBVIOUS
  <2>1. CASE UNCHANGED editorVars
    BY <2>1 DEF ApartInv, FlowsKeepApart, CanvasInv, CarriedInv, Carries, Of, editorVars
  <2>2. CASE EditorNext
    BY <2>2, DrawnApart, AskedApart, ServeApart, AnswerApart DEF EditorNext
  <2> QED  BY <2>1, <2>2
<1> QED  BY <1>1, ApartInit, EditorTypesInvariant, PTL DEF EditorSpec

\* However requests, answers, effects and the timer interleave, the row of a
\* flow holds what was drawn in that flow, unless undo carried it there; and
\* every value stays in its range.
THEOREM EditorHolds == EditorSpec => []EditorInv
<1>1. EditorTypes /\ ApartInv => EditorInv
  BY EditorTypesSuffice DEF ApartInv, EditorInv
<1> QED  BY <1>1, EditorTypesInvariant, ApartInvariant, PTL

-----------------------------------------------------------------------------
(* The saved documents.                                                    *)

\* The keys of a request under way.
SaveKeys == {"op", "doc", "who", "copy", "stage", "straddled", "seen"}

\* What it asks, in the terms of its operation.
ArgsOK(q) ==
  /\ q.op \in {"edit", "flowedit", "sync"} => "draft" \in DOMAIN q /\ q.draft \in Draft
  /\ q.op \in {"share", "unshare"} => "sub" \in DOMAIN q /\ q.sub \in Sub
  /\ q.op = "share" => "role" \in DOMAIN q /\ q.role \in {"viewer", "editor"}
  /\ q.op = "deploy" => "verdict" \in DOMAIN q /\ q.verdict \in {"deployed", "failed"}

FlowOps == {"flowedit", "flowdelete"}
DocOps == {"edit", "delete", "deploy", "share", "unshare", "connect", "sync", "import"}

SaveOK(q) ==
  /\ SaveKeys \subseteq DOMAIN q /\ ArgsOK(q)
  /\ q.doc \in Doc /\ q.who \in Sub /\ q.copy \in DocRow
  /\ q.seen = IF q.op = "import" THEN NoRow ELSE Meaning(q.copy)
  /\ q.stage \in {"work", "write"} /\ q.straddled \in BOOLEAN
  /\ IF q.doc \in FlowDoc THEN q.op \in FlowOps ELSE q.op \in DocOps

\* The copy was read by somebody who may do this, and nothing is shared with
\* the owner.
MayDo(q) ==
  /\ q.op # "import" => Permitted(q.op, q.copy, q.who)
  /\ q.op \in {"share", "unshare"} => q.sub # q.copy.owner

StoreShape ==
  /\ docs \in [Doc -> DocRow \cup {NoRow}]
  /\ drawn \subseteq Doc /\ saved \in 0..MaxSaves
  /\ saves = [h \in Saver |-> saves[h]]
  /\ \A h \in Saver : saves[h] # Idle => SaveOK(saves[h]) /\ MayDo(saves[h])
  /\ ideal = [d \in Doc |-> ideal[d]]

\* An id is given out once: what is there, or worked on, has been drawn.
DrawnInv ==
  /\ \A d \in Doc : docs[d] # NoRow => d \in drawn
  /\ \A h \in Saver : saves[h] # Idle => saves[h].doc \in drawn

\* A flow never changes hands.
FlowOwnerInv ==
  \A h \in Saver : saves[h] # Idle /\ saves[h].doc \in FlowDoc =>
    /\ docs[saves[h].doc] # NoRow => docs[saves[h].doc].owner = saves[h].who
    /\ \A k \in Saver : saves[k] # Idle /\ saves[k].doc = saves[h].doc => saves[k].who = saves[h].who

\* A request that holds the copy it will put, and nobody wrote in between.
Current(q) ==
  q # Idle /\ ~q.straddled /\ (q.stage = "write" \/ (q.doc \notin FlowDoc /\ q.op # "import"))

\* Such a copy is the row, and for an import there is none.
CurrentInv ==
  \A h \in Saver : Current(saves[h]) =>
    IF saves[h].op = "import" THEN docs[saves[h].doc] = NoRow
    ELSE docs[saves[h].doc] = saves[h].copy

\* The inductive invariant behind DocsSayWhatWasAsked.
StoreInv == StoreShape /\ DrawnInv /\ FlowOwnerInv /\ CurrentInv /\ DocsSayWhatWasAsked

-----------------------------------------------------------------------------
(* Rows, and what they mean.                                               *)

\* A row is a row.
LEMMA RowParts ==
  ASSUME NEW r \in DocRow
  PROVE  /\ r # NoRow
         /\ r.owner \in Sub \cup {NoSub} /\ r.text \in [Fields -> Content]
         /\ r.deployed \in DeploymentStatus /\ r.git \in BOOLEAN
         /\ r.editors \subseteq Sub /\ r.viewers \subseteq Sub /\ r.aclOwner \in Sub \cup {NoSub}
         /\ Meaning(r) = [owner |-> r.owner, text |-> r.text, deployed |-> r.deployed,
                          git |-> r.git, roles |-> [s \in Sub |-> RoleOf(r, s)]]
         /\ Meaning(r) # NoRow
<1>1. r # NoRow  BY DEF DocRow, NoRow
<1>2. \A a, b, c, d, e : [owner |-> a, text |-> b, deployed |-> c, git |-> d, roles |-> e] # NoRow
  BY DEF NoRow
<1>3. Meaning(r) = [owner |-> r.owner, text |-> r.text, deployed |-> r.deployed,
                    git |-> r.git, roles |-> [s \in Sub |-> RoleOf(r, s)]]
  BY <1>1 DEF Meaning
<1>4. Meaning(r) # NoRow  BY <1>2, <1>3
<1> QED  BY <1>1, <1>3, <1>4 DEF DocRow

\* Roles depend on the owner and the two lists.
LEMMA RolesOf ==
  ASSUME NEW r, NEW t, r.owner = t.owner, r.aclOwner = t.aclOwner, r.editors = t.editors,
         r.viewers = t.viewers
  PROVE  \A s : RoleOf(r, s) = RoleOf(t, s)
BY DEF RoleOf, ResolvedOwner

\* The meaning of a row, field by field.
LEMMA MeaningChange ==
  ASSUME NEW m, NEW o, NEW t, NEW v, NEW g, NEW w,
         m = [owner |-> o, text |-> t, deployed |-> v, git |-> g, roles |-> w]
  PROVE  /\ m.owner = o /\ m.text = t /\ m.deployed = v /\ m.git = g /\ m.roles = w
         /\ \A x : [m EXCEPT !.deployed = x] = [owner |-> o, text |-> t, deployed |-> x, git |-> g, roles |-> w]
         /\ \A x : [m EXCEPT !.git = x] = [owner |-> o, text |-> t, deployed |-> v, git |-> x, roles |-> w]
         /\ \A x : [m EXCEPT !.roles = x] = [owner |-> o, text |-> t, deployed |-> v, git |-> g, roles |-> x]
<1>1. m.owner = o /\ m.text = t /\ m.deployed = v /\ m.git = g /\ m.roles = w
  OBVIOUS
<1>3. ASSUME NEW x
      PROVE [m EXCEPT !.deployed = x] = [owner |-> o, text |-> t, deployed |-> x, git |-> g, roles |-> w]
  OBVIOUS
<1>4. ASSUME NEW x
      PROVE [m EXCEPT !.git = x] = [owner |-> o, text |-> t, deployed |-> v, git |-> x, roles |-> w]
  OBVIOUS
<1>5. ASSUME NEW x
      PROVE [m EXCEPT !.roles = x] = [owner |-> o, text |-> t, deployed |-> v, git |-> g, roles |-> x]
  OBVIOUS
<1> QED  BY <1>1, <1>3, <1>4, <1>5, Zenon

\* What an update leaves of a row, and what it puts there.
LEMMA OverlayIs ==
  ASSUME NEW x \in Draft, NEW r \in DocRow, NEW t, t = Overlay(x, r)
  PROVE  /\ t \in DocRow /\ t.owner = r.owner /\ t.aclOwner = r.aclOwner
         /\ t.editors = r.editors /\ t.viewers = r.viewers /\ t.git = r.git
         /\ t.text = [f \in Fields |-> IF f \in Given(x) THEN x.text[f] ELSE r.text[f]]
         /\ t.deployed = IF "status" \in Given(x) THEN x.status ELSE r.deployed
<1>1. PICK w : w = [f \in Fields |-> IF x.text[f] = NotGiven THEN r.text[f] ELSE x.text[f]]
  OBVIOUS
<1>2. PICK y : y = IF x.status = NotGiven THEN r.deployed ELSE x.status
  OBVIOUS
<1>3. /\ x.text \in [Fields -> Content \cup {NotGiven}] /\ x.status \in DeploymentStatus \cup {NotGiven}
      /\ r.text \in [Fields -> Content] /\ r.deployed \in DeploymentStatus
  BY DEF Draft, DocRow
<1>4. \A f \in Fields : f \in Given(x) <=> x.text[f] # NotGiven
  BY DEF Given, Fields
<1>5. "status" \in Given(x) <=> x.status # NotGiven
  BY DEF Given, Fields
<1>6. w = [f \in Fields |-> IF f \in Given(x) THEN x.text[f] ELSE r.text[f]]
  BY <1>1, <1>4
<1>7. y = IF "status" \in Given(x) THEN x.status ELSE r.deployed
  BY <1>2, <1>5
<1>8. w \in [Fields -> Content]
  <2>1. \A f \in Fields : (IF x.text[f] = NotGiven THEN r.text[f] ELSE x.text[f]) \in Content
    BY <1>3
  <2> QED  BY <1>1, <2>1
<1>9. y \in DeploymentStatus
  BY <1>2, <1>3
<1>10. t = [r EXCEPT !.text = w, !.deployed = y]
  BY <1>1, <1>2, Zenon DEF Overlay
<1>11. PICK n : n = [r EXCEPT !.text = w]  OBVIOUS
<1>12. t = [n EXCEPT !.deployed = y]
  BY <1>10, <1>11, Zenon
<1>13. /\ n \in DocRow /\ n.owner = r.owner /\ n.aclOwner = r.aclOwner
       /\ n.editors = r.editors /\ n.viewers = r.viewers /\ n.git = r.git /\ n.text = w
  BY <1>8, <1>11 DEF DocRow
<1>14. /\ t \in DocRow /\ t.owner = n.owner /\ t.aclOwner = n.aclOwner
       /\ t.editors = n.editors /\ t.viewers = n.viewers /\ t.git = n.git
       /\ t.text = n.text /\ t.deployed = y
  BY <1>9, <1>12, <1>13 DEF DocRow
<1> QED  BY <1>6, <1>7, <1>13, <1>14, Zenon

\* A function that differs from another at one place.
LEMMA OnePlace ==
  ASSUME NEW S, NEW a \in S, NEW x, NEW m, NEW n, m = [s \in S |-> m[s]], n = [s \in S |-> n[s]],
         n[a] = x, \A s \in S : s # a => n[s] = m[s]
  PROVE  n = [m EXCEPT ![a] = x]
OBVIOUS

\* Everybody's role in a row, where one of them changes.
LEMMA RolesFun ==
  ASSUME NEW r, NEW t, NEW who \in Sub, NEW role, RoleOf(t, who) = role,
         \A s \in Sub : s # who => RoleOf(t, s) = RoleOf(r, s)
  PROVE  [s \in Sub |-> RoleOf(t, s)] = [[s \in Sub |-> RoleOf(r, s)] EXCEPT ![who] = role]
<1>1. PICK m : m = [s \in Sub |-> RoleOf(r, s)]  OBVIOUS
<1>2. PICK n : n = [s \in Sub |-> RoleOf(t, s)]  OBVIOUS
<1>3. m = [s \in Sub |-> m[s]] /\ \A s \in Sub : m[s] = RoleOf(r, s)
  BY <1>1, Zenon
<1>4. n = [s \in Sub |-> n[s]] /\ \A s \in Sub : n[s] = RoleOf(t, s)
  BY <1>2, Zenon
<1>5. n[who] = role /\ \A s \in Sub : s # who => n[s] = m[s]
  BY <1>3, <1>4, Zenon
<1>6. n = [m EXCEPT ![who] = role]
  BY <1>3, <1>4, <1>5, OnePlace, Zenon
<1> QED  BY <1>1, <1>2, <1>6, Zenon

(* What a request makes of its copy, and what that means.                  *)

\* A change of text, deployment or connection.
LEMMA PlainChange ==
  ASSUME NEW r \in DocRow, NEW t \in DocRow, t.owner = r.owner, t.aclOwner = r.aclOwner,
         t.editors = r.editors, t.viewers = r.viewers
  PROVE  \E w : /\ Meaning(r) = [owner |-> r.owner, text |-> r.text, deployed |-> r.deployed,
                                 git |-> r.git, roles |-> w]
                /\ Meaning(t) = [owner |-> r.owner, text |-> t.text, deployed |-> t.deployed,
                                 git |-> t.git, roles |-> w]
<1>1. \A s \in Sub : RoleOf(t, s) = RoleOf(r, s)
  BY RolesOf
<1>2. [s \in Sub |-> RoleOf(t, s)] = [s \in Sub |-> RoleOf(r, s)]
  BY <1>1, Zenon
<1>3. PICK w : w = [s \in Sub |-> RoleOf(r, s)]  OBVIOUS
<1>4. Meaning(r) = [owner |-> r.owner, text |-> r.text, deployed |-> r.deployed, git |-> r.git,
                    roles |-> w]
  BY <1>3, RowParts, Zenon
<1>5. Meaning(t) = [owner |-> r.owner, text |-> t.text, deployed |-> t.deployed, git |-> t.git,
                    roles |-> w]
  BY <1>2, <1>3, RowParts, Zenon
<1> QED  BY <1>4, <1>5, Zenon

\* A change of one role.
LEMMA RoleChange ==
  ASSUME NEW r \in DocRow, NEW t \in DocRow, NEW who \in Sub, NEW role,
         t.owner = r.owner, t.text = r.text, t.deployed = r.deployed, t.git = r.git,
         RoleOf(t, who) = role, \A s \in Sub : s # who => RoleOf(t, s) = RoleOf(r, s)
  PROVE  \E w : /\ Meaning(r) = [owner |-> r.owner, text |-> r.text, deployed |-> r.deployed,
                                 git |-> r.git, roles |-> w]
                /\ Meaning(t) = [owner |-> r.owner, text |-> r.text, deployed |-> r.deployed,
                                 git |-> r.git, roles |-> [w EXCEPT ![who] = role]]
<1>1. PICK w : w = [s \in Sub |-> RoleOf(r, s)]  OBVIOUS
<1>2. [s \in Sub |-> RoleOf(t, s)] = [w EXCEPT ![who] = role]
  BY <1>1, RolesFun, Zenon
<1>3. Meaning(r) = [owner |-> r.owner, text |-> r.text, deployed |-> r.deployed, git |-> r.git,
                    roles |-> w]
  BY <1>1, RowParts, Zenon
<1>4. Meaning(t) = [owner |-> t.owner, text |-> t.text, deployed |-> t.deployed, git |-> t.git,
                    roles |-> [w EXCEPT ![who] = role]]
  BY <1>2, RowParts, Zenon
<1> QED  BY <1>3, <1>4, Zenon

\* Text, deployment, connection: what the request makes is what it means.
LEMMA PlainMeans ==
  ASSUME NEW q, SaveOK(q), MayDo(q), q.op \in {"edit", "flowedit", "sync", "connect", "deploy"}
  PROVE  /\ Applied(q, q.copy) \in DocRow /\ Applied(q, q.copy).owner = q.copy.owner
         /\ Meaning(Applied(q, q.copy)) = Meant(q, Meaning(q.copy))
         /\ MeantAllowed(q, Meaning(q.copy))
<1>1. PICK r : r = q.copy  OBVIOUS
<1>2. PICK t : t = Applied(q, r)  OBVIOUS
<1>3. r \in DocRow /\ ArgsOK(q) /\ q.who \in Sub
  BY <1>1 DEF SaveOK
<1>4. /\ t \in DocRow /\ t.owner = r.owner /\ t.aclOwner = r.aclOwner
      /\ t.editors = r.editors /\ t.viewers = r.viewers
  <2>1. CASE q.op \in {"edit", "flowedit", "sync"}
    <3>1. t = Overlay(q.draft, r) /\ q.draft \in Draft
      BY <1>2, <1>3, <2>1 DEF Applied, EditDraft, FlowDraft, SyncDraft, ArgsOK
    <3>2. PICK x : x = q.draft  OBVIOUS
    <3>3. x \in Draft  BY <3>1, <3>2
    <3>4. t = Overlay(x, r)  BY <3>1, <3>2
    <3>5. r \in DocRow  BY <1>3
    <3>6. t \in DocRow  BY <3>3, <3>4, <3>5, OverlayIs, Zenon
    <3>7. t.owner = r.owner /\ t.aclOwner = r.aclOwner
      BY <3>3, <3>4, <3>5, OverlayIs, Zenon
    <3>8. t.editors = r.editors /\ t.viewers = r.viewers
      BY <3>3, <3>4, <3>5, OverlayIs, Zenon
    <3> QED  BY <3>6, <3>7, <3>8
  <2>3. CASE q.op = "connect"
    <3>1. t = [r EXCEPT !.git = TRUE]
      BY <1>2, <2>3 DEF Applied, ConnectDraft
    <3> QED  BY <1>3, <3>1 DEF DocRow
  <2>4. CASE q.op = "deploy"
    <3>1. t = [r EXCEPT !.deployed = q.verdict] /\ q.verdict \in {"deployed", "failed"}
      BY <1>2, <1>3, <2>4 DEF Applied, DeployDraft, ArgsOK
    <3> QED  BY <1>3, <3>1 DEF DocRow, DeploymentStatus
  <2> QED  BY <2>1, <2>3, <2>4
<1>5. PICK w : /\ Meaning(r) = [owner |-> r.owner, text |-> r.text, deployed |-> r.deployed,
                                git |-> r.git, roles |-> w]
               /\ Meaning(t) = [owner |-> r.owner, text |-> t.text, deployed |-> t.deployed,
                                git |-> t.git, roles |-> w]
  BY <1>3, <1>4, PlainChange, Zenon
<1>6. PICK m : m = Meaning(r)  OBVIOUS
<1>7. m = [owner |-> r.owner, text |-> r.text, deployed |-> r.deployed, git |-> r.git, roles |-> w]
  BY <1>5, <1>6, Zenon
<1>7a. /\ \A x : [m EXCEPT !.deployed = x] = [owner |-> r.owner, text |-> r.text, deployed |-> x,
                                               git |-> r.git, roles |-> w]
       /\ \A x : [m EXCEPT !.git = x] = [owner |-> r.owner, text |-> r.text, deployed |-> r.deployed,
                                          git |-> x, roles |-> w]
       /\ \A x : [m EXCEPT !.roles = x] = [owner |-> r.owner, text |-> r.text, deployed |-> r.deployed,
                                            git |-> r.git, roles |-> x]
  BY <1>7, MeaningChange
<1>8. Meaning(t) = Meant(q, m)
  <2>1. CASE q.op \in {"edit", "flowedit", "sync"}
    <3>1. t = Overlay(q.draft, r) /\ q.draft \in Draft
      BY <1>2, <1>3, <2>1 DEF Applied, EditDraft, FlowDraft, SyncDraft, ArgsOK
    <3>2. PICK e : e = q.draft  OBVIOUS
    <3>3. e \in Draft  BY <3>1, <3>2
    <3>3a. t = Overlay(e, r)  BY <3>1, <3>2
    <3>3b. r \in DocRow  BY <1>3
    <3>3c. PICK x : x = [f \in Fields |-> IF f \in Given(e) THEN e.text[f] ELSE r.text[f]]
      OBVIOUS
    <3>3d. PICK y : y = IF "status" \in Given(e) THEN e.status ELSE r.deployed
      OBVIOUS
    <3>4. /\ t.git = r.git
          /\ t.text = [f \in Fields |-> IF f \in Given(e) THEN e.text[f] ELSE r.text[f]]
          /\ t.deployed = IF "status" \in Given(e) THEN e.status ELSE r.deployed
      BY <3>3, <3>3a, <3>3b, OverlayIs, Zenon
    <3>4a. t.text = x /\ t.deployed = y /\ t.git = r.git
      BY <3>4, <3>3c, <3>3d, Zenon
    <3>5. m.text = r.text /\ m.deployed = r.deployed
      BY <1>7, MeaningChange, Zenon
    <3>6. Meant(q, m) =
            [m EXCEPT !.text = [f \in Fields |-> IF f \in Given(q.draft) THEN q.draft.text[f]
                                                 ELSE m.text[f]],
                      !.deployed = IF "status" \in Given(q.draft) THEN q.draft.status
                                   ELSE m.deployed]
      BY <2>1 DEF Meant
    <3>7. Meant(q, m) = [m EXCEPT !.text = x, !.deployed = y]
      BY <3>2, <3>3c, <3>3d, <3>5, <3>6, Zenon
    <3>8. [m EXCEPT !.text = x, !.deployed = y] =
             [owner |-> r.owner, text |-> x, deployed |-> y, git |-> r.git, roles |-> w]
      <4>1. PICK n : n = [m EXCEPT !.text = x]  OBVIOUS
      <4>2. n = [owner |-> r.owner, text |-> x, deployed |-> r.deployed, git |-> r.git, roles |-> w]
        BY <1>7, <4>1
      <4>3. PICK k : k = [n EXCEPT !.deployed = y]  OBVIOUS
      <4>4. k = [owner |-> r.owner, text |-> x, deployed |-> y, git |-> r.git, roles |-> w]
        BY <4>2, <4>3
      <4> QED  BY <4>1, <4>3, <4>4, Zenon
    <3> QED  BY <1>5, <3>4a, <3>7, <3>8, Zenon
  <2>3. CASE q.op = "connect"
    <3>1. t = [r EXCEPT !.git = TRUE]
      BY <1>2, <2>3 DEF Applied, ConnectDraft
    <3>2. t.text = r.text /\ t.deployed = r.deployed /\ t.git = TRUE
      BY <1>3, <3>1 DEF DocRow
    <3>3. Meant(q, m) = [m EXCEPT !.git = TRUE]
      BY <2>3 DEF Meant
    <3>4. [m EXCEPT !.git = TRUE] =
             [owner |-> r.owner, text |-> r.text, deployed |-> r.deployed, git |-> TRUE, roles |-> w]
      BY <1>7a, Zenon
    <3> QED  BY <1>5, <3>2, <3>3, <3>4, Zenon
  <2>4. CASE q.op = "deploy"
    <3>1. t = [r EXCEPT !.deployed = q.verdict]
      BY <1>2, <2>4 DEF Applied, DeployDraft
    <3>2. t.text = r.text /\ t.deployed = q.verdict /\ t.git = r.git
      BY <1>3, <3>1 DEF DocRow
    <3>3. Meant(q, m) = [m EXCEPT !.deployed = q.verdict]
      BY <2>4 DEF Meant
    <3>4. [m EXCEPT !.deployed = q.verdict] =
             [owner |-> r.owner, text |-> r.text, deployed |-> q.verdict, git |-> r.git, roles |-> w]
      BY <1>7a, Zenon
    <3> QED  BY <1>5, <3>2, <3>3, <3>4, Zenon
  <2> QED  BY <2>1, <2>3, <2>4
<1>9. MeantAllowed(q, m)
  <2>1. q.op = "deploy" => MeantAllowed(q, m)
    BY DEF MeantAllowed
  <2>2. CASE q.op \in {"edit", "connect", "sync"}
    <3>1. RoleOf(r, q.who) \in {"owner", "editor"}
      BY <1>1, <2>2 DEF MayDo, Permitted, CanEdit
    <3>2. m.roles = [s \in Sub |-> RoleOf(r, s)]
      <4>1. m = [owner |-> r.owner, text |-> r.text, deployed |-> r.deployed, git |-> r.git,
                 roles |-> [s \in Sub |-> RoleOf(r, s)]]
        BY <1>3, <1>6, RowParts, Zenon
      <4> QED  BY <4>1, MeaningChange, Zenon
    <3>3. m.roles[q.who] \in {"owner", "editor"}
      BY <1>3, <3>1, <3>2, Zenon
    <3> QED  BY <2>2, <3>3 DEF MeantAllowed
  <2>3. CASE q.op = "flowedit"
    <3>1. m.owner = q.who
      <4>1. m.owner = r.owner  BY <1>7, MeaningChange, Zenon
      <4>2. r.owner = q.who  BY <1>1, <2>3 DEF MayDo, Permitted, Owns
      <4> QED  BY <4>1, <4>2
    <3> QED  BY <2>3, <3>1 DEF MeantAllowed
  <2> QED  BY <2>1, <2>2, <2>3
<1> QED  BY <1>1, <1>2, <1>4, <1>6, <1>8, <1>9, Zenon

\* Sharing: the row is normalised, and one role changes.
LEMMA SharingMeans ==
  ASSUME NEW q, SaveOK(q), MayDo(q), q.op \in {"share", "unshare"}
  PROVE  /\ Applied(q, q.copy) \in DocRow /\ Applied(q, q.copy).owner = q.copy.owner
         /\ Meaning(Applied(q, q.copy)) = Meant(q, Meaning(q.copy))
         /\ MeantAllowed(q, Meaning(q.copy))
<1>1. PICK r : r = q.copy  OBVIOUS
<1>2. PICK t : t = Applied(q, r)  OBVIOUS
<1>3. PICK n : n = Normalize(r)  OBVIOUS
<1>4. PICK role : role = IF q.op = "share" THEN q.role ELSE "none"  OBVIOUS
<1>5. /\ r \in DocRow /\ q.who \in Sub /\ q.sub \in Sub /\ q.sub # r.owner
      /\ r.owner = q.who /\ r.owner # NoSub
      /\ role \in {"viewer", "editor", "none"} /\ (q.op = "unshare" => role = "none")
      /\ (q.op = "share" => role = q.role)
  BY <1>1, <1>4, StoreAssumption DEF SaveOK, ArgsOK, MayDo, Permitted, Owns
<1>6. /\ n \in DocRow /\ n.owner = r.owner /\ n.aclOwner = r.owner /\ n.text = r.text
      /\ n.deployed = r.deployed /\ n.git = r.git
      /\ n.editors = r.editors \ {r.owner} /\ n.viewers = (r.viewers \ r.editors) \ {r.owner}
  BY <1>3, <1>5 DEF Normalize, ResolvedOwner, DocRow
<1>7. /\ t \in DocRow /\ t.owner = r.owner /\ t.aclOwner = r.owner /\ t.text = r.text
      /\ t.deployed = r.deployed /\ t.git = r.git
      /\ t.editors = (n.editors \ {q.sub}) \cup (IF role = "editor" THEN {q.sub} ELSE {})
      /\ t.viewers = (n.viewers \ {q.sub}) \cup (IF role = "viewer" THEN {q.sub} ELSE {})
  <2>1. CASE q.op = "share"
    <3>1. t = AddMember(r, q.sub, role)
      BY <1>2, <1>5, <2>1 DEF Applied
    <3> QED  BY <1>3, <1>5, <1>6, <3>1 DEF AddMember, DocRow
  <2>2. CASE q.op = "unshare"
    <3>1. t = RemoveMember(r, q.sub)
      BY <1>2, <2>2 DEF Applied
    <3> QED  BY <1>3, <1>5, <1>6, <2>2, <3>1 DEF RemoveMember, DocRow
  <2> QED  BY <2>1, <2>2
<1>8. RoleOf(t, q.sub) = role
  BY <1>5, <1>7 DEF RoleOf, ResolvedOwner
<1>9. \A s \in Sub : s # q.sub => RoleOf(t, s) = RoleOf(r, s)
  BY <1>5, <1>6, <1>7 DEF RoleOf, ResolvedOwner
<1>10. PICK w : /\ Meaning(r) = [owner |-> r.owner, text |-> r.text, deployed |-> r.deployed,
                                 git |-> r.git, roles |-> w]
                /\ Meaning(t) = [owner |-> r.owner, text |-> r.text, deployed |-> r.deployed,
                                 git |-> r.git, roles |-> [w EXCEPT ![q.sub] = role]]
  BY <1>5, <1>7, <1>8, <1>9, RoleChange
<1>11. PICK m : m = Meaning(r)  OBVIOUS
<1>12. m = [owner |-> r.owner, text |-> r.text, deployed |-> r.deployed, git |-> r.git, roles |-> w]
  BY <1>10, <1>11, Zenon
<1>12a. \A x : [m EXCEPT !.roles = x] = [owner |-> r.owner, text |-> r.text, deployed |-> r.deployed,
                                            git |-> r.git, roles |-> x]
  BY <1>12, MeaningChange
<1>13. Meant(q, m) = [m EXCEPT !.roles = [m.roles EXCEPT ![q.sub] = role]]
  BY <1>5 DEF Meant
<1>14. m.roles = w /\ m.owner = r.owner
  BY <1>12, MeaningChange, Zenon
<1>15. [m EXCEPT !.roles = [w EXCEPT ![q.sub] = role]] =
          [owner |-> r.owner, text |-> r.text, deployed |-> r.deployed, git |-> r.git,
           roles |-> [w EXCEPT ![q.sub] = role]]
  BY <1>12a, Zenon
<1>16. Meaning(t) = Meant(q, m)
  BY <1>10, <1>13, <1>14, <1>15, Zenon
<1>17. MeantAllowed(q, m)
  BY <1>5, <1>14 DEF MeantAllowed
<1> QED  BY <1>1, <1>2, <1>7, <1>11, <1>16, <1>17, Zenon

\* A deletion leaves none, and only the owner deletes.
LEMMA DeletionMeans ==
  ASSUME NEW q, SaveOK(q), MayDo(q), q.op \in {"delete", "flowdelete"}
  PROVE  /\ Applied(q, q.copy) = NoRow
         /\ Meaning(Applied(q, q.copy)) = Meant(q, Meaning(q.copy))
         /\ MeantAllowed(q, Meaning(q.copy))
<1>1. PICK r : r = q.copy  OBVIOUS
<1>2. PICK m : m = Meaning(r)  OBVIOUS
<1>3. r \in DocRow /\ r.owner = q.who
  BY <1>1 DEF SaveOK, MayDo, Permitted, Owns
<1>4. m.owner = r.owner
  <2>1. m = [owner |-> r.owner, text |-> r.text, deployed |-> r.deployed, git |-> r.git,
             roles |-> [s \in Sub |-> RoleOf(r, s)]]
    BY <1>2, <1>3, RowParts, Zenon
  <2> QED  BY <2>1, MeaningChange, Zenon
<1>5. MeantAllowed(q, m)
  BY <1>3, <1>4 DEF MeantAllowed
<1>6. Applied(q, r) = NoRow /\ Meant(q, m) = NoRow
  BY DEF Applied, Meant
<1>7. Meaning(NoRow) = NoRow
  BY DEF Meaning
<1> QED  BY <1>1, <1>2, <1>5, <1>6, <1>7, Zenon

-----------------------------------------------------------------------------
(* Requests under way.                                                     *)

\* A request is never idle.
LEMMA BusyRequest ==
  ASSUME NEW q, SaveKeys \subseteq DOMAIN q
  PROVE  q # Idle
<1>1. "doc" \in DOMAIN q  BY DEF SaveKeys
<1>2. DOMAIN Idle = {"op"}  BY DEF Idle
<1> QED  BY <1>1, <1>2

\* What is asked, by the kind of document.
LEMMA RequestParts ==
  ASSUME NEW d, NEW r, NEW q \in Requests(d, r)
  PROVE  /\ "op" \in DOMAIN q /\ DOMAIN q \subseteq {"op", "draft", "verdict", "sub", "role"}
         /\ IF d \in FlowDoc THEN q.op \in FlowOps ELSE q.op \in DocOps
         /\ q.op # "import"
         /\ q.op \in {"edit", "flowedit", "sync"} => "draft" \in DOMAIN q /\ q.draft \in Draft
         /\ q.op \in {"share", "unshare"} => "sub" \in DOMAIN q /\ q.sub \in Sub /\ q.sub # r.owner
         /\ q.op = "share" => "role" \in DOMAIN q /\ q.role \in {"viewer", "editor"}
         /\ q.op = "deploy" => "verdict" \in DOMAIN q /\ q.verdict \in {"deployed", "failed"}
<1>1. CASE d \in FlowDoc
  <2>1. q \in [op : {"flowedit"}, draft : Draft] \cup [op : {"flowdelete"}]
    BY <1>1, StoreAssumption DEF Requests, FlowRequests
  <2>2. CASE q \in [op : {"flowedit"}, draft : Draft]
    BY <1>1, <2>2 DEF FlowOps
  <2>3. CASE q \in [op : {"flowdelete"}]
    BY <1>1, <2>3 DEF FlowOps
  <2> QED  BY <2>1, <2>2, <2>3
<1>2. CASE d \notin FlowDoc
  <2>1. \/ q \in [op : {"edit"}, draft : Draft]
        \/ q \in [op : {"delete"}]
        \/ q \in [op : {"deploy"}, verdict : {"deployed", "failed"}]
        \/ q \in [op : {"share"}, sub : Sub \ {r.owner}, role : {"viewer", "editor"}]
        \/ q \in [op : {"unshare"}, sub : Sub \ {r.owner}]
        \/ q \in [op : {"connect"}]
        \/ q \in [op : {"sync"}, draft : Draft]
    BY <1>2, StoreAssumption DEF Requests, SharingRequests, GitRequests
  <2>2. CASE q \in [op : {"edit"}, draft : Draft]
    BY <1>2, <2>2 DEF DocOps
  <2>3. CASE q \in [op : {"delete"}]
    BY <1>2, <2>3 DEF DocOps
  <2>4. CASE q \in [op : {"deploy"}, verdict : {"deployed", "failed"}]
    BY <1>2, <2>4 DEF DocOps
  <2>5. CASE q \in [op : {"share"}, sub : Sub \ {r.owner}, role : {"viewer", "editor"}]
    BY <1>2, <2>5 DEF DocOps
  <2>6. CASE q \in [op : {"unshare"}, sub : Sub \ {r.owner}]
    BY <1>2, <2>6 DEF DocOps
  <2>7. CASE q \in [op : {"connect"}]
    BY <1>2, <2>7 DEF DocOps
  <2>8. CASE q \in [op : {"sync"}, draft : Draft]
    BY <1>2, <2>8 DEF DocOps
  <2> QED  BY <2>1, <2>2, <2>3, <2>4, <2>5, <2>6, <2>7, <2>8
<1> QED  BY <1>1, <1>2

\* A request just taken up.
Taken(u, d, who, copy) ==
  /\ SaveOK(u) /\ MayDo(u)
  /\ u.doc = d /\ u.who = who /\ u.copy = copy /\ u.stage = "work" /\ u.straddled = FALSE

\* The row it was read from permits it.
LEMMA TakenUp ==
  ASSUME NEW d \in Doc, NEW r \in DocRow, NEW who \in Sub, NEW q \in Requests(d, r),
         Permitted(q.op, r, who), ideal[d] = Meaning(r)
  PROVE  /\ Taken(Underway(q, d, who, r, "work"), d, who, r)
         /\ Underway(q, d, who, r, "work").op # "import"
<1>0. PICK u : u = Underway(q, d, who, r, "work")  OBVIOUS
<1>1. /\ DOMAIN u = DOMAIN q \cup {"doc", "who", "copy", "stage", "straddled", "seen"}
      /\ u.doc = d /\ u.who = who /\ u.copy = r /\ u.stage = "work" /\ u.straddled = FALSE
      /\ u.seen = ideal[d]
      /\ \A k \in DOMAIN q \ {"doc", "who", "copy", "stage", "straddled", "seen"} : u[k] = q[k]
  BY <1>0 DEF Underway
<1>2. \A k \in DOMAIN q : u[k] = q[k]
  BY <1>1, RequestParts
<1>3. u.op = q.op /\ SaveKeys \subseteq DOMAIN u
  BY <1>1, <1>2, RequestParts DEF SaveKeys
<1>4. ArgsOK(u)
  <2>1. \A k \in DOMAIN q : k \in DOMAIN u /\ u[k] = q[k]
    BY <1>1, <1>2
  <2>2. q.op \in {"edit", "flowedit", "sync"} => "draft" \in DOMAIN q /\ q.draft \in Draft
    BY RequestParts
  <2>3. /\ q.op \in {"share", "unshare"} => "sub" \in DOMAIN q /\ q.sub \in Sub
        /\ q.op = "share" => "role" \in DOMAIN q /\ q.role \in {"viewer", "editor"}
        /\ q.op = "deploy" => "verdict" \in DOMAIN q /\ q.verdict \in {"deployed", "failed"}
    BY RequestParts
  <2> QED  BY <1>3, <2>1, <2>2, <2>3 DEF ArgsOK
<1>5. SaveOK(u)
  <2>1. IF d \in FlowDoc THEN u.op \in FlowOps ELSE u.op \in DocOps
    BY <1>3, RequestParts
  <2>2. u.op # "import" /\ u.seen = Meaning(u.copy)
    BY <1>1, <1>3, RequestParts
  <2> QED  BY <1>1, <1>3, <1>4, <2>1, <2>2 DEF SaveOK
<1>6. MayDo(u)
  <2>1. u.op \in {"share", "unshare"} => u.sub # r.owner
    BY <1>2, <1>3, RequestParts
  <2> QED  BY <1>1, <1>3, <2>1 DEF MayDo
<1>7. Taken(u, d, who, r) /\ u.op # "import"
  BY <1>1, <1>3, <1>5, <1>6, RequestParts DEF Taken
<1> QED  BY <1>0, <1>7, Zenon

\* An import holds the JSON.
LEMMA TakenIn ==
  ASSUME NEW d \in Doc \ FlowDoc, NEW r \in Import, NEW who \in Sub, ideal[d] = NoRow
  PROVE  /\ Taken(Underway([op |-> "import"], d, who, r, "work"), d, who, r)
         /\ Underway([op |-> "import"], d, who, r, "work").op = "import"
<1>0. PICK q, u : q = [op |-> "import"] /\ u = Underway(q, d, who, r, "work")  OBVIOUS
<1>1. /\ DOMAIN u = DOMAIN q \cup {"doc", "who", "copy", "stage", "straddled", "seen"}
      /\ u.doc = d /\ u.who = who /\ u.copy = r /\ u.stage = "work" /\ u.straddled = FALSE
      /\ u.seen = ideal[d]
      /\ \A k \in DOMAIN q \ {"doc", "who", "copy", "stage", "straddled", "seen"} : u[k] = q[k]
  BY <1>0 DEF Underway
<1>2. u.op = "import" /\ SaveKeys \subseteq DOMAIN u
  BY <1>0, <1>1 DEF SaveKeys
<1>3. SaveOK(u)
  <2>1. r \in DocRow
    BY StoreAssumption
  <2>2. ArgsOK(u)
    BY <1>2 DEF ArgsOK
  <2> QED  BY <1>1, <1>2, <2>1, <2>2 DEF SaveOK, DocOps
<1>4. MayDo(u)
  BY <1>2 DEF MayDo
<1>5. Taken(u, d, who, r) /\ u.op = "import"
  BY <1>1, <1>2, <1>3, <1>4 DEF Taken
<1> QED  BY <1>0, <1>5, Zenon

\* The mark on a request whose document was written changes nothing else.
LEMMA MarkedRequest ==
  ASSUME NEW q, SaveOK(q), MayDo(q), NEW v, v = [q EXCEPT !.straddled = TRUE]
  PROVE  /\ SaveOK(v) /\ MayDo(v) /\ v.straddled = TRUE
         /\ v.doc = q.doc /\ v.who = q.who
<1>1. /\ DOMAIN v = DOMAIN q /\ v.straddled = TRUE
      /\ \A k \in DOMAIN q : k # "straddled" => v[k] = q[k]
  BY DEF SaveOK, SaveKeys
<1>2. /\ v.doc = q.doc /\ v.who = q.who /\ v.op = q.op /\ v.copy = q.copy /\ v.stage = q.stage
      /\ v.seen = q.seen
  BY <1>1 DEF SaveOK, SaveKeys
<1>3. \A k \in {"draft", "sub", "role", "verdict"} : k \in DOMAIN q => v[k] = q[k]
  BY <1>1
<1>4. ArgsOK(v)
  BY <1>1, <1>2, <1>3 DEF SaveOK, ArgsOK
<1>5. SaveOK(v)
  BY <1>1, <1>2, <1>4 DEF SaveOK
<1>6. MayDo(v)
  BY <1>2, <1>3 DEF MayDo, SaveOK, ArgsOK
<1> QED  BY <1>1, <1>2, <1>5, <1>6

-----------------------------------------------------------------------------
(* The steps of the store.                                                 *)

\* A step of one request that writes nothing.
LEMMA OneRequest ==
  ASSUME StoreInv, NEW h \in Saver, NEW v, saves' = [saves EXCEPT ![h] = v],
         UNCHANGED <<docs, ideal>>, drawn \subseteq drawn', drawn' \subseteq Doc,
         saved' \in 0..MaxSaves,
         v # Idle =>
           /\ SaveOK(v) /\ MayDo(v) /\ v.doc \in drawn'
           /\ v.doc \in FlowDoc =>
                /\ docs[v.doc] # NoRow => docs[v.doc].owner = v.who
                /\ \A k \in Saver : k # h /\ saves[k] # Idle /\ saves[k].doc = v.doc
                                      => saves[k].who = v.who
           /\ Current(v) => IF v.op = "import" THEN docs[v.doc] = NoRow
                            ELSE docs[v.doc] = v.copy
  PROVE  StoreInv'
<1>1. /\ saves'[h] = v /\ saves' = [x \in Saver |-> saves'[x]]
      /\ \A x \in Saver : x # h => saves'[x] = saves[x]
  BY DEF StoreInv, StoreShape
<1>2. StoreShape'
  <2>1. \A x \in Saver : saves'[x] # Idle => SaveOK(saves'[x]) /\ MayDo(saves'[x])
    BY <1>1 DEF StoreInv, StoreShape
  <2> QED  BY <1>1, <2>1 DEF StoreInv, StoreShape
<1>3. DrawnInv'
  BY <1>1 DEF StoreInv, DrawnInv
<1>4. FlowOwnerInv'
  <2> SUFFICES ASSUME NEW x \in Saver, saves'[x] # Idle, saves'[x].doc \in FlowDoc
               PROVE  /\ docs[saves'[x].doc] # NoRow => docs[saves'[x].doc].owner = saves'[x].who
                      /\ \A k \in Saver : saves'[k] # Idle /\ saves'[k].doc = saves'[x].doc
                                            => saves'[k].who = saves'[x].who
    BY DEF FlowOwnerInv
  <2>1. CASE x = h
    BY <1>1, <2>1
  <2>2. CASE x # h
    BY <1>1, <2>2 DEF StoreInv, FlowOwnerInv
  <2> QED  BY <2>1, <2>2
<1>5. CurrentInv'
  <2> SUFFICES ASSUME NEW x \in Saver, Current(saves'[x])
               PROVE  IF saves'[x].op = "import" THEN docs[saves'[x].doc] = NoRow
                      ELSE docs[saves'[x].doc] = saves'[x].copy
    BY DEF CurrentInv, Current
  <2>1. CASE x = h
    BY <1>1, <2>1 DEF Current
  <2>2. CASE x # h
    BY <1>1, <2>2 DEF StoreInv, CurrentInv
  <2> QED  BY <2>1, <2>2
<1>6. DocsSayWhatWasAsked'
  BY DEF StoreInv, DocsSayWhatWasAsked, Meaning, RoleOf, ResolvedOwner
<1> QED  BY <1>2, <1>3, <1>4, <1>5, <1>6 DEF StoreInv

\* A step that writes a document: whoever works on it is out of date.
LEMMA OneDocument ==
  ASSUME StoreInv, NEW h \in Saver, NEW d \in Doc, NEW t \in DocRow \cup {NoRow},
         docs' = [docs EXCEPT ![d] = t], ideal' = [ideal EXCEPT ![d] = Meaning(t)],
         saves' = Straddled(d, h), drawn \subseteq drawn', drawn' \subseteq Doc, d \in drawn',
         saved' \in 0..MaxSaves,
         d \in FlowDoc /\ t # NoRow =>
           \A k \in Saver : k # h /\ saves[k] # Idle /\ saves[k].doc = d => saves[k].who = t.owner
  PROVE  StoreInv'
<1>1. /\ docs'[d] = t /\ docs' \in [Doc -> DocRow \cup {NoRow}]
      /\ \A e \in Doc : e # d => docs'[e] = docs[e]
  BY DEF StoreInv, StoreShape
<1>2. /\ ideal'[d] = Meaning(t) /\ ideal' = [e \in Doc |-> ideal'[e]]
      /\ \A e \in Doc : e # d => ideal'[e] = ideal[e]
  BY DEF StoreInv, StoreShape
<1>3. saves' = [x \in Saver |-> saves'[x]]
  BY Zenon DEF Straddled
<1>4. ASSUME NEW x \in Saver
      PROVE  saves'[x] = IF x # h /\ saves[x] # Idle /\ saves[x].doc = d
                            /\ (d \in FlowDoc \/ saves[x].op = "import" => saves[x].stage = "write")
                         THEN [saves[x] EXCEPT !.straddled = TRUE]
                         ELSE IF x = h THEN Idle ELSE saves[x]
  BY Zenon DEF Straddled
<1>5. ASSUME NEW x \in Saver, saves'[x] # Idle
      PROVE  /\ x # h /\ saves[x] # Idle /\ SaveOK(saves'[x]) /\ MayDo(saves'[x])
             /\ saves'[x].doc = saves[x].doc /\ saves'[x].who = saves[x].who
             /\ Current(saves'[x]) => saves'[x] = saves[x] /\ saves[x].doc # d
  <2>1. x # h /\ saves[x] # Idle
    BY <1>4, <1>5
  <2>2. SaveOK(saves[x]) /\ MayDo(saves[x])
    BY <2>1 DEF StoreInv, StoreShape
  <2>3. CASE saves[x].doc = d /\ (d \in FlowDoc \/ saves[x].op = "import" => saves[x].stage = "write")
    <3>1. PICK v : v = [saves[x] EXCEPT !.straddled = TRUE]  OBVIOUS
    <3>2. saves'[x] = v
      BY <1>4, <2>1, <2>3, <3>1
    <3>3. SaveOK(v) /\ MayDo(v) /\ v.straddled = TRUE /\ v.doc = saves[x].doc /\ v.who = saves[x].who
      BY <2>2, <3>1, MarkedRequest
    <3> QED  BY <2>1, <3>2, <3>3 DEF Current
  <2>4. CASE ~(saves[x].doc = d /\ (d \in FlowDoc \/ saves[x].op = "import" => saves[x].stage = "write"))
    <3>1. saves'[x] = saves[x]
      BY <1>4, <2>1, <2>4
    <3>2. Current(saves[x]) => saves[x].doc # d
      BY <2>2, <2>4 DEF Current
    <3> QED  BY <2>1, <2>2, <3>1, <3>2
  <2> QED  BY <2>3, <2>4
<1>6. StoreShape'
  <2>1. \A x \in Saver : saves'[x] # Idle => SaveOK(saves'[x]) /\ MayDo(saves'[x])
    BY <1>5
  <2> QED  BY <1>1, <1>2, <1>3, <2>1 DEF StoreShape
<1>7. DrawnInv'
  <2>1. \A e \in Doc : docs'[e] # NoRow => e \in drawn'
    BY <1>1 DEF StoreInv, DrawnInv
  <2>2. \A x \in Saver : saves'[x] # Idle => saves'[x].doc \in drawn'
    BY <1>5 DEF StoreInv, DrawnInv
  <2> QED  BY <2>1, <2>2 DEF DrawnInv
<1>8. FlowOwnerInv'
  <2> SUFFICES ASSUME NEW x \in Saver, saves'[x] # Idle, saves'[x].doc \in FlowDoc
               PROVE  /\ docs'[saves'[x].doc] # NoRow => docs'[saves'[x].doc].owner = saves'[x].who
                      /\ \A k \in Saver : saves'[k] # Idle /\ saves'[k].doc = saves'[x].doc
                                            => saves'[k].who = saves'[x].who
    BY DEF FlowOwnerInv
  <2>1. x # h /\ saves[x] # Idle /\ saves'[x].doc = saves[x].doc /\ saves'[x].who = saves[x].who
        /\ saves[x].doc \in Doc
    BY <1>5 DEF StoreInv, StoreShape, SaveOK
  <2>2. \A k \in Saver : saves'[k] # Idle => saves[k] # Idle /\ saves'[k].doc = saves[k].doc
                                             /\ saves'[k].who = saves[k].who
    BY <1>5
  <2>3. \A k \in Saver : saves'[k] # Idle /\ saves'[k].doc = saves'[x].doc
                           => saves'[k].who = saves'[x].who
    BY <2>1, <2>2 DEF StoreInv, FlowOwnerInv
  <2>4. docs'[saves'[x].doc] # NoRow => docs'[saves'[x].doc].owner = saves'[x].who
    <3>1. CASE saves[x].doc = d
      BY <1>1, <2>1, <3>1
    <3>2. CASE saves[x].doc # d
      BY <1>1, <2>1, <3>2 DEF StoreInv, FlowOwnerInv
    <3> QED  BY <3>1, <3>2
  <2> QED  BY <2>3, <2>4
<1>9. CurrentInv'
  <2> SUFFICES ASSUME NEW x \in Saver, Current(saves'[x])
               PROVE  IF saves'[x].op = "import" THEN docs'[saves'[x].doc] = NoRow
                      ELSE docs'[saves'[x].doc] = saves'[x].copy
    BY DEF CurrentInv, Current
  <2>1. saves'[x] = saves[x] /\ saves[x].doc # d /\ saves[x].doc \in Doc
    BY <1>5 DEF Current, SaveOK
  <2> QED  BY <1>1, <2>1 DEF StoreInv, CurrentInv
<1>10. DocsSayWhatWasAsked'
  <2>1. \A e \in Doc : Meaning(docs'[e]) = ideal'[e]
    <3> SUFFICES ASSUME NEW e \in Doc PROVE Meaning(docs'[e]) = ideal'[e]
      OBVIOUS
    <3>1. CASE e = d
      BY <1>1, <1>2, <3>1, Zenon
    <3>2. CASE e # d
      BY <1>1, <1>2, <3>2, Zenon DEF StoreInv, DocsSayWhatWasAsked
    <3> QED  BY <3>1, <3>2
  <2> QED  BY <2>1 DEF DocsSayWhatWasAsked, Meaning, RoleOf, ResolvedOwner
<1> QED  BY <1>6, <1>7, <1>8, <1>9, <1>10 DEF StoreInv

LEMMA StoreStarts == StoreInit => StoreInv
<1> SUFFICES ASSUME StoreInit PROVE StoreInv
  OBVIOUS
<1>1. /\ \A d \in Doc : docs[d] = NoRow /\ ideal[d] = NoRow
      /\ \A h \in Saver : saves[h] = Idle
  BY Zenon DEF StoreInit
<1>2. StoreShape
  BY <1>1, StoreAssumption DEF StoreInit, StoreShape
<1>3. DrawnInv /\ FlowOwnerInv
  BY <1>1 DEF DrawnInv, FlowOwnerInv
<1>4. CurrentInv
  BY <1>1 DEF CurrentInv, Current
<1>5. DocsSayWhatWasAsked
  BY <1>1, Zenon DEF DocsSayWhatWasAsked, Meaning
<1> QED  BY <1>2, <1>3, <1>4, <1>5 DEF StoreInv

\* A document made under a new id.
LEMMA CreateStep == ASSUME StoreInv, NEW h \in Saver, CreateDoc(h) PROVE StoreInv'
<1>1. PICK d \in Doc \ drawn, who \in Sub, x \in {x \in Specs : Fields \subseteq Given(x)} :
        LET r == [owner |-> who, text |-> x.text,
                  deployed |-> IF d \in FlowDoc THEN "not" ELSE x.status,
                  git |-> FALSE, editors |-> {}, viewers |-> {}, aclOwner |-> NoSub] IN
        /\ docs' = [docs EXCEPT ![d] = r] /\ ideal' = [ideal EXCEPT ![d] = Meaning(r)]
        /\ drawn' = drawn \cup {d} /\ saves' = Straddled(d, h)
  BY Zenon DEF CreateDoc
<1>2. PICK y : y = IF d \in FlowDoc THEN "not" ELSE x.status  OBVIOUS
<1>3. x.text \in [Fields -> Content] /\ y \in DeploymentStatus
  <2>1. x \in Draft /\ x.status \in DeploymentStatus /\ Fields \subseteq Given(x)
    BY StoreAssumption
  <2>2. x.text \in [Fields -> Content \cup {NotGiven}]
    BY <2>1 DEF Draft
  <2>3. \A f \in Fields : x.text[f] # NotGiven
    BY <2>1 DEF Given, Fields
  <2> QED  BY <1>2, <2>1, <2>2, <2>3 DEF DeploymentStatus
<1>4. PICK r : r = [owner |-> who, text |-> x.text, deployed |-> y, git |-> FALSE,
                    editors |-> {}, viewers |-> {}, aclOwner |-> NoSub]
  OBVIOUS
<1>5. r \in DocRow  BY <1>3, <1>4 DEF DocRow
<1>6. /\ docs' = [docs EXCEPT ![d] = r] /\ ideal' = [ideal EXCEPT ![d] = Meaning(r)]
      /\ drawn' = drawn \cup {d} /\ saves' = Straddled(d, h)
  BY <1>1, <1>2, <1>4, Zenon
<1>7. saved' \in 0..MaxSaves
  BY StoreAssumption DEF CreateDoc, Accept, StoreInv, StoreShape
<1>8. \A k \in Saver : saves[k] # Idle => saves[k].doc # d
  BY DEF StoreInv, DrawnInv
<1>9. drawn \subseteq drawn' /\ drawn' \subseteq Doc /\ d \in drawn'
  BY <1>6 DEF StoreInv, StoreShape
<1> QED  BY <1>5, <1>6, <1>7, <1>8, <1>9, OneDocument

\* An import, which writes later.
LEMMA ImportStep == ASSUME StoreInv, NEW h \in Saver, ImportDoc(h) PROVE StoreInv'
<1>1. PICK d \in Doc \ FlowDoc, who \in Sub, r \in Import :
        /\ docs[d] = NoRow /\ drawn' = drawn \cup {d}
        /\ saves' = [saves EXCEPT ![h] = Underway([op |-> "import"], d, who, r, "work")]
  BY Zenon DEF ImportDoc
<1>2. PICK v : v = Underway([op |-> "import"], d, who, r, "work")  OBVIOUS
<1>2a. ideal[d] = NoRow
  BY <1>1, Zenon DEF StoreInv, DocsSayWhatWasAsked, Meaning
<1>3a. Taken(v, d, who, r) /\ v.op = "import"
  BY <1>2, <1>2a, TakenIn, Zenon
<1>3. /\ SaveOK(v) /\ MayDo(v) /\ v.op = "import" /\ v.doc = d /\ v.stage = "work"
  BY <1>3a DEF Taken
<1>4. saves' = [saves EXCEPT ![h] = v]
  BY <1>1, <1>2, Zenon
<1>5. saved' \in 0..MaxSaves /\ UNCHANGED <<docs, ideal>>
  BY StoreAssumption DEF ImportDoc, Accept, StoreInv, StoreShape
<1>6. drawn \subseteq drawn' /\ drawn' \subseteq Doc /\ d \in drawn'
  BY <1>1 DEF StoreInv, StoreShape
<1>7. ~Current(v)
  BY <1>3 DEF Current
<1> QED  BY <1>3, <1>4, <1>5, <1>6, <1>7, OneRequest

\* Any other request, which the row permits.
LEMMA ReadStep == ASSUME StoreInv, NEW h \in Saver, ReadDoc(h) PROVE StoreInv'
<1>1. PICK d \in Doc, who \in Sub :
        /\ docs[d] # NoRow
        /\ \E q \in Requests(d, docs[d]) :
             /\ Permitted(q.op, docs[d], who)
             /\ saves' = [saves EXCEPT ![h] = Underway(q, d, who, docs[d], "work")]
  BY Zenon DEF ReadDoc
<1>2. PICK q \in Requests(d, docs[d]) :
        /\ Permitted(q.op, docs[d], who)
        /\ saves' = [saves EXCEPT ![h] = Underway(q, d, who, docs[d], "work")]
  BY <1>1, Zenon
<1>3. PICK v : v = Underway(q, d, who, docs[d], "work")  OBVIOUS
<1>4. docs[d] \in DocRow
  BY <1>1 DEF StoreInv, StoreShape
<1>4a. ideal[d] = Meaning(docs[d])
  BY Zenon DEF StoreInv, DocsSayWhatWasAsked
<1>5a. Taken(v, d, who, docs[d]) /\ v.op # "import"
  BY <1>2, <1>3, <1>4, <1>4a, TakenUp, Zenon
<1>5. /\ SaveOK(v) /\ MayDo(v) /\ v.op # "import"
      /\ v.doc = d /\ v.who = who /\ v.copy = docs[d]
  BY <1>5a DEF Taken
<1>6. saves' = [saves EXCEPT ![h] = v]
  BY <1>2, <1>3, Zenon
<1>7. saved' \in 0..MaxSaves /\ UNCHANGED <<docs, ideal, drawn>>
  BY StoreAssumption DEF ReadDoc, Accept, StoreInv, StoreShape
<1>8. d \in drawn /\ drawn \subseteq Doc
  BY <1>1 DEF StoreInv, StoreShape, DrawnInv
<1>9. d \in FlowDoc => docs[d].owner = who
  <2>1. d \in FlowDoc => v.op \in FlowOps
    BY <1>5 DEF SaveOK
  <2> QED  BY <1>5, <2>1 DEF MayDo, Permitted, Owns, FlowOps
<1>10. d \in FlowDoc => \A k \in Saver : saves[k] # Idle /\ saves[k].doc = d => saves[k].who = who
  BY <1>1, <1>9 DEF StoreInv, FlowOwnerInv
<1> QED  BY <1>5, <1>6, <1>7, <1>8, <1>9, <1>10, OneRequest

\* The storage looks again, and takes a flow's row as it is now.
LEMMA LookStep == ASSUME StoreInv, NEW h \in Saver, LookAgain(h) PROVE StoreInv'
<1>1. PICK q : q = saves[h]  OBVIOUS
<1>2. q # Idle /\ SaveOK(q) /\ MayDo(q)
  BY <1>1 DEF LookAgain, StoreInv, StoreShape
<1>3. UNCHANGED <<docs, ideal, drawn, saved>> /\ drawn \subseteq Doc /\ saved \in 0..MaxSaves
  BY DEF LookAgain, StoreInv, StoreShape
<1>4. CASE Refused(q)
  <2>1. saves' = [saves EXCEPT ![h] = Idle]
    BY <1>1, <1>4 DEF LookAgain
  <2> QED  BY <1>3, <2>1, OneRequest
<1>5. CASE ~Refused(q)
  <2>0. (docs[q.doc] = NoRow) <=> (q.op = "import")
    BY <1>5 DEF Refused
  <2>1. PICK c, e : c = (IF q.doc \in FlowDoc THEN docs[q.doc] ELSE q.copy)
                    /\ e = (IF q.doc \in FlowDoc THEN ideal[q.doc] ELSE q.seen)
    OBVIOUS
  <2>2. PICK v : v = [q EXCEPT !.stage = "write", !.copy = c, !.seen = e]  OBVIOUS
  <2>3. saves' = [saves EXCEPT ![h] =
          [q EXCEPT !.stage = "write",
                    !.copy = IF q.doc \in FlowDoc THEN docs[q.doc] ELSE q.copy,
                    !.seen = IF q.doc \in FlowDoc THEN ideal[q.doc] ELSE q.seen]]
    BY <1>1, <1>5 DEF LookAgain
  <2>4. saves' = [saves EXCEPT ![h] = v]
    BY <2>1, <2>2, <2>3, Zenon
  <2>5. /\ DOMAIN v = DOMAIN q /\ v.stage = "write" /\ v.copy = c /\ v.seen = e
        /\ \A k \in DOMAIN q : k \notin {"stage", "copy", "seen"} => v[k] = q[k]
    BY <1>2, <2>2 DEF SaveOK, SaveKeys
  <2>6. v.doc = q.doc /\ v.who = q.who /\ v.op = q.op /\ v.straddled = q.straddled
    BY <1>2, <2>5 DEF SaveOK, SaveKeys
  <2>7. \A k \in {"draft", "sub", "role", "verdict"} : k \in DOMAIN q => v[k] = q[k]
    BY <2>5
  <2>8. ArgsOK(v)
    BY <1>2, <2>5, <2>6, <2>7 DEF SaveOK, ArgsOK
  <2>9. q.doc \in FlowDoc => q.op \in FlowOps /\ c = docs[q.doc] /\ docs[q.doc] \in DocRow
                             /\ docs[q.doc].owner = q.who
    BY <1>1, <1>2, <2>0, <2>1 DEF StoreInv, StoreShape, SaveOK, FlowOps, FlowOwnerInv
  <2>9a. q.doc \in FlowDoc => e = Meaning(c) /\ q.op # "import"
    <3>1. q.doc \in Doc => ideal[q.doc] = Meaning(docs[q.doc])
      BY Zenon DEF StoreInv, DocsSayWhatWasAsked
    <3> QED  BY <1>2, <2>1, <2>9, <3>1 DEF SaveOK, FlowOps
  <2>10. q.doc \notin FlowDoc => c = q.copy /\ e = q.seen
    BY <2>1
  <2>10a. v.seen = IF v.op = "import" THEN NoRow ELSE Meaning(v.copy)
    BY <1>2, <2>5, <2>6, <2>9a, <2>10 DEF SaveOK
  <2>11. SaveOK(v)
    BY <1>2, <2>5, <2>6, <2>8, <2>9, <2>10, <2>10a DEF SaveOK
  <2>12. MayDo(v)
    <3>1. CASE q.doc \in FlowDoc
      BY <2>5, <2>6, <2>9, <3>1 DEF MayDo, FlowOps, Permitted, Owns
    <3>2. CASE q.doc \notin FlowDoc
      BY <1>2, <2>5, <2>6, <2>7, <2>10, <3>2 DEF MayDo, SaveOK, ArgsOK
    <3> QED  BY <3>1, <3>2
  <2>13. Current(v) => IF v.op = "import" THEN docs[v.doc] = NoRow ELSE docs[v.doc] = v.copy
    <3>1. CASE q.op = "import"
      BY <2>0, <2>6, <3>1
    <3>2. CASE q.op # "import" /\ q.doc \in FlowDoc
      BY <2>5, <2>6, <2>9, <3>2
    <3>3. CASE q.op # "import" /\ q.doc \notin FlowDoc
      <4>1. Current(v) => Current(q)
        BY <1>2, <2>6, <3>3 DEF Current
      <4>2. Current(q) => docs[q.doc] = q.copy
        BY <1>1, <3>3 DEF StoreInv, CurrentInv
      <4> QED  BY <2>5, <2>6, <2>10, <3>3, <4>1, <4>2
    <3> QED  BY <3>1, <3>2, <3>3
  <2>14. v.doc \in drawn
    BY <1>1, <1>2, <2>6 DEF StoreInv, DrawnInv
  <2>15. v.doc \in FlowDoc =>
           /\ docs[v.doc] # NoRow => docs[v.doc].owner = v.who
           /\ \A k \in Saver : k # h /\ saves[k] # Idle /\ saves[k].doc = v.doc
                                 => saves[k].who = v.who
    BY <1>1, <1>2, <2>6 DEF StoreInv, FlowOwnerInv
  <2> QED  BY <1>3, <2>4, <2>11, <2>12, <2>13, <2>14, <2>15, OneRequest
<1> QED  BY <1>4, <1>5

\* A request makes of the document what it says, to the document as it is to
\* be or, where its copy is out of date, as it was to be when it took the copy.
LEMMA WrittenMeans ==
  ASSUME StoreInv, NEW h \in Saver, saves[h] # Idle, saves[h].stage = "write"
  PROVE  IdealAfter(saves[h]) = Meaning(Applied(saves[h], saves[h].copy))
<1>1. PICK q : q = saves[h]  OBVIOUS
<1>2. q # Idle /\ SaveOK(q) /\ MayDo(q) /\ q.straddled \in BOOLEAN
  BY <1>1 DEF StoreInv, StoreShape, SaveOK
<1>3. q.doc \in Doc /\ q.copy \in DocRow
  BY <1>2 DEF SaveOK
<1>4. PICK before : before = IF q.straddled THEN q.seen ELSE ideal[q.doc]  OBVIOUS
<1>5. before = IF q.op = "import" THEN NoRow ELSE Meaning(q.copy)
  <2>1. CASE q.straddled = TRUE
    BY <1>2, <1>4, <2>1 DEF SaveOK
  <2>2. CASE q.straddled = FALSE
    <3>1. Current(q)
      BY <1>1, <1>2, <2>2 DEF Current
    <3>2. docs[q.doc] = IF q.op = "import" THEN NoRow ELSE q.copy
      BY <1>1, <3>1 DEF StoreInv, CurrentInv
    <3>3. ideal[q.doc] = Meaning(docs[q.doc]) /\ Meaning(NoRow) = NoRow
      BY <1>3, Zenon DEF StoreInv, DocsSayWhatWasAsked, Meaning
    <3> QED  BY <1>4, <2>2, <3>2, <3>3
  <2> QED  BY <1>2, <2>1, <2>2
<1>6. IdealAfter(q) = IF before = NoRow
                      THEN IF q.op = "import" THEN Meaning(q.copy) ELSE NoRow
                      ELSE IF MeantAllowed(q, before) THEN Meant(q, before) ELSE before
  BY <1>4, Zenon DEF IdealAfter
<1>7. CASE q.op = "import"
  <2>1. Applied(q, q.copy) = q.copy
    BY <1>7 DEF Applied
  <2>2. IdealAfter(q) = Meaning(q.copy)
    BY <1>5, <1>6, <1>7
  <2> QED  BY <1>1, <2>1, <2>2, Zenon
<1>8. CASE q.op # "import"
  <2>1. before = Meaning(q.copy) /\ before # NoRow
    BY <1>3, <1>5, <1>8, RowParts
  <2>2. Meaning(Applied(q, q.copy)) = Meant(q, Meaning(q.copy)) /\ MeantAllowed(q, Meaning(q.copy))
    <3>1. \/ q.op \in {"edit", "flowedit", "sync", "connect", "deploy"}
          \/ q.op \in {"share", "unshare"} \/ q.op \in {"delete", "flowdelete"}
      BY <1>2, <1>8 DEF SaveOK, FlowOps, DocOps
    <3> QED  BY <1>2, <3>1, PlainMeans, SharingMeans, DeletionMeans, Zenon
  <2>3. IdealAfter(q) = Meant(q, before)
    BY <1>6, <2>1, <2>2, Zenon
  <2> QED  BY <1>1, <2>1, <2>2, <2>3, Zenon
<1> QED  BY <1>7, <1>8

\* The copy is put back.
LEMMA WriteStep == ASSUME StoreInv, NEW h \in Saver, WriteDoc(h) PROVE StoreInv'
<1>1. PICK q : q = saves[h]  OBVIOUS
<1>2. PICK t : t = Applied(q, q.copy)  OBVIOUS
<1>3. q # Idle /\ SaveOK(q) /\ MayDo(q) /\ q.stage = "write" /\ q.doc \in Doc /\ q.copy \in DocRow
  BY <1>1 DEF WriteDoc, StoreInv, StoreShape, SaveOK
<1>4. /\ docs' = [docs EXCEPT ![q.doc] = t] /\ saves' = Straddled(q.doc, h)
      /\ ideal' = [ideal EXCEPT ![q.doc] = IdealAfter(q)]
      /\ UNCHANGED <<drawn, saved>>
  BY <1>1, <1>2, Zenon DEF WriteDoc
<1>5. /\ t \in DocRow \cup {NoRow}
      /\ q.doc \in FlowDoc /\ t # NoRow => t.owner = q.who
  <2>1. CASE q.op \in {"edit", "flowedit", "sync", "connect", "deploy"}
    <3>1. t \in DocRow /\ t.owner = q.copy.owner
      BY <1>2, <1>3, <2>1, PlainMeans
    <3>2. q.doc \in FlowDoc => q.copy.owner = q.who
      BY <1>3 DEF SaveOK, MayDo, FlowOps, Permitted, Owns
    <3> QED  BY <3>1, <3>2
  <2>2. CASE q.op \in {"share", "unshare"}
    BY <1>2, <1>3, <2>2, SharingMeans DEF SaveOK, FlowOps
  <2>3. CASE q.op \in {"delete", "flowdelete"}
    BY <1>2, <1>3, <2>3, DeletionMeans
  <2>4. CASE q.op = "import"
    BY <1>2, <1>3, <2>4 DEF Applied, SaveOK, FlowOps
  <2> QED  BY <1>3, <2>1, <2>2, <2>3, <2>4 DEF SaveOK, FlowOps, DocOps
<1>6. IdealAfter(q) = Meaning(t)
  BY <1>1, <1>2, <1>3, WrittenMeans, Zenon
<1>7. ideal' = [ideal EXCEPT ![q.doc] = Meaning(t)]
  BY <1>4, <1>6, Zenon
<1>8. drawn \subseteq drawn' /\ drawn' \subseteq Doc /\ q.doc \in drawn' /\ saved' \in 0..MaxSaves
  BY <1>1, <1>3, <1>4 DEF StoreInv, StoreShape, DrawnInv
<1>9. q.doc \in FlowDoc /\ t # NoRow =>
        \A k \in Saver : k # h /\ saves[k] # Idle /\ saves[k].doc = q.doc => saves[k].who = t.owner
  BY <1>1, <1>3, <1>5 DEF StoreInv, FlowOwnerInv
<1> QED  BY <1>3, <1>4, <1>5, <1>7, <1>8, <1>9, OneDocument

\* A request that fails leaves everything as it is.
LEMMA FailStep == ASSUME StoreInv, NEW h \in Saver, RequestFails(h) PROVE StoreInv'
<1>1. /\ saves' = [saves EXCEPT ![h] = Idle] /\ UNCHANGED <<docs, ideal, drawn, saved>>
      /\ drawn \subseteq Doc /\ saved \in 0..MaxSaves
  BY DEF RequestFails, StoreInv, StoreShape
<1> QED  BY <1>1, OneRequest

\* A step that changes nothing keeps the invariant.
LEMMA StoreStutters == StoreInv /\ UNCHANGED storeVars => StoreInv'
<1> SUFFICES ASSUME StoreInv, UNCHANGED storeVars PROVE StoreInv'
  OBVIOUS
<1>1. StoreShape' /\ DrawnInv'
  BY DEF StoreInv, storeVars, StoreShape, DrawnInv
<1>2. FlowOwnerInv' /\ CurrentInv'
  BY DEF StoreInv, storeVars, FlowOwnerInv, CurrentInv, Current
<1>3. DocsSayWhatWasAsked'
  BY DEF StoreInv, storeVars, DocsSayWhatWasAsked, Meaning, RoleOf, ResolvedOwner
<1> QED  BY <1>1, <1>2, <1>3 DEF StoreInv

(* The inductive invariant of the store.                                   *)
THEOREM StoreInvariant == StoreSpec => []StoreInv
<1>1. StoreInit => StoreInv
  BY StoreStarts
<1>2. StoreInv /\ [StoreNext]_storeVars => StoreInv'
  BY StoreStutters, CreateStep, ImportStep, ReadStep, LookStep, WriteStep, FailStep DEF StoreNext
<1> QED  BY <1>1, <1>2, PTL DEF StoreSpec

(* Text, deployment, owner and everybody's role are what the requests made *)
(* of them one after the other; a request between whose read and whose     *)
(* write another wrote the document makes of it what it says to the one it *)
(* had read, and undoes the other and nothing else: for any number of      *)
(* callers, documents and requests.                                        *)
THEOREM StoreHolds == StoreSpec => []DocsSayWhatWasAsked
<1>1. StoreInv => DocsSayWhatWasAsked
  BY DEF StoreInv
<1> QED  BY <1>1, StoreInvariant, PTL

(* The tables hold rows, and a request under way a row or the JSON.        *)
THEOREM StoreTypes == StoreSpec => []StoreTypeOK
<1>1. StoreInv => StoreTypeOK
  BY DEF StoreInv, StoreShape, SaveOK, StoreTypeOK
<1> QED  BY <1>1, StoreInvariant, PTL

-----------------------------------------------------------------------------
(* The canvas as an exported template.                                     *)

Names(part) == DOMAIN part

\* What a joined template defines, and how it is put together.
LEMMA JoinNames == \A f, g : Names(f ++ g) = Names(f) \cup Names(g)
BY DEF ++, Names

LEMMA JoinAt ==
  \A f, g : \A n \in Names(f) \cup Names(g) :
    (f ++ g)[n] = IF n \in Names(f) THEN f[n] ELSE g[n]
BY DEF ++, Names

\* No resource refers to one that is as high or higher.
Level1 == {"CfnProviderRole", "RuntimeExecutionRole", "CognitoUserPool", "GatewayRole",
           "ToolLambdaRole", "KnowledgeBaseRole", "KBToolLambdaRole", "MemoryExecutionRole",
           "PolicyEngine", "McpCognitoUserPool", "McpServerRole", "EvaluationRole",
           "BedrockGuardrail"}
Level2 == {"CfnProviderLambda", "CognitoResourceServer", "CognitoUserPoolDomain",
           "BedrockKnowledgeBase", "AgentCoreMemory", "McpCognitoResourceServer",
           "McpCognitoDomain", "BedrockGuardrailVersion", "DynamicToolsLambda",
           "CustomerSupportToolsLambda"}
Level3 == {"AgentCodePackage", "CognitoUserPoolClient", "KBDataSource", "KBToolLambda",
           "McpCognitoClient", "McpServerCodePackage", "DynamicToolsLambdaPermission",
           "CustomerSupportToolsLambdaPermission"}
Level4 == {"AgentCoreGateway", "KBToolLambdaPermission", "McpServerRuntime"}
Level5 == {"DynamicToolsTarget", "CustomerSupportTarget", "KBToolTarget", "DefaultPolicy",
           "McpServerEndpoint"}
Level6 == {"McpOAuth2CredentialProvider"}
Level7 == {"McpServerGatewayTarget"}
Level8 == {"AgentCoreRuntime"}
Level9 == {"RuntimeEndpoint", "OnlineEvaluation"}

Others == CustomTargets(CustomTool) \cup (PolicyName(MaxPolicies) \ {"DefaultPolicy"})

Height(n) ==
  IF n \in Level1 THEN 1 ELSE IF n \in Level2 THEN 2 ELSE IF n \in Level3 THEN 3
  ELSE IF n \in Level4 THEN 4 ELSE IF n \in Level5 THEN 5 ELSE IF n \in Level6 THEN 6
  ELSE IF n \in Level7 THEN 7 ELSE IF n \in Level8 THEN 8 ELSE IF n \in Level9 THEN 9
  ELSE IF n \in CustomLambdas(CustomTool) THEN 2
  ELSE IF n \in CustomPermissions(CustomTool) THEN 3
  ELSE IF n \in Others THEN 5 ELSE 0

\* Each level has its height.
LEMMA Heights ==
  /\ \A n : Height(n) \in Nat
  /\ \A n \in Level1 : Height(n) = 1
  /\ \A n \in Level2 : Height(n) = 2
  /\ \A n \in Level3 : Height(n) = 3
  /\ \A n \in Level4 : Height(n) = 4
  /\ \A n \in Level5 : Height(n) = 5
  /\ \A n \in Level6 : Height(n) = 6
  /\ \A n \in Level7 : Height(n) = 7
  /\ \A n \in Level8 : Height(n) = 8
  /\ \A n \in Level9 : Height(n) = 9
<1>1. \A n : Height(n) \in Nat
  BY DEF Height
<1>2. \A n \in Level1 : Height(n) = 1
  BY DEF Height
<1>3. \A n \in Level2 : Height(n) = 2
  BY DEF Height, Level1, Level2
<1>4. \A n \in Level3 : Height(n) = 3
  BY DEF Height, Level1, Level2, Level3
<1>5. \A n \in Level4 : Height(n) = 4
  BY DEF Height, Level1, Level2, Level3, Level4
<1>6. \A n \in Level5 : Height(n) = 5
  BY DEF Height, Level1, Level2, Level3, Level4, Level5
<1>7. \A n \in Level6 : Height(n) = 6
  BY DEF Height, Level1, Level2, Level3, Level4, Level5, Level6
<1>8. \A n \in Level7 : Height(n) = 7
  BY DEF Height, Level1, Level2, Level3, Level4, Level5, Level6, Level7
<1>9. \A n \in Level8 : Height(n) = 8
  BY DEF Height, Level1, Level2, Level3, Level4, Level5, Level6, Level7, Level8
<1>10. \A n \in Level9 : Height(n) = 9
  BY DEF Height, Level1, Level2, Level3, Level4, Level5, Level6, Level7, Level8, Level9
<1> QED BY <1>1, <1>2, <1>3, <1>4, <1>5, <1>6, <1>7, <1>8, <1>9, <1>10

\* The names of each part.
LEMMA PartNames ==
  /\ Names(<< >>) = {}
  /\ Names(Provider) = {"CfnProviderRole", "CfnProviderLambda"}
  /\ Names(CodePackage) = {"AgentCodePackage"}
  /\ Names(RuntimeRole) = {"RuntimeExecutionRole"}
  /\ Names(CognitoPart) = {"CognitoUserPool", "CognitoResourceServer",
                           "CognitoUserPoolDomain", "CognitoUserPoolClient"}
  /\ Names(GatewayPart) = {"GatewayRole", "AgentCoreGateway"}
  /\ Names(ToolRole) = {"ToolLambdaRole"}
  /\ Names(MemoryPart) = {"MemoryExecutionRole", "AgentCoreMemory"}
  /\ Names(KnowledgeBasePart) = {"KnowledgeBaseRole", "BedrockKnowledgeBase", "KBDataSource"}
  /\ Names(McpCognitoPart) = {"McpCognitoUserPool", "McpCognitoResourceServer",
                              "McpCognitoDomain", "McpCognitoClient"}
  /\ Names(McpServerPart) = {"McpServerRole", "McpServerCodePackage", "McpServerRuntime",
                             "McpServerEndpoint"}
  /\ Names(McpTargetPart) = {"McpOAuth2CredentialProvider", "McpServerGatewayTarget"}
  /\ Names(EvaluationPart) = {"EvaluationRole", "OnlineEvaluation"}
  /\ Names(GuardrailPart) = {"BedrockGuardrail", "BedrockGuardrailVersion"}
  /\ \A o : Names(RuntimePart(o)) = {"AgentCoreRuntime", "RuntimeEndpoint"}
  /\ \A n : Names(PolicyParts(n)) = PolicyName(n)
  /\ \A l, p, t : Names(ToolLambda(l, p, t)) = {l, p, t}
<1> USE DEF Names
<1>1. Names(<< >>) = {}
  OBVIOUS
<1>2. /\ Names(Provider) = {"CfnProviderRole", "CfnProviderLambda"}
      /\ Names(CodePackage) = {"AgentCodePackage"}
      /\ Names(RuntimeRole) = {"RuntimeExecutionRole"}
  BY DEF Provider, CodePackage, RuntimeRole
<1>3. /\ Names(CognitoPart) = {"CognitoUserPool", "CognitoResourceServer",
                           "CognitoUserPoolDomain", "CognitoUserPoolClient"}
      /\ Names(GatewayPart) = {"GatewayRole", "AgentCoreGateway"}
  BY DEF CognitoPart, GatewayPart
<1>4. /\ Names(ToolRole) = {"ToolLambdaRole"}
      /\ Names(MemoryPart) = {"MemoryExecutionRole", "AgentCoreMemory"}
      /\ Names(KnowledgeBasePart) = {"KnowledgeBaseRole", "BedrockKnowledgeBase", "KBDataSource"}
  BY DEF ToolRole, MemoryPart, KnowledgeBasePart
<1>5. /\ Names(McpCognitoPart) = {"McpCognitoUserPool", "McpCognitoResourceServer",
                              "McpCognitoDomain", "McpCognitoClient"}
      /\ Names(McpServerPart) = {"McpServerRole", "McpServerCodePackage", "McpServerRuntime",
                             "McpServerEndpoint"}
      /\ Names(McpTargetPart) = {"McpOAuth2CredentialProvider", "McpServerGatewayTarget"}
  BY DEF McpCognitoPart, McpServerPart, McpTargetPart
<1>6. /\ Names(EvaluationPart) = {"EvaluationRole", "OnlineEvaluation"}
      /\ Names(GuardrailPart) = {"BedrockGuardrail", "BedrockGuardrailVersion"}
  BY DEF EvaluationPart, GuardrailPart
<1>7. \A o : Names(RuntimePart(o)) = {"AgentCoreRuntime", "RuntimeEndpoint"}
  BY DEF RuntimePart
<1>8. \A n : Names(PolicyParts(n)) = PolicyName(n)
  BY DEF PolicyParts
<1>9. \A l, p, t : Names(ToolLambda(l, p, t)) = {l, p, t}
  BY DEF ToolLambda
<1> QED BY <1>1, <1>2, <1>3, <1>4, <1>5, <1>6, <1>7, <1>8, <1>9

\* What each set of tools, the custom tools and the knowledge base add.
LEMMA ToolNames ==
  \A ids : Names(ToolParts(ids)) =
    (IF ids \cap Dynamic # {}
     THEN {"DynamicToolsLambda", "DynamicToolsLambdaPermission", "DynamicToolsTarget"} ELSE {})
    \cup (IF ids \cap CustomerSupport # {}
          THEN {"CustomerSupportToolsLambda", "CustomerSupportToolsLambdaPermission",
                "CustomerSupportTarget"} ELSE {})
<1> TAKE ids
<1> DEFINE D == When(ids \cap Dynamic # {},
                  ToolLambda("DynamicToolsLambda", "DynamicToolsLambdaPermission",
                             "DynamicToolsTarget"))
           C == When(ids \cap CustomerSupport # {},
                  ToolLambda("CustomerSupportToolsLambda",
                             "CustomerSupportToolsLambdaPermission", "CustomerSupportTarget"))
<1>1. Names(D) = IF ids \cap Dynamic # {}
        THEN {"DynamicToolsLambda", "DynamicToolsLambdaPermission", "DynamicToolsTarget"} ELSE {}
  <2>1. CASE ids \cap Dynamic # {}
    BY <2>1, PartNames DEF When
  <2>2. CASE ids \cap Dynamic = {}
    BY <2>2, PartNames DEF When
  <2> QED BY <2>1, <2>2
<1>2. Names(C) = IF ids \cap CustomerSupport # {}
        THEN {"CustomerSupportToolsLambda", "CustomerSupportToolsLambdaPermission",
              "CustomerSupportTarget"} ELSE {}
  <2>1. CASE ids \cap CustomerSupport # {}
    BY <2>1, PartNames DEF When
  <2>2. CASE ids \cap CustomerSupport = {}
    BY <2>2, PartNames DEF When
  <2> QED BY <2>1, <2>2
<1>3. ToolParts(ids) = D ++ C
  BY DEF ToolParts
<1> HIDE DEF D, C
<1> QED BY <1>1, <1>2, <1>3, JoinNames

LEMMA CustomNames ==
  \A customs : Names(CustomParts(customs)) =
    CustomLambdas(customs) \cup CustomPermissions(customs) \cup CustomTargets(customs)
<1> TAKE customs
<1> DEFINE L == [n \in CustomLambdas(customs) |->
                   {"ToolLambdaRole", "ArtifactsBucket", "CustomToolCodeKey", "DeploymentName"}]
           P == [n \in CustomPermissions(customs) |->
                   {CustomLambda(SafeName[c]) :
                      c \in {c \in customs : CustomPermission(SafeName[c]) = n}}]
           T == [n \in CustomTargets(customs) |->
                   {"AgentCoreGateway"}
                   \cup {CustomLambda(SafeName[c]) :
                           c \in {c \in customs : CustomTarget(SafeName[c]) = n}}]
<1>1. /\ Names(L) = CustomLambdas(customs) /\ Names(P) = CustomPermissions(customs)
      /\ Names(T) = CustomTargets(customs)
  BY DEF Names
<1>2. CustomParts(customs) = L ++ P ++ T
  BY DEF CustomParts
<1> HIDE DEF L, P, T
<1> QED BY <1>1, <1>2, JoinNames

LEMMA KnowledgeBaseNames ==
  \A mode : Names(KnowledgeBaseTool(mode)) =
    {"KBToolLambdaRole", "KBToolLambda", "KBToolLambdaPermission", "KBToolTarget"}
    \cup (IF mode # "existing"
          THEN {"KnowledgeBaseRole", "BedrockKnowledgeBase", "KBDataSource"} ELSE {})
<1> TAKE mode
<1> DEFINE K == [KBToolLambdaRole |-> {},
                 KBToolLambda |-> {"KBToolLambdaRole", "DeploymentName"}
                   \cup IF mode = "existing" THEN {"KnowledgeBaseId"} ELSE {"BedrockKnowledgeBase"},
                 KBToolLambdaPermission |-> {"KBToolLambda"},
                 KBToolTarget |-> {"AgentCoreGateway", "KBToolLambda", "KBToolLambdaPermission"}]
           B == When(mode # "existing", KnowledgeBasePart)
<1>1. Names(K) = {"KBToolLambdaRole", "KBToolLambda", "KBToolLambdaPermission", "KBToolTarget"}
  BY DEF Names
<1>2. Names(B) = IF mode # "existing"
                 THEN {"KnowledgeBaseRole", "BedrockKnowledgeBase", "KBDataSource"} ELSE {}
  BY PartNames DEF When
<1>3. KnowledgeBaseTool(mode) = K ++ B
  BY DEF KnowledgeBaseTool
<1> HIDE DEF K, B
<1> QED BY <1>1, <1>2, <1>3, JoinNames

\* What the gateway parts and the whole template define.
LEMMA GatewayNames ==
  ASSUME NEW o \in Order
  PROVE  Names(GatewayParts(o)) =
    {"CognitoUserPool", "CognitoResourceServer", "CognitoUserPoolDomain",
     "CognitoUserPoolClient", "GatewayRole", "AgentCoreGateway"}
    \cup (IF GatewayTools(o) # {} \/ o.customs # {} THEN {"ToolLambdaRole"} ELSE {})
    \cup Names(ToolParts(GatewayTools(o)))
    \cup (IF o.customs # {} THEN Names(CustomParts(o.customs)) ELSE {})
    \cup (IF o.kb # "none" THEN Names(KnowledgeBaseTool(o.kb)) ELSE {})
    \cup (IF o.policy THEN {"PolicyEngine"} \cup PolicyName(o.policies) ELSE {})
    \cup (IF HasMcpServer(o)
          THEN Names(McpCognitoPart) \cup Names(McpServerPart) \cup Names(McpTargetPart) ELSE {})
<1> DEFINE R == When(GatewayTools(o) # {} \/ o.customs # {}, ToolRole)
           T == ToolParts(GatewayTools(o))
           C == When(o.customs # {}, CustomParts(o.customs))
           K == When(o.kb # "none", KnowledgeBaseTool(o.kb))
           plain == CognitoPart ++ GatewayPart ++ R ++ T ++ C ++ K
           E == IF o.policy THEN EngineOn(plain) ++ PolicyParts(o.policies) ELSE plain
           M == When(HasMcpServer(o), McpCognitoPart ++ McpServerPart ++ McpTargetPart)
<1>1. Names(R) = IF GatewayTools(o) # {} \/ o.customs # {} THEN {"ToolLambdaRole"} ELSE {}
  <2>1. CASE GatewayTools(o) # {} \/ o.customs # {}
    BY <2>1, PartNames DEF When
  <2>2. CASE ~(GatewayTools(o) # {} \/ o.customs # {})
    BY <2>2, PartNames DEF When
  <2> QED BY <2>1, <2>2
<1>2. Names(C) = IF o.customs # {} THEN Names(CustomParts(o.customs)) ELSE {}
  <2>1. CASE o.customs # {}
    BY <2>1 DEF When
  <2>2. CASE o.customs = {}
    BY <2>2, PartNames DEF When
  <2> QED BY <2>1, <2>2
<1>3. Names(K) = IF o.kb # "none" THEN Names(KnowledgeBaseTool(o.kb)) ELSE {}
  <2>1. CASE o.kb # "none"
    BY <2>1 DEF When
  <2>2. CASE o.kb = "none"
    BY <2>2, PartNames DEF When
  <2> QED BY <2>1, <2>2
<1>4. Names(M) = IF HasMcpServer(o)
        THEN Names(McpCognitoPart) \cup Names(McpServerPart) \cup Names(McpTargetPart) ELSE {}
  <2>1. CASE HasMcpServer(o)
    BY <2>1, JoinNames DEF When
  <2>2. CASE ~HasMcpServer(o)
    BY <2>2, PartNames DEF When
  <2> QED BY <2>1, <2>2
<1>5. GatewayParts(o) = E ++ M
  BY DEF GatewayParts
<1> HIDE DEF R, T, C, K
<1>6. Names(plain) = Names(CognitoPart) \cup Names(GatewayPart) \cup Names(R) \cup Names(T)
                     \cup Names(C) \cup Names(K)
  BY JoinNames
<1> HIDE DEF plain
<1>7. Names(EngineOn(plain)) = Names(plain) \cup {"PolicyEngine"}
  <2> DEFINE A == [plain EXCEPT !["AgentCoreGateway"] = @ \cup {"PolicyEngine"}]
             B == [PolicyEngine |-> {"DeploymentName"}]
  <2>1. Names(A) = Names(plain) /\ Names(B) = {"PolicyEngine"}
    BY DEF Names
  <2>2. EngineOn(plain) = A ++ B
    BY DEF EngineOn
  <2> HIDE DEF A, B
  <2> QED BY <2>1, <2>2, JoinNames
<1>8. Names(E) = Names(plain)
                 \cup (IF o.policy THEN {"PolicyEngine"} \cup PolicyName(o.policies) ELSE {})
  <2>1. CASE o.policy
    BY <1>7, <2>1, JoinNames, PartNames
  <2>2. CASE ~o.policy
    BY <2>2
  <2> QED BY <2>1, <2>2
<1> HIDE DEF E, M
<1>9. Names(GatewayParts(o)) = Names(E) \cup Names(M)
  BY <1>5, JoinNames
<1>10. Names(CognitoPart) \cup Names(GatewayPart) =
       {"CognitoUserPool", "CognitoResourceServer", "CognitoUserPoolDomain",
        "CognitoUserPoolClient", "GatewayRole", "AgentCoreGateway"}
  BY PartNames
<1> QED BY <1>1, <1>2, <1>3, <1>4, <1>6, <1>8, <1>9, <1>10 DEF T

LEMMA TemplateNames ==
  ASSUME NEW o \in Order
  PROVE  Names(Resources(o)) =
    {"CfnProviderRole", "CfnProviderLambda", "AgentCodePackage", "RuntimeExecutionRole",
     "AgentCoreRuntime", "RuntimeEndpoint"}
    \cup (IF HasGateway(o) THEN Names(GatewayParts(o)) ELSE {})
    \cup (IF HasMemory(o) THEN {"MemoryExecutionRole", "AgentCoreMemory"} ELSE {})
    \cup (IF o.evaluation THEN {"EvaluationRole", "OnlineEvaluation"} ELSE {})
    \cup (IF o.guardrails THEN {"BedrockGuardrail", "BedrockGuardrailVersion"} ELSE {})
<1> DEFINE G == When(HasGateway(o), GatewayParts(o))
           M == When(HasMemory(o), MemoryPart)
           E == When(o.evaluation, EvaluationPart)
           Q == When(o.guardrails, GuardrailPart)
           R == RuntimePart(o)
<1>1. Names(G) = IF HasGateway(o) THEN Names(GatewayParts(o)) ELSE {}
  <2>1. CASE HasGateway(o)
    BY <2>1 DEF When
  <2>2. CASE ~HasGateway(o)
    BY <2>2, PartNames DEF When
  <2> QED BY <2>1, <2>2
<1>2. Names(M) = IF HasMemory(o) THEN {"MemoryExecutionRole", "AgentCoreMemory"} ELSE {}
  <2>1. CASE HasMemory(o)
    BY <2>1, PartNames DEF When
  <2>2. CASE ~HasMemory(o)
    BY <2>2, PartNames DEF When
  <2> QED BY <2>1, <2>2
<1>3. Names(E) = IF o.evaluation THEN {"EvaluationRole", "OnlineEvaluation"} ELSE {}
  <2>1. CASE o.evaluation
    BY <2>1, PartNames DEF When
  <2>2. CASE ~o.evaluation
    BY <2>2, PartNames DEF When
  <2> QED BY <2>1, <2>2
<1>4. Names(Q) = IF o.guardrails THEN {"BedrockGuardrail", "BedrockGuardrailVersion"} ELSE {}
  <2>1. CASE o.guardrails
    BY <2>1, PartNames DEF When
  <2>2. CASE ~o.guardrails
    BY <2>2, PartNames DEF When
  <2> QED BY <2>1, <2>2
<1>5. Names(R) = {"AgentCoreRuntime", "RuntimeEndpoint"}
  BY PartNames
<1>6. Resources(o) = Provider ++ CodePackage ++ RuntimeRole ++ G ++ M ++ E ++ Q ++ R
  BY DEF Resources
<1> HIDE DEF G, M, E, Q, R
<1>7. Names(Resources(o)) = Names(Provider) \cup Names(CodePackage) \cup Names(RuntimeRole)
        \cup Names(G) \cup Names(M) \cup Names(E) \cup Names(Q) \cup Names(R)
  BY <1>6, JoinNames
<1>8. Names(Provider) \cup Names(CodePackage) \cup Names(RuntimeRole) =
        {"CfnProviderRole", "CfnProviderLambda", "AgentCodePackage", "RuntimeExecutionRole"}
  BY PartNames
<1> QED BY <1>1, <1>2, <1>3, <1>4, <1>5, <1>7, <1>8

\* The height of every name, literally.
LEMMA LevelHeights ==
  /\ Height("CfnProviderRole") = 1
  /\ Height("RuntimeExecutionRole") = 1
  /\ Height("CognitoUserPool") = 1
  /\ Height("GatewayRole") = 1
  /\ Height("ToolLambdaRole") = 1
  /\ Height("KnowledgeBaseRole") = 1
  /\ Height("KBToolLambdaRole") = 1
  /\ Height("MemoryExecutionRole") = 1
  /\ Height("PolicyEngine") = 1
  /\ Height("McpCognitoUserPool") = 1
  /\ Height("McpServerRole") = 1
  /\ Height("EvaluationRole") = 1
  /\ Height("BedrockGuardrail") = 1
  /\ Height("CfnProviderLambda") = 2
  /\ Height("CognitoResourceServer") = 2
  /\ Height("CognitoUserPoolDomain") = 2
  /\ Height("BedrockKnowledgeBase") = 2
  /\ Height("AgentCoreMemory") = 2
  /\ Height("McpCognitoResourceServer") = 2
  /\ Height("McpCognitoDomain") = 2
  /\ Height("BedrockGuardrailVersion") = 2
  /\ Height("DynamicToolsLambda") = 2
  /\ Height("CustomerSupportToolsLambda") = 2
  /\ Height("AgentCodePackage") = 3
  /\ Height("CognitoUserPoolClient") = 3
  /\ Height("KBDataSource") = 3
  /\ Height("KBToolLambda") = 3
  /\ Height("McpCognitoClient") = 3
  /\ Height("McpServerCodePackage") = 3
  /\ Height("DynamicToolsLambdaPermission") = 3
  /\ Height("CustomerSupportToolsLambdaPermission") = 3
  /\ Height("AgentCoreGateway") = 4
  /\ Height("KBToolLambdaPermission") = 4
  /\ Height("McpServerRuntime") = 4
  /\ Height("DynamicToolsTarget") = 5
  /\ Height("CustomerSupportTarget") = 5
  /\ Height("KBToolTarget") = 5
  /\ Height("DefaultPolicy") = 5
  /\ Height("McpServerEndpoint") = 5
  /\ Height("McpOAuth2CredentialProvider") = 6
  /\ Height("McpServerGatewayTarget") = 7
  /\ Height("AgentCoreRuntime") = 8
  /\ Height("RuntimeEndpoint") = 9
  /\ Height("OnlineEvaluation") = 9
<1>1. /\ Height("CfnProviderRole") = 1
      /\ Height("RuntimeExecutionRole") = 1
      /\ Height("CognitoUserPool") = 1
      /\ Height("GatewayRole") = 1
      /\ Height("ToolLambdaRole") = 1
      /\ Height("KnowledgeBaseRole") = 1
      /\ Height("KBToolLambdaRole") = 1
      /\ Height("MemoryExecutionRole") = 1
      /\ Height("PolicyEngine") = 1
      /\ Height("McpCognitoUserPool") = 1
      /\ Height("McpServerRole") = 1
      /\ Height("EvaluationRole") = 1
      /\ Height("BedrockGuardrail") = 1
  BY Heights DEF Level1
<1>2. /\ Height("CfnProviderLambda") = 2
      /\ Height("CognitoResourceServer") = 2
      /\ Height("CognitoUserPoolDomain") = 2
      /\ Height("BedrockKnowledgeBase") = 2
      /\ Height("AgentCoreMemory") = 2
      /\ Height("McpCognitoResourceServer") = 2
      /\ Height("McpCognitoDomain") = 2
      /\ Height("BedrockGuardrailVersion") = 2
      /\ Height("DynamicToolsLambda") = 2
      /\ Height("CustomerSupportToolsLambda") = 2
  BY Heights DEF Level2
<1>3. /\ Height("AgentCodePackage") = 3
      /\ Height("CognitoUserPoolClient") = 3
      /\ Height("KBDataSource") = 3
      /\ Height("KBToolLambda") = 3
      /\ Height("McpCognitoClient") = 3
      /\ Height("McpServerCodePackage") = 3
      /\ Height("DynamicToolsLambdaPermission") = 3
      /\ Height("CustomerSupportToolsLambdaPermission") = 3
  BY Heights DEF Level3
<1>4. /\ Height("AgentCoreGateway") = 4
      /\ Height("KBToolLambdaPermission") = 4
      /\ Height("McpServerRuntime") = 4
  BY Heights DEF Level4
<1>5. /\ Height("DynamicToolsTarget") = 5
      /\ Height("CustomerSupportTarget") = 5
      /\ Height("KBToolTarget") = 5
      /\ Height("DefaultPolicy") = 5
      /\ Height("McpServerEndpoint") = 5
  BY Heights DEF Level5
<1>6. /\ Height("McpOAuth2CredentialProvider") = 6
  BY Heights DEF Level6
<1>7. /\ Height("McpServerGatewayTarget") = 7
  BY Heights DEF Level7
<1>8. /\ Height("AgentCoreRuntime") = 8
  BY Heights DEF Level8
<1>9. /\ Height("RuntimeEndpoint") = 9
      /\ Height("OnlineEvaluation") = 9
  BY Heights DEF Level9
<1> QED BY <1>1, <1>2, <1>3, <1>4, <1>5, <1>6, <1>7, <1>8, <1>9

\* The levels are of names that every template gives alike, which no custom
\* tool's or policy's name is.
LEMMA Fixed ==
  /\ Level1 \cup Level2 \cup Level3 \cup Level4 \cup Level5 \cup Level6 \cup Level7
     \cup Level8 \cup Level9 \cup ParameterName \subseteq FixedName
<1>1. /\ Names(ToolParts(Dynamic \cup CustomerSupport)) =
           {"DynamicToolsLambda", "DynamicToolsLambdaPermission", "DynamicToolsTarget",
            "CustomerSupportToolsLambda", "CustomerSupportToolsLambdaPermission",
            "CustomerSupportTarget"}
  <2>1. (Dynamic \cup CustomerSupport) \cap Dynamic # {}
    BY DEF Dynamic
  <2>2. (Dynamic \cup CustomerSupport) \cap CustomerSupport # {}
    BY DEF CustomerSupport
  <2> QED BY <2>1, <2>2, ToolNames
<1>2. Names(KnowledgeBaseTool("create_new")) =
        {"KBToolLambdaRole", "KBToolLambda", "KBToolLambdaPermission", "KBToolTarget",
         "KnowledgeBaseRole", "BedrockKnowledgeBase", "KBDataSource"}
  BY KnowledgeBaseNames
<1>3. FixedName = ParameterName
        \cup {"PolicyEngine", "DefaultPolicy", "AgentCoreRuntime", "RuntimeEndpoint"}
        \cup Names(Provider) \cup Names(CodePackage) \cup Names(RuntimeRole)
        \cup Names(CognitoPart) \cup Names(GatewayPart)
        \cup Names(ToolRole) \cup Names(ToolParts(Dynamic \cup CustomerSupport))
        \cup Names(KnowledgeBaseTool("create_new"))
        \cup Names(McpCognitoPart) \cup Names(McpServerPart) \cup Names(McpTargetPart)
        \cup Names(MemoryPart) \cup Names(EvaluationPart) \cup Names(GuardrailPart)
  BY DEF FixedName, Names
<1>4. Level1 \subseteq FixedName
  BY <1>1, <1>2, <1>3, PartNames DEF Level1
<1>5. Level2 \subseteq FixedName
  BY <1>1, <1>2, <1>3, PartNames DEF Level2
<1>6. Level3 \subseteq FixedName
  BY <1>1, <1>2, <1>3, PartNames DEF Level3
<1>7. Level4 \cup Level5 \subseteq FixedName
  BY <1>1, <1>2, <1>3, PartNames DEF Level4, Level5
<1>8. Level6 \cup Level7 \cup Level8 \cup Level9 \subseteq FixedName
  BY <1>1, <1>2, <1>3, PartNames DEF Level6, Level7, Level8, Level9
<1>9. ParameterName \subseteq FixedName
  BY <1>3
<1> QED BY <1>4, <1>5, <1>6, <1>7, <1>8, <1>9

\* What refers only to the levels stands between them: parameters below all, the
\* Lambdas, permissions and targets of custom tools, and policies.
LEMMA DerivedHeights ==
  /\ \A n \in ParameterName : Height(n) = 0
  /\ \A n \in CustomLambdas(CustomTool) : Height(n) = 2
  /\ \A n \in CustomPermissions(CustomTool) : Height(n) = 3
  /\ \A n \in Others : Height(n) = 5
<1> DEFINE Levels == Level1 \cup Level2 \cup Level3 \cup Level4 \cup Level5 \cup Level6
                     \cup Level7 \cup Level8 \cup Level9
           L == CustomLambdas(CustomTool)
           P == CustomPermissions(CustomTool)
<1>1. /\ L \cap P = {} /\ (L \cup P) \cap Others = {}
      /\ (L \cup P \cup Others) \cap FixedName = {}
  BY NamesAssumption DEF NamesApart, Others
<1> HIDE DEF L, P
<1>2. \A n : n \notin Levels =>
        Height(n) = IF n \in L THEN 2 ELSE IF n \in P THEN 3 ELSE IF n \in Others THEN 5 ELSE 0
  BY DEF Height, L, P
<1>3. Levels \cup ParameterName \subseteq FixedName
  BY Fixed
<1>4. Levels \cap ParameterName = {}
  BY DEF ParameterName, Level1, Level2, Level3, Level4, Level5, Level6, Level7, Level8, Level9
<1> HIDE DEF Levels
<1>5. \A n \in ParameterName : Height(n) = 0
  BY <1>1, <1>2, <1>3, <1>4
<1>6. \A n \in L : Height(n) = 2
  BY <1>1, <1>2, <1>3
<1>7. \A n \in P : Height(n) = 3
  BY <1>1, <1>2, <1>3
<1>8. \A n \in Others : Height(n) = 5
  BY <1>1, <1>2, <1>3
<1> QED BY <1>5, <1>6, <1>7, <1>8 DEF L, P

\* Fewer policies have fewer names.
LEMMA PolicyNames == \A n \in 0..MaxPolicies : PolicyName(n) \subseteq PolicyName(MaxPolicies)
BY ExportAssumption DEF PolicyName

\* A part refers to names of S only, and to lower ones than its own.
Good(part, S) == \A n \in Names(part) : \A m \in part[n] : m \in S /\ Height(m) < Height(n)

\* Good parts join to good ones.
LEMMA GoodNothing == \A S : Good(<< >>, S)
BY PartNames DEF Good

LEMMA GoodJoin == \A f, g, S : Good(f, S) /\ Good(g, S) => Good(f ++ g, S)
<1> TAKE f, g, S
<1> SUFFICES ASSUME Good(f, S), Good(g, S), NEW n \in Names(f ++ g), NEW m \in (f ++ g)[n]
             PROVE  m \in S /\ Height(m) < Height(n)
  BY DEF Good
<1>1. n \in Names(f) \cup Names(g)
  BY JoinNames
<1>2. (f ++ g)[n] = IF n \in Names(f) THEN f[n] ELSE g[n]
  BY <1>1, JoinAt
<1> QED BY <1>1, <1>2 DEF Good

\* The parameters are below all.
LEMMA ParameterHeights ==
  /\ Height("DeploymentName") = 0 /\ Height("ModelId") = 0 /\ Height("ArtifactsBucket") = 0
  /\ Height("AgentCodeKey") = 0 /\ Height("CfnProviderCodeKey") = 0
  /\ Height("DependencyBundleKey") = 0 /\ Height("ToolLambdaCodeKey") = 0
  /\ Height("CustomToolCodeKey") = 0 /\ Height("KnowledgeBaseId") = 0
  /\ Height("McpServerCodeKey") = 0
BY DerivedHeights DEF ParameterName

\* Each part is good once what it refers to is known.
LEMMA GoodBase ==
  ASSUME NEW S,
         {"DeploymentName", "ArtifactsBucket", "AgentCodeKey", "CfnProviderCodeKey",
          "DependencyBundleKey", "CfnProviderRole", "CfnProviderLambda"} \subseteq S
  PROVE  Good(Provider, S) /\ Good(CodePackage, S) /\ Good(RuntimeRole, S)
<1>1. Good(Provider, S)
  BY PartNames, LevelHeights, ParameterHeights DEF Good, Provider
<1>2. Good(CodePackage, S)
  BY PartNames, LevelHeights, ParameterHeights DEF Good, CodePackage
<1>3. Good(RuntimeRole, S)
  BY PartNames, LevelHeights, ParameterHeights DEF Good, RuntimeRole
<1> QED BY <1>1, <1>2, <1>3

LEMMA GoodCognito ==
  ASSUME NEW S,
         {"DeploymentName", "CognitoUserPool", "CognitoResourceServer"} \subseteq S
  PROVE  Good(CognitoPart, S)
BY PartNames, LevelHeights, ParameterHeights DEF Good, CognitoPart

LEMMA GoodGateway ==
  ASSUME NEW S,
         {"DeploymentName", "GatewayRole", "CognitoUserPool", "CognitoUserPoolClient"} \subseteq S
  PROVE  Good(GatewayPart, S)
BY PartNames, LevelHeights, ParameterHeights DEF Good, GatewayPart

LEMMA GoodTool ==
  ASSUME NEW S, NEW l, NEW p, NEW t, l # p, l # t, p # t,
         {"DeploymentName", "ArtifactsBucket", "ToolLambdaCodeKey", "ToolLambdaRole",
          "AgentCoreGateway", l, p} \subseteq S,
         Height(l) = 2, Height(p) = 3, Height(t) = 5
  PROVE  Good(ToolLambda(l, p, t), S)
<1>1. /\ ToolLambda(l, p, t)[l] = {"ToolLambdaRole", "ArtifactsBucket", "ToolLambdaCodeKey",
                                   "DeploymentName"}
      /\ ToolLambda(l, p, t)[p] = {l}
      /\ ToolLambda(l, p, t)[t] = {"AgentCoreGateway", l, p}
  BY DEF ToolLambda
<1>2. Names(ToolLambda(l, p, t)) = {l, p, t}
  BY PartNames
<1> QED BY <1>1, <1>2, LevelHeights, ParameterHeights DEF Good

LEMMA GoodTools ==
  ASSUME NEW S, NEW ids, ids # {} => {"ToolLambdaCodeKey", "ToolLambdaRole"} \subseteq S,
         {"DeploymentName", "ArtifactsBucket", "AgentCoreGateway"} \subseteq S,
         Names(ToolParts(ids)) \subseteq S
  PROVE  Good(ToolParts(ids), S)
<1> DEFINE d == ids \cap Dynamic # {}
           c == ids \cap CustomerSupport # {}
           D == When(d, ToolLambda("DynamicToolsLambda", "DynamicToolsLambdaPermission",
                                   "DynamicToolsTarget"))
           C == When(c, ToolLambda("CustomerSupportToolsLambda",
                             "CustomerSupportToolsLambdaPermission", "CustomerSupportTarget"))
<1>1. Good(D, S)
  <2>1. CASE d
    <3>1. {"DynamicToolsLambda", "DynamicToolsLambdaPermission"} \subseteq S
      BY <2>1, ToolNames
    <3>2. ids # {}
      BY <2>1
    <3>3. D = ToolLambda("DynamicToolsLambda", "DynamicToolsLambdaPermission",
                         "DynamicToolsTarget")
      BY <2>1 DEF When
    <3> QED BY <3>1, <3>2, <3>3, GoodTool, LevelHeights
  <2>2. CASE ~d
    BY <2>2, GoodNothing DEF When
  <2> QED BY <2>1, <2>2
<1>2. Good(C, S)
  <2>1. CASE c
    <3>1. {"CustomerSupportToolsLambda", "CustomerSupportToolsLambdaPermission"} \subseteq S
      BY <2>1, ToolNames
    <3>2. ids # {}
      BY <2>1
    <3>3. C = ToolLambda("CustomerSupportToolsLambda",
                         "CustomerSupportToolsLambdaPermission", "CustomerSupportTarget")
      BY <2>1 DEF When
    <3> QED BY <3>1, <3>2, <3>3, GoodTool, LevelHeights
  <2>2. CASE ~c
    BY <2>2, GoodNothing DEF When
  <2> QED BY <2>1, <2>2
<1>3. ToolParts(ids) = D ++ C
  BY DEF ToolParts
<1> HIDE DEF D, C
<1> QED BY <1>1, <1>2, <1>3, GoodJoin

LEMMA GoodCustoms ==
  ASSUME NEW S, NEW customs \in SUBSET CustomTool,
         {"DeploymentName", "ArtifactsBucket", "CustomToolCodeKey", "ToolLambdaRole",
          "AgentCoreGateway"} \subseteq S,
         CustomLambdas(customs) \subseteq S
  PROVE  Good(CustomParts(customs), S)
<1> DEFINE L == [n \in CustomLambdas(customs) |->
                   {"ToolLambdaRole", "ArtifactsBucket", "CustomToolCodeKey", "DeploymentName"}]
           P == [n \in CustomPermissions(customs) |->
                   {CustomLambda(SafeName[c]) :
                      c \in {c \in customs : CustomPermission(SafeName[c]) = n}}]
           T == [n \in CustomTargets(customs) |->
                   {"AgentCoreGateway"}
                   \cup {CustomLambda(SafeName[c]) :
                           c \in {c \in customs : CustomTarget(SafeName[c]) = n}}]
<1>1. /\ \A n \in CustomLambdas(customs) : Height(n) = 2
      /\ \A n \in CustomPermissions(customs) : Height(n) = 3
      /\ \A n \in CustomTargets(customs) : Height(n) = 5
  BY DerivedHeights DEF CustomLambdas, CustomPermissions, CustomTargets, Others
<1>2. \A c \in customs : CustomLambda(SafeName[c]) \in CustomLambdas(customs)
  BY DEF CustomLambdas
<1>3. Good(L, S)
  BY <1>1, LevelHeights, ParameterHeights DEF Good, Names
<1>4. Good(P, S)
  BY <1>1, <1>2 DEF Good, Names
<1>5. Good(T, S)
  BY <1>1, <1>2, LevelHeights DEF Good, Names
<1>6. CustomParts(customs) = L ++ P ++ T
  BY DEF CustomParts
<1> HIDE DEF L, P, T
<1> QED BY <1>3, <1>4, <1>5, <1>6, GoodJoin

LEMMA GoodKnowledgeBase ==
  ASSUME NEW S, NEW mode,
         {"DeploymentName", "AgentCoreGateway"} \subseteq S,
         mode = "existing" => "KnowledgeBaseId" \in S,
         Names(KnowledgeBaseTool(mode)) \subseteq S
  PROVE  Good(KnowledgeBaseTool(mode), S)
<1> DEFINE K == [KBToolLambdaRole |-> {},
                 KBToolLambda |-> {"KBToolLambdaRole", "DeploymentName"}
                   \cup IF mode = "existing" THEN {"KnowledgeBaseId"} ELSE {"BedrockKnowledgeBase"},
                 KBToolLambdaPermission |-> {"KBToolLambda"},
                 KBToolTarget |-> {"AgentCoreGateway", "KBToolLambda", "KBToolLambdaPermission"}]
           B == When(mode # "existing", KnowledgeBasePart)
<1>1. /\ {"KBToolLambdaRole", "KBToolLambda", "KBToolLambdaPermission"} \subseteq S
      /\ mode # "existing" => {"KnowledgeBaseRole", "BedrockKnowledgeBase"} \subseteq S
  BY KnowledgeBaseNames
<1>2. Good(K, S)
  <2>1. Names(K) = {"KBToolLambdaRole", "KBToolLambda", "KBToolLambdaPermission", "KBToolTarget"}
    BY DEF Names
  <2>2. \A m \in K["KBToolLambda"] : m \in S /\ Height(m) < Height("KBToolLambda")
    BY <1>1, LevelHeights, ParameterHeights
  <2>3. /\ K["KBToolLambdaRole"] = {} /\ K["KBToolLambdaPermission"] = {"KBToolLambda"}
        /\ K["KBToolTarget"] = {"AgentCoreGateway", "KBToolLambda", "KBToolLambdaPermission"}
    OBVIOUS
  <2> HIDE DEF K
  <2> QED BY <1>1, <2>1, <2>2, <2>3, LevelHeights DEF Good
<1>3. Good(B, S)
  <2>1. CASE mode # "existing"
    <3>1. Good(KnowledgeBasePart, S)
      BY <1>1, <2>1, PartNames, LevelHeights, ParameterHeights DEF Good, KnowledgeBasePart
    <3> QED BY <2>1, <3>1 DEF When
  <2>2. CASE mode = "existing"
    BY <2>2, GoodNothing DEF When
  <2> QED BY <2>1, <2>2
<1>4. KnowledgeBaseTool(mode) = K ++ B
  BY DEF KnowledgeBaseTool
<1> HIDE DEF K, B
<1> QED BY <1>2, <1>3, <1>4, GoodJoin

LEMMA GoodEngine ==
  ASSUME NEW S, NEW parts, Good(parts, S), {"DeploymentName", "PolicyEngine"} \subseteq S
  PROVE  Good(EngineOn(parts), S)
<1> DEFINE A == [parts EXCEPT !["AgentCoreGateway"] = @ \cup {"PolicyEngine"}]
           B == [PolicyEngine |-> {"DeploymentName"}]
<1>1. Good(A, S)
  BY LevelHeights DEF Good, Names
<1>2. Good(B, S)
  BY LevelHeights, ParameterHeights DEF Good, Names
<1>3. EngineOn(parts) = A ++ B
  BY DEF EngineOn
<1> HIDE DEF A, B
<1> QED BY <1>1, <1>2, <1>3, GoodJoin

LEMMA GoodPolicies ==
  ASSUME NEW S, NEW n \in 0..MaxPolicies,
         {"PolicyEngine", "AgentCoreGateway", "CfnProviderLambda"} \subseteq S
  PROVE  Good(PolicyParts(n), S)
<1>1. PolicyName(n) \subseteq PolicyName(MaxPolicies)
  BY PolicyNames
<1>2. \A p \in PolicyName(n) : Height(p) = 5
  BY <1>1, DerivedHeights, LevelHeights DEF Others
<1>3. \A p \in PolicyName(n) :
        PolicyParts(n)[p] = {"PolicyEngine", "AgentCoreGateway", "CfnProviderLambda"}
  BY DEF PolicyParts
<1>4. Names(PolicyParts(n)) = PolicyName(n)
  BY PartNames
<1> QED BY <1>2, <1>3, <1>4, LevelHeights DEF Good

LEMMA GoodServer ==
  ASSUME NEW S,
         {"DeploymentName", "ArtifactsBucket", "ModelId", "McpServerCodeKey",
          "DependencyBundleKey", "CfnProviderLambda", "AgentCoreGateway"} \subseteq S,
         Names(McpCognitoPart) \cup Names(McpServerPart) \cup Names(McpTargetPart) \subseteq S
  PROVE  Good(McpCognitoPart ++ McpServerPart ++ McpTargetPart, S)
<1>1. {"McpCognitoUserPool", "McpCognitoResourceServer", "McpCognitoDomain", "McpCognitoClient",
       "McpServerRole", "McpServerCodePackage", "McpServerRuntime", "McpServerEndpoint",
       "McpOAuth2CredentialProvider"} \subseteq S
  BY PartNames
<1>2. Good(McpCognitoPart, S)
  BY <1>1, PartNames, LevelHeights, ParameterHeights DEF Good, McpCognitoPart
<1>3. Good(McpServerPart, S)
  BY <1>1, PartNames, LevelHeights, ParameterHeights DEF Good, McpServerPart
<1>4. Good(McpTargetPart, S)
  BY <1>1, PartNames, LevelHeights, ParameterHeights DEF Good, McpTargetPart
<1> QED BY <1>2, <1>3, <1>4, GoodJoin

LEMMA GoodRest ==
  ASSUME NEW S, {"DeploymentName", "AgentCoreRuntime"} \subseteq S
  PROVE  /\ "MemoryExecutionRole" \in S => Good(MemoryPart, S)
         /\ "EvaluationRole" \in S => Good(EvaluationPart, S)
         /\ "BedrockGuardrail" \in S => Good(GuardrailPart, S)
<1>1. "MemoryExecutionRole" \in S => Good(MemoryPart, S)
  BY PartNames, LevelHeights, ParameterHeights DEF Good, MemoryPart
<1>2. "EvaluationRole" \in S => Good(EvaluationPart, S)
  BY PartNames, LevelHeights, ParameterHeights DEF Good, EvaluationPart
<1>3. "BedrockGuardrail" \in S => Good(GuardrailPart, S)
  BY PartNames, LevelHeights, ParameterHeights DEF Good, GuardrailPart
<1> QED BY <1>1, <1>2, <1>3

LEMMA GoodRuntime ==
  ASSUME NEW o \in Order, NEW S,
         {"DeploymentName", "ArtifactsBucket", "ModelId", "RuntimeExecutionRole",
          "AgentCodePackage", "AgentCoreRuntime"} \subseteq S,
         HasGateway(o) => {"AgentCoreGateway", "CognitoUserPoolClient"} \subseteq S,
         HasMemory(o) => "AgentCoreMemory" \in S,
         HasMcpServer(o) => "McpServerGatewayTarget" \in S,
         o.guardrails => {"BedrockGuardrail", "BedrockGuardrailVersion"} \subseteq S
  PROVE  Good(RuntimePart(o), S)
<1>1. Names(RuntimePart(o)) = {"AgentCoreRuntime", "RuntimeEndpoint"}
  BY PartNames
<1>2. RuntimePart(o)["RuntimeEndpoint"] = {"AgentCoreRuntime", "DeploymentName"}
  BY DEF RuntimePart
<1>3. RuntimePart(o)["AgentCoreRuntime"] =
     {"RuntimeExecutionRole", "AgentCodePackage", "ArtifactsBucket", "ModelId", "DeploymentName"}
     \cup (IF HasGateway(o) THEN {"AgentCoreGateway", "CognitoUserPoolClient"} ELSE {})
     \cup (IF HasMemory(o) THEN {"AgentCoreMemory"} ELSE {})
     \cup (IF HasMcpServer(o) THEN {"McpServerGatewayTarget"} ELSE {})
     \cup (IF o.guardrails THEN {"BedrockGuardrail", "BedrockGuardrailVersion"} ELSE {})
  BY DEF RuntimePart
<1>4. \A m \in RuntimePart(o)["AgentCoreRuntime"] : m \in S /\ Height(m) < 8
  BY <1>3, LevelHeights, ParameterHeights
<1>5. \A m \in RuntimePart(o)["RuntimeEndpoint"] : m \in S /\ Height(m) < 9
  BY <1>2, LevelHeights, ParameterHeights
<1> QED BY <1>1, <1>4, <1>5, LevelHeights DEF Good

\* What a template may refer to: its resources, its parameters and, where an MCP
\* server comes without a gateway, the target that nobody added.
Known(o) ==
  Names(Resources(o)) \cup Parameters(o)
  \cup (IF HasMcpServer(o) /\ ~HasGateway(o) THEN {"McpServerGatewayTarget"} ELSE {})

\* The parameters that each feature needs are given with it.
LEMMA ParametersGiven ==
  ASSUME NEW o \in Order
  PROVE  /\ {"DeploymentName", "ModelId", "ArtifactsBucket", "AgentCodeKey",
             "CfnProviderCodeKey", "DependencyBundleKey"} \subseteq Parameters(o)
         /\ HasGateway(o) =>
              /\ GatewayTools(o) # {} \/ o.customs # {} => "ToolLambdaCodeKey" \in Parameters(o)
              /\ o.customs # {} => "CustomToolCodeKey" \in Parameters(o)
              /\ o.kb = "existing" => "KnowledgeBaseId" \in Parameters(o)
              /\ HasMcpServer(o) => "McpServerCodeKey" \in Parameters(o)
BY DEF Parameters, ParameterName

\* The gateway parts and the whole template refer to what is known.
LEMMA GoodGatewayParts ==
  ASSUME NEW o \in Order, HasGateway(o)
  PROVE  Good(GatewayParts(o), Known(o))
<1> DEFINE S == Known(o)
           R == When(GatewayTools(o) # {} \/ o.customs # {}, ToolRole)
           T == ToolParts(GatewayTools(o))
           C == When(o.customs # {}, CustomParts(o.customs))
           K == When(o.kb # "none", KnowledgeBaseTool(o.kb))
           plain == CognitoPart ++ GatewayPart ++ R ++ T ++ C ++ K
           E == IF o.policy THEN EngineOn(plain) ++ PolicyParts(o.policies) ELSE plain
           M == When(HasMcpServer(o), McpCognitoPart ++ McpServerPart ++ McpTargetPart)
<1>1. Names(GatewayParts(o)) \subseteq S /\ Parameters(o) \subseteq S
      /\ "CfnProviderLambda" \in S
  BY TemplateNames DEF Known
<1>2. /\ {"CognitoUserPool", "CognitoResourceServer", "CognitoUserPoolClient", "GatewayRole",
          "AgentCoreGateway"} \subseteq S
      /\ GatewayTools(o) # {} \/ o.customs # {} => "ToolLambdaRole" \in S
      /\ Names(ToolParts(GatewayTools(o))) \subseteq S
      /\ o.customs # {} => Names(CustomParts(o.customs)) \subseteq S
      /\ o.kb # "none" => Names(KnowledgeBaseTool(o.kb)) \subseteq S
      /\ o.policy => "PolicyEngine" \in S
      /\ HasMcpServer(o) => Names(McpCognitoPart) \cup Names(McpServerPart)
                            \cup Names(McpTargetPart) \subseteq S
  BY <1>1, GatewayNames
<1>3. /\ {"DeploymentName", "ModelId", "ArtifactsBucket", "AgentCodeKey",
          "CfnProviderCodeKey", "DependencyBundleKey"} \subseteq S
      /\ GatewayTools(o) # {} \/ o.customs # {} => "ToolLambdaCodeKey" \in S
      /\ o.customs # {} => "CustomToolCodeKey" \in S
      /\ o.kb = "existing" => "KnowledgeBaseId" \in S
      /\ HasMcpServer(o) => "McpServerCodeKey" \in S
  BY <1>1, ParametersGiven
<1>4. o.customs \in SUBSET CustomTool /\ o.policies \in 0..MaxPolicies
  BY DEF Order
<1>5. GatewayParts(o) = E ++ M
  BY DEF GatewayParts
<1> HIDE DEF S
<1>6. Good(CognitoPart, S) /\ Good(GatewayPart, S)
  BY <1>2, <1>3, GoodCognito, GoodGateway
<1>7. Good(R, S)
  BY GoodNothing, PartNames DEF When, Good, ToolRole
<1>8. Good(T, S)
  BY <1>2, <1>3, GoodTools
<1>9. Good(C, S)
  <2>1. CASE o.customs # {}
    <3>1. CustomLambdas(o.customs) \subseteq S
      BY <1>2, <2>1, CustomNames
    <3>2. Good(CustomParts(o.customs), S)
      BY <1>2, <1>3, <1>4, <2>1, <3>1, GoodCustoms
    <3> QED BY <2>1, <3>2 DEF When
  <2>2. CASE o.customs = {}
    BY <2>2, GoodNothing DEF When
  <2> QED BY <2>1, <2>2
<1>10. Good(K, S)
  <2>1. CASE o.kb # "none"
    <3>1. Good(KnowledgeBaseTool(o.kb), S)
      BY <1>2, <1>3, <2>1, GoodKnowledgeBase
    <3> QED BY <2>1, <3>1 DEF When
  <2>2. CASE o.kb = "none"
    BY <2>2, GoodNothing DEF When
  <2> QED BY <2>1, <2>2
<1>11. Good(M, S)
  <2>1. CASE HasMcpServer(o)
    <3>1. Good(McpCognitoPart ++ McpServerPart ++ McpTargetPart, S)
      BY <1>1, <1>2, <1>3, <2>1, GoodServer DEF S
    <3> QED BY <2>1, <3>1 DEF When
  <2>2. CASE ~HasMcpServer(o)
    BY <2>2, GoodNothing DEF When
  <2> QED BY <2>1, <2>2
<1> HIDE DEF R, T, C, K
<1>12. Good(plain, S)
  BY <1>6, <1>7, <1>8, <1>9, <1>10, GoodJoin
<1> HIDE DEF plain
<1>13. Good(E, S)
  <2>1. CASE o.policy
    <3>1. Good(EngineOn(plain), S)
      BY <1>2, <1>3, <1>12, <2>1, GoodEngine
    <3>2. Good(PolicyParts(o.policies), S)
      BY <1>1, <1>2, <1>4, <2>1, GoodPolicies DEF S
    <3> QED BY <2>1, <3>1, <3>2, GoodJoin
  <2>2. CASE ~o.policy
    BY <1>12, <2>2
  <2> QED BY <2>1, <2>2
<1> HIDE DEF E, M
<1>14. Good(GatewayParts(o), S)
  BY <1>5, <1>11, <1>13, GoodJoin
<1> QED BY <1>14 DEF S

LEMMA GoodTemplate ==
  ASSUME NEW o \in Order
  PROVE  Good(Resources(o), Known(o))
<1> DEFINE S == Known(o)
           G == When(HasGateway(o), GatewayParts(o))
           M == When(HasMemory(o), MemoryPart)
           E == When(o.evaluation, EvaluationPart)
           Q == When(o.guardrails, GuardrailPart)
           R == RuntimePart(o)
<1>1. /\ {"CfnProviderRole", "CfnProviderLambda", "AgentCodePackage", "RuntimeExecutionRole",
          "AgentCoreRuntime", "RuntimeEndpoint"} \subseteq S
      /\ HasGateway(o) => Names(GatewayParts(o)) \subseteq S
      /\ HasMemory(o) => {"MemoryExecutionRole", "AgentCoreMemory"} \subseteq S
      /\ o.evaluation => "EvaluationRole" \in S
      /\ o.guardrails => {"BedrockGuardrail", "BedrockGuardrailVersion"} \subseteq S
  BY TemplateNames DEF Known
<1>2. {"DeploymentName", "ModelId", "ArtifactsBucket", "AgentCodeKey",
       "CfnProviderCodeKey", "DependencyBundleKey"} \subseteq S
  BY ParametersGiven DEF Known
<1>3. HasGateway(o) => {"AgentCoreGateway", "CognitoUserPoolClient"} \subseteq S
  BY <1>1, GatewayNames
<1>4. HasMcpServer(o) => "McpServerGatewayTarget" \in S
  <2>1. CASE HasGateway(o)
    BY <1>1, <2>1, GatewayNames, PartNames
  <2>2. CASE ~HasGateway(o)
    BY <2>2 DEF Known
  <2> QED BY <2>1, <2>2
<1>5. HasGateway(o) => Good(GatewayParts(o), S)
  BY GoodGatewayParts
<1>6. Resources(o) = Provider ++ CodePackage ++ RuntimeRole ++ G ++ M ++ E ++ Q ++ R
  BY DEF Resources
<1> HIDE DEF S
<1>7. Good(G, S)
  <2>1. CASE HasGateway(o)
    BY <1>5, <2>1 DEF When
  <2>2. CASE ~HasGateway(o)
    BY <2>2, GoodNothing DEF When
  <2> QED BY <2>1, <2>2
<1>8. Good(M, S)
  <2>1. CASE HasMemory(o)
    <3>1. Good(MemoryPart, S)
      BY <1>1, <1>2, <2>1, GoodRest
    <3> QED BY <2>1, <3>1 DEF When
  <2>2. CASE ~HasMemory(o)
    BY <2>2, GoodNothing DEF When
  <2> QED BY <2>1, <2>2
<1>9. Good(E, S)
  <2>1. CASE o.evaluation
    <3>1. Good(EvaluationPart, S)
      BY <1>1, <1>2, <2>1, GoodRest
    <3> QED BY <2>1, <3>1 DEF When
  <2>2. CASE ~o.evaluation
    BY <2>2, GoodNothing DEF When
  <2> QED BY <2>1, <2>2
<1>10. Good(Q, S)
  <2>1. CASE o.guardrails
    <3>1. Good(GuardrailPart, S)
      BY <1>1, <1>2, <2>1, GoodRest
    <3> QED BY <2>1, <3>1 DEF When
  <2>2. CASE ~o.guardrails
    BY <2>2, GoodNothing DEF When
  <2> QED BY <2>1, <2>2
<1>11. Good(R, S)
  BY <1>1, <1>2, <1>3, <1>4, GoodRuntime
<1>12. Good(Provider, S) /\ Good(CodePackage, S) /\ Good(RuntimeRole, S)
  BY <1>1, <1>2, GoodBase
<1> HIDE DEF G, M, E, Q, R
<1>13. Good(Resources(o), S)
  BY <1>6, <1>7, <1>8, <1>9, <1>10, <1>11, <1>12, GoodJoin
<1> QED BY <1>13 DEF S

\* In a template with policies the gateway depends on its engine.
LEMMA EngineNeeded ==
  ASSUME NEW o \in Order, HasGateway(o), o.policy
  PROVE  /\ "PolicyEngine" \in Names(Resources(o)) /\ "AgentCoreGateway" \in Names(Resources(o))
         /\ "PolicyEngine" \in Resources(o)["AgentCoreGateway"]
<1> DEFINE gw == "AgentCoreGateway"
           R == When(GatewayTools(o) # {} \/ o.customs # {}, ToolRole)
           T == ToolParts(GatewayTools(o))
           C == When(o.customs # {}, CustomParts(o.customs))
           K == When(o.kb # "none", KnowledgeBaseTool(o.kb))
           plain == CognitoPart ++ GatewayPart ++ R ++ T ++ C ++ K
           A == [plain EXCEPT ![gw] = @ \cup {"PolicyEngine"}]
           B == [PolicyEngine |-> {"DeploymentName"}]
           Y == PolicyParts(o.policies)
           M == When(HasMcpServer(o), McpCognitoPart ++ McpServerPart ++ McpTargetPart)
<1>1. gw \in Names(plain)
  <2>1. gw \in Names(GatewayPart)
    BY PartNames
  <2> HIDE DEF R, T, C, K
  <2> QED BY <2>1, JoinNames
<1>2. GatewayParts(o) = A ++ B ++ Y ++ M
  BY DEF GatewayParts, EngineOn
<1> HIDE DEF plain
<1>3. gw \in Names(A) /\ "PolicyEngine" \in A[gw]
  BY <1>1 DEF Names
<1> HIDE DEF A, B, Y, M
<1>4. gw \in Names(A ++ B) /\ (A ++ B)[gw] = A[gw]
  BY <1>3, JoinNames, JoinAt
<1>5. gw \in Names(A ++ B ++ Y) /\ (A ++ B ++ Y)[gw] = A[gw]
  BY <1>4, JoinNames, JoinAt
<1>6. GatewayParts(o)[gw] = A[gw] /\ gw \in Names(GatewayParts(o))
  BY <1>2, <1>5, JoinNames, JoinAt
<1> DEFINE F == Provider ++ CodePackage ++ RuntimeRole
           G == When(HasGateway(o), GatewayParts(o))
           m == When(HasMemory(o), MemoryPart)
           v == When(o.evaluation, EvaluationPart)
           q == When(o.guardrails, GuardrailPart)
           r == RuntimePart(o)
<1>7. G = GatewayParts(o)
  BY DEF When
<1>8. gw \notin Names(F)
  BY JoinNames, PartNames
<1>9. Resources(o) = F ++ G ++ m ++ v ++ q ++ r
  BY DEF Resources
<1> HIDE DEF F, G, m, v, q, r
<1>10. gw \in Names(F ++ G) /\ (F ++ G)[gw] = A[gw]
  BY <1>6, <1>7, <1>8, JoinNames, JoinAt
<1>11. gw \in Names(F ++ G ++ m) /\ (F ++ G ++ m)[gw] = A[gw]
  BY <1>10, JoinNames, JoinAt
<1>12. gw \in Names(F ++ G ++ m ++ v) /\ (F ++ G ++ m ++ v)[gw] = A[gw]
  BY <1>11, JoinNames, JoinAt
<1>13. gw \in Names(F ++ G ++ m ++ v ++ q) /\ (F ++ G ++ m ++ v ++ q)[gw] = A[gw]
  BY <1>12, JoinNames, JoinAt
<1>14. gw \in Names(Resources(o)) /\ Resources(o)[gw] = A[gw]
  BY <1>9, <1>13, JoinNames, JoinAt
<1>15. "PolicyEngine" \in Names(Resources(o))
  BY TemplateNames, GatewayNames
<1> QED BY <1>3, <1>14, <1>15

\* An MCP server without a gateway: the runtime waits for a target that is not there.
LEMMA TargetMissing ==
  ASSUME NEW o \in Order, HasMcpServer(o), ~HasGateway(o)
  PROVE  /\ "McpServerGatewayTarget" \in Resources(o)["AgentCoreRuntime"]
         /\ "AgentCoreRuntime" \in Names(Resources(o))
         /\ {"McpServerGatewayTarget", "McpServerRuntime"} \cap Names(Resources(o)) = {}
         /\ {"McpServerGatewayTarget", "McpServerRuntime"} \cap Parameters(o) = {}
<1> DEFINE G == When(HasGateway(o), GatewayParts(o))
           M == When(HasMemory(o), MemoryPart)
           E == When(o.evaluation, EvaluationPart)
           Q == When(o.guardrails, GuardrailPart)
           R == RuntimePart(o)
           X == Provider ++ CodePackage ++ RuntimeRole ++ G ++ M ++ E ++ Q
           rt == "AgentCoreRuntime"
<1>1. Resources(o) = X ++ R
  BY DEF Resources
<1>2. rt \in Names(R) /\ "McpServerGatewayTarget" \in R[rt]
  <2>1. Names(R) = {"AgentCoreRuntime", "RuntimeEndpoint"}
    BY PartNames
  <2>2. "McpServerGatewayTarget" \in R[rt]
    BY DEF RuntimePart
  <2> QED BY <2>1, <2>2
<1>3. rt \notin Names(G)
  BY PartNames DEF When
<1>4. rt \notin Names(M)
  <2>1. CASE HasMemory(o)
    BY <2>1, PartNames DEF When
  <2>2. CASE ~HasMemory(o)
    BY <2>2, PartNames DEF When
  <2> QED BY <2>1, <2>2
<1>5. rt \notin Names(E)
  <2>1. CASE o.evaluation
    BY <2>1, PartNames DEF When
  <2>2. CASE ~o.evaluation
    BY <2>2, PartNames DEF When
  <2> QED BY <2>1, <2>2
<1>6. rt \notin Names(Q)
  <2>1. CASE o.guardrails
    BY <2>1, PartNames DEF When
  <2>2. CASE ~o.guardrails
    BY <2>2, PartNames DEF When
  <2> QED BY <2>1, <2>2
<1>7. rt \notin Names(Provider) /\ rt \notin Names(CodePackage) /\ rt \notin Names(RuntimeRole)
  BY PartNames
<1> HIDE DEF G, M, E, Q, R
<1>8. rt \notin Names(X)
  BY <1>3, <1>4, <1>5, <1>6, <1>7, JoinNames
<1> HIDE DEF X
<1>9. rt \in Names(Resources(o)) /\ Resources(o)[rt] = R[rt]
  BY <1>1, <1>2, <1>8, JoinNames, JoinAt
<1>10. {"McpServerGatewayTarget", "McpServerRuntime"} \cap Names(Resources(o)) = {}
  BY TemplateNames
<1>11. {"McpServerGatewayTarget", "McpServerRuntime"} \cap Parameters(o) = {}
  BY DEF Parameters, ParameterName
<1> QED BY <1>2, <1>9, <1>10, <1>11

\* A Lambda of the template finds its code among the files.
LEMMA CodeShipped ==
  ASSUME NEW o \in Order, NEW n \in Names(Resources(o)) \cap DOMAIN CodeOf(o)
  PROVE  CodeOf(o)[n] \in Files(o)
<1> DEFINE A == [CfnProviderLambda |-> "handler.py", AgentCodePackage |-> "agent.py",
                 McpServerCodePackage |-> "mcp_server.py",
                 DynamicToolsLambda |-> "dynamic_tools.py",
                 CustomerSupportToolsLambda |-> "customer_support_tools.py"]
           B == [x \in CustomLambdas(o.customs) |-> "ct_" \o x]
<1>1. Names(A) = {"CfnProviderLambda", "AgentCodePackage", "McpServerCodePackage",
                  "DynamicToolsLambda", "CustomerSupportToolsLambda"}
      /\ Names(B) = CustomLambdas(o.customs)
  BY DEF Names
<1>2. CodeOf(o) = A ++ B
  BY DEF CodeOf
<1>3. n \in Names(A) \cup Names(B)
  <2> HIDE DEF A, B
  <2>1. Names(CodeOf(o)) = DOMAIN CodeOf(o)
    BY DEF Names
  <2> QED BY <1>2, <2>1, JoinNames
<1>4. CodeOf(o)[n] = IF n \in Names(A) THEN A[n] ELSE B[n]
  <2> HIDE DEF A, B
  <2> QED BY <1>2, <1>3, JoinAt
<1>5. CASE n \notin Names(A)
  <2>1. B[n] = "ct_" \o n /\ n \in CustomLambdas(o.customs)
    BY <1>1, <1>3, <1>5
  <2> QED BY <1>4, <1>5, <2>1 DEF Files
<1>6. CASE n \in {"CfnProviderLambda", "AgentCodePackage"}
  <2>1. CodeOf(o)[n] \in {"handler.py", "agent.py"}
    BY <1>1, <1>4, <1>6
  <2> QED BY <2>1 DEF Files
<1>7. n \in Names(Resources(o))
  OBVIOUS
<1>8. n \notin CustomLambdas(CustomTool) \cup CustomPermissions(CustomTool) \cup Others
      \/ n \notin Names(A)
  <2>1. {"CfnProviderLambda", "DynamicToolsLambda", "CustomerSupportToolsLambda"} \subseteq Level2
        /\ {"AgentCodePackage", "McpServerCodePackage"} \subseteq Level3
    BY DEF Level2, Level3
  <2>2. Names(A) \subseteq FixedName
    BY <1>1, <2>1, Fixed
  <2> QED BY <2>2, NamesAssumption DEF NamesApart, Others
<1>9. o.customs \in SUBSET CustomTool /\ o.policies \in 0..MaxPolicies
  BY DEF Order
<1>10. n \in Names(A) => n \notin Names(CustomParts(o.customs)) /\ n \notin PolicyName(o.policies)
  <2>1. PolicyName(o.policies) \subseteq PolicyName(MaxPolicies)
    BY <1>9, PolicyNames
  <2>2. Names(CustomParts(o.customs)) \subseteq
          CustomLambdas(CustomTool) \cup CustomPermissions(CustomTool) \cup Others
    BY <1>9, CustomNames DEF CustomLambdas, CustomPermissions, CustomTargets, Others
  <2>3. n \in Names(A) => n # "DefaultPolicy"
    BY <1>1
  <2> QED BY <1>8, <2>1, <2>2, <2>3 DEF Others
<1>11. CASE n \in {"McpServerCodePackage", "DynamicToolsLambda", "CustomerSupportToolsLambda"}
  <2>1. n \in Names(A)
    BY <1>1, <1>11
  <2>2. HasGateway(o) /\ n \in Names(GatewayParts(o))
    BY <1>7, <1>11, TemplateNames
  <2>3. \/ n \in Names(ToolParts(GatewayTools(o)))
        \/ HasMcpServer(o) /\ n = "McpServerCodePackage"
    BY <1>10, <1>11, <2>1, <2>2, GatewayNames, KnowledgeBaseNames, PartNames
  <2>4. CASE n = "McpServerCodePackage"
    <3>1. HasMcpServer(o)
      BY <2>3, <2>4, ToolNames
    <3>2. CodeOf(o)[n] = "mcp_server.py"
      BY <1>4, <2>1, <2>4
    <3> QED BY <3>1, <3>2 DEF Files
  <2>5. CASE n = "DynamicToolsLambda"
    <3>1. GatewayTools(o) \cap Dynamic # {}
      BY <2>3, <2>5, ToolNames
    <3>2. "dynamic_tools.py" \in ToolFiles(o)
      BY <3>1 DEF GatewayTools, ToolFiles, Dynamic, CustomerSupport
    <3>3. CodeOf(o)[n] = "dynamic_tools.py"
      BY <1>4, <2>1, <2>5
    <3>4. GatewayTools(o) # {}
      BY <3>1
    <3> QED BY <2>2, <3>2, <3>3, <3>4 DEF Files
  <2>6. CASE n = "CustomerSupportToolsLambda"
    <3>1. GatewayTools(o) \cap CustomerSupport # {}
      BY <2>3, <2>6, ToolNames
    <3>2. "customer_support_tools.py" \in ToolFiles(o)
      BY <3>1 DEF GatewayTools, ToolFiles, Dynamic, CustomerSupport
    <3>3. CodeOf(o)[n] = "customer_support_tools.py"
      BY <1>4, <2>1, <2>6
    <3>4. GatewayTools(o) # {}
      BY <3>1
    <3> QED BY <2>2, <3>2, <3>3, <3>4 DEF Files
  <2> QED BY <1>11, <2>4, <2>5, <2>6
<1> QED BY <1>1, <1>5, <1>6, <1>11

\* What is known of an export at any time: the template is that of its order, and
\* what CloudFormation has made lacks nothing it refers to.
AsOrdered ==
  stack # "asked" =>
    template = Resources(order) /\ outputs = OutputRefs(order) /\ shipped = Files(order)

Upright ==
  /\ \A n \in created : template[n] \cap Names(template) \subseteq created
  /\ stack \in {"asked", "generated"} => created = {}
  /\ stack = "creating" => created # Names(template)

ExportInv == ExportTypeOK /\ AsOrdered /\ Upright

\* The invariant holds at first and after every step.
LEMMA ExportStarts == ExportInit => ExportInv
BY DEF ExportInit, ExportInv, ExportTypeOK, AsOrdered, Upright

LEMMA ExportMoves == ExportInv /\ [ExportNext]_exportVars => ExportInv'
<1> SUFFICES ASSUME ExportInv, [ExportNext]_exportVars PROVE ExportInv'
  OBVIOUS
<1>0. /\ order \in Order
      /\ stack \in {"asked", "generated", "creating", "invalid", "created"}
      /\ created \subseteq Names(template)
      /\ AsOrdered /\ Upright
  BY DEF ExportInv, ExportTypeOK, Names
<1>1. CASE Generate
  <2>1. created' = {} /\ template' = Resources(order) /\ order' = order /\ stack' = "generated"
        /\ outputs' = OutputRefs(order) /\ shipped' = Files(order)
    BY <1>0, <1>1 DEF Generate, Upright
  <2>2. AsOrdered'
    BY <2>1 DEF AsOrdered
  <2> QED BY <1>0, <2>1, <2>2 DEF ExportInv, ExportTypeOK, Upright
<1>2. CASE DeployScript
  <2>1. /\ stack = "generated" /\ created = {}
        /\ template' = template /\ created' = created /\ order' = order
        /\ outputs' = outputs /\ shipped' = shipped
        /\ stack' \in {"creating", "invalid"}
    BY <1>0, <1>2 DEF DeployScript, Upright
  <2>2. AsOrdered'
    BY <1>0, <2>1 DEF AsOrdered
  <2>3. Names(template) # {}
    BY <1>0, <2>1, TemplateNames DEF AsOrdered
  <2>4. Upright'
    BY <2>1, <2>3 DEF Upright, Names
  <2> QED BY <1>0, <2>1, <2>2, <2>4 DEF ExportInv, ExportTypeOK
<1>3. CASE CreateReady
  <2>1. /\ stack = "creating" /\ created' = created \cup Ready
        /\ template' = template /\ order' = order /\ outputs' = outputs /\ shipped' = shipped
        /\ stack' = IF created' = Names(template) THEN "created" ELSE stack
    BY <1>3 DEF CreateReady, Names
  <2>2. Ready \subseteq Names(template)
        /\ \A n \in Ready : template[n] \cap Names(template) \subseteq created
    BY DEF Ready, Names
  <2>3. AsOrdered'
    BY <1>0, <2>1 DEF AsOrdered
  <2>4. Names(template)' = Names(template)
    BY <2>1 DEF Names
  <2>5. \A n \in created' : template'[n] \cap Names(template)' \subseteq created'
    BY <1>0, <2>1, <2>2, <2>4 DEF Upright
  <2>6. Upright'
    BY <2>1, <2>4, <2>5 DEF Upright
  <2> QED BY <1>0, <2>1, <2>2, <2>3, <2>4, <2>6 DEF ExportInv, ExportTypeOK, Names
<1>4. CASE UNCHANGED exportVars
  BY <1>4 DEF exportVars, ExportInv, ExportTypeOK, AsOrdered, Upright, Names
<1> QED BY <1>1, <1>2, <1>3, <1>4 DEF ExportNext

\* At any time the template is the one its order asks for, and CloudFormation has
\* made nothing before what it refers to.
THEOREM ExportInvariant == ExportSpec => []ExportInv
BY ExportStarts, ExportMoves, PTL DEF ExportSpec

\* The export's variables keep their shape, for any templates, custom tools and
\* policies.
THEOREM ExportTypes == ExportSpec => []ExportTypeOK
<1>1. ExportInv => ExportTypeOK
  BY DEF ExportInv
<1> QED BY <1>1, ExportInvariant, PTL

\* The outputs name what is there, but for the server of that same case.
LEMMA OutputsKnown ==
  ASSUME NEW o \in Order
  PROVE  OutputRefs(o) \subseteq
           Known(o) \cup (IF HasMcpServer(o) /\ ~HasGateway(o) THEN {"McpServerRuntime"} ELSE {})
<1> DEFINE S == Known(o)
<1>1. {"AgentCoreRuntime", "RuntimeEndpoint"} \subseteq S
  BY TemplateNames DEF Known
<1>2. HasGateway(o) => "AgentCoreGateway" \in S
  BY TemplateNames, GatewayNames DEF Known
<1>3. HasMemory(o) => "AgentCoreMemory" \in S
  BY TemplateNames DEF Known
<1>4. HasMcpServer(o) /\ HasGateway(o) => "McpServerRuntime" \in S
  <2>1. "McpServerRuntime" \in Names(McpServerPart)
    BY PartNames
  <2> QED BY <2>1, TemplateNames, GatewayNames DEF Known
<1> HIDE DEF S
<1>5. OutputRefs(o) \subseteq S \cup (IF HasMcpServer(o) /\ ~HasGateway(o)
                                     THEN {"McpServerRuntime"} ELSE {})
  BY <1>1, <1>2, <1>3, <1>4 DEF OutputRefs
<1> QED BY <1>5 DEF S

\* Nothing a template refers to is missing, whatever features, tools, policies and
\* knowledge base the canvas combines, but for the MCP server without a gateway,
\* where the missing are exactly the target and the server.
THEOREM TemplatesResolve == ExportSpec => []ExportResolves
<1>1. ASSUME ExportInv, stack # "asked"
      PROVE  IF HasMcpServer(order) /\ ~HasGateway(order)
             THEN Dangling = {"McpServerGatewayTarget", "McpServerRuntime"}
             ELSE Dangling = {}
  <2> DEFINE o == order
             N == Names(Resources(o)) \cup Parameters(o)
  <2>1. /\ o \in Order /\ template = Resources(o) /\ outputs = OutputRefs(o)
    BY <1>1 DEF ExportInv, ExportTypeOK, AsOrdered
  <2>2. Dangling = (outputs \cup UNION {template[n] : n \in Names(template)}) \ N
    BY <2>1 DEF Dangling, Referred, Names
  <2>3. \A n \in Names(template) : template[n] \subseteq Known(o)
    BY <2>1, GoodTemplate DEF Good
  <2>4. CASE ~(HasMcpServer(o) /\ ~HasGateway(o))
    <3>1. Known(o) = N
      BY <2>4 DEF Known
    <3>2. outputs \subseteq N
      BY <2>1, <2>4, <3>1, OutputsKnown
    <3> QED BY <2>2, <2>3, <2>4, <3>1, <3>2
  <2>5. CASE HasMcpServer(o) /\ ~HasGateway(o)
    <3>1. Known(o) = N \cup {"McpServerGatewayTarget"}
      BY <2>5 DEF Known
    <3>2. outputs \subseteq N \cup {"McpServerGatewayTarget", "McpServerRuntime"}
      BY <2>1, <2>5, <3>1, OutputsKnown
    <3>3. "McpServerRuntime" \in outputs
      BY <2>1, <2>5 DEF OutputRefs
    <3>4. "McpServerGatewayTarget" \in template["AgentCoreRuntime"]
          /\ "AgentCoreRuntime" \in Names(template)
          /\ {"McpServerGatewayTarget", "McpServerRuntime"} \cap N = {}
      BY <2>1, <2>5, TargetMissing
    <3> HIDE DEF N
    <3> QED BY <2>2, <2>3, <2>5, <3>1, <3>2, <3>3, <3>4
  <2> QED BY <2>4, <2>5
<1>2. ExportInv => ExportResolves
  BY <1>1 DEF ExportResolves
<1> QED BY <1>2, ExportInvariant, PTL

\* Of any names some is the lowest.
LEMMA LowestOf ==
  ASSUME NEW S, S # {}
  PROVE  \E n \in S : \A m \in S : ~(Height(m) < Height(n))
<1> DEFINE H == {Height(n) : n \in S}
<1>1. H \subseteq Nat /\ H # {}
  BY Heights
<1>2. PICK h \in H : \A k \in H : ~(<<k, h>> \in OpToRel(<, Nat))
  BY <1>1, NatLessThanWellFounded, WFMin
<1>3. \A k \in H : ~(k < h)
  BY <1>1, <1>2 DEF OpToRel
<1> QED BY <1>3

\* A stack that CloudFormation has begun can always go on, each Lambda it has made
\* has its code, and a gateway with policies has its engine.
THEOREM StacksComeUp == ExportSpec => []StackComesUp
<1>1. ASSUME ExportInv, stack = "creating" PROVE Ready # {}
  <2>1. order \in Order /\ template = Resources(order)
        /\ created \subseteq Names(template) /\ created # Names(template)
    BY <1>1 DEF ExportInv, ExportTypeOK, AsOrdered, Upright, Names
  <2>2. PICK n \in Names(template) \ created :
          \A m \in Names(template) \ created : ~(Height(m) < Height(n))
    BY <2>1, LowestOf
  <2>3. \A m \in template[n] : Height(m) < Height(n)
    BY <2>1, <2>2, GoodTemplate DEF Good
  <2>4. template[n] \cap Names(template) \subseteq created
    BY <2>2, <2>3
  <2>5. n \in Ready
    BY <2>2, <2>4 DEF Ready, Names
  <2> QED BY <2>5
<1>2. ASSUME ExportInv, stack = "creating", NEW n \in created \cap DOMAIN CodeOf(order)
      PROVE  CodeOf(order)[n] \in shipped
  <2>1. /\ order \in Order /\ n \in Names(Resources(order)) \cap DOMAIN CodeOf(order)
        /\ shipped = Files(order)
    BY <1>2 DEF ExportInv, ExportTypeOK, AsOrdered, Names
  <2> QED BY <2>1, CodeShipped
<1>3. ASSUME ExportInv, stack = "creating", order.policy, "AgentCoreGateway" \in created
      PROVE  "PolicyEngine" \in created
  <2>1. /\ order \in Order /\ template = Resources(order) /\ created \subseteq Names(template)
        /\ \A n \in created : template[n] \cap Names(template) \subseteq created
    BY <1>3 DEF ExportInv, ExportTypeOK, AsOrdered, Upright, Names
  <2>2. HasGateway(order)
    BY <1>3, <2>1, TemplateNames
  <2> QED BY <1>3, <2>1, <2>2, EngineNeeded
<1>4. ExportInv => StackComesUp
  BY <1>1, <1>2, <1>3 DEF StackComesUp
<1> QED BY <1>4, ExportInvariant, PTL
=============================================================================
