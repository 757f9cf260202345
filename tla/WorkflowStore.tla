--------------------------- MODULE WorkflowStore ---------------------------
(***************************************************************************)
(* The saved workflows and flows.  A request on a workflow reads the row,  *)
(* checks who asks, works on its copy, which takes minutes for a           *)
(* deployment and a fetch for a git synchronisation, and has the storage   *)
(* put the copy back: the storage looks whether the row is still there and *)
(* writes all of it.  The storage of the flows makes the change on what it *)
(* has just read.  No put has a condition; each call is a step, and        *)
(* requests interleave.                                                    *)
(***************************************************************************)
EXTENDS Naturals

CONSTANTS
  Sub,       \* the subs of the callers
  NoSub,     \* no sub, as in rows from before there were owners
  Doc,       \* ids of workflows and flows
  FlowDoc,   \* those of them that are flows
  Saver,     \* requests at one time
  Content,   \* what a name, the nodes or the edges may be
  Connects,  \* edges that join none but such nodes
  NotGiven,  \* what an update leaves out
  Edits,     \* what the update of a workflow or a flow may say
  Specs,     \* what a creation, or the file of a git repository, may say
  Import,    \* the workflows whose JSON is imported
  MaxSaves   \* bound on the requests

\* name stands for the description, the version and the viewport too, and
\* deployed for the metadata with it.
Fields == {"name", "nodes", "edges"}
DeploymentStatus == {"not", "deploying", "deployed", "failed"}
DocRow == [owner : Sub \cup {NoSub}, text : [Fields -> Content],
           deployed : DeploymentStatus, git : BOOLEAN,
           editors : SUBSET Sub, viewers : SUBSET Sub, aclOwner : Sub \cup {NoSub}]
NoRow == [row |-> "none"]
Draft == [text : [Fields -> Content \cup {NotGiven}], status : DeploymentStatus \cup {NotGiven}]

\* What the model of a workflow accepts: no edge ends where no node is.
Whole(r) == <<r.text["edges"], r.text["nodes"]>> \in Connects

ASSUME StoreAssumption ==
  /\ NoSub \notin Sub /\ FlowDoc \subseteq Doc
  /\ Import \subseteq {r \in DocRow : Whole(r)} /\ MaxSaves \in Nat
  /\ NotGiven \notin Content \cup DeploymentStatus
  /\ Edits \subseteq Draft /\ Specs \subseteq {x \in Draft : x.status \in DeploymentStatus}

VARIABLES
  docs,    \* the two tables
  drawn,   \* ids given out
  saves,   \* the requests under way
  saved,   \* requests so far
  ideal    \* what the documents are to be

storeVars == <<docs, drawn, saves, saved, ideal>>

Idle == [op |-> "none"]

---------------------------------------------------------------------------
(* workspace_acl: who may do what with a row.                              *)

ResolvedOwner(r) == IF r.owner # NoSub THEN r.owner ELSE r.aclOwner

RoleOf(r, s) ==
  LET owner == ResolvedOwner(r) IN
  IF owner = NoSub THEN "none"
  ELSE IF s = owner THEN "owner"
  ELSE IF s \in r.editors THEN "editor"
  ELSE IF s \in r.viewers THEN "viewer" ELSE "none"

(* Normalised: the owner in neither list, an editor not among the viewers. *)
Normalize(r) ==
  LET owner == ResolvedOwner(r) IN
  [r EXCEPT !.aclOwner = owner, !.editors = @ \ {owner},
            !.viewers = (@ \ r.editors) \ {owner}]

AddMember(r, s, role) ==
  LET n == Normalize(r) IN
  [n EXCEPT !.editors = (@ \ {s}) \cup (IF role = "editor" THEN {s} ELSE {}),
            !.viewers = (@ \ {s}) \cup (IF role = "viewer" THEN {s} ELSE {})]

\* Mutant of RemoveMember: only viewers are removed.
RemoveViewer(r, s) == [Normalize(r) EXCEPT !.viewers = @ \ {s}]

RemoveMember(r, s) ==
  [Normalize(r) EXCEPT !.editors = @ \ {s}, !.viewers = @ \ {s}]

CanEdit(r, who) == RoleOf(r, who) \in {"owner", "editor"}
Owns(r, who) == r.owner = who

Permitted(op, r, who) ==
  CASE op \in {"edit", "connect", "sync"} -> CanEdit(r, who)
    [] op \in {"share", "unshare", "delete", "flowedit", "flowdelete"} -> Owns(r, who)
    [] op = "deploy" -> TRUE

---------------------------------------------------------------------------
(* What a request makes of its copy of the row.  An update takes what it   *)
(* is given, a synchronisation what the repository has, the deployment's   *)
(* status with the metadata, and the rest from the copy; a deployment says *)
(* how it went.                                                            *)

Overlay(x, r) ==
  [r EXCEPT !.text = [f \in Fields |-> IF x.text[f] = NotGiven THEN r.text[f] ELSE x.text[f]],
            !.deployed = IF x.status = NotGiven THEN r.deployed ELSE x.status]

EditDraft(q, r)     == Overlay(q.draft, r)
FlowDraft(q, r)     == Overlay(q.draft, r)
SyncDraft(q, r)     == Overlay(q.draft, r)
ConnectDraft(r)     == [r EXCEPT !.git = TRUE]
DeployDraft(q, r)   == [r EXCEPT !.deployed = q.verdict]

Applied(q, r) ==
  CASE q.op = "edit"     -> EditDraft(q, r)
    [] q.op = "flowedit" -> FlowDraft(q, r)
    [] q.op = "sync"     -> SyncDraft(q, r)
    [] q.op = "connect"  -> ConnectDraft(r)
    [] q.op = "share"    -> AddMember(r, q.sub, q.role)
    [] q.op = "unshare"  -> RemoveMember(r, q.sub)
    [] q.op = "deploy"   -> DeployDraft(q, r)
    [] q.op \in {"delete", "flowdelete"} -> NoRow
    [] q.op = "import"   -> q.copy

(* A flow is given a name, a whole workflow, or both.                      *)
FlowRequests ==
  [op : {"flowedit"},
   draft : {x \in Edits : /\ x.status = NotGiven
                          /\ x.text["nodes"] = NotGiven <=> x.text["edges"] = NotGiven}]
  \cup [op : {"flowdelete"}]

(* Nothing is shared with the owner of the row.                            *)
SharingRequests(r) ==
  [op : {"share"}, sub : Sub \ {r.owner}, role : {"viewer", "editor"}]
  \cup [op : {"unshare"}, sub : Sub \ {r.owner}]

GitRequests(r) ==
  [op : {"connect"}] \cup (IF r.git THEN [op : {"sync"}, draft : Specs] ELSE {})

Requests(d, r) ==
  IF d \in FlowDoc THEN FlowRequests
  ELSE [op : {"edit"}, draft : Edits] \cup [op : {"delete"}]
       \cup [op : {"deploy"}, verdict : {"deployed", "failed"}]
       \cup SharingRequests(r) \cup GitRequests(r)

(* A request under way: what it asks, of what, by whom, its copy, and what *)
(* the document was to be when the copy was taken.                         *)
Underway(q, d, who, copy, stage) ==
  [k \in DOMAIN q \cup {"doc", "who", "copy", "stage", "straddled", "seen"} |->
     CASE k = "doc" -> d [] k = "who" -> who [] k = "copy" -> copy
       [] k = "stage" -> stage [] k = "straddled" -> FALSE [] k = "seen" -> ideal[d]
       [] OTHER -> q[k]]

(* Whose copy is out of date once d has been written.                      *)
Straddled(d, h) ==
  [x \in Saver |->
     IF x # h /\ saves[x] # Idle /\ saves[x].doc = d
        /\ (d \in FlowDoc \/ saves[x].op = "import" => saves[x].stage = "write")
     THEN [saves[x] EXCEPT !.straddled = TRUE]
     ELSE IF x = h THEN Idle ELSE saves[x]]

---------------------------------------------------------------------------
(* What the documents are to be: owner, text, deployment and roles, as     *)
(* each request changes them on its own.                                   *)

Meaning(r) ==
  IF r = NoRow THEN NoRow
  ELSE [owner |-> r.owner, text |-> r.text, deployed |-> r.deployed, git |-> r.git,
        roles |-> [s \in Sub |-> RoleOf(r, s)]]

Given(x) ==
  {f \in Fields : x.text[f] # NotGiven} \cup (IF x.status # NotGiven THEN {"status"} ELSE {})

Meant(q, m) ==
  CASE q.op \in {"delete", "flowdelete"} -> NoRow
    [] q.op = "import" -> Meaning(q.copy)
    [] q.op \in {"edit", "flowedit", "sync"} ->
         [m EXCEPT !.text = [f \in Fields |-> IF f \in Given(q.draft) THEN q.draft.text[f]
                                              ELSE m.text[f]],
                   !.deployed = IF "status" \in Given(q.draft) THEN q.draft.status
                                ELSE m.deployed]
    [] q.op = "connect" -> [m EXCEPT !.git = TRUE]
    [] q.op = "share"   -> [m EXCEPT !.roles = [m.roles EXCEPT ![q.sub] = q.role]]
    [] q.op = "unshare" -> [m EXCEPT !.roles = [m.roles EXCEPT ![q.sub] = "none"]]
    [] q.op = "deploy"  -> [m EXCEPT !.deployed = q.verdict]

MeantAllowed(q, m) ==
  CASE q.op \in {"edit", "connect", "sync"} -> m.roles[q.who] \in {"owner", "editor"}
    [] q.op \in {"share", "unshare", "delete", "flowedit", "flowdelete"} -> m.owner = q.who
    [] q.op = "deploy" -> TRUE
    [] q.op = "import" -> FALSE

(* A request does what it says if it may, and nothing if it may not: to    *)
(* the document as it is to be, or, if its copy is out of date, as it was  *)
(* to be when the copy was taken, and so undoes what was written since.    *)
IdealAfter(q) ==
  LET before == IF q.straddled THEN q.seen ELSE ideal[q.doc] IN
  IF before = NoRow THEN IF q.op = "import" THEN Meaning(q.copy) ELSE NoRow
  ELSE IF MeantAllowed(q, before) THEN Meant(q, before) ELSE before

---------------------------------------------------------------------------
StoreInit ==
  /\ docs = [d \in Doc |-> NoRow]
  /\ drawn = {} /\ saved = 0
  /\ saves = [h \in Saver |-> Idle]
  /\ ideal = [d \in Doc |-> NoRow]

Accept(h) ==
  /\ saves[h] = Idle /\ saved < MaxSaves
  /\ saved' = saved + 1

(* create: under an id drawn for it, so nobody else writes there.          *)
CreateDoc(h) ==
  /\ Accept(h)
  /\ \E d \in Doc \ drawn, who \in Sub, x \in {x \in Specs : Fields \subseteq Given(x)} :
       LET r == [owner |-> who, text |-> x.text,
                 deployed |-> IF d \in FlowDoc THEN "not" ELSE x.status,
                 git |-> FALSE, editors |-> {}, viewers |-> {}, aclOwner |-> NoSub] IN
       /\ docs[d] = NoRow /\ Whole(r)
       /\ docs' = [docs EXCEPT ![d] = r]
       /\ ideal' = [ideal EXCEPT ![d] = Meaning(r)]
       /\ drawn' = drawn \cup {d}
       /\ saves' = Straddled(d, h)

(* import: under the id in the JSON, or a new one where that is taken; the *)
(* storage looks again before it writes.                                   *)
ImportDoc(h) ==
  /\ Accept(h)
  /\ \E d \in Doc \ FlowDoc, who \in Sub, r \in Import :
       /\ docs[d] = NoRow
       /\ drawn' = drawn \cup {d}
       /\ saves' = [saves EXCEPT ![h] = Underway([op |-> "import"], d, who, r, "work")]
  /\ UNCHANGED <<docs, ideal>>

(* A workflow that its model does not accept is not read: the storage      *)
(* raises.  An update may have written it, which nothing has validated.    *)
Readable(d) == d \in FlowDoc \/ Whole(docs[d])

(* Any other request: the row is read and the caller checked.              *)
ReadDoc(h) ==
  /\ Accept(h)
  /\ \E d \in Doc, who \in Sub :
       /\ docs[d] # NoRow /\ Readable(d)
       /\ \E q \in Requests(d, docs[d]) :
            /\ Permitted(q.op, docs[d], who)
            /\ saves' = [saves EXCEPT ![h] = Underway(q, d, who, docs[d], "work")]
  /\ UNCHANGED <<docs, drawn, ideal>>

(* A synchronisation validates what it has put together; then the storage  *)
(* looks whether the row is there, and an update reads it.                 *)
Refused(q) ==
  \/ (docs[q.doc] = NoRow) # (q.op = "import")
  \/ q.op \notin {"import", "delete", "flowdelete"} /\ ~Readable(q.doc)
  \/ q.op = "sync" /\ ~Whole(SyncDraft(q, q.copy))

(* For a flow the storage goes on with what it finds.                      *)
LookAgain(h) ==
  /\ saves[h] # Idle /\ saves[h].stage = "work"
  /\ LET q == saves[h]
         flow == q.doc \in FlowDoc IN
     saves' = [saves EXCEPT ![h] =
       IF Refused(q) THEN Idle
       ELSE [q EXCEPT !.stage = "write",
                      !.copy = IF flow THEN docs[q.doc] ELSE q.copy,
                      !.seen = IF flow THEN ideal[q.doc] ELSE q.seen]]
  /\ UNCHANGED <<docs, drawn, saved, ideal>>

WriteDoc(h) ==
  /\ saves[h] # Idle /\ saves[h].stage = "write"
  /\ LET q == saves[h]
         r == Applied(q, q.copy) IN
     /\ docs' = [docs EXCEPT ![q.doc] = r]
     /\ ideal' = [ideal EXCEPT ![q.doc] = IdealAfter(q)]
     /\ saves' = Straddled(q.doc, h)
  /\ UNCHANGED <<drawn, saved>>

(* The fetch, the deployment or the write raises.                          *)
RequestFails(h) ==
  /\ saves[h] # Idle
  /\ saves' = [saves EXCEPT ![h] = Idle]
  /\ UNCHANGED <<docs, drawn, saved, ideal>>

StoreNext ==
  \E h \in Saver :
    \/ CreateDoc(h) \/ ImportDoc(h) \/ ReadDoc(h)
    \/ LookAgain(h) \/ WriteDoc(h) \/ RequestFails(h)

StoreSpec == StoreInit /\ [][StoreNext]_storeVars

---------------------------------------------------------------------------
(* The tables hold rows, and a request under way holds a row or the JSON.  *)
StoreTypeOK ==
  /\ docs \in [Doc -> DocRow \cup {NoRow}]
  /\ drawn \subseteq Doc /\ saved \in 0..MaxSaves
  /\ \A h \in {x \in Saver : saves[x] # Idle} :
       saves[h].doc \in Doc /\ saves[h].copy \in DocRow /\ saves[h].stage \in {"work", "write"}

(* Text, deployment, owner and everybody's role are what the requests, one *)
(* after the other, made of them.  A request between whose read and whose  *)
(* write another wrote the same document, on a flow between the storage's  *)
(* own read and its write, makes of it what it says to the document it had *)
(* read, under the rights its caller had then: it undoes the other, and    *)
(* nothing else.                                                           *)
DocsSayWhatWasAsked == \A d \in Doc : Meaning(docs[d]) = ideal[d]
=============================================================================
