--------------------------- MODULE AgentRegistry ---------------------------
(***************************************************************************)
(* The catalog of published agents: /api/registry over a provider, which   *)
(* is the platform's own table or, selected by an admin, LiteLLM's server  *)
(* list with that table as a sidecar for what LiteLLM cannot store.        *)
(*                                                                         *)
(* A handler resolves the provider once, reads the entry, decides, and     *)
(* writes without a condition: a put replaces the row, an update sets      *)
(* attributes of whatever row is there, and creates one where there is     *)
(* none.  Such a row lacks the fields an entry must have, and reading it   *)
(* raises.  Each call of a handler is a step, and handlers interleave.     *)
(***************************************************************************)
EXTENDS Naturals

CONSTANTS
  Caller,          \* who calls the API
  Admins,          \* those of them with the registry-admin role
  Slug,            \* the entries' names in one organisation
  SuffixedSlug,    \* the slug with which a publisher evades another's
  Canvas,          \* canvas snapshots
  Scope,           \* visibilities used, a subset of {"private", "org"}
  RegistryFaults,  \* a subset of {"unreadable"}: LiteLLM does not answer
  MaxRegistryCalls \* bound on the requests

ASSUME RegistryAssumption ==
  /\ Admins \subseteq Caller
  /\ SuffixedSlug \in [Slug -> [Caller -> Slug]]
  /\ Scope \subseteq {"private", "org"} /\ "org" \in Scope
  /\ MaxRegistryCalls \in Nat

VARIABLES
  entries,     \* the table's row under each slug
  servers,     \* the slugs of the enabled servers in LiteLLM's list
  backend,     \* SETTING#registry_provider
  configured,  \* the LiteLLM settings row is there
  asks,        \* the request each caller has under way
  asked,       \* requests so far
  blessed,     \* what was in a row when an approval was written on it
  lastVerdict, \* the last verdict on the content of a row
  straddled,   \* slugs last written by a request that had read another row
  delivered    \* what was cloned by others than its owner or an admin

registryVars == <<entries, servers, backend, configured, asks, asked,
                  blessed, lastVerdict, straddled, delivered>>
settingVars == <<servers, backend, configured>>
registryHistory == <<blessed, lastVerdict, straddled, delivered>>

Review == {"pending", "approved", "rejected"}
Entry == [owner : Caller, canvas : Canvas, visibility : Scope, status : Review]

Missing == [row |-> "none"]         \* no row
Ghost == [row |-> "partial"]        \* a row an update made of nothing
Projected == [row |-> "projected"]  \* an entry standing for a server of LiteLLM
RowHere == Entry \cup {Missing, Ghost}

Quiet == [op |-> "none"]
Asking == [op : {"publish", "edit", "delete", "approve", "reject", "clone",
                 "enable", "disable"},
           step : {"get", "again", "check", "reget", "write", "provider", "config"},
           via : {"dynamodb", "litellm"},
           slug : Slug, canvas : Canvas, visibility : Scope,
           seen : RowHere \cup {Projected}]

IsAdmin(c) == c \in Admins

RegistryInit ==
  /\ entries = [s \in Slug |-> Missing]
  /\ servers = {}
  /\ backend = "dynamodb" /\ configured = FALSE
  /\ asks = [c \in Caller |-> Quiet]
  /\ asked = 0
  /\ blessed = {} /\ delivered = {} /\ straddled = {}
  /\ lastVerdict = [s \in Slug |-> "none"]

AnswerTo(c) == asks' = [asks EXCEPT ![c] = Quiet]
StepTo(c, step) == asks' = [asks EXCEPT ![c].step = step]

\* A request that reads or refuses, and changes nothing.
Reads == UNCHANGED <<entries, settingVars, asked, registryHistory>>

-----------------------------------------------------------------------------
(* Requests arrive.                                                        *)

\* The provider is resolved anew by each request, once.
Request(c, op, first, s, v, w) ==
  asks' = [asks EXCEPT ![c] =
    [op |-> op, step |-> first, via |-> backend, slug |-> s,
     canvas |-> v, visibility |-> w, seen |-> Missing]]

\* The canvas of a request that brings none.
Canvas0(v) == v = CHOOSE x \in Canvas : TRUE

Ask(c) ==
  /\ asks[c] = Quiet /\ asked < MaxRegistryCalls
  /\ asked' = asked + 1
  /\ \E s \in Slug, v \in Canvas, w \in Scope :
       \/ Request(c, "publish", "get", s, v, w)
       \/ Canvas0(v) /\ Request(c, "edit", "get", s, v, w)
       \/ /\ Canvas0(v) /\ w = "org"
          /\ \E op \in {"delete", "clone", "approve", "reject"} :
               /\ op \in {"approve", "reject"} => IsAdmin(c)
               /\ Request(c, op, "get", s, v, w)
  /\ UNCHANGED <<entries, settingVars, registryHistory>>

\* Settings requests of admins: enabling writes the configuration and then
\* selects the provider, disabling goes back first.
AskSetting(c) ==
  /\ asks[c] = Quiet /\ asked < MaxRegistryCalls /\ IsAdmin(c)
  /\ asked' = asked + 1
  /\ \E s \in Slug, v \in Canvas :
       /\ Canvas0(v) /\ s = (CHOOSE x \in Slug : TRUE)
       /\ \/ Request(c, "enable", "config", s, v, "org")
          \/ Request(c, "disable", "provider", s, v, "org")
  /\ UNCHANGED <<entries, settingVars, registryHistory>>

WriteConfig(c) ==
  /\ asks[c] # Quiet /\ asks[c].step = "config"
  /\ configured' = (asks[c].op = "enable")
  /\ IF asks[c].op = "enable" THEN StepTo(c, "provider") ELSE AnswerTo(c)
  /\ UNCHANGED <<entries, servers, backend, asked, registryHistory>>

WriteProvider(c) ==
  /\ asks[c] # Quiet /\ asks[c].step = "provider"
  /\ backend' = IF asks[c].op = "enable" THEN "litellm" ELSE "dynamodb"
  /\ IF asks[c].op = "enable" THEN AnswerTo(c) ELSE StepTo(c, "config")
  /\ UNCHANGED <<entries, servers, configured, asked, registryHistory>>

\* An operator enables or disables a server in LiteLLM.
FlipServer(s) ==
  /\ configured
  /\ servers' = IF s \in servers THEN servers \ {s} ELSE servers \cup {s}
  /\ UNCHANGED <<entries, backend, configured, asks, asked, registryHistory>>

-----------------------------------------------------------------------------
(* Reading.                                                                *)

\* _projected raises RegistryQueryFailed when the list cannot be read: 503.
CatalogFails == ~configured \/ "unreadable" \in RegistryFaults
CatalogReads == configured

\* What provider.get finds: the row, else under LiteLLM the server.
Finds(c, s) ==
  IF entries[s] # Missing THEN entries[s]
  ELSE IF asks[c].via = "litellm" /\ s \in servers THEN Projected
  ELSE Missing

\* The row decides before the list is asked for.
NeedsCatalog(c, s) == asks[c].via = "litellm" /\ entries[s] = Missing

OwnedBy(e, c) == e \in Entry /\ e.owner = c

\* 500: the row does not deserialize.  503: no list.
ReadRaises(c) ==
  /\ asks[c] # Quiet /\ asks[c].step \in {"get", "again", "reget"}
  /\ \/ entries[asks[c].slug] = Ghost
     \/ NeedsCatalog(c, asks[c].slug) /\ CatalogFails
        /\ (asks[c].step = "reget" => asks[c].op # "clone")
  /\ AnswerTo(c) /\ Reads

\* Mutant of Evades: only a server's slug is evaded.
EvadesServers(c, e) == asks[c].step = "get" /\ e = Projected

\* The slug is another's; the second one is taken as it is.
Evades(c, e) == asks[c].step = "get" /\ e # Missing /\ ~OwnedBy(e, c)

\* publish: the slug, or the suffixed one when another holds it.
ReadForPublish(c) ==
  LET a == asks[c]
      e == Finds(c, a.slug)
  IN
  /\ a # Quiet /\ a.op = "publish" /\ a.step \in {"get", "again"}
  /\ entries[a.slug] # Ghost
  /\ NeedsCatalog(c, a.slug) => CatalogReads
  /\ IF Evades(c, e)
     THEN asks' = [asks EXCEPT ![c].step = "again",
                               ![c].slug = SuffixedSlug[a.slug][c]]
     ELSE asks' = [asks EXCEPT ![c].seen = e,
            ![c].step = IF a.via = "litellm" THEN "check" ELSE "write"]
  /\ Reads

\* put of the LiteLLM provider refuses the slug of a server: 409.
CheckCollision(c) ==
  /\ asks[c] # Quiet /\ asks[c].step = "check"
  /\ \/ /\ CatalogReads /\ asks[c].slug \notin servers
        /\ StepTo(c, "write")
     \/ /\ CatalogFails \/ asks[c].slug \in servers
        /\ AnswerTo(c)
  /\ Reads

\* Who may do it, once the entry is known not to be a projection.
Allowed(c, e) ==
  CASE asks[c].op = "edit" -> OwnedBy(e, c)
    [] asks[c].op = "clone" -> \/ OwnedBy(e, c) \/ IsAdmin(c)
                               \/ e.status = "approved" /\ e.visibility = "org"
    [] asks[c].op = "delete" -> IsAdmin(c) \/ OwnedBy(e, c)
    [] OTHER -> IsAdmin(c)

\* The other handlers: 404 without an entry, 501 for a projection, 404 for
\* those who may not; then the store's own look at the row, if it has one.
ReadForChange(c) ==
  LET a == asks[c]
      e == Finds(c, a.slug)
  IN
  /\ a # Quiet /\ a.op # "publish" /\ a.step = "get"
  /\ entries[a.slug] # Ghost
  /\ NeedsCatalog(c, a.slug) => CatalogReads
  /\ IF e \in Entry /\ Allowed(c, e)
     THEN asks' = [asks EXCEPT ![c].seen = e,
            ![c].step = IF a.op = "delete" \/ (a.op = "clone" /\ a.via = "dynamodb")
                        THEN "write" ELSE "reget"]
     ELSE AnswerTo(c)
  /\ delivered' = IF a.op = "clone" /\ e \in Entry /\ Allowed(c, e)
                     /\ ~IsAdmin(c) /\ ~OwnedBy(e, c)
                  THEN delivered \cup {<<a.slug, e.owner, e.canvas>>}
                  ELSE delivered
  /\ UNCHANGED <<entries, settingVars, asked, blessed, lastVerdict, straddled>>

\* update and increment_usage look once more and give up without a row.
ReadAgain(c) ==
  LET a == asks[c] IN
  /\ a # Quiet /\ a.step = "reget"
  /\ entries[a.slug] # Ghost
  /\ IF entries[a.slug] = Missing THEN AnswerTo(c) ELSE StepTo(c, "write")
  /\ Reads

-----------------------------------------------------------------------------
(* Writing.                                                                *)

\* Mutant of StatusOnPublish: the owner's entry keeps its status.
StatusOfOwn(c) ==
  IF OwnedBy(asks[c].seen, c) THEN asks[c].seen.status ELSE "pending"

\* The review state of what is published: kept when the canvas is the same.
StatusOnPublish(c) ==
  LET e == asks[c].seen IN
  IF OwnedBy(e, c) /\ e.canvas = asks[c].canvas THEN e.status ELSE "pending"

Unlike(c) == entries[asks[c].slug] # asks[c].seen

\* Whether the last writer of the row had seen the row it replaced.
Straddle(s, unlike) ==
  straddled' = IF unlike THEN straddled \cup {s} ELSE straddled \ {s}

Publish(c) ==
  LET a == asks[c] IN
  /\ a # Quiet /\ a.op = "publish" /\ a.step = "write"
  /\ entries' = [entries EXCEPT ![a.slug] =
       [owner |-> c, canvas |-> a.canvas, visibility |-> a.visibility,
        status |-> StatusOnPublish(c)]]
  /\ Straddle(a.slug, Unlike(c) \/ (a.slug \in straddled /\ a.seen # Missing))
  /\ lastVerdict' = IF StatusOnPublish(c) = "pending"
                    THEN [lastVerdict EXCEPT ![a.slug] = "none"] ELSE lastVerdict
  /\ AnswerTo(c)
  /\ UNCHANGED <<settingVars, asked, blessed, delivered>>

\* update_item: attributes of the row that is there now.
SetOn(s, change) ==
  entries' = [entries EXCEPT ![s] = IF @ \in Entry THEN change ELSE Ghost]

\* An owner's edit asks for review again, an admin's does not.
Edit(c) ==
  LET a == asks[c]
      e == entries[a.slug]
  IN
  /\ a # Quiet /\ a.op = "edit" /\ a.step = "write"
  /\ SetOn(a.slug, [e EXCEPT !.visibility = a.visibility,
                             !.status = IF IsAdmin(c) THEN @ ELSE "pending"])
  /\ lastVerdict' = IF IsAdmin(c) THEN lastVerdict
                    ELSE [lastVerdict EXCEPT ![a.slug] = "none"]
  /\ AnswerTo(c)
  /\ UNCHANGED <<settingVars, asked, blessed, straddled, delivered>>

GiveVerdict(c) ==
  LET a == asks[c]
      e == entries[a.slug]
      verdict == IF a.op = "approve" THEN "approved" ELSE "rejected"
  IN
  /\ a # Quiet /\ a.op \in {"approve", "reject"} /\ a.step = "write"
  /\ SetOn(a.slug, [e EXCEPT !.status = verdict])
  /\ lastVerdict' = [lastVerdict EXCEPT ![a.slug] = verdict]
  /\ blessed' = IF a.op = "approve" /\ e \in Entry
                THEN blessed \cup {<<a.slug, e.owner, e.canvas>>} ELSE blessed
  /\ Straddle(a.slug, FALSE)
  /\ AnswerTo(c)
  /\ UNCHANGED <<settingVars, asked, delivered>>

Delete(c) ==
  LET a == asks[c] IN
  /\ a # Quiet /\ a.op = "delete" /\ a.step = "write"
  /\ entries' = [entries EXCEPT ![a.slug] = Missing]
  /\ lastVerdict' = [lastVerdict EXCEPT ![a.slug] = "none"]
  /\ Straddle(a.slug, FALSE)
  /\ AnswerTo(c)
  /\ UNCHANGED <<settingVars, asked, blessed, delivered>>

\* increment_usage: the count itself decides nothing here.
CountUse(c) ==
  LET a == asks[c] IN
  /\ a # Quiet /\ a.op = "clone" /\ a.step = "write"
  /\ SetOn(a.slug, entries[a.slug])
  /\ AnswerTo(c)
  /\ UNCHANGED <<settingVars, asked, registryHistory>>

-----------------------------------------------------------------------------
RegistryNext ==
  \/ \E c \in Caller :
       \/ Ask(c) \/ AskSetting(c) \/ WriteConfig(c) \/ WriteProvider(c)
       \/ ReadRaises(c) \/ ReadForPublish(c) \/ CheckCollision(c)
       \/ ReadForChange(c) \/ ReadAgain(c)
       \/ Publish(c) \/ Edit(c) \/ GiveVerdict(c) \/ Delete(c) \/ CountUse(c)
  \/ \E s \in Slug : FlipServer(s)

RegistrySpec == RegistryInit /\ [][RegistryNext]_registryVars

-----------------------------------------------------------------------------
(* Properties.                                                             *)

\* The type of every variable.
RegistryTypeOK ==
  /\ entries \in [Slug -> RowHere]
  /\ servers \subseteq Slug
  /\ backend \in {"dynamodb", "litellm"} /\ configured \in BOOLEAN
  /\ asks \in [Caller -> Asking \cup {Quiet}]
  /\ asked \in 0..MaxRegistryCalls
  /\ blessed \subseteq Slug \X Caller \X Canvas
  /\ delivered \subseteq Slug \X Caller \X Canvas
  /\ lastVerdict \in [Slug -> Review \cup {"none"}]
  /\ straddled \subseteq Slug

\* However publishes, edits, verdicts and deletes of one slug overlap, an entry
\* that counts as approved has the owner and the canvas of a row on which an
\* admin's approval was written, and that verdict was not taken back, unless
\* the row was put by a publish that had read an older one.  What others than
\* the owner cloned was approved so (routers/registry.py: publish, _can_view).
ApprovalHolds ==
  /\ \A s \in Slug :
       entries[s] \in Entry /\ entries[s].status = "approved" =>
         /\ <<s, entries[s].owner, entries[s].canvas>> \in blessed
         /\ lastVerdict[s] = "approved" \/ s \in straddled
  /\ delivered \subseteq blessed

\* An entry passes from one owner to another in two ways only: two publishes
\* of one slug overlap, or a publisher evades to a suffixed slug that somebody
\* else holds (publish never looks at the owner of the second row it reads).
OwnersKept ==
  [][\A s \in Slug :
       entries[s] \in Entry /\ entries'[s] \in Entry
         /\ entries'[s].owner # entries[s].owner =>
       \E c \in Caller :
         /\ asks[c] # Quiet /\ asks[c].op = "publish" /\ asks[c].slug = s
         /\ \/ asks[c].seen # entries[s]
            \/ \E t \in Slug : s = SuffixedSlug[t][c]]_entries
=============================================================================
