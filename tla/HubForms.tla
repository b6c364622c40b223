------------------------------ MODULE HubForms ------------------------------
(***************************************************************************)
(* The hub page of the extension (apps/argos-extension/src/hub): App.tsx   *)
(* with its detection of the installed types and its limited mode, the     *)
(* routing hook, the list views, the five work item forms of views/, the   *)
(* hooks they share, and the resolver of work item type names behind every *)
(* creation.                                                               *)
(*                                                                         *)
(* One page runs one thread: a handler runs to its next await, so what     *)
(* interleaves is the user, the answers of Azure DevOps (ADO) and the      *)
(* other sessions that edit the same records.  A call in flight survives   *)
(* the form that made it; an answer to an unmounted form sets no state     *)
(* but still runs the callbacks the router gave it.  A request and its     *)
(* effect at ADO are one step with the answer: a request is granted, it is *)
(* refused, or it is granted and the answer lost (AbortSignal.timeout ends *)
(* every fetch).                                                           *)
(*                                                                         *)
(* The fields of a record are four classes: "need", those isValid tests;   *)
(* "opt", those a draft carries only when they are not empty; "own", one   *)
(* the draft always carries (the steps of a test case, the owner of a      *)
(* plan, the area path of a test set); "kept", those no form shows.        *)
(***************************************************************************)
EXTENDS Naturals, FiniteSets

CONSTANTS
    OpenedWithId, \* the kinds whose form is opened on a record (tests: all)
    MaxRecords,   \* bound: records ADO holds
    MaxMounts,    \* bound: pages and forms mounted, in any session
    Sessions      \* the sessions explored, each a record of bounds: the kinds of
                  \* page visited, whether the project starts with the types and
                  \* a detection may fail, and how many mounts, edits, lost
                  \* answers and edits by other sessions it has

ASSUME HubAssumption ==
    /\ OpenedWithId \subseteq {"case", "plan", "set", "pre", "exec"}
    /\ \A s \in Sessions : s.installed \in BOOLEAN /\ s.flaky \in BOOLEAN

VARIABLES
    hub,      \* AppInner: is the schema installed, did the user skip, is a refresh running
    view,     \* useArgosRouting: the kind of page and the record it was opened on
    mount,    \* which mounting of the page this is
    form,     \* the state of the mounted form, or NoForm
    rows,     \* the plans the list has fetched
    versions, \* TestCaseVersionsListView: the case asked for, the one shown
    session,  \* the session explored
    calls,    \* requests in flight
    store,    \* the records of the project
    process,  \* are the work item types installed in the project
    types,    \* the resolver's cache: "none", or what it knows of the types
    tally     \* history: what happened to submits and drafts

hubVars == << session, hub, view, mount, form, rows, versions, calls, store, process, types, tally >>

Kinds == {"case", "plan", "set", "pre", "exec"}
Fields == {"need", "opt", "own", "kept"}
Empty == 0
Old == 1
Typed == 2
Ids == 1..MaxRecords
NoId == 0

NoRecord == [kind |-> "none"]
Stored(i) == store[i].kind # "none"
Blank == [f \in Fields |-> Empty]

List(k) == [at |-> "list", kind |-> k, id |-> NoId]
Form(k, id) == [at |-> "form", kind |-> k, id |-> id]
NoVersions == [asked |-> NoId, shown |-> NoId, failed |-> FALSE, overtaken |-> FALSE]

NoForm == [phase |-> "none"]
NewForm(k, id) ==
    [phase |-> IF id = NoId THEN "editing" ELSE "loading",
     shown |-> Blank, base |-> Blank, loaded |-> FALSE, dirty |-> FALSE,
     emptied |-> FALSE, state |-> "none", moving |-> FALSE]

Call(op, id) == [mount |-> mount, op |-> op, kind |-> view.kind, id |-> id, sent |-> << >>,
                 excused |-> TRUE]

-----------------------------------------------------------------------------
(* What each form view loads, lets the user edit and sends *)

(* setTitle .. setPreconditionLinks: every field class of a test case. *)
CaseLoads == {"need", "opt", "own"}

(* Mutated forms of a definition stand before it, each the way a bug of that
   code would change it; the specification uses none of them. *)
PlanLoadsWithoutOwner == {"need", "opt"}
PlanLoads == {"need", "opt", "own"}
(* The area path of a set is neither loaded nor shown. *)
SetLoads == {"need", "opt"}
PreLoads == {"need", "opt"}
ExecLoads == {"need"}

Loads(k) == [case |-> CaseLoads, plan |-> PlanLoads, set |-> SetLoads,
             pre |-> PreLoads, exec |-> ExecLoads][k]

CaseInputs == {"need", "opt", "own"}
PlanInputs == {"need", "opt", "own"}
SetInputs == {"need", "opt"}
PreInputs == {"need", "opt"}
(* An existing execution is displayed, its inputs are disabled. *)
ExecInputs(id) == IF id = NoId THEN {"need", "opt"} ELSE {}

Inputs(k, id) == [case |-> CaseInputs, plan |-> PlanInputs, set |-> SetInputs,
                  pre |-> PreInputs, exec |-> ExecInputs(id)][k]

(* "x.trim() || undefined": an empty optional field is left out of the draft. *)
Given(f) == IF f.opt = Empty THEN {} ELSE {"opt"}
Only(f, names) == [n \in names |-> f[n]]

CaseDraft(f) == Only(f, {"need", "own"} \cup Given(f))
PlanDraft(f) == Only(f, {"need", "own"} \cup Given(f))
(* areaPath: "" is part of every draft of a test set. *)
SetDraft(f) == [Only(f, {"need", "own"} \cup Given(f)) EXCEPT !.own = Empty]
PreDraft(f) == Only(f, {"need"} \cup Given(f))
(* The result, the notes and the step status of the form are not sent. *)
ExecDraft(f) == Only(f, {"need"})

Draft(k, f) == CASE k = "case" -> CaseDraft(f)
                 [] k = "plan" -> PlanDraft(f)
                 [] k = "set"  -> SetDraft(f)
                 [] k = "pre"  -> PreDraft(f)
                 [] k = "exec" -> ExecDraft(f)

(* A failed load replaces the form by an error page with a way back, but in
   the plan form, whose loading hook's error nobody reads: the empty form is
   shown, in edit mode. *)
LoadFailure(k) == IF k = "plan" THEN "editing" ELSE "failed"

-----------------------------------------------------------------------------
(* AppInner: detection, limited mode, mounting *)

Limited(h) == h.installed = "no" /\ h.skipped
GetStarted(h) == h.installed = "no" /\ ~h.skipped
Shown(h) == h.installed = "yes" \/ Limited(h)
AppShown == Shown(hub)

(* The page of the view is mounted anew, an earlier one loses its state: an
   opened record is read, the plan list is fetched. *)
Mount(v, pending) ==
    LET call(op) == [mount |-> mount + 1, op |-> op, kind |-> v.kind, id |-> v.id,
                     sent |-> << >>, excused |-> TRUE]
    IN  /\ mount < session.mounts
        /\ mount' = mount + 1
        /\ form' = IF v.at = "form" THEN NewForm(v.kind, v.id) ELSE NoForm
        /\ rows' = {}
        /\ versions' = NoVersions
        /\ calls' = pending \cup
             (IF v.at = "form" /\ v.id # NoId THEN {call("read")}
              ELSE IF v = List("plan") THEN {call("list")} ELSE {})

(* A submit still in flight when its form goes: the user walked away. *)
WalksAway == tally' = [tally EXCEPT !.walked = IF form.phase = "saving" THEN @ + 1 ELSE @]

(* setIsInstalled, setUserSkipped: the wizard replaces the page or the page
   the wizard, or what is shown stays mounted. *)
Settle(h) ==
    /\ hub' = h
    /\ \/ /\ Shown(h) /\ ~Shown(hub)
          /\ Mount(view, calls)
          /\ UNCHANGED tally
       \/ /\ Shown(hub) /\ ~Shown(h)
          /\ form' = NoForm /\ WalksAway
          /\ UNCHANGED << mount, rows, versions, calls >>
       \/ /\ Shown(hub) <=> Shown(h)
          /\ UNCHANGED << mount, form, rows, versions, calls, tally >>
    /\ UNCHANGED << session, view, store, process, types >>

(* checkArgosInstalled looks for the types; one that fails counts as "no". *)
Detected(h) == \E known \in {process} \cup (IF session.flaky THEN {FALSE} ELSE {}) :
                  Settle([h EXCEPT !.installed = IF known THEN "yes" ELSE "no"])

DetectAnswer == hub.installed = "unknown" /\ Detected(hub)

(* The remembered choice is read in parallel, and may answer last. *)
SkippedAnswer ==
    hub.remembered /\ Settle([hub EXCEPT !.skipped = TRUE, !.remembered = FALSE])

(* A refresh outlives the wizard that asked for it. *)
Leaving(h) == [h EXCEPT !.refresh = IF @ = {} THEN {} ELSE {"earlier"}]

handleSkip == GetStarted(hub) /\ Settle([Leaving(hub) EXCEPT !.skipped = TRUE])

(* The refresh button of the wizard is disabled while its refresh runs. *)
handleRefreshDetection ==
    /\ GetStarted(hub) /\ "here" \notin hub.refresh
    /\ Settle([hub EXCEPT !.refresh = @ \cup {"here"}])

RefreshAnswer == \E r \in hub.refresh : Detected([hub EXCEPT !.refresh = @ \ {r}])

(* "Install now" of the limited mode banner. *)
InstallNow == Limited(hub) /\ Settle([hub EXCEPT !.skipped = FALSE])

(* An administrator runs the command line installer. *)
InstallTypes ==
    /\ ~process
    /\ process' = TRUE
    /\ UNCHANGED << session, hub, view, mount, form, rows, versions, calls, store, types, tally >>

-----------------------------------------------------------------------------
(* Routing: setView *)

setView(v) == view' = v /\ Mount(v, calls)

(* The sidebar is there on every page and asks nothing. *)
goToTab(k) ==
    /\ AppShown /\ k \in session.visits
    /\ view # List(k)
    /\ setView(List(k))
    /\ WalksAway
    /\ UNCHANGED << session, hub, store, process, types >>

(* The New button of a list view; the views of the router read no canCreate. *)
onCreateNew(k) ==
    /\ AppShown /\ view = List(k) /\ k \in session.visits
    /\ setView(Form(k, NoId))
    /\ UNCHANGED << session, hub, store, process, types, tally >>

(* A row of the plan list opens its plan; the other forms are opened on a
   record by the router's own callers. *)
onEditPlan(i) ==
    /\ AppShown /\ view.at = "list"
    /\ view.kind \in OpenedWithId
    /\ IF view.kind = "plan" THEN i \in rows ELSE store[i].kind = view.kind
    /\ setView(Form(view.kind, i))
    /\ UNCHANGED << session, hub, store, process, types, tally >>

(* Back and Cancel, disabled while a submit is in flight; the way back from a
   load error. *)
onCancel ==
    /\ AppShown /\ view.at = "form"
    /\ form.phase \in {"editing", "failed"}
    /\ setView(List(view.kind))
    /\ UNCHANGED << session, hub, store, process, types, tally >>

(* "Run Test" of an existing case: a new execution form, its case filled in. *)
goToRunTestForCase ==
    /\ AppShown /\ view.kind = "case" /\ view.id # NoId
    /\ form.phase = "editing"
    /\ setView(Form("exec", NoId))
    /\ UNCHANGED << session, hub, store, process, types, tally >>

(* Re-run of a displayed execution reports success with no id: back to the list. *)
handleReRun ==
    /\ AppShown /\ view.kind = "exec" /\ view.id # NoId
    /\ form.phase = "editing"
    /\ setView(List("exec"))
    /\ UNCHANGED << session, hub, store, process, types, tally >>

-----------------------------------------------------------------------------
(* Lists *)

(* refetch of useArgosList: the rows, or an error and the rows there were. *)
refetch(c) ==
    /\ c.op = "list"
    /\ calls' = calls \ {c}
    /\ rows' \in IF c.mount = mount
                 THEN {{i \in Ids : store[i].kind = c.kind}, rows}
                 ELSE {rows}
    /\ UNCHANGED << session, hub, view, mount, form, versions, store, process, types, tally >>

(* Mutant: only the first search fetches. *)
handleSearchFirstOnly(i) ==
    /\ AppShown /\ view = List("versions")
    /\ i # versions.asked
    /\ versions' = [versions EXCEPT !.asked = i, !.failed = FALSE]
    /\ calls' = IF versions.asked = NoId THEN calls \cup {Call("versions", i)} ELSE calls
    /\ UNCHANGED << session, hub, view, mount, form, rows, store, process, types, tally >>

(* handleSearch of the versions list: the fetch of the new id starts, that of
   the old one is not cancelled.  The bound is one search per case. *)
handleSearch(i) ==
    /\ AppShown /\ view = List("versions")
    /\ Call("versions", i) \notin calls
    /\ i # versions.asked
    /\ versions' = [versions EXCEPT !.asked = i, !.failed = FALSE]
    /\ calls' = calls \cup {Call("versions", i)}
    /\ UNCHANGED << session, hub, view, mount, form, rows, store, process, types, tally >>

(* A failed fetch of any search shows its error until the next search. *)
listSnapshots(c) ==
    /\ c.op = "versions"
    /\ calls' = calls \ {c}
    /\ versions' \in IF c.mount = mount
                     THEN {[versions EXCEPT !.shown = c.id, !.overtaken = c.id # versions.asked],
                           [versions EXCEPT !.failed = TRUE]}
                     ELSE {versions}
    /\ UNCHANGED << session, hub, view, mount, form, rows, store, process, types, tally >>

-----------------------------------------------------------------------------
(* Forms *)

(* The read of an opened record: the "cancelled" flag drops a late answer. *)
ReadAnswer(c) ==
    /\ c.op = "read"
    /\ calls' = calls \ {c}
    /\ IF c.mount # mount \/ form.phase # "loading" THEN UNCHANGED form
       ELSE \/ /\ Stored(c.id)
               /\ LET seen == [f \in Fields |->
                                 IF f \in Loads(c.kind) THEN store[c.id].has[f] ELSE Empty]
                  IN form' = [form EXCEPT !.phase = "editing", !.loaded = TRUE,
                                          !.shown = seen, !.base = store[c.id].has,
                                          !.state = store[c.id].state]
            \/ form' = [form EXCEPT !.phase = LoadFailure(c.kind)]
    /\ UNCHANGED << session, hub, view, mount, rows, versions, store, process, types, tally >>

(* The onChange handlers: the user types into a field, or empties it.  The
   inputs stay enabled while a submit is in flight; what is typed then is not
   part of the draft and is left out here. *)
Edit(f, value) ==
    /\ AppShown /\ form.phase = "editing"
    /\ f \in Inputs(view.kind, view.id)
    /\ form.shown[f] # value /\ tally.edits < session.edits
    /\ form' = [form EXCEPT !.shown[f] = value, !.dirty = TRUE,
                            !.emptied = IF f = "own" THEN value = Empty ELSE @]
    /\ tally' = [tally EXCEPT !.edits = @ + 1]
    /\ UNCHANGED << session, hub, view, mount, rows, versions, calls, store, process, types >>

isValid == form.shown.need # Empty
isLocked == view.kind = "plan" /\ form.state = "Locked"

(* Mutant: the form is not marked as saving. *)
handleSubmitUnmarked ==
    /\ AppShown /\ form.phase = "editing"
    /\ isValid /\ ~isLocked /\ view.id = NoId
    /\ calls' = calls \cup {[Call("create", view.id) EXCEPT
                                !.sent = Draft(view.kind, form.shown)]}
    /\ UNCHANGED << session, hub, view, mount, form, rows, versions, store, process, types, tally >>

(* handleSubmit: create without an id, update with one.  An execution that is
   displayed has no such button. *)
handleSubmit ==
    /\ AppShown /\ form.phase = "editing"
    /\ isValid /\ ~isLocked
    /\ ~(view.kind = "exec" /\ view.id # NoId)
    /\ form' = [form EXCEPT !.phase = "saving"]
    /\ calls' = calls \cup
         {[Call(IF view.id = NoId THEN "create" ELSE "update", view.id) EXCEPT
              !.sent = Draft(view.kind, form.shown),
              !.excused = \/ form.emptied \/ ~form.loaded
                          \/ view.kind = "set"
                          \/ form.base.own = Empty]}
    /\ tally' = [tally EXCEPT !.limited = @ \/ hub.installed # "yes"]
    /\ UNCHANGED << session, hub, view, mount, rows, versions, store, process, types >>

(* Mutant: a failed fetch of the types is remembered. *)
ensureCacheOfFailure(c) ==
    /\ c.op = "create" /\ types = "none"
    /\ types' \in {IF process THEN "with" ELSE "without", "without"}
    /\ UNCHANGED << session, hub, view, mount, form, rows, versions, calls, store, process, tally >>

(* resolveAdoWitRefName: the first creation fetches the types of the project,
   and keeps what it found for the rest of the session. *)
ensureCache(c) ==
    /\ c.op = "create" /\ types = "none"
    /\ types' = IF process THEN "with" ELSE "without"
    /\ UNCHANGED << session, hub, view, mount, form, rows, versions, calls, store, process, tally >>

(* Mutant: without "finally" a failed submit leaves the form saving. *)
SubmitEndsWithoutFinally(c) == form' = form

(* The answer sets no state of a form that is gone. *)
SubmitEnds(c) ==
    form' = IF c.mount = mount /\ form.phase = "saving"
            THEN [form EXCEPT !.phase = "editing"] ELSE form

(* The rejected promise is a toast, or nothing; "finally" frees the buttons.
   A creation is refused at once when the cache does not have its type. *)
SubmitRefused(c) ==
    /\ c.op \in {"create", "update"}
    /\ calls' = calls \ {c}
    /\ SubmitEnds(c)
    /\ UNCHANGED << session, hub, view, mount, rows, versions, store, process, types, tally >>

Free == {i \in Ids : ~Stored(i)}
NextId == CHOOSE i \in Free : \A j \in Free : i <= j

(* ADO writes the fields of the patch and no other. *)
Write(i, sent) ==
    store' = [store EXCEPT ![i].has = [f \in Fields |->
                 IF f \in DOMAIN sent THEN sent[f] ELSE @[f]]]

Grant(c) ==
    \/ /\ c.op = "create" /\ types = "with" /\ process
       /\ Free # {}
       /\ store' = [store EXCEPT ![NextId] =
                      [kind |-> c.kind, state |-> "Draft",
                       has |-> [f \in Fields |->
                           IF f \in DOMAIN c.sent THEN c.sent[f] ELSE Empty]]]
    \/ c.op = "update" /\ Stored(c.id) /\ Write(c.id, c.sent)

Granted(t, c) == [t EXCEPT !.made = IF c.op = "create"
                                    THEN [t.made EXCEPT ![c.mount] = @ + 1] ELSE @]

(* Granted, and the page learns of it: onSuccess is a closure of the router,
   it opens the list of the form's kind whatever page is shown by then. *)
SubmitGranted(c) ==
    /\ Grant(c)
    /\ view' = List(c.kind)
    /\ LET another == c.mount # mount
       IN  tally' = [Granted(tally, c) EXCEPT
             !.walked = IF another /\ form.phase = "saving" THEN @ + 1 ELSE @,
             !.dropped = IF another /\ form.phase # "none" /\ form.dirty
                         THEN @ + 1 ELSE @]
    /\ IF AppShown THEN Mount(List(c.kind), calls \ {c})
       ELSE calls' = calls \ {c} /\ UNCHANGED << mount, form, rows, versions >>
    /\ UNCHANGED << session, hub, process, types >>

(* Granted, but the fetch is aborted or the connection drops: for the page the
   request failed. *)
SubmitAnswerLost(c) ==
    /\ tally.lostInAll < session.lost
    /\ Grant(c)
    /\ calls' = calls \ {c}
    /\ SubmitEnds(c)
    /\ tally' = [Granted(tally, c) EXCEPT !.lost[c.mount] = @ + 1, !.lostInAll = @ + 1]
    /\ UNCHANGED << session, hub, view, mount, rows, versions, process, types >>

(* handleLock and handleUnlock, shown for the state the form knows. *)
handleLock(op) ==
    /\ AppShown /\ view.kind = "plan" /\ view.id # NoId
    /\ form.phase = "editing" /\ ~form.moving
    /\ form.state = IF op = "lock" THEN "Draft" ELSE "Locked"
    /\ form' = [form EXCEPT !.moving = TRUE]
    /\ calls' = calls \cup {Call(op, view.id)}
    /\ UNCHANGED << session, hub, view, mount, rows, versions, store, process, types, tally >>

LockAnswer(c) ==
    /\ c.op \in {"lock", "unlock"}
    /\ LET to == IF c.op = "lock" THEN "Locked" ELSE "Draft"
           mine == c.mount = mount /\ form.phase # "none"
       IN  \/ /\ store' = [store EXCEPT ![c.id].state = to]
              /\ form' = IF mine THEN [form EXCEPT !.state = to, !.moving = FALSE] ELSE form
           \/ /\ UNCHANGED store
              /\ form' = IF mine THEN [form EXCEPT !.moving = FALSE] ELSE form
    /\ calls' = calls \ {c}
    /\ UNCHANGED << session, hub, view, mount, rows, versions, process, types, tally >>

(* Another session writes a field or changes the state of a plan. *)
OtherSession(i) ==
    /\ Stored(i) /\ tally.foreign < session.foreign
    /\ \/ \E f \in Fields : store' = [store EXCEPT ![i].has[f] = Old]
       \/ /\ store[i].kind = "plan"
          /\ store' = [store EXCEPT ![i].state = IF @ = "Draft" THEN "Locked" ELSE "Draft"]
    /\ store' # store
    /\ tally' = [tally EXCEPT !.foreign = @ + 1]
    /\ UNCHANGED << session, hub, view, mount, form, rows, versions, calls, process, types >>

-----------------------------------------------------------------------------
HubInit ==
    /\ session \in Sessions
    /\ process = session.installed
    /\ \E seen \in {FALSE, session.flaky} :
          hub = [installed |-> "unknown", skipped |-> FALSE, remembered |-> seen,
                 refresh |-> {}]
    /\ view = List("plan")
    /\ mount = 0 /\ form = NoForm /\ rows = {}
    /\ versions = NoVersions
    /\ calls = {}
    /\ IF process
       THEN \E k \in session.visits \cap Kinds, own \in {Empty, Old} :
              store = [i \in Ids |->
                 IF i = 1 THEN [kind |-> k, state |-> "Draft",
                                has |-> [f \in Fields |-> IF f = "own" THEN own ELSE Old]]
                 ELSE NoRecord]
       ELSE store = [i \in Ids |-> NoRecord]
    /\ types = "none"
    /\ tally = [made |-> [m \in 1..MaxMounts |-> 0], lost |-> [m \in 1..MaxMounts |-> 0],
                lostInAll |-> 0, walked |-> 0, dropped |-> 0, limited |-> FALSE, foreign |-> 0, edits |-> 0]

AnswerSubmit(c) == SubmitRefused(c) \/ SubmitGranted(c) \/ SubmitAnswerLost(c)

HubNext ==
    \/ DetectAnswer \/ SkippedAnswer \/ handleSkip
    \/ handleRefreshDetection \/ RefreshAnswer \/ InstallNow \/ InstallTypes
    \/ \E k \in Kinds \cup {"versions"} : goToTab(k)
    \/ \E k \in Kinds : onCreateNew(k)
    \/ \E i \in Ids : onEditPlan(i) \/ handleSearch(i) \/ OtherSession(i)
    \/ onCancel \/ goToRunTestForCase \/ handleReRun
    \/ \E f \in Fields, value \in {Empty, Typed} : Edit(f, value)
    \/ handleSubmit
    \/ \E op \in {"lock", "unlock"} : handleLock(op)
    \/ \E c \in calls : \/ refetch(c) \/ listSnapshots(c) \/ ReadAnswer(c)
                        \/ ensureCache(c) \/ AnswerSubmit(c) \/ LockAnswer(c)

(* Every request is answered in the end: by ADO, or by the timeout of the
   client (AbortSignal.timeout). *)
AnswersArrive(m) == \E c \in calls : c.mount = m /\ AnswerSubmit(c)

HubSpec ==
    /\ HubInit /\ [][HubNext]_hubVars
    /\ \A m \in 1..MaxMounts : WF_hubVars(AnswersArrive(m))

-----------------------------------------------------------------------------
(* One mounted form creates one record, plus one for every creation that ADO
   granted while the page heard of a failure: the buttons, the "finally" and
   the routing together keep a second click, or a late answer, from creating
   again.  And a form with unsaved input is closed behind the user's back by
   one thing only: the success of a submit whose form the user had left, once
   each (the success callback of the router). *)
SubmitsAreAccountedFor ==
    /\ \A m \in 1..MaxMounts : tally.made[m] <= 1 + tally.lost[m]
    /\ tally.dropped <= tally.walked

(* The resolver remembers a project without the types only if a creation was
   tried in limited mode: a failed fetch of the types is not remembered. *)
ResolverStaleOnlyAfterLimitedCreate ==
    (types = "without" /\ hub.installed = "yes") => tally.limited

(* The case versions shown, when no error is, are those of the case asked for,
   unless the answer of an earlier search came in after that of a later one. *)
VersionsAreOfTheCaseAskedFor ==
    LET waiting == \E c \in calls : c.op = "versions" /\ c.mount = mount
    IN  (versions.shown # versions.asked /\ ~versions.failed)
            => waiting \/ versions.overtaken

(* No save empties a field the form did not show empty: clearing an optional
   field never reaches ADO, a field without input keeps its value, and the
   owner or the steps go only when the user emptied them, when they had been
   empty as the form was filled, or when the plan form shows no loaded plan;
   the area path of a test set goes with every save. *)
SavesEraseOnlyWhatWasEmptied ==
    [][\A i \in Ids : \A f \in Fields :
          (Stored(i) /\ store[i].has[f] # Empty /\ store'[i].has[f] = Empty)
              => /\ f = "own"
                 /\ \E c \in calls \ calls' : c.id = i /\ c.excused]_hubVars

(* Every submit comes to an end for its form: the form is freed or gone. *)
EverySubmitEnds ==
    \A m \in 1..MaxMounts :
        (mount = m /\ form.phase = "saving") ~> ~(mount = m /\ form.phase = "saving")
=============================================================================
