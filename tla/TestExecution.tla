---------------------------- MODULE TestExecution ----------------------------
(***************************************************************************)
(* The execution service of packages/argos-sdk/src/test-execution-         *)
(* service.ts over the Azure DevOps (ADO) work item store.                 *)
(*                                                                         *)
(* Every mutating call is two requests: fetchWorkItem, whose answer the    *)
(* guards read, and updateWorkItem, whose patch is computed from that      *)
(* answer.  The patch carries no revision test, so the store applies it to *)
(* whatever the work item has become in between.  Clients are the callers  *)
(* that run at the same time: browser tabs, the command line tool, the     *)
(* webhook worker.  A request that meets the 30 s timeout of the ADO       *)
(* client may have been lost, may have been applied, or may still be on    *)
(* its way to the store after its caller has moved on.                     *)
(*                                                                         *)
(* Fields written once by startRun and never patched by this service       *)
(* (plan, test case, environment, source, version, previous execution) are *)
(* left out; so are calls that are refused, which change nothing.          *)
(***************************************************************************)
EXTENDS GlobalStatus

CONSTANTS Runs, Clients,
          StepArgs,      \* the step statuses callers report
          OverrideArgs,  \* the forced global statuses testers choose
          EvidenceRefs, Bugs, NoOverride,
          MaxList        \* bound: no list field is extended beyond this length

VARIABLES
    store,  \* store[e]: work item e as ADO holds it
    call,   \* call[c]: the update client c is about to send, or Idle
    late,   \* late[c]: an update c gave up on that is still under way, or Idle
    acked   \* history: the appends the store has confirmed to a caller

vars == << store, call, late, acked >>

RunArgumentAssumption ==
    /\ StepArgs \subseteq StepStatuses
    /\ OverrideArgs \subseteq GlobalStatuses
    /\ NoOverride \notin GlobalStatuses
    /\ MaxList \in Nat
ASSUME RunArgumentAssumption

L == INSTANCE ExecutionLifecycle WITH run <- store

Items == L!Items
Absent == L!Absent

Calls == [op: {"saveStepResult"}, id: Runs, arg: StepArgs, raw: Items]
         \cup [op: {"attachEvidence"}, id: Runs, arg: EvidenceRefs, raw: Items]
         \cup [op: {"finalizeRun"}, id: Runs,
               arg: OverrideArgs \cup {NoOverride}, raw: Items]
         \cup [op: {"abortRun"}, id: Runs, arg: {"none"}, raw: Items]
         \cup [op: {"linkBug"}, id: Runs, arg: Bugs, raw: Items]

Idle == [op |-> "idle"]

Confirmations == ({"saveStepResult"} \X StepArgs)
                 \cup ({"attachEvidence"} \X EvidenceRefs)
                 \cup ({"linkBug"} \X Bugs)

-----------------------------------------------------------------------------
(* Guards on the fetched work item *)

isCompleted(raw) == raw.state = "Completed"

OnlyCompletedIsTerminal(raw) == raw.state = "Completed"
isTerminal(raw) == raw.state \in {"Completed", "Aborted"}

-----------------------------------------------------------------------------
(* Creating a run: one request *)

startRun(c, e) ==
    /\ call[c] = Idle
    /\ store[e].state = "Absent"
    /\ store' = [store EXCEPT ![e] = L!EmptyItem("InProgress")]
    /\ UNCHANGED << call, late, acked >>

-----------------------------------------------------------------------------
(* First request of each operation: fetch, check, and keep what was read.  *)

Fetched(c, op, e, arg) ==
    /\ call[c] = Idle
    /\ store[e].state # "Absent"
    /\ call' = [call EXCEPT ![c] = [op |-> op, id |-> e, arg |-> arg,
                                    raw |-> store[e]]]
    /\ UNCHANGED << store, late, acked >>

saveStepResult(c, e, result) ==
    /\ ~isTerminal(store[e])
    /\ Len(store[e].stepResults) < MaxList
    /\ Fetched(c, "saveStepResult", e, result)

attachEvidence(c, e, ref) ==
    /\ ~isTerminal(store[e])
    /\ Len(store[e].evidence) < MaxList
    /\ Fetched(c, "attachEvidence", e, ref)

finalizeRun(c, e, override) ==
    /\ ~isTerminal(store[e])
    /\ Fetched(c, "finalizeRun", e, override)

abortRunUnchecked(c, e) ==
    Fetched(c, "abortRun", e, "none")

abortRun(c, e) ==
    /\ ~isTerminal(store[e])
    /\ Fetched(c, "abortRun", e, "none")

linkBugUnchecked(c, e, bug) ==
    /\ Len(store[e].bugLinks) < MaxList
    /\ Fetched(c, "linkBug", e, bug)

linkBug(c, e, bug) ==
    /\ isCompleted(store[e])
    /\ Len(store[e].bugLinks) < MaxList
    /\ Fetched(c, "linkBug", e, bug)

-----------------------------------------------------------------------------
(* Second request: the patch each operation computes from what it fetched. *)
(* An update names the fields it sets; the others keep their stored value. *)

WholeItemStepPatch(item, w) ==
    [w.raw EXCEPT !.stepResults = Append(@, w.arg)]

StepResultPatch(item, w) ==
    [item EXCEPT !.stepResults = Append(w.raw.stepResults, w.arg)]

LatestEvidencePatch(item, w) == [item EXCEPT !.evidence = << w.arg >>]

EvidencePatch(item, w) ==
    [item EXCEPT !.evidence = Append(w.raw.evidence, w.arg)]

FinalizePatchIgnoringOverride(item, w) ==
    [item EXCEPT !.state = "Completed",
                 !.globalStatus = IF w.arg = NoOverride
                                  THEN computeGlobalStatus(w.raw.stepResults)
                                  ELSE w.arg]

FinalizePatch(item, w) ==
    [item EXCEPT !.state = "Completed",
                 !.globalStatus = IF w.arg = NoOverride
                                  THEN computeGlobalStatus(w.raw.stepResults)
                                  ELSE w.arg,
                 !.overridden = (w.arg # NoOverride)]

AbortPatch(item, w) == [item EXCEPT !.state = "Aborted"]

BugLinkPatch(item, w) ==
    [item EXCEPT !.bugLinks = Append(w.raw.bugLinks, w.arg)]

Patched(item, w) ==
    CASE w.op = "saveStepResult" -> StepResultPatch(item, w)
      [] w.op = "attachEvidence" -> EvidencePatch(item, w)
      [] w.op = "finalizeRun"    -> FinalizePatch(item, w)
      [] w.op = "abortRun"       -> AbortPatch(item, w)
      [] w.op = "linkBug"        -> BugLinkPatch(item, w)

Apply(w) == store' = [store EXCEPT ![w.id] = Patched(@, w)]

Appends(w) == w.op \in {"saveStepResult", "attachEvidence", "linkBug"}

(* The store applies the update and its answer reaches the caller. *)
updateWorkItem(c) ==
    /\ call[c] # Idle
    /\ Apply(call[c])
    /\ acked' = IF Appends(call[c])
                THEN [acked EXCEPT ![call[c].id] = @ \cup {<< call[c].op, call[c].arg >>}]
                ELSE acked
    /\ call' = [call EXCEPT ![c] = Idle]
    /\ UNCHANGED late

(* Timeout: the store applied the update but the caller never learns it. *)
answerLost(c) ==
    /\ call[c] # Idle
    /\ Apply(call[c])
    /\ call' = [call EXCEPT ![c] = Idle]
    /\ UNCHANGED << late, acked >>

(* Timeout or network error: the update never reaches the store. *)
requestLost(c) ==
    /\ call[c] # Idle
    /\ call' = [call EXCEPT ![c] = Idle]
    /\ UNCHANGED << store, late, acked >>

(* Timeout: the caller gives up while the update is still under way.  Each
   client has at most one such update (bound). *)
requestDelayed(c) ==
    /\ call[c] # Idle
    /\ late[c] = Idle
    /\ late' = [late EXCEPT ![c] = call[c]]
    /\ call' = [call EXCEPT ![c] = Idle]
    /\ UNCHANGED << store, acked >>

(* The store applies an update nobody waits for any more. *)
lateUpdate(c) ==
    /\ late[c] # Idle
    /\ Apply(late[c])
    /\ late' = [late EXCEPT ![c] = Idle]
    /\ UNCHANGED << call, acked >>

-----------------------------------------------------------------------------

Init ==
    /\ store = [e \in Runs |-> Absent]
    /\ call = [c \in Clients |-> Idle]
    /\ late = [c \in Clients |-> Idle]
    /\ acked = [e \in Runs |-> {}]

Request(c, e) ==
    \/ startRun(c, e)
    \/ \E result \in StepArgs : saveStepResult(c, e, result)
    \/ \E ref \in EvidenceRefs : attachEvidence(c, e, ref)
    \/ \E override \in OverrideArgs \cup {NoOverride} : finalizeRun(c, e, override)
    \/ abortRun(c, e)
    \/ \E bug \in Bugs : linkBug(c, e, bug)

Outcome(c) ==
    \/ updateWorkItem(c)
    \/ answerLost(c)
    \/ requestLost(c)
    \/ requestDelayed(c)
    \/ lateUpdate(c)

Next == \E c \in Clients : Outcome(c) \/ \E e \in Runs : Request(c, e)

Spec == Init /\ [][Next]_vars

(* Mutated forms of the definitions above stand before them: OnlyCompleted-
   IsTerminal, abortRunUnchecked, linkBugUnchecked, WholeItemStepPatch,
   LatestEvidencePatch, FinalizePatchIgnoringOverride and FinalizePatchAlways-
   Override are faults each property below must notice; Spec uses none. *)

(* The discipline the callers in this repository keep among themselves only
   when a run has a single owner who awaits every call: no two updates of one
   run are under way together, and no timed-out update is still under way. *)
OneWriter ==
    /\ \A c, d \in Clients :
          (call[c] # Idle /\ call[d] # Idle /\ call[c].id = call[d].id) => c = d
    /\ \A c \in Clients : late[c] = Idle

SerialSpec == Init /\ [][Next /\ OneWriter']_vars

-----------------------------------------------------------------------------
(* Properties of every interleaving *)

(* The variables hold work items, calls that were read from them, and confirmations. *)
TypeOK ==
    /\ store \in [Runs -> Items]
    /\ call \in [Clients -> Calls \cup {Idle}]
    /\ late \in [Clients -> Calls \cup {Idle}]
    /\ acked \in [Runs -> SUBSET Confirmations]

(* However calls interleave, and however late an update lands, a run that is
   still InProgress shows no result: the status is Unexecuted, no override is
   flagged and no bug is linked (finalizeRun sets state, status and flag in
   one patch, linkBug is only sent after a Completed run was read). *)
InProgressShowsNoResult ==
    \A e \in Runs :
        store[e].state = "InProgress" =>
            /\ store[e].globalStatus = "Unexecuted"
            /\ ~store[e].overridden
            /\ store[e].bugLinks = << >>

Terminal(e) == store[e].state \in {"Completed", "Aborted"}

(* A run that has become Completed or Aborted never becomes InProgress again,
   whatever stale update reaches the store afterwards. *)
TerminalForever ==
    [][\A e \in Runs : Terminal(e) => Terminal(e)']_vars

MayChangeFrozen(w, e) ==
    w # Idle /\ w.op # "linkBug" /\ w.id = e

(* Every update that read the run before it was frozen has landed. *)
Settled(e) ==
    /\ Terminal(e)
    /\ \A c \in Clients : ~MayChangeFrozen(call[c], e) /\ ~MayChangeFrozen(late[c], e)

FrozenFields(item) ==
    << item.state, item.globalStatus, item.overridden, item.stepResults, item.evidence >>

(* The freeze of US-2.1 as the service can keep it without revision checks:
   once no update older than the end of the run is under way, the run's
   verdict, steps and evidence never change again, and no new update that
   could change them can even be prepared. *)
SettledIsFrozen ==
    [][\A e \in Runs : Settled(e) =>
           Settled(e)' /\ FrozenFields(store'[e]) = FrozenFields(store[e])]_vars

-----------------------------------------------------------------------------
(* Properties that need one writer per run *)

(* The verdict of a completed run is the rule applied to the steps the run
   itself shows, unless the tester forced another one ("the original
   suggestion stays auditable", test-execution-service.ts:253). *)
VerdictIsAuditable ==
    \A e \in Runs :
        (store[e].state = "Completed" /\ ~store[e].overridden) =>
            store[e].globalStatus = computeGlobalStatus(store[e].stepResults)

(* An aborted run carries no usable result (docs/wit-schema.md:71): readers
   that aggregate by GlobalStatus skip it. *)
AbortedHasNoResult ==
    \A e \in Runs :
        store[e].state = "Aborted" =>
            store[e].globalStatus = "Unexecuted" /\ ~store[e].overridden

Listed(list, value) == \E i \in DOMAIN list : list[i] = value

Holds(item, confirmed) ==
    CASE confirmed[1] = "saveStepResult" -> Listed(item.stepResults, confirmed[2])
      [] confirmed[1] = "attachEvidence" -> Listed(item.evidence, confirmed[2])
      [] confirmed[1] = "linkBug"        -> Listed(item.bugLinks, confirmed[2])

(* No step result, evidence or bug whose append was confirmed to its caller
   is ever missing from the run again. *)
AcknowledgedIsKept ==
    \A e \in Runs : \A confirmed \in acked[e] : Holds(store[e], confirmed)

(* Under the one-writer discipline the two-request operations cannot be told
   from the atomic operations of the promised lifecycle. *)
ImplementsLifecycle == L!LSpec

-----------------------------------------------------------------------------
(* What the documents promise without asking callers for one writer: "a run is
   mutable while InProgress, frozen once Completed, and Aborted is a terminal
   frozen state" (docs/wit-schema.md:71-72). *)
FrozenOnceEnded ==
    [][\A e \in Runs :
          Terminal(e) => FrozenFields(store'[e]) = FrozenFields(store[e])]_vars
=============================================================================
