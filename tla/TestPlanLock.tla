---------------------------- MODULE TestPlanLock ----------------------------
(***************************************************************************)
(* Test plans, the test sets and cases they are composed of, and the       *)
(* snapshots a plan is locked with: test-plan-service.ts, test-set-        *)
(* service.ts and test-case-version-service.ts of packages/argos-sdk/src.  *)
(*                                                                         *)
(* lockWithAutoSnapshot is a long call: it reads the plan, resolves every  *)
(* set, fetches every case, then creates one snapshot per case, all in     *)
(* parallel and each after a check that the name is free, and only then    *)
(* locks the plan.  Promise.all rejects on the first failure but stops     *)
(* nothing: the other snapshots are still created.  A client stands for    *)
(* one call under way; a user whose call failed may be the next client.    *)
(*                                                                         *)
(* Titles, steps and tags of a case are one revision number.  A set filled *)
(* by a WIQL query is a set whose members somebody else edits.             *)
(***************************************************************************)
EXTENDS Naturals, Sequences

CONSTANTS Plans, Sets, Cases, Clients,
          Drafts,       \* the compositions users save
          ManualNames,  \* snapshot names typed by users
          MaxEdits,     \* bound: edits of one case
          MaxSnapshots  \* bound: snapshots in the project

VARIABLES
    plan,     \* plan[p]: the plan work item
    members,  \* members[s]: the test case ids of set s
    content,  \* content[t]: how often case t was edited
    snaps,    \* the snapshots, in the order of creation; an index is an id
    job,      \* job[c]: the call client c has under way, or Idle
    disturbed \* history: the calls during which a case or a composition changed

vars == << plan, members, content, snaps, job, disturbed >>

TestPlanAssumption ==
    /\ MaxEdits \in Nat
    /\ MaxSnapshots \in Nat
    /\ Plans \cap ManualNames = {}
    /\ Drafts \subseteq [sets: SUBSET Sets, extra: SUBSET Cases]
ASSUME TestPlanAssumption

Exists(p) == plan[p].state \notin {"Absent", "Deleted"}

(* The cases a plan is composed of. *)
Composition(p) == plan[p].extra \cup UNION {members[s] : s \in plan[p].sets}

Idle == [op |-> "idle"]

(* How far one call is with one case; "out" cases are none of its business. *)
Stages == {"out", "fetch", "check", "create", "made", "failed"}

-----------------------------------------------------------------------------
(* Plans *)

create(p, draft) ==
    /\ plan[p].state = "Absent"
    /\ plan' = [plan EXCEPT ![p] = [state |-> "Draft", sets |-> draft.sets,
                                    extra |-> draft.extra, locked |-> {}]]
    /\ UNCHANGED << members, content, snaps, job >>

delete(p) ==
    /\ Exists(p)
    /\ plan' = [plan EXCEPT ![p].state = "Deleted"]
    /\ UNCHANGED << members, content, snaps, job >>

SetState(p, state) ==
    /\ Exists(p)
    /\ plan' = [plan EXCEPT ![p].state = state]
    /\ UNCHANGED << members, content, snaps, job >>

lock(p) == SetState(p, "Locked")
unlock(p) == SetState(p, "Draft")

(* Not an operation of the service: a transition of the work item type, taken
   in Azure DevOps itself. *)
close(p) == plan[p].state = "Locked" /\ SetState(p, "Closed")

(* update, first request, when the patch touches the composition (one that
   does not is sent unread and changes nothing modelled here). *)
updateUnchecked(c, p, draft) ==
    /\ job[c] = Idle
    /\ Exists(p)
    /\ job' = [job EXCEPT ![c] = [op |-> "update", plan |-> p, draft |-> draft]]
    /\ UNCHANGED << plan, members, content, snaps >>

update(c, p, draft) ==
    /\ job[c] = Idle
    /\ Exists(p)
    /\ plan[p].state # "Locked"
    /\ job' = [job EXCEPT ![c] = [op |-> "update", plan |-> p, draft |-> draft]]
    /\ UNCHANGED << plan, members, content, snaps >>

(* update, second request; a plan deleted in between answers 404. *)
updateWorkItem(c) ==
    /\ job[c].op = "update"
    /\ plan' = IF Exists(job[c].plan)
               THEN [plan EXCEPT ![job[c].plan].sets = job[c].draft.sets,
                                 ![job[c].plan].extra = job[c].draft.extra]
               ELSE plan
    /\ job' = [job EXCEPT ![c] = Idle]
    /\ UNCHANGED << members, content, snaps >>

-----------------------------------------------------------------------------
(* Test sets and test cases *)

WriteSet(c, s, value) ==
    /\ job[c] = Idle
    /\ job' = [job EXCEPT ![c] = [op |-> "writeSet", set |-> s, value |-> value]]
    /\ UNCHANGED << plan, members, content, snaps >>

addTestCases(c, s, tcIds) == WriteSet(c, s, members[s] \cup tcIds)
removeTestCases(c, s, tcIds) == WriteSet(c, s, members[s] \ tcIds)

updateTestSet(c) ==
    /\ job[c].op = "writeSet"
    /\ members' = [members EXCEPT ![job[c].set] = job[c].value]
    /\ job' = [job EXCEPT ![c] = Idle]
    /\ UNCHANGED << plan, content, snaps >>

updateTestCase(t) ==
    /\ content[t] < MaxEdits
    /\ content' = [content EXCEPT ![t] = @ + 1]
    /\ UNCHANGED << plan, members, snaps, job >>

-----------------------------------------------------------------------------
(* Snapshots *)

Snapshotting(c) == job[c].op \in {"lockWithAutoSnapshot", "createSnapshot"}

AllIn(c, stages) == \A t \in Cases : job[c].task[t].stage \in stages

Out == [stage |-> "out", content |-> 0]

(* auto-lock-{plan}-{case}: the plan tells the names of one case apart. *)
autoName(p) == p

(* lockWithAutoSnapshot reads the plan. *)
lockWithAutoSnapshot(c, p) ==
    /\ job[c] = Idle
    /\ Exists(p)
    /\ job' = [job EXCEPT ![c] =
          [op |-> "lockWithAutoSnapshot", name |-> autoName(p),
           toResolve |-> plan[p].sets, made |-> {},
           task |-> [t \in Cases |-> IF t \in plan[p].extra
                                     THEN [stage |-> "fetch", content |-> 0]
                                     ELSE Out]]]
    /\ UNCHANGED << plan, members, content, snaps >>

(* A user takes a snapshot of the case shown on screen. *)
createSnapshot(c, t, name) ==
    /\ job[c] = Idle
    /\ job' = [job EXCEPT ![c] =
          [op |-> "createSnapshot", name |-> name, toResolve |-> {}, made |-> {},
           task |-> [u \in Cases |-> IF u = t
                                     THEN [stage |-> "check", content |-> content[t]]
                                     ELSE Out]]]
    /\ UNCHANGED << plan, members, content, snaps >>

resolveTestCaseIds(c, s) ==
    /\ Snapshotting(c)
    /\ s \in job[c].toResolve
    /\ job' = [job EXCEPT
          ![c].toResolve = @ \ {s},
          ![c].task = [t \in Cases |-> IF t \in members[s]
                                       THEN [stage |-> "fetch", content |-> 0]
                                       ELSE @[t]]]
    /\ UNCHANGED << plan, members, content, snaps >>

fetchTestCase(c, t) ==
    /\ Snapshotting(c)
    /\ job[c].toResolve = {}
    /\ job[c].task[t].stage = "fetch"
    /\ job' = [job EXCEPT ![c].task[t] = [stage |-> "check", content |-> content[t]]]
    /\ UNCHANGED << plan, members, content, snaps >>

NameTakenNever(t, name) == FALSE

NameTaken(t, name) ==
    \E i \in DOMAIN snaps : snaps[i].parent = t /\ snaps[i].name = name

(* createSnapshot looks for the name among the snapshots of the case. *)
listSnapshots(c, t) ==
    /\ Snapshotting(c)
    /\ job[c].toResolve = {}
    /\ AllIn(c, Stages \ {"fetch"})
    /\ job[c].task[t].stage = "check"
    /\ job' = [job EXCEPT ![c].task[t].stage =
                  IF NameTaken(t, job[c].name) THEN "failed" ELSE "create"]
    /\ UNCHANGED << plan, members, content, snaps >>

(* The snapshot is created; the answer may be lost. *)
createWorkItem(c, t, answered) ==
    /\ Snapshotting(c)
    /\ job[c].task[t].stage = "create"
    /\ Len(snaps) < MaxSnapshots
    /\ snaps' = Append(snaps, [parent |-> t, name |-> job[c].name,
                               content |-> job[c].task[t].content])
    /\ job' = IF answered
              THEN [job EXCEPT ![c].task[t].stage = "made",
                               ![c].made = @ \cup {Len(snaps) + 1}]
              ELSE [job EXCEPT ![c].task[t].stage = "failed"]
    /\ UNCHANGED << plan, members, content >>

(* Refused (403, a snapshot is immutable) or lost on the way. *)
createRefused(c, t) ==
    /\ Snapshotting(c)
    /\ job[c].task[t].stage = "create"
    /\ job' = [job EXCEPT ![c].task[t].stage = "failed"]
    /\ UNCHANGED << plan, members, content, snaps >>

LockedItem(c, p) ==
    [plan[p] EXCEPT !.state = "Locked", !.locked = job[c].made]

EverySettled(c) == AllIn(c, {"out", "made", "failed"})
EveryMadeOrFailed(c) == AllIn(c, {"out", "made", "failed"})
EveryMade(c) == AllIn(c, {"out", "made"})

(* Every snapshot exists: lock the plan and record their ids in one patch. *)
lockPlan(c) ==
    /\ job[c].op = "lockWithAutoSnapshot"
    /\ job[c].toResolve = {}
    /\ EveryMade(c)
    /\ plan' = IF Exists(job[c].name)
               THEN [plan EXCEPT ![job[c].name] = LockedItem(c, job[c].name)]
               ELSE plan
    /\ job' = [job EXCEPT ![c] = Idle]
    /\ UNCHANGED << members, content, snaps >>

(* A manual snapshot, or a lock one of whose snapshots failed, is over when
   nothing it started is under way. *)
finished(c) ==
    /\ Snapshotting(c)
    /\ job[c].toResolve = {}
    /\ EverySettled(c)
    /\ job[c].op = "createSnapshot" \/ ~EveryMade(c)
    /\ job' = [job EXCEPT ![c] = Idle]
    /\ UNCHANGED << plan, members, content, snaps >>

(* A request fails before the call changed anything, or the tab is closed. *)
abandon(c) ==
    /\ job[c] # Idle
    /\ job' = [job EXCEPT ![c] = Idle]
    /\ UNCHANGED << plan, members, content, snaps >>

-----------------------------------------------------------------------------

Init ==
    /\ plan = [p \in Plans |-> [state |-> "Absent", sets |-> {}, extra |-> {}, locked |-> {}]]
    /\ members \in [Sets -> SUBSET Cases]
    /\ content = [t \in Cases |-> 0]
    /\ snaps = << >>
    /\ job = [c \in Clients |-> Idle]
    /\ disturbed = {}

OnPlan(p) ==
    \/ \E draft \in Drafts : create(p, draft)
    \/ delete(p)
    \/ lock(p)
    \/ unlock(p)
    \/ close(p)

Call(c) ==
    \/ \E p \in Plans, draft \in Drafts : update(c, p, draft)
    \/ \E s \in Sets, t \in Cases :
          addTestCases(c, s, {t}) \/ removeTestCases(c, s, {t})
    \/ \E p \in Plans : lockWithAutoSnapshot(c, p)
    \/ \E t \in Cases, name \in ManualNames : createSnapshot(c, t, name)

Progress(c) ==
    \/ updateWorkItem(c)
    \/ updateTestSet(c)
    \/ \E s \in Sets : resolveTestCaseIds(c, s)
    \/ \E t \in Cases : \/ fetchTestCase(c, t)
                        \/ listSnapshots(c, t)
                        \/ \E answered \in BOOLEAN : createWorkItem(c, t, answered)
                        \/ createRefused(c, t)
    \/ lockPlan(c)
    \/ finished(c)
    \/ abandon(c)

Step ==
    \/ \E p \in Plans : OnPlan(p)
    \/ \E t \in Cases : updateTestCase(t)
    \/ \E c \in Clients : Call(c) \/ Progress(c)

Changes == \/ content' # content
           \/ members' # members
           \/ \E p \in Plans : \/ plan'[p].sets # plan[p].sets
                              \/ plan'[p].extra # plan[p].extra

Observe ==
    disturbed' = {c \in Clients : Snapshotting(c)' /\ (Changes \/ c \in disturbed)}

Next == Step /\ Observe

Spec == Init /\ [][Next]_vars

(* No two calls that create snapshots are under way together. *)
OneLocker == \A c, d \in Clients : (Snapshotting(c) /\ Snapshotting(d)) => c = d

OneLockerSpec == Init /\ [][Next /\ OneLocker']_vars

-----------------------------------------------------------------------------
(* Properties *)

(* A snapshot name is used once per test case (docs/user-guide.md:148), kept
   by a look at the existing snapshots before the creation; needs OneLocker. *)
SnapshotNamesUnique ==
    \A i, j \in DOMAIN snaps :
        (snaps[i].parent = snaps[j].parent /\ snaps[i].name = snaps[j].name) => i = j

UpdatePending(p) == \E c \in Clients : job[c].op = "update" /\ job[c].plan = p

Frozen(p) == plan[p].state = "Locked" /\ ~UpdatePending(p)

(* Once a plan is locked and no update that read it unlocked is still under
   way, its sets and extra cases stay what they are: they can change only
   after an unlock, or after the plan was closed. *)
CompositionFrozenWhileLocked ==
    [][\A p \in Plans :
          Frozen(p) => /\ plan'[p].sets = plan[p].sets
                       /\ plan'[p].extra = plan[p].extra
                       /\ plan'[p].state = "Locked" => Frozen(p)']_vars

(* The snapshot a plan was locked with is never exchanged for another snapshot
   of the same case, however often the plan is unlocked, edited, locked again
   or a lock fails half way; needs OneLocker. *)
BaselineKept ==
    [][\A p \in Plans : \A i \in plan[p].locked, j \in plan'[p].locked :
          snaps[i].parent = snaps[j].parent => i = j]_vars

CapturedNow(i) == snaps[i].content = content[snaps[i].parent]

(* A lockWithAutoSnapshot during which nobody edits a case, a set or a plan
   locks the plan with exactly one snapshot of each of its cases, as that case
   is now: no case is forgotten, and no half-made baseline is recorded. *)
LockCapturesThePlan ==
    [][\A c \in Clients :
          (lockPlan(c) /\ c \notin disturbed /\ Exists(job[c].name)) =>
              LET p == job[c].name
                  baseline == plan'[p].locked
              IN /\ {snaps[i].parent : i \in baseline} = Composition(p)
                 /\ \A i, j \in baseline : snaps[i].parent = snaps[j].parent => i = j
                 /\ \A i \in baseline : CapturedNow(i)]_vars

-----------------------------------------------------------------------------
(* What US-3.4 (Specs/spec.md:303) asks of a lock: a snapshot is created only
   for the cases "sans snapshot existant a l'identique"; an identical snapshot
   the plan already has is reused and never makes the lock fail. *)
RelockReusesIdenticalSnapshot ==
    [][\A c \in Clients, t \in Cases :
          (/\ listSnapshots(c, t)
           /\ job[c].op = "lockWithAutoSnapshot"
           /\ job'[c].task[t].stage = "failed") =>
              \A i \in DOMAIN snaps :
                  (snaps[i].parent = t /\ snaps[i].name = job[c].name) =>
                      snaps[i].content # job[c].task[t].content]_vars
=============================================================================
