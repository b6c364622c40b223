------------------------- MODULE TestPlanLockProofs -------------------------
(***************************************************************************)
(* What holds of test plans, their locks and snapshots for any number of   *)
(* plans, sets, cases and clients, and any bounds on edits and snapshots.  *)
(***************************************************************************)
EXTENDS TestPlanLock, TLAPS

Names == Plans \cup ManualNames

PlanItems == [state: {"Absent", "Draft", "Locked", "Closed", "Deleted"},
              sets: SUBSET Sets, extra: SUBSET Cases, locked: SUBSET Nat]

Snapshots == [parent: Cases, name: Names, content: Nat]

Tasks == [stage: Stages, content: Nat]

Updates == [op: {"update"}, plan: Plans, draft: Drafts]

SetWrites == [op: {"writeSet"}, set: Sets, value: SUBSET Cases]

Locks == [op: {"lockWithAutoSnapshot"}, name: Plans, toResolve: SUBSET Sets,
          made: SUBSET Nat, task: [Cases -> Tasks]]

Copies == [op: {"createSnapshot"}, name: ManualNames, toResolve: SUBSET Sets,
           made: SUBSET Nat, task: [Cases -> Tasks]]

Jobs == {Idle} \cup Updates \cup SetWrites \cup Locks \cup Copies

TypeOK ==
    /\ plan \in [Plans -> PlanItems]
    /\ members \in [Sets -> SUBSET Cases]
    /\ content \in [Cases -> Nat]
    /\ snaps \in Seq(Snapshots)
    /\ job \in [Clients -> Jobs]

-----------------------------------------------------------------------------
(* The operation of a job tells its kind. *)
LEMMA JobKinds ==
    ASSUME TypeOK, NEW c \in Clients
    PROVE  /\ job[c].op = "update" => job[c] \in Updates
           /\ job[c].op = "writeSet" => job[c] \in SetWrites
           /\ job[c].op = "lockWithAutoSnapshot" => job[c] \in Locks
           /\ job[c].op = "createSnapshot" => job[c] \in Copies
           /\ Snapshotting(c) => /\ job[c].toResolve \in SUBSET Sets
                                 /\ job[c].made \in SUBSET Nat
                                 /\ job[c].task \in [Cases -> Tasks]
                                 /\ job[c].name \in Names
BY DEF TypeOK, Jobs, Idle, Updates, SetWrites, Locks, Copies, Snapshotting, Names

(* The steps, told apart by what they do to a job. *)
LEMMA StepCases ==
    ASSUME Step
    PROVE  \/ \E p \in Plans : OnPlan(p)
           \/ \E t \in Cases : updateTestCase(t)
           \/ \E c \in Clients : Call(c)
           \/ \E c \in Clients : updateWorkItem(c) \/ updateTestSet(c)
           \/ \E c \in Clients : \/ \E s \in Sets : resolveTestCaseIds(c, s)
                                 \/ \E t \in Cases : \/ fetchTestCase(c, t)
                                                     \/ listSnapshots(c, t)
                                                     \/ createRefused(c, t)
           \/ \E c \in Clients, t \in Cases, answered \in BOOLEAN :
                 createWorkItem(c, t, answered)
           \/ \E c \in Clients : lockPlan(c)
           \/ \E c \in Clients : finished(c) \/ abandon(c)
BY DEF Step, Progress

(* An operation on the plan as a whole writes its item and nothing else. *)
LEMMA OnPlanType ==
    ASSUME TypeOK, NEW p \in Plans, OnPlan(p)
    PROVE  TypeOK'
<1>1. /\ members' = members /\ content' = content /\ snaps' = snaps /\ job' = job
      /\ plan \in [Plans -> PlanItems]
  BY DEF OnPlan, create, delete, lock, unlock, close, SetState, TypeOK
<1>2. CASE \E draft \in Drafts : create(p, draft)
  BY <1>1, <1>2, TestPlanAssumption DEF create, TypeOK, PlanItems, TestPlanAssumption
<1>3. CASE delete(p)
  BY <1>1, <1>3 DEF delete, TypeOK, PlanItems
<1>4. CASE \E state \in {"Locked", "Draft", "Closed"} : SetState(p, state)
  BY <1>1, <1>4 DEF SetState, TypeOK, PlanItems
<1>5. QED BY <1>2, <1>3, <1>4 DEF OnPlan, lock, unlock, close

(* A call starts well typed. *)
LEMMA CallType ==
    ASSUME TypeOK, NEW c \in Clients, Call(c)
    PROVE  TypeOK'
<1>1. plan' = plan /\ members' = members /\ content' = content /\ snaps' = snaps
  BY DEF Call, update, addTestCases, removeTestCases, WriteSet, lockWithAutoSnapshot, createSnapshot
<1>2. CASE \E p \in Plans, draft \in Drafts : update(c, p, draft)
  BY <1>1, <1>2 DEF update, TypeOK, Jobs, Updates
<1>3. CASE \E s \in Sets, t \in Cases : addTestCases(c, s, {t}) \/ removeTestCases(c, s, {t})
  BY <1>1, <1>3 DEF addTestCases, removeTestCases, WriteSet, TypeOK, Jobs, SetWrites
<1>4. CASE \E p \in Plans : lockWithAutoSnapshot(c, p)
  <2>1. PICK p \in Plans : lockWithAutoSnapshot(c, p)
    BY <1>4
  <2>2. [t \in Cases |-> IF t \in plan[p].extra THEN [stage |-> "fetch", content |-> 0]
                         ELSE Out] \in [Cases -> Tasks]
    BY DEF Tasks, Stages, Out
  <2>3. job'[c] \in Locks /\ job' = [job EXCEPT ![c] = job'[c]]
    BY <2>1, <2>2 DEF lockWithAutoSnapshot, autoName, Locks, TypeOK, PlanItems
  <2>4. QED BY <1>1, <2>3 DEF TypeOK, Jobs
<1>5. CASE \E t \in Cases, name \in ManualNames : createSnapshot(c, t, name)
  <2>1. PICK t \in Cases, name \in ManualNames : createSnapshot(c, t, name)
    BY <1>5
  <2>2. [u \in Cases |-> IF u = t THEN [stage |-> "check", content |-> content[t]]
                         ELSE Out] \in [Cases -> Tasks]
    BY DEF Tasks, Stages, Out, TypeOK
  <2>3. job'[c] \in Copies /\ job' = [job EXCEPT ![c] = job'[c]]
    BY <2>1, <2>2 DEF createSnapshot, Copies, TypeOK
  <2>4. QED BY <1>1, <2>3 DEF TypeOK, Jobs
<1>6. QED BY <1>2, <1>3, <1>4, <1>5 DEF Call

(* A call of a client goes on, without a snapshot and without locking a plan. *)
LEMMA ProgressType ==
    ASSUME TypeOK, NEW c \in Clients,
           \/ updateWorkItem(c) \/ updateTestSet(c)
           \/ \E s \in Sets : resolveTestCaseIds(c, s)
           \/ \E t \in Cases : fetchTestCase(c, t) \/ listSnapshots(c, t) \/ createRefused(c, t)
           \/ finished(c) \/ abandon(c)
    PROVE  TypeOK'
<1>1. CASE updateWorkItem(c)
  <2>1. job[c] \in Updates
    BY <1>1, JobKinds DEF updateWorkItem
  <2> DEFINE p == job[c].plan
             item == [plan[p] EXCEPT !.sets = job[c].draft.sets, !.extra = job[c].draft.extra]
  <2>2. plan' \in [Plans -> PlanItems]
    <3>1. p \in Plans /\ plan[p] \in PlanItems
      BY <2>1 DEF Updates, TypeOK
    <3>2. job[c].draft.sets \in SUBSET Sets /\ job[c].draft.extra \in SUBSET Cases
      BY <2>1, TestPlanAssumption DEF Updates, TestPlanAssumption
    <3>3. item \in PlanItems
      BY <3>1, <3>2 DEF PlanItems
    <3>4. plan' = [plan EXCEPT ![p] = item] \/ plan' = plan
      BY <1>1, <3>1 DEF updateWorkItem, TypeOK, PlanItems
    <3>5. QED BY <3>3, <3>4 DEF TypeOK
  <2>3. QED BY <1>1, <2>2 DEF updateWorkItem, TypeOK, Jobs
<1>2. CASE updateTestSet(c)
  <2>1. job[c] \in SetWrites
    BY <1>2, JobKinds DEF updateTestSet
  <2>2. QED BY <1>2, <2>1 DEF updateTestSet, TypeOK, Jobs, SetWrites
<1>3. ASSUME NEW task \in [Cases -> Tasks], NEW toResolve \in SUBSET Sets, Snapshotting(c),
             job' = [job EXCEPT ![c] = [@ EXCEPT !.toResolve = toResolve, !.task = task]],
             UNCHANGED << plan, members, content, snaps >>
      PROVE  TypeOK'
  <2>1. job[c] \in Locks \cup Copies
    BY <1>3, JobKinds DEF Snapshotting
  <2>2. [job[c] EXCEPT !.toResolve = toResolve, !.task = task] \in Locks \cup Copies
    BY <2>1 DEF Locks, Copies
  <2>3. QED BY <1>3, <2>2 DEF TypeOK, Jobs
<1>4. ASSUME NEW s \in Sets, resolveTestCaseIds(c, s)
      PROVE  TypeOK'
  <2> DEFINE task == [t \in Cases |-> IF t \in members[s] THEN [stage |-> "fetch", content |-> 0]
                                      ELSE job[c].task[t]]
             toResolve == job[c].toResolve \ {s}
  <2>1. Snapshotting(c) /\ job[c] \in Locks \cup Copies
    BY <1>4, JobKinds DEF resolveTestCaseIds, Snapshotting
  <2>2. task \in [Cases -> Tasks] /\ toResolve \in SUBSET Sets
    BY <2>1, JobKinds DEF Tasks, Stages
  <2>3. job' = [job EXCEPT ![c] = [@ EXCEPT !.toResolve = toResolve, !.task = task]]
    BY <1>4, <2>1 DEF resolveTestCaseIds, TypeOK
  <2>4. UNCHANGED << plan, members, content, snaps >>
    BY <1>4 DEF resolveTestCaseIds
  <2>. QED BY <2>1, <2>2, <2>3, <2>4, <1>3
<1>5. ASSUME NEW t \in Cases, fetchTestCase(c, t) \/ listSnapshots(c, t) \/ createRefused(c, t)
      PROVE  TypeOK'
  <2>1. Snapshotting(c) /\ job[c] \in Locks \cup Copies /\ job[c].task \in [Cases -> Tasks]
    BY <1>5, JobKinds DEF fetchTestCase, listSnapshots, createRefused, Snapshotting
  <2>2. PICK one \in Tasks : job' = [job EXCEPT ![c].task[t] = one]
    <3>1. CASE fetchTestCase(c, t)
      BY <3>1 DEF fetchTestCase, TypeOK, Tasks, Stages
    <3>2. CASE listSnapshots(c, t) \/ createRefused(c, t)
      <4>1. PICK stage \in Stages : job' = [job EXCEPT ![c].task[t].stage = stage]
        BY <3>2 DEF listSnapshots, createRefused, Stages
      <4>2. [job[c].task[t] EXCEPT !.stage = stage] \in Tasks
        BY <2>1 DEF Tasks
      <4>3. job' = [job EXCEPT ![c].task[t] = [job[c].task[t] EXCEPT !.stage = stage]]
        BY <4>1
      <4>4. QED BY <4>2, <4>3
    <3>3. QED BY <1>5, <3>1, <3>2
  <2> DEFINE task == [job[c].task EXCEPT ![t] = one]
             toResolve == job[c].toResolve
  <2>3. task \in [Cases -> Tasks] /\ toResolve \in SUBSET Sets
    BY <2>1, <2>2, JobKinds
  <2>4. job' = [job EXCEPT ![c] = [@ EXCEPT !.toResolve = toResolve, !.task = task]]
    <3>1. [job[c] EXCEPT !.task[t] = one] = [job[c] EXCEPT !.toResolve = toResolve, !.task = task]
      BY <2>1 DEF Locks, Copies
    <3>2. QED BY <2>2, <3>1 DEF TypeOK
  <2>5. UNCHANGED << plan, members, content, snaps >>
    BY <1>5 DEF fetchTestCase, listSnapshots, createRefused
  <2>. QED BY <2>1, <2>3, <2>4, <2>5, <1>3
<1>6. CASE finished(c) \/ abandon(c)
  BY <1>6 DEF finished, abandon, TypeOK, Jobs
<1>7. QED BY <1>1, <1>2, <1>4, <1>5, <1>6

(* The creation of a snapshot: it is appended, and the task of its case is made
   or has failed. *)
LEMMA CreatedSnapshot ==
    ASSUME TypeOK, NEW c \in Clients, NEW t \in Cases, NEW answered \in BOOLEAN,
           createWorkItem(c, t, answered)
    PROVE  LET new == [parent |-> t, name |-> job[c].name, content |-> job[c].task[t].content]
           IN  /\ new \in Snapshots
               /\ snaps' = Append(snaps, new)
               /\ job' = [job EXCEPT ![c] = job'[c]]
               /\ job'[c] \in Locks \cup Copies
               /\ job'[c].op = job[c].op /\ job'[c].name = job[c].name
               /\ job'[c].toResolve = job[c].toResolve
               /\ job'[c].made \in {job[c].made, job[c].made \cup {Len(snaps) + 1}}
               /\ job'[c].task[t].stage \in {"made", "failed"}
               /\ \A u \in Cases \ {t} : job'[c].task[u] = job[c].task[u]
               /\ job'[c].task[t].content = job[c].task[t].content
               /\ IF job'[c].task[t].stage = "made"
                  THEN job'[c].made = job[c].made \cup {Len(snaps) + 1}
                  ELSE job'[c].made = job[c].made
<1>1. Snapshotting(c) /\ job[c] \in Locks \cup Copies /\ job[c].task \in [Cases -> Tasks]
  BY JobKinds DEF createWorkItem, Snapshotting
<1>2. Len(snaps) + 1 \in Nat
  BY DEF TypeOK
<1>3. job[c].task[t] \in Tasks
  BY <1>1
<1>4. [parent |-> t, name |-> job[c].name, content |-> job[c].task[t].content] \in Snapshots
  BY <1>1, <1>3, JobKinds DEF Snapshots, Tasks
<1>5. CASE answered
  <2> DEFINE one == [job[c].task[t] EXCEPT !.stage = "made"]
             after == [job[c] EXCEPT !.task = [@ EXCEPT ![t] = one],
                                     !.made = @ \cup {Len(snaps) + 1}]
  <2>1. one \in Tasks /\ one.stage = "made" /\ one.content = job[c].task[t].content
    BY <1>3 DEF Tasks, Stages
  <2>2. job' = [job EXCEPT ![c] = after]
    BY <1>1, <1>5 DEF createWorkItem, Locks, Copies
  <2>3. after \in Locks \cup Copies
    BY <1>1, <1>2, <2>1 DEF Locks, Copies
  <2>4. job'[c] = after /\ snaps' = Append(snaps, [parent |-> t, name |-> job[c].name,
                                               content |-> job[c].task[t].content])
    BY <2>2 DEF TypeOK, createWorkItem
  <2>5. /\ after.op = job[c].op /\ after.name = job[c].name
        /\ after.toResolve = job[c].toResolve
        /\ after.made = job[c].made \cup {Len(snaps) + 1}
        /\ after.task[t] = one
        /\ \A u \in Cases \ {t} : after.task[u] = job[c].task[u]
    BY <1>1 DEF Locks, Copies
  <2>. QED BY <1>4, <2>1, <2>2, <2>3, <2>4, <2>5
<1>6. CASE ~answered
  <2> DEFINE one == [job[c].task[t] EXCEPT !.stage = "failed"]
             after == [job[c] EXCEPT !.task = [@ EXCEPT ![t] = one]]
  <2>1. one \in Tasks /\ one.stage = "failed" /\ one.content = job[c].task[t].content
    BY <1>3 DEF Tasks, Stages
  <2>2. job' = [job EXCEPT ![c] = after]
    BY <1>1, <1>6 DEF createWorkItem, Locks, Copies
  <2>3. after \in Locks \cup Copies
    BY <1>1, <2>1 DEF Locks, Copies
  <2>4. job'[c] = after /\ snaps' = Append(snaps, [parent |-> t, name |-> job[c].name,
                                               content |-> job[c].task[t].content])
    BY <2>2 DEF TypeOK, createWorkItem
  <2>5. /\ after.op = job[c].op /\ after.name = job[c].name
        /\ after.toResolve = job[c].toResolve /\ after.made = job[c].made
        /\ after.task[t] = one
        /\ \A u \in Cases \ {t} : after.task[u] = job[c].task[u]
    BY <1>1 DEF Locks, Copies
  <2>. QED BY <1>4, <2>1, <2>2, <2>3, <2>4, <2>5
<1>7. QED BY <1>5, <1>6

(* Every step keeps the types. *)
LEMMA TypeStep == TypeOK /\ [Next]_vars => TypeOK'
<1> SUFFICES ASSUME TypeOK, Step PROVE TypeOK'
  BY DEF TypeOK, vars, Next
<1>1. CASE \E p \in Plans : OnPlan(p)
  BY <1>1, OnPlanType
<1>2. CASE \E t \in Cases : updateTestCase(t)
  BY <1>2 DEF updateTestCase, TypeOK
<1>3. CASE \E c \in Clients : Call(c)
  BY <1>3, CallType
<1>4. ASSUME NEW c \in Clients, NEW t \in Cases, NEW answered \in BOOLEAN,
             createWorkItem(c, t, answered)
      PROVE  TypeOK'
  <2> DEFINE new == [parent |-> t, name |-> job[c].name, content |-> job[c].task[t].content]
  <2>1. /\ new \in Snapshots /\ snaps' = Append(snaps, new)
        /\ job' = [job EXCEPT ![c] = job'[c]] /\ job'[c] \in Locks \cup Copies
    BY <1>4, CreatedSnapshot
  <2>2. UNCHANGED << plan, members, content >>
    BY <1>4 DEF createWorkItem
  <2>3. snaps' \in Seq(Snapshots)
    BY <2>1 DEF TypeOK
  <2>4. job' \in [Clients -> Jobs]
    BY <2>1 DEF TypeOK, Jobs
  <2>5. QED BY <2>2, <2>3, <2>4 DEF TypeOK
<1>5. ASSUME NEW c \in Clients, lockPlan(c)
      PROVE  TypeOK'
  <2>1. job[c] \in Locks
    BY <1>5, JobKinds DEF lockPlan
  <2> DEFINE p == job[c].name
  <2>2. plan' \in [Plans -> PlanItems]
    <3>1. p \in Plans /\ plan[p] \in PlanItems /\ job[c].made \in SUBSET Nat
      BY <2>1 DEF Locks, TypeOK
    <3>2. LockedItem(c, p) \in PlanItems
      BY <3>1 DEF LockedItem, PlanItems
    <3>3. QED BY <1>5, <3>2 DEF lockPlan, TypeOK
  <2>3. QED BY <1>5, <2>2 DEF lockPlan, TypeOK, Jobs
<1>6. QED BY <1>1, <1>2, <1>3, <1>4, <1>5, StepCases, ProgressType

(* In the beginning there is no plan, no snapshot and no call. *)
LEMMA TypeInit == Init => TypeOK
BY DEF Init, TypeOK, PlanItems, Jobs, Snapshots

(* The project is well typed in every state: a plan is locked with ids, a job
   is a call of one of the four kinds. *)
THEOREM TypeCorrect == Spec => []TypeOK
BY TypeInit, TypeStep, PTL DEF Spec

-----------------------------------------------------------------------------
(* Once a plan is locked and no update that read it unlocked is under way, its
   composition is frozen: a later update reads that it is locked. *)
LEMMA FrozenStep ==
    ASSUME TypeOK, [Next]_vars, NEW p \in Plans, Frozen(p)
    PROVE  /\ plan'[p].sets = plan[p].sets
           /\ plan'[p].extra = plan[p].extra
           /\ plan'[p].state = "Locked" => Frozen(p)'
<1>1. ASSUME plan'[p] = plan[p], ~UpdatePending(p)'
      PROVE  /\ plan'[p].sets = plan[p].sets
             /\ plan'[p].extra = plan[p].extra
             /\ plan'[p].state = "Locked" => Frozen(p)'
  BY <1>1 DEF Frozen
<1>2. CASE UNCHANGED vars
  BY <1>2 DEF vars, Frozen, UpdatePending
<1>3. ASSUME NEW q \in Plans, OnPlan(q)
      PROVE  /\ plan'[p].sets = plan[p].sets
             /\ plan'[p].extra = plan[p].extra
             /\ plan'[p].state = "Locked" => Frozen(p)'
  <2>1. job' = job
    BY <1>3 DEF OnPlan, create, delete, lock, unlock, close, SetState
  <2>2. plan'[p].sets = plan[p].sets /\ plan'[p].extra = plan[p].extra
    <3>1. ASSUME NEW state, plan' = [plan EXCEPT ![q].state = state]
          PROVE  plan'[p].sets = plan[p].sets /\ plan'[p].extra = plan[p].extra
      BY <3>1 DEF TypeOK, PlanItems
    <3>2. CASE \E draft \in Drafts : create(q, draft)
      BY <3>2 DEF create, Frozen, TypeOK
    <3>3. CASE delete(q)
      BY <3>1, <3>3 DEF delete
    <3>4. CASE \E state \in {"Locked", "Draft", "Closed"} : SetState(q, state)
      BY <3>1, <3>4 DEF SetState
    <3>5. QED BY <1>3, <3>2, <3>3, <3>4 DEF OnPlan, lock, unlock, close
  <2>3. QED BY <2>1, <2>2 DEF Frozen, UpdatePending
<1>4. CASE \E t \in Cases : updateTestCase(t)
  BY <1>1, <1>4 DEF updateTestCase, Frozen, UpdatePending
<1>5. ASSUME NEW c \in Clients, Call(c)
      PROVE  plan'[p] = plan[p] /\ ~UpdatePending(p)'
  <2>1. plan' = plan
    BY <1>5 DEF Call, update, addTestCases, removeTestCases, WriteSet, lockWithAutoSnapshot,
                createSnapshot
  <2>2. ASSUME NEW d \in Clients
        PROVE  job'[d] = job[d] \/ (d = c /\ ~(job'[d].op = "update" /\ job'[d].plan = p))
    BY <1>5 DEF Call, update, addTestCases, removeTestCases, WriteSet, lockWithAutoSnapshot,
                createSnapshot, TypeOK, Frozen
  <2>3. QED BY <2>1, <2>2 DEF Frozen, UpdatePending
<1>6. ASSUME NEW c \in Clients, updateWorkItem(c)
      PROVE  plan'[p] = plan[p] /\ ~UpdatePending(p)'
  <2>1. job[c].plan # p
    BY <1>6 DEF updateWorkItem, Frozen, UpdatePending
  <2>2. \A d \in Clients : job'[d] = job[d] \/ job'[d] = Idle
    BY <1>6 DEF updateWorkItem, TypeOK
  <2>3. QED BY <1>6, <2>1, <2>2 DEF updateWorkItem, Frozen, UpdatePending, TypeOK, Idle
<1>7. ASSUME NEW c \in Clients, lockPlan(c)
      PROVE  /\ plan'[p].sets = plan[p].sets
             /\ plan'[p].extra = plan[p].extra
             /\ plan'[p].state = "Locked" => Frozen(p)'
  <2>1. \A d \in Clients : job'[d] = job[d] \/ job'[d] = Idle
    BY <1>7 DEF lockPlan, TypeOK
  <2>2. ~UpdatePending(p)'
    BY <2>1 DEF Frozen, UpdatePending, Idle
  <2>3. plan'[p] = plan[p] \/ plan'[p] = LockedItem(c, p)
    BY <1>7 DEF lockPlan, TypeOK
  <2>4. LockedItem(c, p).sets = plan[p].sets /\ LockedItem(c, p).extra = plan[p].extra
    BY DEF LockedItem, TypeOK, PlanItems
  <2>5. QED BY <2>2, <2>3, <2>4 DEF Frozen
<1>8. ASSUME NEW c \in Clients, plan' = plan,
             job'[c].op # "update", \A d \in Clients \ {c} : job'[d] = job[d]
      PROVE  plan'[p] = plan[p] /\ ~UpdatePending(p)'
  BY <1>8 DEF Frozen, UpdatePending
<1>9. ASSUME NEW c \in Clients,
             \/ updateTestSet(c) \/ finished(c) \/ abandon(c)
             \/ \E s \in Sets : resolveTestCaseIds(c, s)
             \/ \E t \in Cases : fetchTestCase(c, t) \/ listSnapshots(c, t) \/ createRefused(c, t)
      PROVE  plan'[p] = plan[p] /\ ~UpdatePending(p)'
  <2>1. plan' = plan /\ \A d \in Clients \ {c} : job'[d] = job[d]
    BY <1>9 DEF updateTestSet, finished, abandon, resolveTestCaseIds, fetchTestCase,
                listSnapshots, createRefused, TypeOK
  <2>2. CASE updateTestSet(c) \/ finished(c) \/ abandon(c)
    BY <2>1, <2>2, <1>8 DEF updateTestSet, finished, abandon, TypeOK, Idle
  <2>3. ASSUME Snapshotting(c), job'[c].op = job[c].op
        PROVE  plan'[p] = plan[p] /\ ~UpdatePending(p)'
    BY <2>1, <2>3, <1>8 DEF Snapshotting
  <2>4. CASE \E s \in Sets : resolveTestCaseIds(c, s)
    <3>1. job[c] \in Locks \cup Copies /\ Snapshotting(c)
      BY <2>4, JobKinds DEF resolveTestCaseIds, Snapshotting
    <3>2. job'[c].op = job[c].op
      BY <2>4, <3>1 DEF resolveTestCaseIds, TypeOK, Locks, Copies
    <3>3. QED BY <2>3, <3>1, <3>2
  <2>5. CASE \E t \in Cases : fetchTestCase(c, t) \/ listSnapshots(c, t) \/ createRefused(c, t)
    <3>1. job[c] \in Locks \cup Copies /\ Snapshotting(c)
      BY <2>5, JobKinds DEF fetchTestCase, listSnapshots, createRefused, Snapshotting
    <3>2. job'[c].op = job[c].op
      BY <2>5, <3>1 DEF fetchTestCase, listSnapshots, createRefused, TypeOK, Locks, Copies
    <3>3. QED BY <2>3, <3>1, <3>2
  <2>6. QED BY <1>9, <2>2, <2>4, <2>5
<1>10. ASSUME NEW c \in Clients, NEW t \in Cases, NEW answered \in BOOLEAN,
              createWorkItem(c, t, answered)
       PROVE  plan'[p] = plan[p] /\ ~UpdatePending(p)'
  <2>1. /\ job' = [job EXCEPT ![c] = job'[c]] /\ job'[c].op = job[c].op
    BY <1>10, CreatedSnapshot
  <2>2. plan' = plan /\ Snapshotting(c)
    BY <1>10 DEF createWorkItem
  <2>3. QED BY <2>1, <2>2, <1>8 DEF TypeOK, Snapshotting
<1>11. QED BY <1>1, <1>2, <1>3, <1>4, <1>5, <1>6, <1>7, <1>9, <1>10, StepCases DEF Next

(* A locked plan keeps its composition, whatever updates, locks and edits other
   users have under way: only an unlock or a close ends it. *)
THEOREM LockedIsFrozen == Spec => CompositionFrozenWhileLocked
<1>1. TypeOK /\ [Next]_vars =>
        [\A p \in Plans :
          Frozen(p) => /\ plan'[p].sets = plan[p].sets
                       /\ plan'[p].extra = plan[p].extra
                       /\ plan'[p].state = "Locked" => Frozen(p)']_vars
  BY FrozenStep
<1>2. QED BY <1>1, TypeInit, TypeStep, PTL DEF Spec, CompositionFrozenWhileLocked
-----------------------------------------------------------------------------
(* One call at a time creates snapshots.  What such a call knows stays true: a
   name it has looked for and not found is free, and the snapshots it made are
   there under its name. *)

JobFits(c) ==
    Snapshotting(c) =>
        /\ \A t \in Cases : job[c].task[t].stage = "create" => ~NameTaken(t, job[c].name)
        /\ \A i \in job[c].made : i \in DOMAIN snaps /\ snaps[i].name = job[c].name

BaselineIsOwn ==
    \A p \in Plans : \A i \in plan[p].locked : i \in DOMAIN snaps /\ snaps[i].name = p

LockInv ==
    /\ TypeOK
    /\ OneLocker
    /\ SnapshotNamesUnique
    /\ \A c \in Clients : JobFits(c)
    /\ BaselineIsOwn

(* A client's call goes on without a snapshot: what the others know is still
   true, so it is enough that its own knowledge is. *)
LEMMA OneCallGoesOn ==
    ASSUME LockInv, NEW c \in Clients, snaps' = snaps,
           job' = [job EXCEPT ![c] = job'[c]], JobFits(c)'
    PROVE  \A d \in Clients : JobFits(d)'
<1>1. ASSUME NEW d \in Clients, d # c PROVE JobFits(d)'
  <2>1. job'[d] = job[d]
    BY <1>1 DEF LockInv, TypeOK
  <2>2. JobFits(d)
    BY DEF LockInv
  <2>3. QED BY <2>1, <2>2 DEF JobFits, Snapshotting, NameTaken
<1>2. QED BY <1>1

(* A call starts, or goes on to its next request: a task is about to create its
   snapshot only when it has just found the name free. *)
LEMMA CallFits ==
    ASSUME LockInv, NEW c \in Clients,
           \/ Call(c)
           \/ updateWorkItem(c) \/ updateTestSet(c)
           \/ \E s \in Sets : resolveTestCaseIds(c, s)
           \/ \E t \in Cases : fetchTestCase(c, t) \/ listSnapshots(c, t) \/ createRefused(c, t)
           \/ lockPlan(c) \/ finished(c) \/ abandon(c)
    PROVE  /\ snaps' = snaps
           /\ job' = [job EXCEPT ![c] = job'[c]]
           /\ JobFits(c)'
<1>1. job \in [Clients -> Jobs] /\ JobFits(c)
  BY DEF LockInv, TypeOK
<1>2. CASE Call(c)
  <2>1. CASE \E p \in Plans, draft \in Drafts : update(c, p, draft)
    BY <1>1, <2>1 DEF update, JobFits, Snapshotting
  <2>2. CASE \E s \in Sets, t \in Cases : addTestCases(c, s, {t}) \/ removeTestCases(c, s, {t})
    BY <1>1, <2>2 DEF addTestCases, removeTestCases, WriteSet, JobFits, Snapshotting
  <2>3. CASE \E p \in Plans : lockWithAutoSnapshot(c, p)
    BY <1>1, <2>3 DEF lockWithAutoSnapshot, JobFits, Snapshotting, Out
  <2>4. CASE \E t \in Cases, name \in ManualNames : createSnapshot(c, t, name)
    BY <1>1, <2>4 DEF createSnapshot, JobFits, Snapshotting, Out
  <2>5. QED BY <1>2, <2>1, <2>2, <2>3, <2>4 DEF Call
<1>3. CASE updateWorkItem(c) \/ updateTestSet(c) \/ lockPlan(c) \/ finished(c) \/ abandon(c)
  BY <1>1, <1>3 DEF updateWorkItem, updateTestSet, lockPlan, finished, abandon, JobFits,
                    Snapshotting, Idle
<1>4. ASSUME Snapshotting(c), snaps' = snaps, job' = [job EXCEPT ![c] = job'[c]],
             job'[c].op = job[c].op, job'[c].name = job[c].name, job'[c].made = job[c].made,
             \A t \in Cases : job'[c].task[t].stage = "create" =>
                job[c].task[t].stage = "create" \/ ~NameTaken(t, job[c].name)
      PROVE  JobFits(c)'
  BY <1>1, <1>4 DEF JobFits, Snapshotting, NameTaken
<1>5. Snapshotting(c) => job[c] \in Locks \cup Copies /\ job[c].task \in [Cases -> Tasks]
  BY JobKinds DEF LockInv, Snapshotting
<1>6. CASE \E s \in Sets : resolveTestCaseIds(c, s)
  <2>1. PICK s \in Sets : resolveTestCaseIds(c, s)
    BY <1>6
  <2> DEFINE task == [t \in Cases |-> IF t \in members[s] THEN [stage |-> "fetch", content |-> 0]
                                      ELSE job[c].task[t]]
             after == [job[c] EXCEPT !.toResolve = @ \ {s}, !.task = task]
  <2>2. Snapshotting(c) /\ snaps' = snaps /\ job' = [job EXCEPT ![c] = after]
    BY <2>1, <1>1, <1>5 DEF resolveTestCaseIds, Locks, Copies
  <2>3. after.op = job[c].op /\ after.name = job[c].name /\ after.made = job[c].made
        /\ after.task = task
    BY <2>2, <1>5 DEF Locks, Copies
  <2>4. job'[c] = after /\ job' = [job EXCEPT ![c] = job'[c]]
    BY <2>2, <1>1
  <2>5. \A t \in Cases : task[t].stage = "create" => job[c].task[t].stage = "create"
    OBVIOUS
  <2>6. QED BY <2>2, <2>3, <2>4, <2>5, <1>4
<1>7. ASSUME NEW t \in Cases, fetchTestCase(c, t) \/ listSnapshots(c, t) \/ createRefused(c, t)
      PROVE  /\ snaps' = snaps
             /\ job' = [job EXCEPT ![c] = job'[c]]
             /\ JobFits(c)'
  <2>1. Snapshotting(c) /\ snaps' = snaps
    BY <1>7 DEF fetchTestCase, listSnapshots, createRefused
  <2>2. ASSUME NEW one, job' = [job EXCEPT ![c].task[t] = one],
               one.stage = "create" => ~NameTaken(t, job[c].name)
        PROVE  /\ job' = [job EXCEPT ![c] = job'[c]]
               /\ JobFits(c)'
    <3> DEFINE after == [job[c] EXCEPT !.task[t] = one]
    <3>1. job' = [job EXCEPT ![c] = after] /\ job'[c] = after
      BY <1>1, <2>2
    <3>2. after.op = job[c].op /\ after.name = job[c].name /\ after.made = job[c].made
          /\ \A u \in Cases : after.task[u] = IF u = t THEN one ELSE job[c].task[u]
      BY <2>1, <1>5 DEF Locks, Copies
    <3>3. job' = [job EXCEPT ![c] = job'[c]]
      BY <3>1
    <3>4. \A u \in Cases : job'[c].task[u].stage = "create" =>
             job[c].task[u].stage = "create" \/ ~NameTaken(u, job[c].name)
      BY <2>2, <3>1, <3>2
    <3>5. job'[c].op = job[c].op /\ job'[c].name = job[c].name /\ job'[c].made = job[c].made
      BY <3>1, <3>2
    <3> HIDE DEF after
    <3>6. QED BY <2>1, <3>3, <3>4, <3>5, <1>4
  <2>3. CASE fetchTestCase(c, t)
    <3> DEFINE one == [stage |-> "check", content |-> content[t]]
    <3>1. job' = [job EXCEPT ![c].task[t] = one] /\ one.stage # "create"
      BY <2>3 DEF fetchTestCase
    <3> HIDE DEF one
    <3>2. QED BY <2>1, <2>2, <3>1
  <2>4. CASE listSnapshots(c, t) \/ createRefused(c, t)
    <3>1. PICK stage : /\ job' = [job EXCEPT ![c].task[t].stage = stage]
                       /\ stage = "create" => ~NameTaken(t, job[c].name)
      BY <2>4 DEF listSnapshots, createRefused
    <3> DEFINE one == [job[c].task[t] EXCEPT !.stage = stage]
    <3>2. job[c].task[t] \in Tasks
      BY <2>1, <1>5
    <3>3. one.stage = stage
      BY <3>2 DEF Tasks
    <3>4. job' = [job EXCEPT ![c].task[t] = one]
      BY <3>1
    <3> HIDE DEF one
    <3>5. QED BY <2>1, <2>2, <3>1, <3>3, <3>4
  <2>5. QED BY <1>7, <2>1, <2>3, <2>4
<1>8. QED BY <1>2, <1>3, <1>4, <1>6, <1>7

(* Only a lock that succeeds records snapshots in a plan, those it made; a plan
   that is created has none. *)
LEMMA RecordedIds ==
    ASSUME TypeOK, Step, NEW p \in Plans
    PROVE  \/ plan'[p].locked \in {plan[p].locked, {}}
           \/ \E c \in Clients : /\ lockPlan(c) /\ job[c].name = p
                                 /\ plan'[p].locked = job[c].made
<1>1. CASE plan' = plan
  BY <1>1
<1>2. ASSUME NEW q \in Plans, OnPlan(q)
      PROVE  plan'[p].locked \in {plan[p].locked, {}}
  <2>1. ASSUME NEW state, plan' = [plan EXCEPT ![q].state = state]
        PROVE  plan'[p].locked = plan[p].locked
    BY <2>1 DEF TypeOK, PlanItems
  <2>2. CASE \E draft \in Drafts : create(q, draft)
    BY <2>2 DEF create, TypeOK
  <2>3. CASE delete(q)
    BY <2>1, <2>3 DEF delete
  <2>4. CASE \E state \in {"Locked", "Draft", "Closed"} : SetState(q, state)
    BY <2>1, <2>4 DEF SetState
  <2>5. QED BY <1>2, <2>2, <2>3, <2>4 DEF OnPlan, lock, unlock, close
<1>3. ASSUME NEW c \in Clients, updateWorkItem(c)
      PROVE  plan'[p].locked = plan[p].locked
  <2> DEFINE q == job[c].plan
  <2>1. q \in Plans /\ plan[q] \in PlanItems
    BY <1>3, JobKinds DEF updateWorkItem, Updates, TypeOK
  <2>2. plan' = plan \/ plan' = [plan EXCEPT ![q].sets = job[c].draft.sets,
                                            ![q].extra = job[c].draft.extra]
    BY <1>3 DEF updateWorkItem
  <2>3. [plan[q] EXCEPT !.sets = job[c].draft.sets,
                        !.extra = job[c].draft.extra].locked = plan[q].locked
    BY <2>1 DEF PlanItems
  <2>4. QED BY <2>1, <2>2, <2>3 DEF TypeOK, PlanItems
<1>4. ASSUME NEW c \in Clients, lockPlan(c)
      PROVE  plan'[p] = plan[p] \/ (job[c].name = p /\ plan'[p].locked = job[c].made)
  <2>1. plan'[p] = plan[p] \/ (job[c].name = p /\ plan'[p] = LockedItem(c, p))
    BY <1>4 DEF lockPlan, TypeOK
  <2>2. LockedItem(c, p).locked = job[c].made
    BY DEF LockedItem, TypeOK, PlanItems
  <2>3. QED BY <2>1, <2>2
<1>5. CASE \E c \in Clients : Call(c)
  BY <1>1, <1>5 DEF Call, update, addTestCases, removeTestCases, WriteSet, lockWithAutoSnapshot,
                    createSnapshot
<1>6. CASE Step /\ ~(\E q \in Plans : OnPlan(q)) /\ ~(\E c \in Clients : Call(c))
           /\ ~(\E c \in Clients : updateWorkItem(c) \/ lockPlan(c))
  <2>1. plan' = plan
    BY <1>6 DEF Step, Progress, updateTestCase, updateTestSet, resolveTestCaseIds, fetchTestCase,
                listSnapshots, createWorkItem, createRefused, finished, abandon
  <2>2. QED BY <1>1, <2>1
<1>7. QED BY <1>2, <1>3, <1>4, <1>5, <1>6

(* Appending leaves what was there where it was. *)
LEMMA Appended ==
    ASSUME NEW S, NEW s \in Seq(S), NEW e \in S
    PROVE  /\ Append(s, e)[Len(s) + 1] = e
           /\ Len(s) + 1 \in DOMAIN Append(s, e)
           /\ \A i \in DOMAIN s : i \in DOMAIN Append(s, e) /\ Append(s, e)[i] = s[i]
           /\ \A i \in DOMAIN Append(s, e) : i \in DOMAIN s \/ i = Len(s) + 1
OBVIOUS

(* A snapshot is created under a name its case does not have yet, and takes
   away nothing that the one call that creates snapshots relies on. *)
LEMMA CreationFits ==
    ASSUME LockInv, OneLocker', NEW c \in Clients, NEW t \in Cases, NEW answered \in BOOLEAN,
           createWorkItem(c, t, answered)
    PROVE  /\ SnapshotNamesUnique'
           /\ \A d \in Clients : JobFits(d)'
           /\ \A i \in DOMAIN snaps : i \in DOMAIN snaps' /\ snaps'[i] = snaps[i]
<1> DEFINE new == [parent |-> t, name |-> job[c].name, content |-> job[c].task[t].content]
           id == Len(snaps) + 1
<1>1. TypeOK /\ snaps \in Seq(Snapshots)
  BY DEF LockInv, TypeOK
<1>2. /\ new \in Snapshots
      /\ snaps' = Append(snaps, new)
      /\ job' = [job EXCEPT ![c] = job'[c]]
      /\ job'[c].op = job[c].op /\ job'[c].name = job[c].name
      /\ job'[c].made \in {job[c].made, job[c].made \cup {id}}
      /\ job'[c].task[t].stage \in {"made", "failed"}
      /\ \A u \in Cases \ {t} : job'[c].task[u] = job[c].task[u]
  BY <1>1, CreatedSnapshot
<1>3. new.parent = t /\ new.name = job[c].name
  OBVIOUS
<1> HIDE DEF new
<1>4. /\ snaps'[id] = new /\ id \in DOMAIN snaps'
      /\ \A i \in DOMAIN snaps : i \in DOMAIN snaps' /\ snaps'[i] = snaps[i]
      /\ \A i \in DOMAIN snaps' : i \in DOMAIN snaps \/ i = id
  BY <1>1, <1>2, Appended
<1> HIDE DEF id
<1>5. Snapshotting(c) /\ ~NameTaken(t, job[c].name) /\ JobFits(c)
  BY DEF createWorkItem, LockInv, JobFits
<1>6. SnapshotNamesUnique'
  <2>1. \A i \in DOMAIN snaps : ~(snaps[i].parent = t /\ snaps[i].name = job[c].name)
    BY <1>5 DEF NameTaken
  <2>2. QED BY <1>3, <1>4, <2>1 DEF LockInv, SnapshotNamesUnique
<1>7. JobFits(c)'
  <2>1. ASSUME NEW u \in Cases, job'[c].task[u].stage = "create"
        PROVE  ~NameTaken(u, job[c].name)'
    <3>1. u # t
      BY <1>2, <2>1
    <3>2. ~NameTaken(u, job[c].name)
      BY <1>2, <1>5, <2>1, <3>1 DEF JobFits
    <3>3. \A i \in DOMAIN snaps' : ~(snaps'[i].parent = u /\ snaps'[i].name = job[c].name)
      BY <1>3, <1>4, <3>1, <3>2 DEF NameTaken
    <3>4. QED BY <1>2, <3>3 DEF NameTaken
  <2>2. \A i \in job'[c].made : i \in DOMAIN snaps' /\ snaps'[i].name = job'[c].name
    BY <1>2, <1>3, <1>4, <1>5 DEF JobFits
  <2>3. QED BY <1>2, <2>1, <2>2 DEF JobFits, NameTaken
<1>8. ASSUME NEW d \in Clients, d # c PROVE JobFits(d)'
  <2>1. job'[d] = job[d]
    BY <1>1, <1>2, <1>8 DEF TypeOK
  <2>2. ~Snapshotting(d)
    BY <1>5, <1>8 DEF LockInv, OneLocker
  <2>3. QED BY <2>1, <2>2 DEF JobFits, Snapshotting
<1>9. QED BY <1>4, <1>7, <1>6, <1>8

(* A plan's recorded snapshots stay snapshots of its own lock, as long as no
   snapshot is taken away or renamed. *)
LEMMA BaselineStaysOwn ==
    ASSUME LockInv, Step,
           \A i \in DOMAIN snaps : i \in DOMAIN snaps' /\ snaps'[i] = snaps[i]
    PROVE  BaselineIsOwn'
<1> SUFFICES ASSUME NEW p \in Plans, NEW i \in plan'[p].locked
             PROVE  i \in DOMAIN snaps' /\ snaps'[i].name = p
  BY DEF BaselineIsOwn
<1>1. CASE plan'[p].locked \in {plan[p].locked, {}}
  BY <1>1 DEF LockInv, BaselineIsOwn
<1>2. ASSUME NEW c \in Clients, lockPlan(c), job[c].name = p, plan'[p].locked = job[c].made
      PROVE  i \in DOMAIN snaps' /\ snaps'[i].name = p
  <2>1. Snapshotting(c) /\ JobFits(c)
    BY <1>2 DEF lockPlan, Snapshotting, LockInv
  <2>2. QED BY <1>2, <2>1 DEF JobFits
<1>3. QED BY <1>1, <1>2, RecordedIds DEF LockInv

(* Every step keeps the invariant, when calls that create snapshots take turns. *)
LEMMA LockStep == LockInv /\ [Next /\ OneLocker']_vars => LockInv'
<1>1. CASE LockInv /\ UNCHANGED vars
  <2>1. TypeOK'
    BY <1>1 DEF LockInv, TypeOK, vars
  <2>2. OneLocker' /\ SnapshotNamesUnique' /\ BaselineIsOwn'
    BY <1>1 DEF LockInv, OneLocker, Snapshotting, SnapshotNamesUnique, BaselineIsOwn, vars
  <2>3. \A c \in Clients : JobFits(c)'
    BY <1>1 DEF LockInv, JobFits, Snapshotting, NameTaken, vars
  <2>4. QED BY <2>1, <2>2, <2>3 DEF LockInv
<1> SUFFICES ASSUME LockInv, Next, OneLocker' PROVE LockInv'
  BY <1>1
<1>2. Step /\ TypeOK'
  BY TypeStep DEF Next, LockInv
<1>3. CASE snaps' = snaps /\ \A c \in Clients : JobFits(c)'
  <2>1. SnapshotNamesUnique'
    BY <1>3 DEF LockInv, SnapshotNamesUnique
  <2>2. BaselineIsOwn'
    BY <1>2, <1>3, BaselineStaysOwn
  <2>3. QED BY <1>2, <1>3, <2>1, <2>2 DEF LockInv
<1>4. CASE snaps' = snaps /\ job' = job
  <2>1. \A c \in Clients : JobFits(c)'
    BY <1>4 DEF LockInv, JobFits, Snapshotting, NameTaken
  <2>2. QED BY <1>3, <1>4, <2>1
<1>5. CASE (\E p \in Plans : OnPlan(p)) \/ (\E t \in Cases : updateTestCase(t))
  <2>1. snaps' = snaps /\ job' = job
    BY <1>5 DEF OnPlan, create, delete, lock, unlock, close, SetState, updateTestCase
  <2>2. QED BY <1>4, <2>1
<1>6. ASSUME NEW c \in Clients,
             \/ Call(c)
             \/ updateWorkItem(c) \/ updateTestSet(c)
             \/ \E s \in Sets : resolveTestCaseIds(c, s)
             \/ \E t \in Cases : fetchTestCase(c, t) \/ listSnapshots(c, t) \/ createRefused(c, t)
             \/ lockPlan(c) \/ finished(c) \/ abandon(c)
      PROVE  LockInv'
  <2>1. snaps' = snaps /\ job' = [job EXCEPT ![c] = job'[c]] /\ JobFits(c)'
    BY <1>6, CallFits
  <2>2. \A d \in Clients : JobFits(d)'
    BY <2>1, OneCallGoesOn
  <2>3. QED BY <1>3, <2>1, <2>2
<1>7. ASSUME NEW c \in Clients, NEW t \in Cases, NEW answered \in BOOLEAN,
             createWorkItem(c, t, answered)
      PROVE  LockInv'
  <2>1. /\ SnapshotNamesUnique' /\ \A d \in Clients : JobFits(d)'
        /\ \A i \in DOMAIN snaps : i \in DOMAIN snaps' /\ snaps'[i] = snaps[i]
    BY <1>7, CreationFits
  <2>2. BaselineIsOwn'
    BY <1>2, <2>1, BaselineStaysOwn
  <2>3. QED BY <1>2, <2>1, <2>2 DEF LockInv
<1>8. QED BY <1>2, <1>5, <1>6, <1>7, StepCases

(* In the beginning there is no snapshot to rely on. *)
LEMMA LockInit == Init => LockInv
<1> SUFFICES ASSUME Init PROVE LockInv
  OBVIOUS
<1>1. \A c \in Clients : ~Snapshotting(c)
  BY DEF Init, Snapshotting, Idle
<1>2. OneLocker /\ \A c \in Clients : JobFits(c)
  BY <1>1 DEF OneLocker, JobFits
<1>3. SnapshotNamesUnique /\ BaselineIsOwn
  BY DEF Init, SnapshotNamesUnique, BaselineIsOwn
<1>4. QED BY <1>2, <1>3, TypeInit DEF LockInv

(* A case never has two snapshots of one name, though the check and the
   creation are two requests, when one call at a time creates snapshots. *)
THEOREM NamesAreUnique == OneLockerSpec => []SnapshotNamesUnique
<1>1. LockInv => SnapshotNamesUnique
  BY DEF LockInv
<1>2. QED BY <1>1, LockInit, LockStep, PTL DEF OneLockerSpec

(* The snapshot a plan was locked with is never exchanged for another one of
   the same case: a lock can only succeed with snapshots it created under the
   plan's own name, and a case has one of these. *)
THEOREM BaselineIsKept == OneLockerSpec => BaselineKept
<1>1. ASSUME LockInv, LockInv', [Next]_vars, NEW p \in Plans,
             NEW i \in plan[p].locked, NEW j \in plan'[p].locked,
             snaps[i].parent = snaps[j].parent
      PROVE  i = j
  <2>1. i \in DOMAIN snaps /\ snaps[i].name = p
    BY <1>1 DEF LockInv, BaselineIsOwn
  <2>2. j \in DOMAIN snaps /\ snaps[j].name = p
    <3>1. CASE plan'[p].locked \in {plan[p].locked, {}}
      BY <1>1, <3>1 DEF LockInv, BaselineIsOwn
    <3>2. ASSUME NEW c \in Clients, lockPlan(c)
          PROVE  j \in DOMAIN snaps /\ snaps[j].name = p
      BY <1>1, <3>2 DEF lockPlan, LockInv, BaselineIsOwn
    <3>3. CASE UNCHANGED vars
      BY <3>1, <3>3 DEF vars
    <3>4. QED BY <1>1, <3>1, <3>2, <3>3, RecordedIds DEF Next, LockInv
  <2>3. QED BY <1>1, <2>1, <2>2 DEF LockInv, SnapshotNamesUnique
<1>2. LockInv /\ LockInv' /\ [Next /\ OneLocker']_vars =>
        [\A p \in Plans : \A i \in plan[p].locked, j \in plan'[p].locked :
          snaps[i].parent = snaps[j].parent => i = j]_vars
  BY <1>1
<1>3. QED BY <1>2, LockInit, LockStep, PTL DEF OneLockerSpec, BaselineKept

-----------------------------------------------------------------------------
(* What a call that creates snapshots has in hand: one snapshot of each case
   that is made, of the content it fetched; and if nobody changed anything
   since it read the plan, its cases are those of the sets it has resolved and
   the extra ones, each as it is now.  Nothing here needs calls to take turns. *)

MadeFits(c) ==
    /\ \A i \in job[c].made : /\ i \in DOMAIN snaps
                              /\ job[c].task[snaps[i].parent].stage = "made"
                              /\ job[c].task[snaps[i].parent].content = snaps[i].content
    /\ \A i, k \in job[c].made : snaps[i].parent = snaps[k].parent => i = k
    /\ \A t \in Cases : job[c].task[t].stage = "made" =>
          \E i \in job[c].made : snaps[i].parent = t
    /\ job[c].toResolve # {} => AllIn(c, {"out", "fetch"})

Captures(c, p) ==
    /\ job[c].toResolve \subseteq plan[p].sets
    /\ \A t \in Cases : job[c].task[t].stage # "out" <=>
          \/ t \in plan[p].extra
          \/ \E s \in plan[p].sets \ job[c].toResolve : t \in members[s]
    /\ \A t \in Cases : job[c].task[t].stage \in {"check", "create", "made"} =>
          job[c].task[t].content = content[t]

CaptureFits(c) ==
    Snapshotting(c) =>
        /\ MadeFits(c)
        /\ job[c].op = "lockWithAutoSnapshot" /\ c \notin disturbed => Captures(c, job[c].name)

CaptureInv == TypeOK /\ \A c \in Clients : CaptureFits(c)

(* A snapshot is of one of the cases. *)
LEMMA ParentIsCase ==
    ASSUME TypeOK, NEW i \in DOMAIN snaps
    PROVE  snaps[i].parent \in Cases
<1>1. snaps[i] \in Snapshots
  BY DEF TypeOK
<1>2. QED BY <1>1 DEF Snapshots

(* A call that is still undisturbed after a step was so before, and the step
   changed nothing that it captures. *)
LEMMA Undisturbed ==
    ASSUME Observe, NEW c \in Clients, Snapshotting(c)', c \notin disturbed'
    PROVE  /\ content' = content /\ members' = members
           /\ \A p \in Plans : plan'[p].sets = plan[p].sets /\ plan'[p].extra = plan[p].extra
           /\ c \notin disturbed
BY DEF Observe, Changes

(* Snapshots are only added: the call of a client that does nothing keeps what
   it has in hand. *)
LEMMA CaptureKept ==
    ASSUME CaptureInv, Observe, NEW c \in Clients, job'[c] = job[c],
           \A i \in DOMAIN snaps : i \in DOMAIN snaps' /\ snaps'[i] = snaps[i]
    PROVE  CaptureFits(c)'
<1> SUFFICES ASSUME Snapshotting(c)' PROVE CaptureFits(c)'
  BY DEF CaptureFits
<1>1. Snapshotting(c) /\ MadeFits(c)
  BY DEF CaptureInv, CaptureFits, Snapshotting
<1>2. MadeFits(c)'
  BY <1>1 DEF MadeFits, AllIn
<1>3. ASSUME job[c].op = "lockWithAutoSnapshot", c \notin disturbed'
      PROVE  Captures(c, job[c].name)'
  <2>1. /\ content' = content /\ members' = members /\ c \notin disturbed
        /\ \A p \in Plans : plan'[p].sets = plan[p].sets /\ plan'[p].extra = plan[p].extra
    BY <1>3, Undisturbed
  <2>2. job[c].name \in Plans
    BY <1>3, JobKinds DEF CaptureInv, Locks
  <2>3. Captures(c, job[c].name)
    BY <1>1, <1>3, <2>1 DEF CaptureInv, CaptureFits
  <2>4. QED BY <2>1, <2>2, <2>3 DEF Captures
<1>4. QED BY <1>2, <1>3 DEF CaptureFits

(* A call starts with its cases at the first stage, none of them made. *)
LEMMA CaptureStarts ==
    ASSUME CaptureInv, Observe, NEW c \in Clients, Call(c)
    PROVE  CaptureFits(c)'
<1>1. job \in [Clients -> Jobs] /\ plan \in [Plans -> PlanItems]
  BY DEF CaptureInv, TypeOK
<1>2. CASE \E p \in Plans, draft \in Drafts : update(c, p, draft)
  BY <1>1, <1>2 DEF update, CaptureFits, Snapshotting
<1>3. CASE \E s \in Sets, t \in Cases : addTestCases(c, s, {t}) \/ removeTestCases(c, s, {t})
  BY <1>1, <1>3 DEF addTestCases, removeTestCases, WriteSet, CaptureFits, Snapshotting
<1>4. ASSUME NEW p \in Plans, lockWithAutoSnapshot(c, p) PROVE CaptureFits(c)'
  <2> DEFINE task == [t \in Cases |-> IF t \in plan[p].extra THEN [stage |-> "fetch", content |-> 0]
                                      ELSE Out]
  <2>1. /\ job'[c].name = p /\ job'[c].toResolve = plan[p].sets /\ job'[c].made = {}
        /\ job'[c].task = task /\ plan' = plan
    BY <1>1, <1>4 DEF lockWithAutoSnapshot, autoName
  <2>2. \A t \in Cases : task[t].stage = IF t \in plan[p].extra THEN "fetch" ELSE "out"
    BY DEF Out
  <2> HIDE DEF task
  <2>3. MadeFits(c)'
    BY <2>1, <2>2 DEF MadeFits, AllIn
  <2>4. Captures(c, p)'
    BY <2>1, <2>2 DEF Captures
  <2>5. QED BY <2>1, <2>3, <2>4 DEF CaptureFits
<1>5. ASSUME NEW t \in Cases, NEW name \in ManualNames, createSnapshot(c, t, name)
      PROVE  CaptureFits(c)'
  <2> DEFINE task == [u \in Cases |-> IF u = t THEN [stage |-> "check", content |-> content[t]]
                                      ELSE Out]
  <2>1. /\ job'[c].op = "createSnapshot" /\ job'[c].toResolve = {} /\ job'[c].made = {}
        /\ job'[c].task = task
    BY <1>1, <1>5 DEF createSnapshot
  <2>2. \A u \in Cases : task[u].stage # "made"
    BY DEF Out
  <2> HIDE DEF task
  <2>3. MadeFits(c)'
    BY <2>1, <2>2 DEF MadeFits
  <2>4. QED BY <2>1, <2>3 DEF CaptureFits
<1>6. QED BY <1>2, <1>3, <1>4, <1>5 DEF Call

(* The members of a set are added to the cases of the call. *)
LEMMA CaptureResolves ==
    ASSUME CaptureInv, Observe, NEW c \in Clients, NEW s \in Sets, resolveTestCaseIds(c, s)
    PROVE  CaptureFits(c)'
<1> DEFINE task == [t \in Cases |-> IF t \in members[s] THEN [stage |-> "fetch", content |-> 0]
                                    ELSE job[c].task[t]]
           after == [job[c] EXCEPT !.toResolve = @ \ {s}, !.task = task]
<1>1. /\ Snapshotting(c) /\ s \in job[c].toResolve /\ snaps' = snaps
      /\ job \in [Clients -> Jobs] /\ snaps \in Seq(Snapshots)
      /\ job[c] \in Locks \cup Copies /\ job[c].task \in [Cases -> Tasks]
  BY JobKinds DEF resolveTestCaseIds, Snapshotting, CaptureInv, TypeOK
<1>2. job' = [job EXCEPT ![c] = after]
  BY <1>1 DEF resolveTestCaseIds, Locks, Copies
<1>3. /\ after.op = job[c].op /\ after.name = job[c].name /\ after.made = job[c].made
      /\ after.toResolve = job[c].toResolve \ {s} /\ after.task = task
  BY <1>1 DEF Locks, Copies
<1>4. job'[c] = after
  BY <1>1, <1>2
<1>5. \A t \in Cases : /\ t \in members[s] => task[t].stage = "fetch"
                       /\ t \notin members[s] => task[t] = job[c].task[t]
  OBVIOUS
<1> HIDE DEF task, after
<1>6. MadeFits(c) /\ AllIn(c, {"out", "fetch"})
  BY <1>1 DEF CaptureInv, CaptureFits, MadeFits
<1>7. job[c].made = {}
  <2>1. \A i \in job[c].made : snaps[i].parent \in Cases
    BY <1>6, ParentIsCase DEF MadeFits, CaptureInv
  <2>2. QED BY <1>6, <2>1 DEF MadeFits, AllIn
<1>8. \A t \in Cases : task[t].stage \in {"out", "fetch"}
  BY <1>5, <1>6 DEF AllIn
<1>9. MadeFits(c)'
  BY <1>3, <1>4, <1>7, <1>8 DEF MadeFits, AllIn
<1>10. ASSUME job[c].op = "lockWithAutoSnapshot", c \notin disturbed', Snapshotting(c)'
       PROVE  Captures(c, job[c].name)'
  <2>1. PICK p \in Plans : p = job[c].name
    BY <1>10, JobKinds DEF CaptureInv, Locks
  <2>2. /\ content' = content /\ members' = members /\ c \notin disturbed
        /\ plan'[p].sets = plan[p].sets /\ plan'[p].extra = plan[p].extra
    BY <1>10, Undisturbed
  <2>3. Captures(c, p)
    BY <1>1, <1>10, <2>1, <2>2 DEF CaptureInv, CaptureFits
  <2>4. job'[c].toResolve \subseteq plan'[p].sets
    BY <1>3, <1>4, <2>2, <2>3 DEF Captures
  <2>5. \A t \in Cases : task[t].stage # "out" <=>
           \/ t \in plan[p].extra
           \/ \E r \in plan[p].sets \ (job[c].toResolve \ {s}) : t \in members[r]
    BY <1>1, <1>5, <2>3 DEF Captures
  <2>6. Captures(c, p)'
    BY <1>3, <1>4, <1>8, <2>2, <2>4, <2>5 DEF Captures
  <2>7. QED BY <1>3, <1>4, <2>1, <2>6
<1>11. QED BY <1>3, <1>4, <1>9, <1>10 DEF CaptureFits

(* One case goes on to a later stage, and is not made yet. *)
LEMMA CaptureGoesOn ==
    ASSUME CaptureInv, Observe, NEW c \in Clients, NEW t \in Cases, NEW one,
           Snapshotting(c), snaps' = snaps, job' = [job EXCEPT ![c].task[t] = one],
           job[c].toResolve = {},
           job[c].task[t].stage \in {"fetch", "check", "create"},
           one.stage \in {"check", "create", "failed"},
           one.stage # "failed" => \/ one.content = content[t]
                                   \/ /\ job[c].task[t].stage # "fetch"
                                      /\ one.content = job[c].task[t].content
    PROVE  CaptureFits(c)'
<1> DEFINE after == [job[c] EXCEPT !.task[t] = one]
<1>1. /\ job \in [Clients -> Jobs] /\ snaps \in Seq(Snapshots)
      /\ job[c] \in Locks \cup Copies /\ job[c].task \in [Cases -> Tasks]
  BY JobKinds DEF Snapshotting, CaptureInv, TypeOK
<1>2. job'[c] = after
  BY <1>1
<1>3. /\ after.op = job[c].op /\ after.name = job[c].name /\ after.made = job[c].made
      /\ after.toResolve = {}
      /\ after.task[t] = one /\ \A u \in Cases : u # t => after.task[u] = job[c].task[u]
  BY <1>1 DEF Locks, Copies
<1> HIDE DEF after
<1>4. MadeFits(c)
  BY DEF CaptureInv, CaptureFits
<1>5. MadeFits(c)'
  <2>1. \A i \in job[c].made : snaps[i].parent \in Cases /\ snaps[i].parent # t
    BY <1>4, ParentIsCase DEF MadeFits, CaptureInv
  <2>2. QED BY <1>2, <1>3, <1>4, <2>1 DEF MadeFits
<1>6. ASSUME job[c].op = "lockWithAutoSnapshot", c \notin disturbed', Snapshotting(c)'
      PROVE  Captures(c, job[c].name)'
  <2>1. PICK p \in Plans : p = job[c].name
    BY <1>6, JobKinds DEF CaptureInv, Locks
  <2>2. /\ content' = content /\ members' = members /\ c \notin disturbed
        /\ plan'[p].sets = plan[p].sets /\ plan'[p].extra = plan[p].extra
    BY <1>6, Undisturbed
  <2>3. Captures(c, p)
    BY <1>6, <2>1, <2>2 DEF CaptureInv, CaptureFits
  <2>4. \A u \in Cases : after.task[u].stage # "out" <=> job[c].task[u].stage # "out"
    BY <1>3
  <2>5. \A u \in Cases : after.task[u].stage \in {"check", "create", "made"} =>
           after.task[u].content = content[u]
    BY <1>3, <2>3 DEF Captures
  <2>6. Captures(c, p)'
    BY <1>2, <1>3, <2>2, <2>3, <2>4, <2>5 DEF Captures
  <2>7. QED BY <1>2, <1>3, <2>1, <2>6
<1>7. QED BY <1>2, <1>3, <1>5, <1>6 DEF CaptureFits

(* A case is fetched, its name looked for, or its snapshot refused. *)
LEMMA CaptureTaskSteps ==
    ASSUME CaptureInv, Observe, NEW c \in Clients, NEW t \in Cases,
           fetchTestCase(c, t) \/ listSnapshots(c, t) \/ createRefused(c, t)
    PROVE  CaptureFits(c)'
<1>1. /\ Snapshotting(c) /\ snaps' = snaps /\ job[c].task[t] \in Tasks /\ MadeFits(c)
      /\ job \in [Clients -> Jobs]
  BY JobKinds DEF fetchTestCase, listSnapshots, createRefused, CaptureInv, CaptureFits, TypeOK
<1>2. CASE fetchTestCase(c, t)
  <2> DEFINE one == [stage |-> "check", content |-> content[t]]
  <2>1. /\ job' = [job EXCEPT ![c].task[t] = one] /\ job[c].toResolve = {}
        /\ job[c].task[t].stage = "fetch" /\ one.stage = "check" /\ one.content = content[t]
    BY <1>2 DEF fetchTestCase
  <2> HIDE DEF one
  <2>2. QED BY <1>1, <2>1, CaptureGoesOn
<1>3. CASE listSnapshots(c, t) \/ createRefused(c, t)
  <2>1. PICK stage \in {"create", "failed"} : job' = [job EXCEPT ![c].task[t].stage = stage]
    BY <1>3 DEF listSnapshots, createRefused
  <2> DEFINE one == [job[c].task[t] EXCEPT !.stage = stage]
  <2>2. one.stage = stage /\ one.content = job[c].task[t].content
    BY <1>1 DEF Tasks
  <2>3. job' = [job EXCEPT ![c].task[t] = one]
    BY <2>1
  <2> HIDE DEF one
  <2>4. job[c].task[t].stage \in {"check", "create"}
    BY <1>3 DEF listSnapshots, createRefused
  <2>5. job[c].toResolve = {}
    BY <1>1, <2>4 DEF MadeFits, AllIn
  <2>6. QED BY <1>1, <2>1, <2>2, <2>3, <2>4, <2>5, CaptureGoesOn
<1>4. QED BY <1>2, <1>3

(* A snapshot that is created and answered is the one of its case; one whose
   answer is lost is nobody's. *)
LEMMA CaptureCreates ==
    ASSUME CaptureInv, Observe, NEW c \in Clients, NEW t \in Cases, NEW answered \in BOOLEAN,
           createWorkItem(c, t, answered)
    PROVE  \A d \in Clients : CaptureFits(d)'
<1> DEFINE new == [parent |-> t, name |-> job[c].name, content |-> job[c].task[t].content]
           id == Len(snaps) + 1
<1>1. /\ TypeOK /\ snaps \in Seq(Snapshots) /\ job \in [Clients -> Jobs]
      /\ Snapshotting(c) /\ MadeFits(c) /\ job[c].task[t].stage = "create"
      /\ job[c].task \in [Cases -> Tasks]
  BY JobKinds DEF CaptureInv, TypeOK, CaptureFits, createWorkItem
<1>2. /\ new \in Snapshots /\ snaps' = Append(snaps, new)
      /\ job' = [job EXCEPT ![c] = job'[c]]
      /\ job'[c].op = job[c].op /\ job'[c].name = job[c].name
      /\ job'[c].toResolve = job[c].toResolve
      /\ job'[c].task[t].stage \in {"made", "failed"}
      /\ \A u \in Cases \ {t} : job'[c].task[u] = job[c].task[u]
      /\ job'[c].task[t].content = job[c].task[t].content
      /\ IF job'[c].task[t].stage = "made" THEN job'[c].made = job[c].made \cup {id}
                                           ELSE job'[c].made = job[c].made
  BY <1>1, CreatedSnapshot
<1>3. new.parent = t /\ new.content = job[c].task[t].content
  OBVIOUS
<1> HIDE DEF new
<1>4. /\ snaps'[id] = new /\ id \in DOMAIN snaps' /\ id \notin DOMAIN snaps
      /\ \A i \in DOMAIN snaps : i \in DOMAIN snaps' /\ snaps'[i] = snaps[i]
  <2>1. id \notin DOMAIN snaps
    BY <1>1
  <2>2. QED BY <1>1, <1>2, <2>1, Appended
<1> HIDE DEF id
<1>5. ASSUME NEW d \in Clients, d # c PROVE CaptureFits(d)'
  <2>1. job'[d] = job[d]
    BY <1>1, <1>2, <1>5
  <2>2. QED BY <1>4, <2>1, CaptureKept
<1>6. \A i \in job[c].made : /\ i \in DOMAIN snaps /\ snaps'[i] = snaps[i]
                             /\ snaps[i].parent \in Cases \ {t}
  <2>1. \A i \in job[c].made : i \in DOMAIN snaps /\ job[c].task[snaps[i].parent].stage = "made"
    BY <1>1 DEF MadeFits
  <2>2. \A i \in DOMAIN snaps : snaps[i].parent \in Cases
    BY <1>1, ParentIsCase
  <2>3. QED BY <1>1, <1>4, <2>1, <2>2
<1>7. job[c].toResolve = {}
  BY <1>1 DEF MadeFits, AllIn
<1>8. MadeFits(c)'
  <2>1. CASE job'[c].task[t].stage = "made"
    <3>1. job'[c].made = job[c].made \cup {id}
      BY <1>2, <2>1
    <3>2. \A i \in job'[c].made : /\ i \in DOMAIN snaps'
                                  /\ job'[c].task[snaps'[i].parent].stage = "made"
                                  /\ job'[c].task[snaps'[i].parent].content = snaps'[i].content
      BY <1>1, <1>2, <1>3, <1>4, <1>6, <2>1, <3>1 DEF MadeFits
    <3>3. \A i, k \in job'[c].made : snaps'[i].parent = snaps'[k].parent => i = k
      BY <1>1, <1>3, <1>4, <1>6, <3>1 DEF MadeFits
    <3>4. ASSUME NEW u \in Cases, job'[c].task[u].stage = "made"
          PROVE  \E i \in job'[c].made : snaps'[i].parent = u
      BY <1>1, <1>2, <1>3, <1>4, <1>6, <3>1, <3>4 DEF MadeFits
    <3>5. QED BY <1>2, <1>7, <3>2, <3>3, <3>4 DEF MadeFits
  <2>2. CASE job'[c].task[t].stage = "failed"
    <3>1. job'[c].made = job[c].made
      BY <1>2, <2>2
    <3>2. \A i \in job'[c].made : /\ i \in DOMAIN snaps'
                                  /\ job'[c].task[snaps'[i].parent].stage = "made"
                                  /\ job'[c].task[snaps'[i].parent].content = snaps'[i].content
      BY <1>1, <1>2, <1>4, <1>6, <3>1 DEF MadeFits
    <3>3. \A i, k \in job'[c].made : snaps'[i].parent = snaps'[k].parent => i = k
      BY <1>1, <1>4, <1>6, <3>1 DEF MadeFits
    <3>4. ASSUME NEW u \in Cases, job'[c].task[u].stage = "made"
          PROVE  \E i \in job'[c].made : snaps'[i].parent = u
      <4>1. u # t /\ job[c].task[u].stage = "made"
        BY <1>2, <2>2, <3>4
      <4>2. QED BY <1>1, <1>6, <3>1, <4>1 DEF MadeFits
    <3>5. QED BY <1>2, <1>7, <3>2, <3>3, <3>4 DEF MadeFits
  <2>3. QED BY <1>2, <2>1, <2>2
<1>9. ASSUME job[c].op = "lockWithAutoSnapshot", c \notin disturbed', Snapshotting(c)'
      PROVE  Captures(c, job[c].name)'
  <2>1. PICK p \in Plans : p = job[c].name
    BY <1>1, <1>9, JobKinds DEF Locks
  <2>2. /\ content' = content /\ members' = members /\ c \notin disturbed
        /\ plan'[p].sets = plan[p].sets /\ plan'[p].extra = plan[p].extra
    BY <1>9, Undisturbed
  <2>3. Captures(c, p)
    BY <1>1, <1>9, <2>1, <2>2 DEF CaptureInv, CaptureFits
  <2>4. \A u \in Cases : job'[c].task[u].stage # "out" <=> job[c].task[u].stage # "out"
    BY <1>1, <1>2
  <2>5. \A u \in Cases : job'[c].task[u].stage \in {"check", "create", "made"} =>
           job'[c].task[u].content = content[u]
    BY <1>1, <1>2, <2>3 DEF Captures
  <2>6. Captures(c, p)'
    BY <1>2, <2>2, <2>3, <2>4, <2>5 DEF Captures
  <2>7. QED BY <1>2, <2>1, <2>6
<1>10. CaptureFits(c)'
  BY <1>2, <1>8, <1>9 DEF CaptureFits
<1>11. QED BY <1>5, <1>10

(* Every step keeps what the calls have in hand. *)
LEMMA CaptureStep == CaptureInv /\ [Next]_vars => CaptureInv'
<1> SUFFICES ASSUME CaptureInv, [Next]_vars PROVE CaptureInv'
  OBVIOUS
<1>1. TypeOK' /\ job \in [Clients -> Jobs]
  BY TypeStep DEF CaptureInv, TypeOK
<1>2. CASE UNCHANGED vars
  <2>1. ASSUME NEW c \in Clients PROVE CaptureFits(c)'
    <3>1. CaptureFits(c)
      BY DEF CaptureInv
    <3>2. QED BY <1>2, <3>1 DEF vars, CaptureFits, Snapshotting, MadeFits, Captures, AllIn
  <2>2. QED BY <1>1, <2>1 DEF CaptureInv
<1>3. ASSUME Step, Observe PROVE \A d \in Clients : CaptureFits(d)'
  <2>1. CASE (\E p \in Plans : OnPlan(p)) \/ (\E t \in Cases : updateTestCase(t))
    <3>1. snaps' = snaps /\ job' = job
      BY <2>1 DEF OnPlan, create, delete, lock, unlock, close, SetState, updateTestCase
    <3>2. QED BY <1>3, <3>1, CaptureKept
  <2>2. ASSUME NEW c \in Clients, snaps' = snaps, job' = [job EXCEPT ![c] = job'[c]], CaptureFits(c)'
        PROVE  \A d \in Clients : CaptureFits(d)'
    <3>1. ASSUME NEW d \in Clients, d # c PROVE CaptureFits(d)'
      <4>1. job'[d] = job[d]
        BY <1>1, <2>2, <3>1
      <4>2. QED BY <1>3, <2>2, <4>1, CaptureKept
    <3>2. QED BY <2>2, <3>1
  <2>3. ASSUME NEW c \in Clients, Call(c) PROVE \A d \in Clients : CaptureFits(d)'
    <3>1. CaptureFits(c)'
      BY <1>3, <2>3, CaptureStarts
    <3>2. snaps' = snaps /\ job' = [job EXCEPT ![c] = job'[c]]
      BY <1>1, <2>3 DEF Call, update, addTestCases, removeTestCases, WriteSet,
                        lockWithAutoSnapshot, createSnapshot
    <3>3. QED BY <2>2, <3>1, <3>2
  <2>4. ASSUME NEW c \in Clients,
               updateWorkItem(c) \/ updateTestSet(c) \/ lockPlan(c) \/ finished(c) \/ abandon(c)
        PROVE  \A d \in Clients : CaptureFits(d)'
    <3>1. snaps' = snaps /\ job' = [job EXCEPT ![c] = Idle]
      BY <2>4 DEF updateWorkItem, updateTestSet, lockPlan, finished, abandon
    <3>2. CaptureFits(c)' /\ job' = [job EXCEPT ![c] = job'[c]]
      BY <1>1, <3>1 DEF CaptureFits, Snapshotting, Idle
    <3>3. QED BY <2>2, <3>1, <3>2
  <2>5. ASSUME NEW c \in Clients,
               \/ \E s \in Sets : resolveTestCaseIds(c, s)
               \/ \E t \in Cases : fetchTestCase(c, t) \/ listSnapshots(c, t) \/ createRefused(c, t)
        PROVE  \A d \in Clients : CaptureFits(d)'
    <3>1. CaptureFits(c)'
      BY <1>3, <2>5, CaptureResolves, CaptureTaskSteps
    <3>2. snaps' = snaps
      BY <2>5 DEF resolveTestCaseIds, fetchTestCase, listSnapshots, createRefused
    <3>3. job' = [job EXCEPT ![c] = job'[c]]
      BY <1>1, <2>5 DEF resolveTestCaseIds, fetchTestCase, listSnapshots, createRefused
    <3>4. QED BY <2>2, <3>1, <3>2, <3>3
  <2>6. QED BY <1>3, <2>1, <2>3, <2>4, <2>5, CaptureCreates, StepCases
<1>4. QED BY <1>1, <1>2, <1>3 DEF Next, CaptureInv

(* In the beginning no call is under way. *)
LEMMA CaptureInit == Init => CaptureInv
<1> SUFFICES ASSUME Init PROVE CaptureInv
  OBVIOUS
<1>1. \A c \in Clients : ~Snapshotting(c)
  BY DEF Init, Snapshotting, Idle
<1>2. QED BY <1>1, TypeInit DEF CaptureInv, CaptureFits

(* LockCapturesThePlan, for any number of plans, sets, cases and clients, and
   whether or not calls take turns: a lock during which nobody edits records
   exactly one snapshot of each case of the plan, as the case is at that moment. *)
THEOREM LockIsComplete == Spec => LockCapturesThePlan
<1>1. ASSUME CaptureInv, NEW c \in Clients, lockPlan(c), c \notin disturbed, Exists(job[c].name)
      PROVE  LET p == job[c].name
                 baseline == plan'[p].locked
             IN  /\ {snaps[i].parent : i \in baseline} = Composition(p)
                 /\ \A i, j \in baseline : snaps[i].parent = snaps[j].parent => i = j
                 /\ \A i \in baseline : CapturedNow(i)
  <2>1. PICK p \in Plans : p = job[c].name
    BY <1>1, JobKinds DEF lockPlan, CaptureInv, Locks
  <2>2. /\ MadeFits(c) /\ Captures(c, p) /\ job[c].toResolve = {} /\ EveryMade(c)
        /\ plan \in [Plans -> PlanItems] /\ members \in [Sets -> SUBSET Cases]
        /\ snaps \in Seq(Snapshots)
    BY <1>1, <2>1 DEF lockPlan, Snapshotting, CaptureInv, CaptureFits, TypeOK
  <2>3. plan'[p].locked = job[c].made
    <3>1. plan'[p] = LockedItem(c, p)
      BY <1>1, <2>1, <2>2 DEF lockPlan
    <3>2. QED BY <2>2, <3>1 DEF LockedItem, PlanItems
  <2>4. plan[p].extra \subseteq Cases /\ plan[p].sets \subseteq Sets
    BY <2>2 DEF PlanItems
  <2>5. \A t \in Composition(p) : t \in Cases
    BY <2>2, <2>4 DEF Composition
  <2>6. \A t \in Cases : job[c].task[t].stage = "made" <=> t \in Composition(p)
    BY <2>2 DEF EveryMade, AllIn, Captures, Composition
  <2>7. \A i \in job[c].made : snaps[i].parent \in Cases
    BY <1>1, <2>2, ParentIsCase DEF MadeFits, CaptureInv
  <2>8. {snaps[i].parent : i \in job[c].made} = Composition(p)
    <3>1. ASSUME NEW i \in job[c].made PROVE snaps[i].parent \in Composition(p)
      BY <2>2, <2>6, <2>7 DEF MadeFits
    <3>2. ASSUME NEW t \in Composition(p) PROVE \E i \in job[c].made : snaps[i].parent = t
      BY <2>2, <2>5, <2>6 DEF MadeFits
    <3>3. QED BY <3>1, <3>2
  <2>9. \A i \in job[c].made : CapturedNow(i)
    BY <2>2, <2>7 DEF MadeFits, Captures, CapturedNow
  <2>10. \A i, j \in job[c].made : snaps[i].parent = snaps[j].parent => i = j
    BY <2>2 DEF MadeFits
  <2>11. QED BY <2>1, <2>3, <2>8, <2>9, <2>10
<1>2. CaptureInv /\ [Next]_vars =>
        [\A c \in Clients :
          (lockPlan(c) /\ c \notin disturbed /\ Exists(job[c].name)) =>
              LET p == job[c].name
                  baseline == plan'[p].locked
              IN /\ {snaps[i].parent : i \in baseline} = Composition(p)
                 /\ \A i, j \in baseline : snaps[i].parent = snaps[j].parent => i = j
                 /\ \A i \in baseline : CapturedNow(i)]_vars
  BY <1>1
<1>3. QED BY <1>2, CaptureInit, CaptureStep, PTL DEF Spec, LockCapturesThePlan

=============================================================================
