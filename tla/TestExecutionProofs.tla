------------------------- MODULE TestExecutionProofs -------------------------
(***************************************************************************)
(* Theorems about TestExecution for every set of runs, clients and         *)
(* arguments.  First the properties of every interleaving, then those that *)
(* hold when each run has one writer, ending with the refinement of the    *)
(* promised lifecycle.                                                     *)
(***************************************************************************)
EXTENDS TestExecution, TLAPS

-----------------------------------------------------------------------------
(* Type correctness *)

(* The status rule yields a global status of the schema. *)
LEMMA ComputedStatus ==
    ASSUME NEW results
    PROVE  computeGlobalStatus(results) \in GlobalStatuses
BY DEF computeGlobalStatus, GlobalStatuses, StepStatuses

(* A patch computed from a well-formed call leaves a well-formed work item,
   and touches no field but those its operation names. *)
LEMMA PatchedFields ==
    ASSUME NEW item \in Items, NEW w \in Calls
    PROVE  /\ Patched(item, w) \in Items
           /\ w.op \in {"saveStepResult", "attachEvidence", "linkBug"} =>
                 /\ Patched(item, w).state = item.state
                 /\ Patched(item, w).globalStatus = item.globalStatus
                 /\ Patched(item, w).overridden = item.overridden
           /\ w.op = "linkBug" =>
                 /\ Patched(item, w).stepResults = item.stepResults
                 /\ Patched(item, w).evidence = item.evidence
           /\ w.op # "linkBug" => Patched(item, w).bugLinks = item.bugLinks
           /\ w.op = "finalizeRun" => Patched(item, w).state = "Completed"
           /\ w.op = "abortRun" => Patched(item, w).state = "Aborted"
<1> USE DEF Items, L!Items, L!ItemStates, L!GlobalStatuses, L!StepStatuses,
            GlobalStatuses, StepStatuses
<1>1. CASE w.op = "saveStepResult"
  <2>1. w.arg \in StepStatuses /\ w.raw.stepResults \in Seq(StepStatuses)
    BY <1>1, RunArgumentAssumption DEF Calls, RunArgumentAssumption
  <2>2. Append(w.raw.stepResults, w.arg) \in Seq(StepStatuses)
    BY <2>1
  <2>3. Patched(item, w) = StepResultPatch(item, w)
    BY <1>1 DEF Patched
  <2>. QED BY <1>1, <2>2, <2>3 DEF StepResultPatch
<1>2. CASE w.op = "attachEvidence"
  <2>1. w.arg \in EvidenceRefs /\ w.raw.evidence \in Seq(EvidenceRefs)
    BY <1>2 DEF Calls
  <2>2. Append(w.raw.evidence, w.arg) \in Seq(EvidenceRefs)
    BY <2>1
  <2>3. Patched(item, w) = EvidencePatch(item, w)
    BY <1>2 DEF Patched
  <2>. QED BY <1>2, <2>2, <2>3 DEF EvidencePatch
<1>3. CASE w.op = "finalizeRun"
  <2>1. w.arg \in GlobalStatuses \cup {NoOverride}
    BY <1>3, RunArgumentAssumption DEF Calls, RunArgumentAssumption
  <2>2. (IF w.arg = NoOverride THEN computeGlobalStatus(w.raw.stepResults)
         ELSE w.arg) \in GlobalStatuses
    BY <2>1, ComputedStatus
  <2>3. Patched(item, w) = FinalizePatch(item, w)
    BY <1>3 DEF Patched
  <2>. QED BY <1>3, <2>2, <2>3 DEF FinalizePatch
<1>4. CASE w.op = "abortRun"
  <2>1. Patched(item, w) = AbortPatch(item, w)
    BY <1>4 DEF Patched
  <2>. QED BY <1>4, <2>1 DEF AbortPatch
<1>5. CASE w.op = "linkBug"
  <2>1. w.arg \in Bugs /\ w.raw.bugLinks \in Seq(Bugs)
    BY <1>5 DEF Calls
  <2>2. Append(w.raw.bugLinks, w.arg) \in Seq(Bugs)
    BY <2>1
  <2>3. Patched(item, w) = BugLinkPatch(item, w)
    BY <1>5 DEF Patched
  <2>. QED BY <1>5, <2>2, <2>3 DEF BugLinkPatch
<1>. QED BY <1>1, <1>2, <1>3, <1>4, <1>5 DEF Calls

(* Client c has read a run, passed the guard of an operation and prepared w. *)
Fetch(c, w) ==
    /\ w.raw = store[w.id]
    /\ store[w.id].state # "Absent"
    /\ w.op = "linkBug" => isCompleted(w.raw)
    /\ w.op # "linkBug" => ~isTerminal(w.raw)
    /\ call[c] = Idle
    /\ call' = [call EXCEPT ![c] = w]
    /\ UNCHANGED << store, late, acked >>

(* One fact about the next-state relation that every later proof uses: a step
   creates a run, fetches one, applies an update to one, or changes no run. *)
LEMMA StepCases ==
    ASSUME TypeOK, [Next]_vars
    PROVE  \/ \E c \in Clients, e \in Runs : startRun(c, e)
           \/ \E c \in Clients, w \in Calls : Fetch(c, w)
           \/ \E c \in Clients : updateWorkItem(c)
           \/ \E c \in Clients : answerLost(c)
           \/ \E c \in Clients : requestLost(c)
           \/ \E c \in Clients : requestDelayed(c)
           \/ \E c \in Clients : lateUpdate(c)
           \/ UNCHANGED vars
<1> USE DEF Fetched, Fetch, TypeOK
<1>1. ASSUME NEW c \in Clients, NEW e \in Runs, NEW r \in StepArgs, saveStepResult(c, e, r)
      PROVE  \E w \in Calls : Fetch(c, w)
  <2>1. [op |-> "saveStepResult", id |-> e, arg |-> r, raw |-> store[e]] \in Calls
    BY DEF Calls
  <2>. QED BY <1>1, <2>1 DEF saveStepResult
<1>2. ASSUME NEW c \in Clients, NEW e \in Runs, NEW x \in EvidenceRefs, attachEvidence(c, e, x)
      PROVE  \E w \in Calls : Fetch(c, w)
  <2>1. [op |-> "attachEvidence", id |-> e, arg |-> x, raw |-> store[e]] \in Calls
    BY DEF Calls
  <2>. QED BY <1>2, <2>1 DEF attachEvidence
<1>3. ASSUME NEW c \in Clients, NEW e \in Runs,
             NEW o \in OverrideArgs \cup {NoOverride}, finalizeRun(c, e, o)
      PROVE  \E w \in Calls : Fetch(c, w)
  <2>1. [op |-> "finalizeRun", id |-> e, arg |-> o, raw |-> store[e]] \in Calls
    BY DEF Calls
  <2>. QED BY <1>3, <2>1 DEF finalizeRun
<1>4. ASSUME NEW c \in Clients, NEW e \in Runs, abortRun(c, e)
      PROVE  \E w \in Calls : Fetch(c, w)
  <2>1. [op |-> "abortRun", id |-> e, arg |-> "none", raw |-> store[e]] \in Calls
    BY DEF Calls
  <2>. QED BY <1>4, <2>1 DEF abortRun
<1>5. ASSUME NEW c \in Clients, NEW e \in Runs, NEW b \in Bugs, linkBug(c, e, b)
      PROVE  \E w \in Calls : Fetch(c, w)
  <2>1. [op |-> "linkBug", id |-> e, arg |-> b, raw |-> store[e]] \in Calls
    BY DEF Calls
  <2>. QED BY <1>5, <2>1 DEF linkBug
<1>. QED BY <1>1, <1>2, <1>3, <1>4, <1>5 DEF Next, Request, Outcome

(* The update that client c sends, or that arrives late for c. *)
LEMMA ApplyType ==
    ASSUME TypeOK, NEW w \in Calls, Apply(w)
    PROVE  /\ store' \in [Runs -> Items]
           /\ w.id \in Runs
           /\ store'[w.id] = Patched(store[w.id], w)
           /\ \A e \in Runs : e # w.id => store'[e] = store[e]
<1>1. w.id \in Runs
  BY DEF Calls
<1>2. Patched(store[w.id], w) \in Items
  BY <1>1, PatchedFields DEF TypeOK
<1>. QED BY <1>1, <1>2 DEF Apply, TypeOK

(* Every step keeps the types. *)
LEMMA TypeStep == TypeOK /\ [Next]_vars => TypeOK'
<1> SUFFICES ASSUME TypeOK, [Next]_vars PROVE TypeOK'
  OBVIOUS
<1>1. CASE \E c \in Clients, e \in Runs : startRun(c, e)
  <2>1. L!EmptyItem("InProgress") \in Items
    BY DEF Items, L!Items, L!EmptyItem, L!ItemStates, L!GlobalStatuses, L!StepStatuses
  <2>. QED BY <1>1, <2>1 DEF startRun, TypeOK
<1>2. CASE \E c \in Clients, w \in Calls : Fetch(c, w)
  BY <1>2 DEF Fetch, TypeOK
<1>3. ASSUME NEW c \in Clients, updateWorkItem(c) PROVE TypeOK'
  <2>1. call[c] \in Calls
    BY <1>3 DEF updateWorkItem, TypeOK
  <2>2. store' \in [Runs -> Items] /\ call[c].id \in Runs
    BY <1>3, <2>1, ApplyType DEF updateWorkItem
  <2>3. Appends(call[c]) => << call[c].op, call[c].arg >> \in Confirmations
    BY <2>1 DEF Calls, Appends, Confirmations
  <2>4. acked' \in [Runs -> SUBSET Confirmations]
    BY <1>3, <2>2, <2>3 DEF updateWorkItem, TypeOK
  <2>. QED BY <1>3, <2>2, <2>4 DEF updateWorkItem, TypeOK
<1>4. ASSUME NEW c \in Clients, answerLost(c) PROVE TypeOK'
  <2>1. call[c] \in Calls
    BY <1>4 DEF answerLost, TypeOK
  <2>2. store' \in [Runs -> Items]
    BY <1>4, <2>1, ApplyType DEF answerLost
  <2>. QED BY <1>4, <2>2 DEF answerLost, TypeOK
<1>5. ASSUME NEW c \in Clients, requestLost(c) PROVE TypeOK'
  BY <1>5 DEF requestLost, TypeOK
<1>6. ASSUME NEW c \in Clients, requestDelayed(c) PROVE TypeOK'
  BY <1>6 DEF requestDelayed, TypeOK
<1>7. ASSUME NEW c \in Clients, lateUpdate(c) PROVE TypeOK'
  <2>1. late[c] \in Calls
    BY <1>7 DEF lateUpdate, TypeOK
  <2>2. store' \in [Runs -> Items]
    BY <1>7, <2>1, ApplyType DEF lateUpdate
  <2>. QED BY <1>7, <2>2 DEF lateUpdate, TypeOK
<1>8. CASE UNCHANGED vars
  BY <1>8 DEF vars, TypeOK
<1>. QED BY <1>1, <1>2, <1>3, <1>4, <1>5, <1>6, <1>7, <1>8, StepCases

(* The empty store and the idle callers are well typed. *)
LEMMA TypeInit == Init => TypeOK
<1>1. Absent \in Items
  BY DEF Absent, Items, L!Absent, L!Items, L!EmptyItem, L!ItemStates,
         L!GlobalStatuses, L!StepStatuses
<1>. QED BY <1>1 DEF Init, TypeOK

(* The store, the pending updates and the confirmations keep their types in
   every behaviour of the service. *)
THEOREM TypeCorrect == Spec => []TypeOK
BY TypeInit, TypeStep, PTL DEF Spec

-----------------------------------------------------------------------------
(* The inductive invariant of every interleaving: a linkBug update that has
   been prepared is about a run that has already ended. It is what keeps a
   stale linkBug from putting bugs on a run that is still InProgress. *)

LinksAnEndedRun(w) ==
    w # Idle => /\ store[w.id].state # "Absent"
                /\ w.op = "linkBug" => isTerminal(store[w.id])

PreparedUpdates ==
    \A c \in Clients : LinksAnEndedRun(call[c]) /\ LinksAnEndedRun(late[c])

IInv == TypeOK /\ PreparedUpdates /\ InProgressShowsNoResult

(* At the start no run exists and no update is prepared. *)
LEMMA IInvInit == Init => IInv
<1>1. \A e \in Runs : Init => store[e].state = "Absent"
  BY DEF Init, Absent, L!Absent, L!EmptyItem
<1>. QED BY <1>1, TypeInit DEF Init, IInv, PreparedUpdates, LinksAnEndedRun,
                              InProgressShowsNoResult

(* Applying an update prepared under the invariant keeps ended runs ended and
   lets no result show on a run in progress. *)
LEMMA ApplyKeeps ==
    ASSUME IInv, NEW w \in Calls, LinksAnEndedRun(w), Apply(w)
    PROVE  /\ \A e \in Runs : Terminal(e) => Terminal(e)'
           /\ \A e \in Runs : store[e].state # "Absent" => store'[e].state # "Absent"
           /\ InProgressShowsNoResult'
<1> USE DEF isTerminal, Terminal
<1>1. /\ w.id \in Runs /\ store'[w.id] = Patched(store[w.id], w)
      /\ \A e \in Runs : e # w.id => store'[e] = store[e]
  BY ApplyType DEF IInv
<1>2. store[w.id] \in Items
  BY <1>1 DEF IInv, TypeOK
<1>3. w # Idle
  BY DEF Calls, Idle
<1>4. w.op \in {"saveStepResult", "attachEvidence", "finalizeRun", "abortRun", "linkBug"}
  BY DEF Calls
<1>5. Terminal(w.id) => Terminal(w.id)'
  BY <1>1, <1>2, <1>4, PatchedFields
<1>6. store[w.id].state # "Absent" => store'[w.id].state # "Absent"
  BY <1>1, <1>2, <1>4, PatchedFields
<1>7. store'[w.id].state = "InProgress" =>
        /\ store'[w.id].globalStatus = "Unexecuted"
        /\ ~store'[w.id].overridden
        /\ store'[w.id].bugLinks = << >>
  BY <1>1, <1>2, <1>3, <1>4, PatchedFields
     DEF IInv, InProgressShowsNoResult, LinksAnEndedRun
<1>. QED BY <1>1, <1>5, <1>6, <1>7 DEF IInv, InProgressShowsNoResult

(* An update prepared before a step is still about an ended run after it. *)
LEMMA StillPrepared ==
    ASSUME NEW w \in Calls \cup {Idle}, LinksAnEndedRun(w), TypeOK,
           \A e \in Runs : Terminal(e) => Terminal(e)',
           \A e \in Runs : store[e].state # "Absent" => store'[e].state # "Absent"
    PROVE  w # Idle => /\ store'[w.id].state # "Absent"
                       /\ w.op = "linkBug" => isTerminal(store'[w.id])
BY DEF Calls, LinksAnEndedRun, Terminal, isTerminal

(* Every step keeps the strengthened invariant, and a run that has ended stays
   ended. *)
LEMMA IInvStep == IInv /\ [Next]_vars => IInv' /\ \A e \in Runs : Terminal(e) => Terminal(e)'
<1> SUFFICES ASSUME IInv, [Next]_vars
             PROVE  IInv' /\ \A e \in Runs : Terminal(e) => Terminal(e)'
  OBVIOUS
<1> DEFINE Ended == \A e \in Runs : Terminal(e) => Terminal(e)'
           Exists == \A e \in Runs : store[e].state # "Absent" => store'[e].state # "Absent"
<1>1. TypeOK /\ TypeOK'
  BY TypeStep DEF IInv
<1>2. CASE \E c \in Clients, e \in Runs : startRun(c, e)
  <2>1. PICK c \in Clients, e \in Runs : startRun(c, e)
    BY <1>2
  <2>2. /\ store'[e] = L!EmptyItem("InProgress")
        /\ \A f \in Runs : f # e => store'[f] = store[f]
    BY <2>1, <1>1 DEF startRun, TypeOK
  <2>3. Ended /\ Exists /\ InProgressShowsNoResult'
    BY <2>1, <2>2 DEF startRun, Terminal, isTerminal, L!EmptyItem, IInv,
                      InProgressShowsNoResult
  <2>4. PreparedUpdates'
    BY <1>1, <2>1, <2>3, StillPrepared
       DEF startRun, IInv, PreparedUpdates, LinksAnEndedRun, TypeOK
  <2>. QED BY <1>1, <2>3, <2>4 DEF IInv
<1>3. CASE \E c \in Clients, w \in Calls : Fetch(c, w)
  <2>1. PICK c \in Clients, w \in Calls : Fetch(c, w)
    BY <1>3
  <2>2. Ended /\ Exists /\ InProgressShowsNoResult'
    BY <2>1 DEF Fetch, Terminal, IInv, InProgressShowsNoResult
  <2>3. LinksAnEndedRun(w)'
    BY <2>1 DEF Fetch, LinksAnEndedRun, isCompleted, isTerminal
  <2>4. PreparedUpdates'
    BY <1>1, <2>1, <2>3 DEF Fetch, IInv, PreparedUpdates, LinksAnEndedRun, TypeOK
  <2>. QED BY <1>1, <2>2, <2>4 DEF IInv
<1>4. ASSUME NEW c \in Clients, updateWorkItem(c) \/ answerLost(c)
      PROVE  IInv' /\ Ended
  <2>1. /\ call[c] \in Calls /\ LinksAnEndedRun(call[c]) /\ Apply(call[c])
        /\ call' = [call EXCEPT ![c] = Idle] /\ late' = late
    BY <1>1, <1>4 DEF updateWorkItem, answerLost, TypeOK, IInv, PreparedUpdates
  <2>2. Ended /\ Exists /\ InProgressShowsNoResult'
    BY <2>1, ApplyKeeps
  <2>3. PreparedUpdates'
    BY <1>1, <2>1, <2>2, StillPrepared DEF IInv, PreparedUpdates, LinksAnEndedRun, TypeOK
  <2>. QED BY <1>1, <2>2, <2>3 DEF IInv
<1>5. ASSUME NEW c \in Clients, requestLost(c) \/ requestDelayed(c)
      PROVE  IInv' /\ Ended
  <2>1. Ended /\ Exists /\ InProgressShowsNoResult'
    BY <1>5 DEF requestLost, requestDelayed, Terminal, IInv, InProgressShowsNoResult
  <2>2. PreparedUpdates'
    BY <1>1, <1>5 DEF requestLost, requestDelayed, IInv, PreparedUpdates,
                      LinksAnEndedRun, TypeOK
  <2>. QED BY <1>1, <2>1, <2>2 DEF IInv
<1>6. ASSUME NEW c \in Clients, lateUpdate(c)
      PROVE  IInv' /\ Ended
  <2>1. /\ late[c] \in Calls /\ LinksAnEndedRun(late[c]) /\ Apply(late[c])
        /\ late' = [late EXCEPT ![c] = Idle] /\ call' = call
    BY <1>1, <1>6 DEF lateUpdate, TypeOK, IInv, PreparedUpdates
  <2>2. Ended /\ Exists /\ InProgressShowsNoResult'
    BY <2>1, ApplyKeeps
  <2>3. PreparedUpdates'
    BY <1>1, <2>1, <2>2, StillPrepared DEF IInv, PreparedUpdates, LinksAnEndedRun, TypeOK
  <2>. QED BY <1>1, <2>2, <2>3 DEF IInv
<1>7. CASE UNCHANGED vars
  BY <1>1, <1>7 DEF vars, IInv, PreparedUpdates, LinksAnEndedRun,
                    InProgressShowsNoResult, Terminal
<1>. QED BY <1>1, <1>2, <1>3, <1>4, <1>5, <1>6, <1>7, StepCases

(* A run in progress shows no verdict, no override and no bugs, however the
   calls of any number of clients interleave and however late updates land. *)
THEOREM NoResultInProgress == Spec => []InProgressShowsNoResult
<1>1. IInv => InProgressShowsNoResult
  BY DEF IInv
<1>. QED BY <1>1, IInvInit, IInvStep, PTL DEF Spec

(* A run that has ended stays ended. *)
THEOREM EndedForever == Spec => TerminalForever
BY IInvInit, IInvStep, PTL DEF Spec, TerminalForever

(* Once the run has ended and the updates that were under way have landed,
   verdict, steps and evidence are frozen for good. *)
LEMMA SettledStep ==
    ASSUME IInv, [Next]_vars, NEW e \in Runs, Settled(e)
    PROVE  Settled(e)' /\ FrozenFields(store'[e]) = FrozenFields(store[e])
<1> DEFINE Quiet == \A c \in Clients : ~MayChangeFrozen(call'[c], e)
                                      /\ ~MayChangeFrozen(late'[c], e)
           Same == FrozenFields(store'[e]) = FrozenFields(store[e])
<1>1. TypeOK /\ Terminal(e) /\ Terminal(e)'
  BY IInvStep DEF Settled, IInv
<1>2. ASSUME NEW w \in Calls, ~MayChangeFrozen(w, e), Apply(w)
      PROVE  Same
  <2>1. CASE w.id # e
    BY <1>1, <1>2, <2>1, ApplyType
  <2>2. CASE w.id = e
    <3>1. w # Idle /\ w.op = "linkBug"
      BY <1>2, <2>2 DEF MayChangeFrozen, Calls, Idle
    <3>2. store[e] \in Items /\ store'[e] = Patched(store[e], w)
      BY <1>1, <1>2, <2>2, ApplyType DEF TypeOK
    <3>. QED BY <3>1, <3>2, PatchedFields DEF FrozenFields
  <2>. QED BY <2>1, <2>2
<1>3. CASE \E c \in Clients, f \in Runs : startRun(c, f)
  BY <1>1, <1>3 DEF startRun, Settled, Terminal, isTerminal, TypeOK
<1>4. CASE \E c \in Clients, w \in Calls : Fetch(c, w)
  BY <1>1, <1>4 DEF Fetch, Settled, Terminal, isTerminal, MayChangeFrozen, TypeOK
<1>5. ASSUME NEW c \in Clients, updateWorkItem(c) \/ answerLost(c)
      PROVE  Quiet /\ Same
  <2>1. /\ call[c] \in Calls /\ Apply(call[c]) /\ ~MayChangeFrozen(call[c], e)
        /\ call' = [call EXCEPT ![c] = Idle] /\ late' = late
    BY <1>1, <1>5 DEF updateWorkItem, answerLost, TypeOK, Settled
  <2>2. Same
    BY <1>2, <2>1
  <2>3. Quiet
    BY <1>1, <2>1 DEF Settled, MayChangeFrozen, TypeOK
  <2>. QED BY <2>2, <2>3
<1>6. ASSUME NEW c \in Clients, requestLost(c) \/ requestDelayed(c)
      PROVE  Quiet /\ Same
  BY <1>1, <1>6 DEF requestLost, requestDelayed, Settled, MayChangeFrozen, TypeOK
<1>7. ASSUME NEW c \in Clients, lateUpdate(c)
      PROVE  Quiet /\ Same
  <2>1. /\ late[c] \in Calls /\ Apply(late[c]) /\ ~MayChangeFrozen(late[c], e)
        /\ late' = [late EXCEPT ![c] = Idle] /\ call' = call
    BY <1>1, <1>7 DEF lateUpdate, TypeOK, Settled
  <2>2. Same
    BY <1>2, <2>1
  <2>3. Quiet
    BY <1>1, <2>1 DEF Settled, MayChangeFrozen, TypeOK
  <2>. QED BY <2>2, <2>3
<1>8. CASE UNCHANGED vars
  BY <1>8 DEF vars, Settled, Terminal, MayChangeFrozen
<1>. QED BY <1>1, <1>3, <1>4, <1>5, <1>6, <1>7, <1>8, StepCases DEF Settled

(* The freeze the service can promise without revision checks. *)
THEOREM FrozenWhenSettled == Spec => SettledIsFrozen
<1>1. IInv /\ [Next]_vars =>
        [\A e \in Runs : Settled(e) =>
           Settled(e)' /\ FrozenFields(store'[e]) = FrozenFields(store[e])]_vars
  BY SettledStep
<1>. QED BY <1>1, IInvInit, IInvStep, PTL DEF Spec, SettledIsFrozen

-----------------------------------------------------------------------------
(* One writer per run.  What a client read is then still what the store
   holds when its update arrives, which makes the guards effective. *)

Fresh(w) ==
    w # Idle =>
        /\ w.raw = store[w.id]
        /\ w.op = "linkBug" => store[w.id].state = "Completed"
        /\ w.op # "linkBug" => store[w.id].state = "InProgress"

ReadsAreFresh == \A c \in Clients : Fresh(call[c])

(* Nothing is confirmed about a run that does not exist yet. *)
StartedBeforeConfirmed ==
    \A e \in Runs : acked[e] # {} => store[e].state # "Absent"

SInv == /\ TypeOK
        /\ OneWriter
        /\ ReadsAreFresh
        /\ InProgressShowsNoResult
        /\ VerdictIsAuditable
        /\ AbortedHasNoResult
        /\ AcknowledgedIsKept
        /\ StartedBeforeConfirmed

SNext == Next /\ OneWriter'

(* At the start nothing is confirmed and no update is prepared. *)
LEMMA SInvInit == Init => SInv
<1> SUFFICES ASSUME Init PROVE SInv
  OBVIOUS
<1>1. \A e \in Runs : store[e].state = "Absent" /\ acked[e] = {}
  BY DEF Init, Absent, L!Absent, L!EmptyItem
<1>2. \A c \in Clients : call[c] = Idle /\ late[c] = Idle
  BY DEF Init
<1>. QED BY <1>1, <1>2, TypeInit
         DEF SInv, OneWriter, ReadsAreFresh, Fresh, InProgressShowsNoResult,
             VerdictIsAuditable, AbortedHasNoResult, AcknowledgedIsKept,
             StartedBeforeConfirmed

(* With a fresh read, the patch of each operation is the atomic operation of
   the lifecycle on the stored run. *)
LEMMA FreshPatchIsAtomic ==
    ASSUME TypeOK, NEW w \in Calls, Fresh(w), Apply(w)
    PROVE  L!LNext
<1> USE DEF L!Become, Apply, Fresh
<1>1. w # Idle /\ w.id \in Runs
  BY DEF Calls, Idle
<1>2. CASE w.op = "saveStepResult"
  <2>1. w.arg \in L!StepStatuses
    BY <1>2, RunArgumentAssumption DEF Calls, RunArgumentAssumption, StepStatuses, L!StepStatuses,
      GlobalStatuses, L!GlobalStatuses
  <2>2. Patched(store[w.id], w) = StepResultPatch(store[w.id], w)
    BY <1>2 DEF Patched
  <2>3. L!RecordStep(w.id, w.arg)
    BY <1>1, <1>2, <2>2 DEF StepResultPatch, L!RecordStep
  <2>. QED BY <1>1, <2>1, <2>3 DEF L!LNext
<1>3. CASE w.op = "attachEvidence"
  <2>1. w.arg \in EvidenceRefs
    BY <1>3 DEF Calls
  <2>2. Patched(store[w.id], w) = EvidencePatch(store[w.id], w)
    BY <1>3 DEF Patched
  <2>3. L!RecordEvidence(w.id, w.arg)
    BY <1>1, <1>3, <2>2 DEF EvidencePatch, L!RecordEvidence
  <2>. QED BY <1>1, <2>1, <2>3 DEF L!LNext
<1>4. CASE w.op = "finalizeRun"
  <2>1. w.arg \in L!GlobalStatuses \cup {NoOverride}
    BY <1>4, RunArgumentAssumption
       DEF Calls, RunArgumentAssumption, GlobalStatuses, StepStatuses,
           L!GlobalStatuses, L!StepStatuses
  <2>2. Patched(store[w.id], w) = FinalizePatch(store[w.id], w)
    BY <1>4 DEF Patched
  <2>3. computeGlobalStatus(store[w.id].stepResults)
          = L!computeGlobalStatus(store[w.id].stepResults)
    BY DEF computeGlobalStatus, SomeStep, EveryStep,
           L!computeGlobalStatus, L!SomeStep, L!EveryStep
  <2>4. L!Complete(w.id, w.arg)
    BY <1>1, <1>4, <2>2, <2>3 DEF FinalizePatch, L!Complete
  <2>. QED BY <1>1, <2>1, <2>4 DEF L!LNext
<1>5. CASE w.op = "abortRun"
  <2>1. Patched(store[w.id], w) = AbortPatch(store[w.id], w)
    BY <1>5 DEF Patched
  <2>2. L!Abort(w.id)
    BY <1>1, <1>5, <2>1 DEF AbortPatch, L!Abort
  <2>. QED BY <1>1, <2>2 DEF L!LNext
<1>6. CASE w.op = "linkBug"
  <2>1. w.arg \in Bugs
    BY <1>6 DEF Calls
  <2>2. Patched(store[w.id], w) = BugLinkPatch(store[w.id], w)
    BY <1>6 DEF Patched
  <2>3. L!Link(w.id, w.arg)
    BY <1>1, <1>6, <2>2 DEF BugLinkPatch, L!Link
  <2>. QED BY <1>1, <2>1, <2>3 DEF L!LNext
<1>. QED BY <1>2, <1>3, <1>4, <1>5, <1>6 DEF Calls

(* What one atomic operation of the lifecycle does to the run invariants. *)
LEMMA AtomicKeeps ==
    ASSUME TypeOK, NEW w \in Calls, Fresh(w), Apply(w),
           VerdictIsAuditable, AbortedHasNoResult, InProgressShowsNoResult
    PROVE  VerdictIsAuditable' /\ AbortedHasNoResult' /\ InProgressShowsNoResult'
<1> USE DEF Fresh
<1>1. /\ w # Idle /\ w.id \in Runs /\ store[w.id] \in Items
      /\ store'[w.id] = Patched(store[w.id], w)
      /\ \A e \in Runs : e # w.id => store'[e] = store[e]
  BY ApplyType DEF TypeOK, Calls, Idle
<1> DEFINE Good(item) ==
             /\ item.state = "Completed" /\ ~item.overridden
                  => item.globalStatus = computeGlobalStatus(item.stepResults)
             /\ item.state = "Aborted"
                  => item.globalStatus = "Unexecuted" /\ ~item.overridden
             /\ item.state = "InProgress"
                  => /\ item.globalStatus = "Unexecuted" /\ ~item.overridden
                     /\ item.bugLinks = << >>
<1>2. Good(store[w.id])
  BY <1>1 DEF VerdictIsAuditable, AbortedHasNoResult, InProgressShowsNoResult
<1>3. Good(store'[w.id])
  <2>1. CASE w.op \in {"saveStepResult", "attachEvidence"}
    <3>1. w.op # "linkBug"
      BY <2>1
    <3>2. store[w.id].state = "InProgress"
      BY <1>1, <3>1
    <3>. QED BY <1>1, <1>2, <2>1, <3>2, PatchedFields
  <2>2. CASE w.op = "finalizeRun"
    <3>1. Patched(store[w.id], w) = FinalizePatch(store[w.id], w)
      BY <2>2 DEF Patched
    <3>2. /\ store'[w.id].state = "Completed"
          /\ store'[w.id].stepResults = store[w.id].stepResults
          /\ store'[w.id].globalStatus = IF w.arg = NoOverride
                                         THEN computeGlobalStatus(w.raw.stepResults)
                                         ELSE w.arg
      BY <1>1, <3>1 DEF FinalizePatch, Items, L!Items
    <3>3. ~store'[w.id].overridden => w.arg = NoOverride
      BY <1>1, <3>1 DEF FinalizePatch, Items, L!Items
    <3>4. w.raw = store[w.id]
      BY <1>1
    <3>. QED BY <3>2, <3>3, <3>4
  <2>3. CASE w.op = "abortRun"
    <3>1. Patched(store[w.id], w) = AbortPatch(store[w.id], w)
      BY <2>3 DEF Patched
    <3>. QED BY <1>1, <1>2, <2>3, <3>1 DEF AbortPatch, Items, L!Items
  <2>4. CASE w.op = "linkBug"
    <3>1. /\ store'[w.id].state = store[w.id].state
          /\ store'[w.id].globalStatus = store[w.id].globalStatus
          /\ store'[w.id].overridden = store[w.id].overridden
          /\ store'[w.id].stepResults = store[w.id].stepResults
      BY <1>1, <2>4, PatchedFields
    <3>2. store[w.id].state = "Completed"
      BY <1>1, <2>4
    <3>. QED BY <1>2, <3>1, <3>2
  <2>. QED BY <2>1, <2>2, <2>3, <2>4 DEF Calls
<1>. QED BY <1>1, <1>3 DEF VerdictIsAuditable, AbortedHasNoResult, InProgressShowsNoResult

(* Appending to what the store holds loses nothing it held, and lists the
   appended value. *)
LEMMA AppendKeeps ==
    ASSUME NEW S, NEW list \in Seq(S), NEW value \in S, NEW v
    PROVE  /\ Listed(list, v) => Listed(Append(list, value), v)
           /\ Listed(Append(list, value), value)
<1>1. /\ Append(list, value) \in Seq(S)
      /\ Len(Append(list, value)) = Len(list) + 1
      /\ \A i \in 1..Len(list) : Append(list, value)[i] = list[i]
      /\ Append(list, value)[Len(list) + 1] = value
  OBVIOUS
<1>2. /\ DOMAIN list = 1..Len(list)
      /\ DOMAIN Append(list, value) = 1..(Len(list) + 1)
  BY <1>1
<1>3. Len(list) \in Nat
  OBVIOUS
<1>4. Listed(list, v) => Listed(Append(list, value), v)
  BY <1>1, <1>2, <1>3 DEF Listed
<1>5. Len(list) + 1 \in DOMAIN Append(list, value)
  BY <1>2, <1>3
<1>6. Listed(Append(list, value), value)
  BY <1>1, <1>5 DEF Listed
<1>. QED BY <1>4, <1>6

(* A fresh update keeps every confirmed append and makes its own present. *)
LEMMA FreshKeepsConfirmed ==
    ASSUME TypeOK, NEW w \in Calls, Fresh(w), Apply(w), AcknowledgedIsKept
    PROVE  /\ \A e \in Runs : \A confirmed \in acked[e] : Holds(store'[e], confirmed)
           /\ Appends(w) => Holds(store'[w.id], << w.op, w.arg >>)
<1>1. /\ w # Idle /\ w.id \in Runs /\ store[w.id] \in Items
      /\ store'[w.id] = Patched(store[w.id], w)
      /\ \A e \in Runs : e # w.id => store'[e] = store[e]
      /\ w.raw = store[w.id]
  BY ApplyType DEF TypeOK, Calls, Idle, Fresh
<1>2. /\ store[w.id].stepResults \in Seq(StepStatuses)
      /\ store[w.id].evidence \in Seq(EvidenceRefs)
      /\ store[w.id].bugLinks \in Seq(Bugs)
  BY <1>1 DEF Items, L!Items, L!StepStatuses, StepStatuses, GlobalStatuses, L!GlobalStatuses
<1>3. ASSUME NEW v
      PROVE  /\ Listed(store[w.id].stepResults, v) => Listed(store'[w.id].stepResults, v)
             /\ Listed(store[w.id].evidence, v) => Listed(store'[w.id].evidence, v)
             /\ Listed(store[w.id].bugLinks, v) => Listed(store'[w.id].bugLinks, v)
             /\ w.op = "saveStepResult" => Listed(store'[w.id].stepResults, w.arg)
             /\ w.op = "attachEvidence" => Listed(store'[w.id].evidence, w.arg)
             /\ w.op = "linkBug" => Listed(store'[w.id].bugLinks, w.arg)
  <2>1. CASE w.op = "saveStepResult"
    <3>1. w.arg \in StepStatuses
      BY <2>1, RunArgumentAssumption DEF Calls, RunArgumentAssumption
    <3>2. Patched(store[w.id], w) = StepResultPatch(store[w.id], w)
      BY <2>1 DEF Patched
    <3>3. /\ store'[w.id].stepResults = Append(store[w.id].stepResults, w.arg)
          /\ store'[w.id].evidence = store[w.id].evidence
          /\ store'[w.id].bugLinks = store[w.id].bugLinks
      BY <1>1, <3>2 DEF StepResultPatch, Items, L!Items
    <3>. QED BY <1>2, <2>1, <3>1, <3>3, AppendKeeps
  <2>2. CASE w.op = "attachEvidence"
    <3>1. w.arg \in EvidenceRefs
      BY <2>2 DEF Calls
    <3>2. Patched(store[w.id], w) = EvidencePatch(store[w.id], w)
      BY <2>2 DEF Patched
    <3>3. /\ store'[w.id].evidence = Append(store[w.id].evidence, w.arg)
          /\ store'[w.id].stepResults = store[w.id].stepResults
          /\ store'[w.id].bugLinks = store[w.id].bugLinks
      BY <1>1, <3>2 DEF EvidencePatch, Items, L!Items
    <3>. QED BY <1>2, <2>2, <3>1, <3>3, AppendKeeps
  <2>3. CASE w.op = "finalizeRun"
    <3>1. Patched(store[w.id], w) = FinalizePatch(store[w.id], w)
      BY <2>3 DEF Patched
    <3>. QED BY <1>1, <2>3, <3>1 DEF FinalizePatch, Items, L!Items
  <2>4. CASE w.op = "abortRun"
    <3>1. Patched(store[w.id], w) = AbortPatch(store[w.id], w)
      BY <2>4 DEF Patched
    <3>. QED BY <1>1, <2>4, <3>1 DEF AbortPatch, Items, L!Items
  <2>5. CASE w.op = "linkBug"
    <3>1. w.arg \in Bugs
      BY <2>5 DEF Calls
    <3>2. Patched(store[w.id], w) = BugLinkPatch(store[w.id], w)
      BY <2>5 DEF Patched
    <3>3. /\ store'[w.id].bugLinks = Append(store[w.id].bugLinks, w.arg)
          /\ store'[w.id].stepResults = store[w.id].stepResults
          /\ store'[w.id].evidence = store[w.id].evidence
      BY <1>1, <3>2 DEF BugLinkPatch, Items, L!Items
    <3>. QED BY <1>2, <2>5, <3>1, <3>3, AppendKeeps
  <2>. QED BY <2>1, <2>2, <2>3, <2>4, <2>5 DEF Calls
<1>4. ASSUME NEW e \in Runs, NEW confirmed \in acked[e]
      PROVE  Holds(store'[e], confirmed)
  <2>1. Holds(store[e], confirmed)
    BY <1>4 DEF AcknowledgedIsKept
  <2>2. confirmed \in Confirmations
    BY <1>4 DEF TypeOK
  <2>3. confirmed[1] \in {"saveStepResult", "attachEvidence", "linkBug"}
    BY <2>2 DEF Confirmations
  <2>4. CASE e = w.id
    <3>1. CASE confirmed[1] = "saveStepResult"
      BY <1>3, <2>1, <2>4, <3>1, Zenon DEF Holds
    <3>2. CASE confirmed[1] = "attachEvidence"
      BY <1>3, <2>1, <2>4, <3>2, Zenon DEF Holds
    <3>3. CASE confirmed[1] = "linkBug"
      BY <1>3, <2>1, <2>4, <3>3, Zenon DEF Holds
    <3>. QED BY <2>3, <3>1, <3>2, <3>3
  <2>. QED BY <1>1, <2>1, <2>4
<1>5. Appends(w) => Holds(store'[w.id], << w.op, w.arg >>)
  BY <1>3 DEF Appends, Holds
<1>. QED BY <1>4, <1>5

(* One step under the one-writer discipline keeps the invariant and is a step
   of the lifecycle, or leaves every run as it is. *)
LEMMA SerialStep ==
    ASSUME SInv, [SNext]_vars
    PROVE  SInv' /\ [L!LNext]_store
<1> USE DEF SNext
<1>1. TypeOK /\ TypeOK' /\ [Next]_vars
  BY TypeStep DEF SInv, vars
<1>2. OneWriter /\ OneWriter'
  BY DEF SInv, OneWriter, vars
<1>3. \A c \in Clients : late[c] = Idle /\ late'[c] = Idle
  BY <1>2 DEF OneWriter
<1>4. CASE \E c \in Clients, e \in Runs : startRun(c, e)
  <2>1. PICK c \in Clients, e \in Runs : startRun(c, e)
    BY <1>4
  <2>2. /\ store[e].state = "Absent"
        /\ store'[e] = L!EmptyItem("InProgress")
        /\ \A f \in Runs : f # e => store'[f] = store[f]
        /\ call' = call /\ acked' = acked
    BY <1>1, <2>1 DEF startRun, TypeOK
  <2>3. L!LNext
    BY <2>1 DEF startRun, L!LNext, L!Start, L!Become
  <2>4. ReadsAreFresh'
    BY <1>1, <2>2 DEF SInv, ReadsAreFresh, Fresh, TypeOK, Calls
  <2>5. InProgressShowsNoResult' /\ VerdictIsAuditable' /\ AbortedHasNoResult'
    BY <2>2 DEF SInv, InProgressShowsNoResult, VerdictIsAuditable, AbortedHasNoResult,
                L!EmptyItem
  <2>6. AcknowledgedIsKept'
    <3>1. acked[e] = {}
      BY <2>1, <2>2 DEF SInv, StartedBeforeConfirmed
    <3>. QED BY <2>2, <3>1 DEF SInv, AcknowledgedIsKept
  <2>7. StartedBeforeConfirmed'
    BY <2>2 DEF SInv, StartedBeforeConfirmed, L!EmptyItem
  <2>. QED BY <1>1, <1>2, <2>3, <2>4, <2>5, <2>6, <2>7 DEF SInv
<1>5. CASE \E c \in Clients, w \in Calls : Fetch(c, w)
  <2>1. PICK c \in Clients, w \in Calls : Fetch(c, w)
    BY <1>5
  <2>2. store' = store /\ acked' = acked
    BY <2>1 DEF Fetch
  <2>3. store[w.id] \in Items /\ w.op \in {"linkBug", "saveStepResult", "attachEvidence", "finalizeRun", "abortRun"}
    BY <1>1 DEF TypeOK, Calls
  <2>4. Fresh(w)'
    BY <2>1, <2>2, <2>3 DEF Fetch, Fresh, isCompleted, isTerminal, Items, L!Items,
                            L!ItemStates
  <2>5. ReadsAreFresh'
    BY <1>1, <2>1, <2>2, <2>4 DEF SInv, ReadsAreFresh, Fresh, Fetch, TypeOK
  <2>. QED BY <1>1, <1>2, <2>2, <2>5
           DEF SInv, InProgressShowsNoResult, VerdictIsAuditable, AbortedHasNoResult,
               AcknowledgedIsKept, StartedBeforeConfirmed
<1>6. ASSUME NEW c \in Clients, updateWorkItem(c) \/ answerLost(c)
      PROVE  SInv' /\ [L!LNext]_store
  <2>1. /\ call[c] \in Calls /\ Apply(call[c]) /\ Fresh(call[c]) /\ call[c] # Idle
        /\ call' = [call EXCEPT ![c] = Idle]
    BY <1>1, <1>6 DEF updateWorkItem, answerLost, TypeOK, SInv, ReadsAreFresh
  <2> DEFINE w == call[c]
  <2>2. /\ w.id \in Runs /\ store[w.id] \in Items
        /\ store'[w.id] = Patched(store[w.id], w)
        /\ \A e \in Runs : e # w.id => store'[e] = store[e]
    BY <1>1, <2>1, ApplyType DEF TypeOK
  <2>3. L!LNext
    BY <1>1, <2>1, FreshPatchIsAtomic
  <2>4. InProgressShowsNoResult' /\ VerdictIsAuditable' /\ AbortedHasNoResult'
    BY <1>1, <2>1, AtomicKeeps DEF SInv
  <2>5. ReadsAreFresh'
    <3>1. \A d \in Clients : d # c /\ call[d] # Idle => call[d].id # w.id
      BY <1>2, <2>1 DEF OneWriter
    <3>2. \A d \in Clients : call[d] # Idle => call[d].id \in Runs
      BY <1>1 DEF TypeOK, Calls
    <3>. QED BY <1>1, <2>1, <2>2, <3>1, <3>2 DEF SInv, ReadsAreFresh, Fresh, TypeOK
  <2>6. /\ \A e \in Runs : \A confirmed \in acked[e] : Holds(store'[e], confirmed)
        /\ Appends(w) => Holds(store'[w.id], << w.op, w.arg >>)
    BY <1>1, <2>1, FreshKeepsConfirmed DEF SInv
  <2>7. \A e \in Runs : \A x \in acked'[e] :
           \/ x \in acked[e]
           \/ e = w.id /\ Appends(w) /\ x = << w.op, w.arg >>
    BY <1>1, <1>6, <2>2 DEF updateWorkItem, answerLost, TypeOK
  <2>8. AcknowledgedIsKept'
    BY <2>6, <2>7 DEF AcknowledgedIsKept
  <2>9. StartedBeforeConfirmed'
    <3>1. w.op \in {"linkBug", "saveStepResult", "attachEvidence", "finalizeRun", "abortRun"}
      BY <2>1 DEF Calls
    <3>2. store'[w.id].state # "Absent"
      BY <2>1, <2>2, <3>1, PatchedFields DEF Fresh
    <3>. QED BY <2>2, <2>7, <3>2 DEF SInv, StartedBeforeConfirmed
  <2>. QED BY <1>1, <1>2, <2>3, <2>4, <2>5, <2>8, <2>9 DEF SInv
<1>7. ASSUME NEW c \in Clients, requestLost(c) \/ requestDelayed(c)
      PROVE  SInv' /\ [L!LNext]_store
  <2>1. store' = store /\ acked' = acked /\ call' = [call EXCEPT ![c] = Idle]
    BY <1>7 DEF requestLost, requestDelayed
  <2>2. ReadsAreFresh'
    BY <1>1, <2>1 DEF SInv, ReadsAreFresh, Fresh, TypeOK
  <2>. QED BY <1>1, <1>2, <2>1, <2>2
           DEF SInv, InProgressShowsNoResult, VerdictIsAuditable, AbortedHasNoResult,
               AcknowledgedIsKept, StartedBeforeConfirmed
<1>8. ASSUME NEW c \in Clients, lateUpdate(c)
      PROVE  FALSE
  BY <1>3, <1>8 DEF lateUpdate
<1>9. CASE UNCHANGED vars
  BY <1>1, <1>2, <1>9
     DEF vars, SInv, ReadsAreFresh, Fresh, InProgressShowsNoResult, VerdictIsAuditable,
         AbortedHasNoResult, AcknowledgedIsKept, StartedBeforeConfirmed
<1>. QED BY <1>1, <1>4, <1>5, <1>6, <1>7, <1>8, <1>9, StepCases

(* With one writer per run and no update left behind by a timeout, a completed
   run shows the verdict of its own steps, an aborted run shows none, and no
   confirmed append is lost. *)
THEOREM OneWriterIsSafe ==
    SerialSpec => [](VerdictIsAuditable /\ AbortedHasNoResult /\ AcknowledgedIsKept)
<1>1. SInv => VerdictIsAuditable /\ AbortedHasNoResult /\ AcknowledgedIsKept
  BY DEF SInv
<1>2. SInv /\ [SNext]_vars => SInv'
  BY SerialStep
<1>. QED BY <1>1, <1>2, SInvInit, PTL DEF SerialSpec, SNext

(* With one writer per run and no update left behind by a timeout, every step
   result, piece of evidence or bug link whose call returned is on its run: no
   append rebuilt from a fetched list drops another. *)
THEOREM ConfirmedIsKept == SerialSpec => []AcknowledgedIsKept
BY OneWriterIsSafe, PTL

(* The service implements the promised lifecycle for callers that keep to one
   writer per run: every step is a lifecycle operation or invisible. *)
THEOREM OneWriterImplementsLifecycle == SerialSpec => ImplementsLifecycle
<1>1. Init => L!LInit
  BY DEF Init, Absent, L!LInit
<1>2. SInv /\ [SNext]_vars => SInv' /\ [L!LNext]_store
  BY SerialStep
<1>. QED BY <1>1, <1>2, SInvInit, PTL DEF SerialSpec, SNext, ImplementsLifecycle, L!LSpec
=============================================================================
