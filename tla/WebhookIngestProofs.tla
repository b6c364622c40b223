------------------------ MODULE WebhookIngestProofs ------------------------
(***************************************************************************)
(* What the webhook worker promises for any reports, tokens, workers and   *)
(* number of deliveries.                                                   *)
(***************************************************************************)
EXTENDS WebhookIngest, SubsequenceLemmas

HttpCalls == [stage: {"received", "accepted"}, token: Tokens, report: Reports]

QueueMessages == [state: {"queued", "held", "done", "poison"}, token: Tokens,
                  report: Reports, dequeues: Nat]

Stages == {"token", "list", "start", "save", "finalize", "done", "failed"}

Awake == [stage: Stages, msg: Messages, item: Nat]

Verdicts == {"Pass", "Fail"}

(* The case of a run is whatever test case its result was matched with. *)
MatchedCases == {keyMap(Results[r][i].key) : r \in Reports, i \in Nat}

Executions == [msg: Messages, item: Nat, delivery: Nat, case: MatchedCases,
               state: {"InProgress", "Completed"}, steps: Seq(Verdicts),
               globalStatus: GlobalStatuses]

TypeOK ==
    /\ token \in [Tokens -> {"none", "active", "revoked"}]
    /\ post \in [Posts -> {NoPost} \cup HttpCalls]
    /\ message \in [Messages -> {NoMessage} \cup QueueMessages]
    /\ worker \in [Workers -> {Asleep} \cup Awake]
    /\ runs \subseteq Executions

(* A worker that is awake holds its message, and no other worker does. *)
Holding ==
    /\ \A w \in Workers : worker[w] # Asleep => message[worker[w].msg].state = "held"
    /\ \A v, w \in Workers :
          (worker[v] # Asleep /\ worker[w] # Asleep /\ worker[v].msg = worker[w].msg) => v = w

-----------------------------------------------------------------------------
(* The next position to record is the first one that has a test case, or the
   end of the report. *)
LEMMA NextMatchIsFirst ==
    ASSUME NEW r \in Reports, NEW i \in Nat \ {0}
    PROVE  LET j == NextMatch(r, i)
           IN  /\ j \in Nat \ {0}
               /\ j = End(r) \/ (j \in DOMAIN Results[r] /\ i <= j /\ Matches(r, j))
               /\ \A k \in DOMAIN Results[r] : (i <= k /\ Matches(r, k)) => j <= k
<1> DEFINE later == {j \in DOMAIN Results[r] : j >= i /\ Matches(r, j)} \cup {End(r)}
<1>1. DOMAIN Results[r] \subseteq Nat \ {0} /\ End(r) \in Nat \ {0}
  BY WebhookAssumption DEF WebhookAssumption, End
<1>2. later \in SUBSET Nat /\ End(r) \in later /\ 0 \notin later
  BY <1>1
<1>3. \E j \in later : \A other \in later : j <= other
  <2> HIDE DEF later
  <2>1. later # {}
    BY <1>2
  <2>2. QED BY <1>2, <2>1, Smallest
<1>4. NextMatch(r, i) \in later /\ \A other \in later : NextMatch(r, i) <= other
  BY <1>3 DEF NextMatch
<1>5. QED BY <1>1, <1>2, <1>4

(* A worker that is awake deals with a message that was queued. *)
LEMMA HeldMessage ==
    ASSUME TypeOK, Holding, NEW w \in Workers, worker[w] # Asleep
    PROVE  /\ worker[w] \in Awake
           /\ worker[w].msg \in Messages
           /\ message[worker[w].msg] \in QueueMessages
           /\ message[worker[w].msg].state = "held"
           /\ Report(w) \in Reports
<1>1. worker[w] \in Awake
  BY DEF TypeOK
<1>2. worker[w].msg \in Messages /\ message[worker[w].msg].state = "held"
  BY <1>1 DEF Awake, Holding
<1>3. message[worker[w].msg] \in QueueMessages
  BY <1>2 DEF TypeOK, NoMessage
<1>4. QED BY <1>1, <1>2, <1>3 DEF Report, QueueMessages

(* Two runs of one result, created by one delivery. *)
SameRun(run, old) == /\ run.msg = old.msg /\ run.item = old.item
                     /\ run.delivery = old.delivery /\ run.case = old.case

Saved(w, run) == [run EXCEPT !.steps = Append(@, Verdict(Report(w), worker[w].item))]

(* The status of a run is one of the five. *)
LEMMA StatusType ==
    ASSUME NEW results
    PROVE  computeGlobalStatus(results) \in GlobalStatuses
BY DEF computeGlobalStatus, GlobalStatuses

(* Recording a step writes the runs of this delivery, and only these. *)
LEMMA SavedRuns ==
    ASSUME TypeOK, Holding, NEW w \in Workers, NEW answered \in BOOLEAN,
           saveStepResult(w, answered)
    PROVE  /\ runs' \subseteq Executions
           /\ \A run \in runs : run \in CurrentRuns(w) \/ run \in runs'
           /\ \A run \in CurrentRuns(w) :
                 /\ Saved(w, run) \in runs' /\ SameRun(Saved(w, run), run)
                 /\ Saved(w, run).state = run.state
                 /\ Saved(w, run).globalStatus = run.globalStatus
                 /\ Saved(w, run).steps = Append(run.steps, Verdict(Report(w), worker[w].item))
           /\ \A run \in runs' : run \in runs \/ \E old \in CurrentRuns(w) : SameRun(run, old)
<1>1. runs' = (runs \ CurrentRuns(w)) \cup {Saved(w, run) : run \in CurrentRuns(w)}
  BY DEF saveStepResult, Rewrite, Saved
<1>2. CurrentRuns(w) \subseteq Executions /\ Verdict(Report(w), worker[w].item) \in Verdicts
  BY DEF TypeOK, CurrentRuns, Verdict, Verdicts
<1>3. ASSUME NEW run \in Executions
      PROVE  /\ Saved(w, run) \in Executions /\ SameRun(Saved(w, run), run)
             /\ Saved(w, run).state = run.state
             /\ Saved(w, run).globalStatus = run.globalStatus
             /\ Saved(w, run).steps = Append(run.steps, Verdict(Report(w), worker[w].item))
  <2> DEFINE steps == Append(run.steps, Verdict(Report(w), worker[w].item))
  <2>1. steps \in Seq(Verdicts)
    BY <1>2, <1>3 DEF Executions
  <2> HIDE DEF steps
  <2>2. Saved(w, run) = [run EXCEPT !.steps = steps]
    BY DEF Saved, steps
  <2>3. QED BY <1>3, <2>1, <2>2 DEF Executions, SameRun, steps
<1>4. QED BY <1>1, <1>2, <1>3 DEF TypeOK

(* Ending a run writes the runs of this delivery, and only these. *)
LEMMA FinalizedRuns ==
    ASSUME TypeOK, Holding, NEW w \in Workers, NEW answered \in BOOLEAN,
           finalizeRun(w, answered)
    PROVE  /\ runs' \subseteq Executions
           /\ \A run \in runs : run \in CurrentRuns(w) \/ run \in runs'
           /\ \A run \in CurrentRuns(w) :
                 /\ Finalized(run) \in runs' /\ SameRun(Finalized(run), run)
                 /\ Finalized(run).state = "Completed"
                 /\ Finalized(run).globalStatus = computeGlobalStatus(run.steps)
           /\ \A run \in runs' : run \in runs \/ \E old \in CurrentRuns(w) : SameRun(run, old)
<1>1. runs' = (runs \ CurrentRuns(w)) \cup {Finalized(run) : run \in CurrentRuns(w)}
  BY DEF finalizeRun, Rewrite
<1>2. CurrentRuns(w) \subseteq Executions
  BY DEF TypeOK, CurrentRuns
<1>3. ASSUME NEW run \in Executions
      PROVE  /\ Finalized(run) \in Executions /\ SameRun(Finalized(run), run)
             /\ Finalized(run).state = "Completed"
             /\ Finalized(run).globalStatus = computeGlobalStatus(run.steps)
  <2> DEFINE status == computeGlobalStatus(run.steps)
  <2>1. status \in GlobalStatuses
    BY StatusType
  <2> HIDE DEF status
  <2>2. Finalized(run) = [run EXCEPT !.state = "Completed", !.globalStatus = status]
    BY DEF Finalized, status
  <2>3. QED BY <1>3, <2>1, <2>2 DEF Executions, SameRun, status
<1>4. QED BY <1>1, <1>2, <1>3 DEF TypeOK

(* Starting a run adds one, of the delivery under way. *)
LEMMA StartedRun ==
    ASSUME TypeOK, Holding, NEW w \in Workers, NEW answered \in BOOLEAN, startRun(w, answered)
    PROVE  LET new == [msg |-> worker[w].msg, item |-> worker[w].item,
                       delivery |-> message[worker[w].msg].dequeues,
                       case |-> keyMap(Results[Report(w)][worker[w].item].key),
                       state |-> "InProgress", steps |-> << >>,
                       globalStatus |-> "Unexecuted"]
           IN  new \in Executions /\ runs' = runs \cup {new}
<1>1. worker[w] \in Awake /\ message[worker[w].msg] \in QueueMessages /\ Report(w) \in Reports
  BY HeldMessage DEF startRun, Asleep
<1>2. worker[w].item \in Nat /\ worker[w].msg \in Messages
      /\ message[worker[w].msg].dequeues \in Nat
  BY <1>1 DEF Awake, QueueMessages
<1>3. keyMap(Results[Report(w)][worker[w].item].key) \in MatchedCases
  BY <1>1, <1>2 DEF MatchedCases
<1>4. << >> \in Seq(Verdicts)
  OBVIOUS
<1>5. QED BY <1>2, <1>3, <1>4 DEF startRun, Executions, GlobalStatuses

-----------------------------------------------------------------------------
(* A worker goes on with the message it holds. *)
LEMMA WorkerMoves ==
    ASSUME TypeOK, Holding, NEW w \in Workers, worker[w] # Asleep,
           NEW to \in Awake, to.msg = worker[w].msg, worker' = [worker EXCEPT ![w] = to],
           UNCHANGED << token, post, message >>, runs' \subseteq Executions
    PROVE  TypeOK' /\ Holding'
<1>1. TypeOK'
  BY DEF TypeOK
<1>2. ASSUME NEW v \in Workers, worker'[v] # Asleep
      PROVE  worker[v] # Asleep /\ worker'[v].msg = worker[v].msg
  BY <1>2 DEF TypeOK
<1>3. Holding'
  BY <1>2 DEF Holding
<1>4. QED BY <1>1, <1>3

(* A worker falls asleep, and its message goes where it goes. *)
LEMMA WorkerSleeps ==
    ASSUME TypeOK, Holding, NEW w \in Workers, worker[w] # Asleep,
           NEW state \in {"queued", "done", "poison"},
           message' = [message EXCEPT ![worker[w].msg].state = state],
           worker' = [worker EXCEPT ![w] = Asleep], UNCHANGED << token, post, runs >>
    PROVE  TypeOK' /\ Holding'
<1> DEFINE m == worker[w].msg
<1>1. m \in Messages /\ message[m] \in QueueMessages
  BY HeldMessage
<1>2. [message[m] EXCEPT !.state = state] \in QueueMessages
  BY <1>1 DEF QueueMessages
<1>3. TypeOK'
  BY <1>1, <1>2 DEF TypeOK
<1>4. ASSUME NEW v \in Workers, worker'[v] # Asleep
      PROVE  /\ worker[v] # Asleep /\ worker'[v] = worker[v] /\ worker[v].msg # m
             /\ worker[v].msg \in Messages
  <2>1. v # w /\ worker'[v] = worker[v]
    BY <1>4 DEF TypeOK
  <2>2. QED BY <1>4, <2>1, HeldMessage DEF Holding
<1>5. Holding'
  <2>1. \A v \in Workers : worker'[v] # Asleep => message'[worker'[v].msg].state = "held"
    BY <1>1, <1>4 DEF Holding, TypeOK
  <2>2. QED BY <1>4, <2>1 DEF Holding
<1>6. QED BY <1>3, <1>5

(* A worker takes a message from the queue: nobody was holding that one. *)
LEMMA WorkerWakes ==
    ASSUME TypeOK, Holding, NEW w \in Workers, NEW m \in Messages, dequeue(w, m)
    PROVE  TypeOK' /\ Holding'
<1>1. message[m] \in QueueMessages /\ message[m].state = "queued"
  BY DEF dequeue, TypeOK, NoMessage
<1> DEFINE after == [[message[m] EXCEPT !.state = "held"]
                         EXCEPT !.dequeues = message[m].dequeues + 1]
           woken == [stage |-> "token", msg |-> m, item |-> 0]
<1>2. after \in QueueMessages /\ after.state = "held"
  <2>1. message[m].dequeues + 1 \in Nat
    BY <1>1 DEF QueueMessages
  <2>2. QED BY <1>1, <2>1 DEF QueueMessages
<1>3. woken \in Awake /\ woken.msg = m
  BY DEF Awake, Stages
<1>4. /\ message' = [message EXCEPT ![m] = after] /\ worker' = [worker EXCEPT ![w] = woken]
      /\ worker[w] = Asleep /\ UNCHANGED << token, post, runs >>
  BY DEF dequeue, TypeOK
<1> HIDE DEF after, woken
<1>5. TypeOK'
  BY <1>2, <1>3, <1>4 DEF TypeOK
<1>6. ASSUME NEW v \in Workers, worker'[v] # Asleep, v # w
      PROVE  /\ worker[v] # Asleep /\ worker'[v] = worker[v]
             /\ worker[v].msg \in Messages \ {m}
  BY <1>1, <1>4, <1>6, HeldMessage DEF TypeOK
<1>7. worker'[w] = woken
  BY <1>4 DEF TypeOK
<1>8. \A v \in Workers : worker'[v] # Asleep => message'[worker'[v].msg].state = "held"
  BY <1>2, <1>3, <1>4, <1>6, <1>7 DEF Holding, TypeOK
<1>9. Holding'
  BY <1>3, <1>6, <1>7, <1>8 DEF Holding
<1>10. QED BY <1>5, <1>9

(* Where a worker goes after a result is a position of its report. *)
LEMMA AtItemType ==
    ASSUME TypeOK, Holding, NEW w \in Workers, worker[w] # Asleep, NEW i \in Nat
    PROVE  AtItem(w, i) \in Awake /\ AtItem(w, i).msg = worker[w].msg
BY HeldMessage DEF AtItem, Awake, Stages

(* Every call of a worker leaves it with its message. *)
LEMMA CallType ==
    ASSUME TypeOK, Holding, NEW w \in Workers,
           \/ checkToken(w) \/ listTestCases(w)
           \/ \E answered \in BOOLEAN : \/ startRun(w, answered)
                                        \/ saveStepResult(w, answered)
                                        \/ finalizeRun(w, answered)
    PROVE  TypeOK' /\ Holding'
<1>1. worker[w] # Asleep
  <2>1. worker[w].stage \in Stages
    BY DEF checkToken, listTestCases, startRun, saveStepResult, finalizeRun, Stages
  <2>2. QED BY <2>1 DEF Asleep, Stages
<1>2. worker[w] \in Awake /\ Report(w) \in Reports
  BY <1>1, HeldMessage
<1>3. \A stage \in Stages : /\ [worker[w] EXCEPT !.stage = stage] \in Awake
                            /\ [worker[w] EXCEPT !.stage = stage].msg = worker[w].msg
  BY <1>2 DEF Awake
<1>4. UNCHANGED << token, post, message >>
  BY DEF checkToken, listTestCases, startRun, saveStepResult, finalizeRun
<1>5. runs' \subseteq Executions
  BY StartedRun, SavedRuns, FinalizedRuns DEF checkToken, listTestCases, TypeOK
<1>6. PICK to \in Awake : to.msg = worker[w].msg /\ worker' = [worker EXCEPT ![w] = to]
  <2>1. CASE checkToken(w)
    BY <2>1, <1>3 DEF checkToken, Stages
  <2>2. CASE listTestCases(w)
    <3>1. NextMatch(Report(w), 1) \in Nat
      BY <1>2, NextMatchIsFirst
    <3>2. QED BY <2>2, <3>1, <1>1, AtItemType DEF listTestCases
  <2>3. CASE \E answered \in BOOLEAN : startRun(w, answered)
    BY <2>3, <1>3 DEF startRun, Advance, Stages
  <2>4. CASE \E answered \in BOOLEAN : saveStepResult(w, answered)
    BY <2>4, <1>3 DEF saveStepResult, Advance, Stages
  <2>5. CASE \E answered \in BOOLEAN : finalizeRun(w, answered)
    <3>1. worker[w].item + 1 \in Nat \ {0}
      BY <1>2 DEF Awake
    <3>2. NextMatch(Report(w), worker[w].item + 1) \in Nat
      BY <1>2, <3>1, NextMatchIsFirst
    <3>3. AtItem(w, NextMatch(Report(w), worker[w].item + 1)) \in Awake
          /\ AtItem(w, NextMatch(Report(w), worker[w].item + 1)).msg = worker[w].msg
      BY <3>2, <1>1, AtItemType
    <3>4. QED BY <2>5, <3>3, <1>3 DEF finalizeRun, Advance, Stages
  <2>6. QED BY <2>1, <2>2, <2>3, <2>4, <2>5
<1>7. QED BY <1>1, <1>4, <1>5, <1>6, WorkerMoves

(* The HTTP function adds messages; a message that exists stays as it is. *)
LEMMA IngestType ==
    ASSUME TypeOK, Holding, NEW h \in Posts, Ingest(h)
    PROVE  /\ TypeOK' /\ Holding'
           /\ UNCHANGED << token, worker, runs >>
           /\ \A m \in Messages : message[m] # NoMessage => message'[m] = message[m]
<1>1. UNCHANGED << token, worker, runs >>
  BY DEF Ingest, Arrive, handleWebhookRequest, enqueue, lost
<1>2. ASSUME message' = message, post' \in [Posts -> {NoPost} \cup HttpCalls]
      PROVE  /\ TypeOK' /\ Holding'
             /\ \A m \in Messages : message[m] # NoMessage => message'[m] = message[m]
  BY <1>1, <1>2 DEF TypeOK, Holding
<1>3. CASE \E t \in Tokens, r \in Reports : Arrive(h, t, r)
  BY <1>1, <1>2, <1>3 DEF Arrive, TypeOK, HttpCalls
<1>4. post[h].stage \in {"received", "accepted"} => post[h] \in HttpCalls
  BY DEF TypeOK, NoPost
<1>5. CASE \E signed \in BOOLEAN : handleWebhookRequest(h, signed)
  <2>1. [post[h] EXCEPT !.stage = "accepted"] \in HttpCalls
    BY <1>4, <1>5 DEF handleWebhookRequest, HttpCalls
  <2>2. message' = message /\ post' \in [Posts -> {NoPost} \cup HttpCalls]
    BY <1>5, <2>1 DEF handleWebhookRequest, TypeOK
  <2>3. QED BY <1>1, <1>2, <2>2
<1>6. CASE lost(h)
  BY <1>1, <1>2, <1>6 DEF lost, TypeOK
<1>7. ASSUME NEW m \in Messages, enqueue(h, m)
      PROVE  /\ TypeOK' /\ Holding'
             /\ \A n \in Messages : message[n] # NoMessage => message'[n] = message[n]
  <2> DEFINE new == [state |-> "queued", token |-> post[h].token,
                     report |-> post[h].report, dequeues |-> 0]
  <2>1. new \in QueueMessages
    BY <1>4, <1>7 DEF enqueue, HttpCalls, QueueMessages
  <2>2. message' = [message EXCEPT ![m] = new] /\ message[m] = NoMessage
        /\ post' = [post EXCEPT ![h] = NoPost]
    BY <1>7 DEF enqueue
  <2> HIDE DEF new
  <2>3. TypeOK'
    BY <1>1, <2>1, <2>2 DEF TypeOK
  <2>4. \A n \in Messages : message[n] # NoMessage => message'[n] = message[n]
    BY <2>2 DEF TypeOK
  <2>5. \A v \in Workers : worker[v] # Asleep =>
           worker[v].msg \in Messages /\ message[worker[v].msg] # NoMessage
    BY HeldMessage DEF NoMessage
  <2>6. Holding'
    BY <1>1, <2>4, <2>5 DEF Holding
  <2>7. QED BY <2>3, <2>4, <2>6
<1>8. QED BY <1>1, <1>3, <1>5, <1>6, <1>7 DEF Ingest

(* What became of a message does not change whose it is and what it says. *)
Same(m) == /\ message'[m] # NoMessage
           /\ message'[m].token = message[m].token
           /\ message'[m].report = message[m].report

(* The steps of the queue function. *)
LEMMA WorkType ==
    ASSUME TypeOK, Holding, NEW w \in Workers, Work(w)
    PROVE  /\ TypeOK' /\ Holding'
           /\ UNCHANGED << token, post >>
           /\ \A m \in Messages : message[m] # NoMessage => Same(m)
<1>1. CASE \E m \in Messages : dequeue(w, m)
  <2>1. PICK m \in Messages : dequeue(w, m)
    BY <1>1
  <2>2. message[m] \in QueueMessages
    BY <2>1 DEF dequeue, TypeOK, NoMessage
  <2>3. message'[m] = [message[m] EXCEPT !.state = "held", !.dequeues = @ + 1]
        /\ \A n \in Messages \ {m} : message'[n] = message[n]
    BY <2>1 DEF dequeue, TypeOK
  <2>4. Same(m)
    <3>1. /\ message'[m].state = "held"
          /\ message'[m].token = message[m].token
          /\ message'[m].report = message[m].report
      BY <2>2, <2>3 DEF QueueMessages
    <3>2. QED BY <3>1 DEF Same, NoMessage
  <2>5. QED BY <2>1, <2>3, <2>4, WorkerWakes DEF dequeue, Same
<1>2. CASE \/ checkToken(w) \/ listTestCases(w)
           \/ \E answered \in BOOLEAN : \/ startRun(w, answered)
                                        \/ saveStepResult(w, answered)
                                        \/ finalizeRun(w, answered)
  <2>1. UNCHANGED << token, post, message >>
    BY <1>2 DEF checkToken, listTestCases, startRun, saveStepResult, finalizeRun
  <2>2. QED BY <1>2, <2>1, CallType DEF Same
<1>3. CASE complete(w) \/ release(w)
  <2> DEFINE m == worker[w].msg
  <2>1. worker[w] # Asleep
    BY <1>3 DEF complete, release, Asleep
  <2>2. PICK state \in {"queued", "done", "poison"} :
           message' = [message EXCEPT ![m].state = state]
    BY <1>3 DEF complete, release
  <2>3. worker' = [worker EXCEPT ![w] = Asleep] /\ UNCHANGED << token, post, runs >>
    BY <1>3 DEF complete, release
  <2>4. m \in Messages /\ message[m] \in QueueMessages
    BY <2>1, HeldMessage
  <2>5. message'[m] = [message[m] EXCEPT !.state = state]
        /\ \A n \in Messages \ {m} : message'[n] = message[n]
    BY <2>2, <2>4 DEF TypeOK
  <2>6. Same(m)
    BY <2>4, <2>5 DEF QueueMessages, Same, NoMessage
  <2>7. QED BY <2>1, <2>2, <2>3, <2>5, <2>6, WorkerSleeps DEF Same
<1>4. QED BY <1>1, <1>2, <1>3 DEF Work

(* Every step keeps the types and the holders. *)
LEMMA TypeStep == TypeOK /\ Holding /\ [Next]_vars => TypeOK' /\ Holding'
<1>1. CASE TypeOK /\ Holding /\ UNCHANGED vars
  BY <1>1 DEF TypeOK, Holding, vars
<1>2. ASSUME TypeOK, Holding, NEW t \in Tokens, create(t) \/ revoke(t)
      PROVE  TypeOK' /\ Holding'
  BY <1>2 DEF create, revoke, TypeOK, Holding
<1>3. QED BY <1>1, <1>2, IngestType, WorkType DEF Next

(* In the beginning no worker holds a message. *)
LEMMA TypeInit == Init => TypeOK /\ Holding
BY DEF Init, TypeOK, Holding

(* Queue, workers and executions are well typed in every state, and no two
   workers ever process one message at a time. *)
THEOREM TypeCorrect == Spec => [](TypeOK /\ Holding)
BY TypeInit, TypeStep, PTL DEF Spec

-----------------------------------------------------------------------------
Past(stage) == stage \notin {"asleep", "token"}

(* A worker is past the check of its token only when it was before, or when it
   has just read that the token is active; its message is the same. *)
LEMMA PastOnlyIfActive ==
    ASSUME TypeOK, Holding, NEW w \in Workers, Work(w), Past(worker'[w].stage)
    PROVE  /\ worker[w] # Asleep
           /\ worker'[w].msg = worker[w].msg
           /\ Past(worker[w].stage) \/ token[message[worker[w].msg].token] = "active"
<1>1. \A m \in Messages : ~dequeue(w, m)
  BY DEF dequeue, TypeOK, Past
<1>2. ~complete(w) /\ ~release(w)
  BY DEF complete, release, TypeOK, Asleep, Past
<1>3. CASE checkToken(w)
  <2>1. worker[w] # Asleep
    BY <1>3 DEF checkToken, Asleep
  <2>2. worker'[w] = [worker[w] EXCEPT !.stage = "list"]
    BY <1>3 DEF checkToken, TypeOK
  <2>3. worker'[w].msg = worker[w].msg
    BY <2>1, <2>2, HeldMessage DEF Awake
  <2>4. QED BY <1>3, <2>1, <2>3 DEF checkToken, Usable
<1>4. ASSUME worker[w].stage \in {"list", "start", "save", "finalize"},
             NEW to, worker' = [worker EXCEPT ![w] = to], to.msg = worker[w].msg
      PROVE  /\ worker[w] # Asleep
             /\ worker'[w].msg = worker[w].msg
             /\ Past(worker[w].stage)
  BY <1>4 DEF Asleep, Past, TypeOK
<1>5. CASE listTestCases(w)
  <2> DEFINE to == AtItem(w, NextMatch(Report(w), 1))
  <2>1. worker' = [worker EXCEPT ![w] = to] /\ to.msg = worker[w].msg
    BY <1>5 DEF listTestCases, AtItem
  <2> HIDE DEF to
  <2>2. QED BY <1>4, <1>5, <2>1 DEF listTestCases
<1>6. ASSUME NEW answered \in BOOLEAN, NEW then, Advance(w, answered, then),
             worker[w].stage \in {"list", "start", "save", "finalize"},
             then.msg = worker[w].msg
      PROVE  /\ worker[w] # Asleep
             /\ worker'[w].msg = worker[w].msg
             /\ Past(worker[w].stage)
  <2>1. worker[w] \in Awake
    BY <1>6 DEF TypeOK, Asleep
  <2>2. [worker[w] EXCEPT !.stage = "failed"].msg = worker[w].msg
    BY <2>1 DEF Awake
  <2>3. worker' = [worker EXCEPT ![w] = then]
        \/ worker' = [worker EXCEPT ![w] = [worker[w] EXCEPT !.stage = "failed"]]
    BY <1>6 DEF Advance
  <2>4. CASE worker' = [worker EXCEPT ![w] = then]
    BY <1>4, <1>6, <2>4
  <2> DEFINE failed == [worker[w] EXCEPT !.stage = "failed"]
  <2>5. CASE worker' = [worker EXCEPT ![w] = failed]
    <3>1. failed.msg = worker[w].msg
      BY <2>2
    <3> HIDE DEF failed
    <3>2. QED BY <1>4, <1>6, <2>5, <3>1
  <2>6. QED BY <2>3, <2>4, <2>5
<1>7. ASSUME NEW answered \in BOOLEAN,
             startRun(w, answered) \/ saveStepResult(w, answered) \/ finalizeRun(w, answered)
      PROVE  /\ worker[w] # Asleep
             /\ worker'[w].msg = worker[w].msg
             /\ Past(worker[w].stage)
  <2>1. worker[w].stage \in {"start", "save", "finalize"} /\ worker[w] \in Awake
    BY <1>7 DEF startRun, saveStepResult, finalizeRun, TypeOK, Asleep
  <2> DEFINE at(stage) == [worker[w] EXCEPT !.stage = stage]
             next == AtItem(w, NextMatch(Report(w), worker[w].item + 1))
  <2>2. \A stage \in Stages : at(stage).msg = worker[w].msg
    BY <2>1 DEF Awake
  <2>3. next.msg = worker[w].msg
    BY DEF AtItem
  <2>4. \/ Advance(w, answered, at("save")) \/ Advance(w, answered, at("finalize"))
        \/ Advance(w, answered, next)
    BY <1>7 DEF startRun, saveStepResult, finalizeRun
  <2>5. at("save").msg = worker[w].msg /\ at("finalize").msg = worker[w].msg
    BY <2>2 DEF Stages
  <2> HIDE DEF at, next
  <2>6. QED BY <1>6, <2>1, <2>3, <2>4, <2>5
<1>8. QED BY <1>1, <1>2, <1>3, <1>5, <1>7 DEF Work

(* A run is recorded by a worker past the check, for the message it holds. *)
LEMMA NewRunsAreOwn ==
    ASSUME TypeOK, Holding, NEW w \in Workers, Work(w), NEW run \in runs' \ runs
    PROVE  worker[w] # Asleep /\ Past(worker[w].stage) /\ run.msg = worker[w].msg
<1>1. PICK answered \in BOOLEAN :
         startRun(w, answered) \/ saveStepResult(w, answered) \/ finalizeRun(w, answered)
  BY DEF Work, dequeue, checkToken, listTestCases, complete, release
<1>2. worker[w] # Asleep /\ Past(worker[w].stage)
  BY <1>1 DEF startRun, saveStepResult, finalizeRun, Asleep, Past
<1>3. CASE startRun(w, answered)
  <2> DEFINE new == [msg |-> worker[w].msg, item |-> worker[w].item,
                     delivery |-> message[worker[w].msg].dequeues,
                     case |-> keyMap(Results[Report(w)][worker[w].item].key),
                     state |-> "InProgress", steps |-> << >>,
                     globalStatus |-> "Unexecuted"]
  <2>1. new.msg = worker[w].msg
    OBVIOUS
  <2>2. runs' = runs \cup {new}
    BY <1>3, StartedRun
  <2> HIDE DEF new
  <2>3. QED BY <1>2, <2>1, <2>2
<1>4. CASE saveStepResult(w, answered) \/ finalizeRun(w, answered)
  <2>1. PICK old \in CurrentRuns(w) : SameRun(run, old)
    BY <1>4, SavedRuns, FinalizedRuns
  <2>2. QED BY <1>2, <2>1 DEF CurrentRuns, SameRun
<1>5. QED BY <1>1, <1>3, <1>4

(* A token that is shut stays shut, and nothing is recorded in its name. *)
LEMMA ShutStep ==
    ASSUME TypeOK, Holding, [Next]_vars, NEW t \in Tokens, Shut(t)
    PROVE  /\ Shut(t)'
           /\ \A run \in runs' \ runs : message[run.msg].token # t
<1>1. ASSUME token'[t] = "revoked", runs' \subseteq runs,
             \A w \in Workers : worker'[w] = worker[w],
             \A m \in Messages : message[m] # NoMessage => Same(m)
      PROVE  /\ Shut(t)'
             /\ \A run \in runs' \ runs : message[run.msg].token # t
  <2>1. ASSUME NEW w \in Workers, Past(worker'[w].stage), message'[worker'[w].msg].token = t
        PROVE  FALSE
    <3>1. worker[w] # Asleep /\ Past(worker[w].stage)
      BY <1>1, <2>1 DEF Asleep, Past
    <3>2. worker[w].msg \in Messages /\ message[worker[w].msg] # NoMessage
      BY <3>1, HeldMessage DEF NoMessage
    <3>3. message[worker[w].msg].token = t
      BY <1>1, <2>1, <3>2 DEF Same
    <3>4. QED BY <3>1, <3>3 DEF Shut, PastTheCheck, Past
  <2>2. QED BY <1>1, <2>1 DEF Shut, PastTheCheck, Past
<1>2. \A m \in Messages : message[m] # NoMessage =>
         (message'[m] = message[m] => Same(m))
  BY DEF Same
<1>3. CASE UNCHANGED vars
  BY <1>1, <1>2, <1>3 DEF vars, Shut
<1>4. ASSUME NEW u \in Tokens, create(u) \/ revoke(u)
      PROVE  /\ Shut(t)'
             /\ \A run \in runs' \ runs : message[run.msg].token # t
  <2>1. token'[t] = "revoked"
    BY <1>4 DEF create, revoke, TypeOK, Shut
  <2>2. QED BY <1>1, <1>2, <1>4, <2>1 DEF create, revoke
<1>5. CASE \E h \in Posts : Ingest(h)
  BY <1>1, <1>2, <1>5, IngestType DEF Shut
<1>6. ASSUME NEW w \in Workers, Work(w)
      PROVE  /\ Shut(t)'
             /\ \A run \in runs' \ runs : message[run.msg].token # t
  <2>1. /\ token' = token /\ token[t] = "revoked"
        /\ \A m \in Messages : message[m] # NoMessage => Same(m)
    BY <1>6, WorkType DEF Shut
  <2>2. ASSUME NEW v \in Workers, v # w PROVE worker'[v] = worker[v]
    BY <1>6, <2>2 DEF Work, dequeue, checkToken, listTestCases, startRun, saveStepResult,
                      finalizeRun, Advance, complete, release, TypeOK
  <2>3. ASSUME NEW v \in Workers, Past(worker[v].stage), worker[v] # Asleep
        PROVE  message[worker[v].msg].token # t
    BY <2>3 DEF Shut, PastTheCheck, Past
  <2>4. ASSUME NEW v \in Workers, Past(worker'[v].stage)
        PROVE  message'[worker'[v].msg].token # t
    <3>1. /\ worker[v] # Asleep /\ worker'[v].msg = worker[v].msg
          /\ Past(worker[v].stage) \/ token[message[worker[v].msg].token] = "active"
      <4>1. CASE v = w
        BY <4>1, <1>6, <2>4, PastOnlyIfActive
      <4>2. CASE v # w
        BY <4>2, <2>2, <2>4 DEF Asleep, Past
      <4>3. QED BY <4>1, <4>2
    <3>2. worker[v].msg \in Messages /\ message[worker[v].msg] # NoMessage
      BY <3>1, HeldMessage DEF NoMessage
    <3>3. QED BY <2>1, <2>3, <3>1, <3>2 DEF Same
  <2>5. Shut(t)'
    BY <2>1, <2>4 DEF Shut, PastTheCheck, Past
  <2>6. \A run \in runs' \ runs : message[run.msg].token # t
    BY <1>6, <2>3, NewRunsAreOwn
  <2>7. QED BY <2>5, <2>6
<1>7. QED BY <1>3, <1>4, <1>5, <1>6 DEF Next

(* Once a token is revoked and the deliveries that read it before are over,
   nothing is recorded in its name, whatever is queued or retried later. *)
THEOREM RevokedIsShut == Spec => RevokedTokenIsShut
<1>1. TypeOK /\ Holding /\ [Next]_vars =>
        [\A t \in Tokens : Shut(t) =>
          /\ Shut(t)'
          /\ \A run \in runs' \ runs : message[run.msg].token # t]_vars
  BY ShutStep
<1>2. QED BY <1>1, TypeInit, TypeStep, PTL DEF Spec, RevokedTokenIsShut

-----------------------------------------------------------------------------
(* What a worker relies on while it records a report: all results before its
   position are recorded, and the run it has started for this one is there. *)

IsRecord(run, r, i) == /\ run.case = keyMap(Results[r][i].key)
                       /\ run.state = "Completed"
                       /\ run.globalStatus = Verdict(r, i)

Recorded(m, i) == \E run \in RunsOf(m, i) : IsRecord(run, message[m].report, i)

RecordedBelow(m, j) ==
    \A i \in DOMAIN Results[message[m].report] :
        (i < j /\ Matches(message[m].report, i)) => Recorded(m, i)

(* The run of this delivery has the given steps so far. *)
Underway(w, steps) ==
    \E run \in CurrentRuns(w) : /\ run.case = keyMap(Results[Report(w)][worker[w].item].key)
                                /\ run.steps = steps

WorkFits(w) ==
    worker[w] # Asleep =>
        /\ worker[w].stage \in {"start", "save", "finalize", "done"} =>
              RecordedBelow(worker[w].msg, worker[w].item)
        /\ worker[w].stage \in {"start", "save", "finalize"} =>
              /\ worker[w].item \in DOMAIN Results[Report(w)]
              /\ Matches(Report(w), worker[w].item)
        /\ worker[w].stage = "done" => worker[w].item = End(Report(w))
        /\ worker[w].stage = "save" => Underway(w, << >>)
        /\ worker[w].stage = "finalize" =>
              Underway(w, << Verdict(Report(w), worker[w].item) >>)

RecordInv ==
    /\ TypeOK
    /\ Holding
    /\ \A w \in Workers : WorkFits(w)
    /\ DoneMeansRecorded

(* A run of one step has the verdict of that step. *)
LEMMA StatusOfOne ==
    ASSUME NEW verdict \in Verdicts
    PROVE  computeGlobalStatus(<< verdict >>) = verdict
BY DEF Verdicts, computeGlobalStatus, SomeStep, EveryStep

(* A report that left the queue is recorded, said with the names above. *)
LEMMA DoneIsRecorded ==
    DoneMeansRecorded <=>
        \A m \in Messages : message[m].state = "done" =>
            \A i \in DOMAIN Results[message[m].report] :
                Matches(message[m].report, i) => Recorded(m, i)
BY DEF DoneMeansRecorded, Recorded, IsRecord

(* What is recorded stays recorded, as long as its runs do. *)
LEMMA RecordedStays ==
    ASSUME NEW m \in Messages, NEW i, Recorded(m, i), Same(m),
           \A run \in RunsOf(m, i) : run \in runs'
    PROVE  Recorded(m, i)'
BY DEF Recorded, RunsOf, Same

(* A step of a worker leaves the other workers and their messages alone, and
   writes only runs of its own delivery. *)
LEMMA WorkIsOwn ==
    ASSUME TypeOK, Holding, NEW w \in Workers, Work(w)
    PROVE  /\ \A v \in Workers \ {w} : worker'[v] = worker[v]
           /\ \A v \in Workers \ {w} : worker[v] # Asleep =>
                 message'[worker[v].msg] = message[worker[v].msg]
           /\ \A run \in runs : run \in runs' \/ (worker[w] # Asleep /\ run \in CurrentRuns(w))
           /\ \A n \in Messages : message'[n].state = "done" =>
                 \/ message[n].state = "done" /\ (worker[w] # Asleep => n # worker[w].msg)
                 \/ complete(w) /\ n = worker[w].msg
<1>1. \A v \in Workers \ {w} : worker'[v] = worker[v]
  BY DEF Work, dequeue, checkToken, listTestCases, startRun, saveStepResult, finalizeRun,
         Advance, complete, release, TypeOK
<1>2. CASE \E m \in Messages : dequeue(w, m)
  <2>1. PICK m \in Messages : dequeue(w, m)
    BY <1>2
  <2>2. /\ runs' = runs /\ worker[w] = Asleep
        /\ \A n \in Messages \ {m} : message'[n] = message[n]
        /\ message[m].state = "queued"
    BY <2>1 DEF dequeue, TypeOK
  <2>3. message'[m].state = "held"
    <3>1. message[m] \in QueueMessages
      BY <2>2 DEF TypeOK, NoMessage
    <3>2. message'[m] = [message[m] EXCEPT !.state = "held", !.dequeues = @ + 1]
      BY <2>1 DEF dequeue, TypeOK
    <3>3. QED BY <3>1, <3>2 DEF QueueMessages
  <2>4. \A v \in Workers : worker[v] # Asleep => worker[v].msg \in Messages \ {m}
    BY <2>2, HeldMessage
  <2>5. QED BY <1>1, <2>2, <2>3, <2>4
<1>3. CASE \/ checkToken(w) \/ listTestCases(w)
           \/ \E answered \in BOOLEAN : \/ startRun(w, answered)
                                        \/ saveStepResult(w, answered)
                                        \/ finalizeRun(w, answered)
  <2>1. message' = message /\ worker[w] # Asleep
    <3>1. message' = message /\ worker[w].stage \in Stages
      BY <1>3 DEF checkToken, listTestCases, startRun, saveStepResult, finalizeRun, Stages
    <3>2. QED BY <3>1 DEF Asleep, Stages
  <2>2. \A run \in runs : run \in runs' \/ run \in CurrentRuns(w)
    BY <1>3, SavedRuns, FinalizedRuns DEF checkToken, listTestCases, startRun
  <2>3. message[worker[w].msg].state = "held"
    BY <2>1, HeldMessage
  <2>4. QED BY <1>1, <2>1, <2>2, <2>3
<1>4. CASE complete(w) \/ release(w)
  <2> DEFINE m == worker[w].msg
  <2>1. worker[w] # Asleep
    BY <1>4 DEF complete, release, Asleep
  <2>2. m \in Messages /\ message[m] \in QueueMessages
    BY <2>1, HeldMessage
  <2>3. runs' = runs /\ \A n \in Messages \ {m} : message'[n] = message[n]
    BY <1>4, <2>2 DEF complete, release, TypeOK
  <2>4. \A v \in Workers \ {w} : worker[v] # Asleep => worker[v].msg \in Messages \ {m}
    BY <2>1, HeldMessage DEF Holding
  <2>5. ASSUME message'[m].state = "done" PROVE complete(w)
    <3>1. CASE release(w)
      <4>1. message'[m].state \in {"queued", "poison"}
        BY <2>2, <3>1 DEF release, QueueMessages, TypeOK
      <4>2. QED BY <2>5, <4>1
    <3>2. QED BY <1>4, <3>1
  <2>6. QED BY <1>1, <2>1, <2>3, <2>4, <2>5
<1>5. QED BY <1>2, <1>3, <1>4 DEF Work

(* What another worker relies on is not touched. *)
LEMMA OthersFit ==
    ASSUME RecordInv, NEW v \in Workers, worker'[v] = worker[v],
           worker[v] # Asleep => message'[worker[v].msg] = message[worker[v].msg],
           worker[v] # Asleep => \A run \in runs : run.msg = worker[v].msg => run \in runs'
    PROVE  WorkFits(v)'
<1> SUFFICES ASSUME worker[v] # Asleep PROVE WorkFits(v)'
  BY DEF WorkFits
<1> DEFINE m == worker[v].msg
<1>1. WorkFits(v) /\ m \in Messages /\ Same(m) /\ Report(v)' = Report(v)
  <2>1. m \in Messages /\ message[m] # NoMessage
    BY HeldMessage DEF RecordInv, NoMessage
  <2>2. QED BY <2>1 DEF RecordInv, Same, Report
<1>2. ASSUME NEW run \in CurrentRuns(v) PROVE run \in CurrentRuns(v)'
  BY <1>2 DEF CurrentRuns
<1>3. \A steps : Underway(v, steps) => Underway(v, steps)'
  BY <1>1, <1>2 DEF Underway
<1>4. \A i : Recorded(m, i) => Recorded(m, i)'
  BY <1>1, RecordedStays DEF RunsOf
<1>5. RecordedBelow(m, worker[v].item) => RecordedBelow(m, worker[v].item)'
  BY <1>1, <1>4 DEF RecordedBelow, Same
<1>6. QED BY <1>1, <1>3, <1>5 DEF WorkFits

(* After a result a worker goes to the next one that has a test case: between
   the two there is nothing to record. *)
LEMMA NextFits ==
    ASSUME TypeOK, Holding, NEW w \in Workers, worker[w] # Asleep, NEW i \in Nat \ {0},
           NEW m, m = worker[w].msg,
           worker' = [worker EXCEPT ![w] = AtItem(w, NextMatch(Report(w), i))],
           message' = message,
           \A k \in DOMAIN Results[Report(w)] :
              (k < i /\ Matches(Report(w), k)) => Recorded(m, k)'
    PROVE  WorkFits(w)'
<1>1. PICK r \in Reports : r = Report(w)
  BY HeldMessage
<1>2. PICK j : j = NextMatch(r, i)
  OBVIOUS
<1>3. DOMAIN Results[r] \subseteq Nat /\ End(r) \notin DOMAIN Results[r]
  BY WebhookAssumption DEF WebhookAssumption, End
<1>4. /\ j \in Nat
      /\ j = End(r) \/ (j \in DOMAIN Results[r] /\ Matches(r, j))
      /\ \A k \in DOMAIN Results[r] : (i <= k /\ Matches(r, k)) => j <= k
  BY <1>2, NextMatchIsFirst
<1>5. /\ worker'[w].msg = m /\ worker'[w].item = j
      /\ worker'[w].stage = IF j = End(r) THEN "done" ELSE "start"
  BY <1>1, <1>2 DEF AtItem, TypeOK
<1>6. Report(w)' = r /\ message'[m].report = r
  BY <1>1, <1>5 DEF Report
<1>7. \A k \in DOMAIN Results[r] : (k < j /\ Matches(r, k)) => Recorded(m, k)'
  BY <1>1, <1>3, <1>4
<1>8. RecordedBelow(m, j)'
  BY <1>6, <1>7 DEF RecordedBelow
<1>9. RecordedBelow(worker[w].msg, worker[w].item)'
  BY <1>5, <1>8 DEF RecordedBelow
<1>10. QED BY <1>3, <1>4, <1>5, <1>6, <1>9 DEF WorkFits

(* Recording below a position is not undone by a step about that position. *)
LEMMA BelowStays ==
    ASSUME RecordInv, NEW w \in Workers, worker[w] # Asleep, message' = message,
           NEW m, m = worker[w].msg, NEW item, item = worker[w].item,
           RecordedBelow(m, item),
           \A run \in runs : run \in CurrentRuns(w) \/ run \in runs'
    PROVE  RecordedBelow(m, item)'
<1>1. m \in Messages /\ message[m] \in QueueMessages /\ item \in Nat
      /\ message[m].report \in Reports /\ Same(m)
  BY HeldMessage DEF RecordInv, NoMessage, Awake, Report, Same
<1>2. ASSUME NEW i \in DOMAIN Results[message[m].report], i < item,
             Matches(message[m].report, i)
      PROVE  Recorded(m, i)'
  <2>1. Recorded(m, i)
    BY <1>2 DEF RecordedBelow
  <2>2. i # item
    BY <1>1, <1>2, WebhookAssumption DEF WebhookAssumption
  <2>3. \A run \in RunsOf(m, i) : run \in runs'
    BY <2>2 DEF RunsOf, CurrentRuns
  <2>4. QED BY <1>1, <2>1, <2>3, RecordedStays
<1>3. QED BY <1>2 DEF RecordedBelow

(* A call that fails, and a worker that sleeps or has just woken, rely on
   nothing. *)
LEMMA IdleFits ==
    ASSUME NEW w \in Workers,
           worker'[w] = Asleep \/ worker'[w].stage \in {"token", "list", "failed"}
    PROVE  WorkFits(w)'
BY DEF WorkFits

(* Starting a run, when the answer comes. *)
LEMMA StartFits ==
    ASSUME RecordInv, NEW w \in Workers, startRun(w, TRUE)
    PROVE  WorkFits(w)'
<1>1. worker[w].stage = "start" /\ worker[w] # Asleep /\ worker[w] \in Awake
  BY DEF startRun, Asleep, RecordInv, TypeOK
<1>2. PICK m, item, r : m = worker[w].msg /\ item = worker[w].item /\ r = Report(w)
  OBVIOUS
<1> DEFINE new == [msg |-> worker[w].msg, item |-> worker[w].item,
                   delivery |-> message[worker[w].msg].dequeues,
                   case |-> keyMap(Results[Report(w)][worker[w].item].key),
                   state |-> "InProgress", steps |-> << >>,
                   globalStatus |-> "Unexecuted"]
<1>3. message' = message /\ runs' = runs \cup {new}
  BY <1>1, StartedRun DEF startRun, RecordInv
<1>4. new.msg = m /\ new.item = item /\ new.delivery = message[m].dequeues
      /\ new.case = keyMap(Results[r][item].key) /\ new.steps = << >>
  BY <1>2
<1>5. worker'[w].msg = m /\ worker'[w].item = item /\ worker'[w].stage = "save"
  <2> DEFINE to == [worker[w] EXCEPT !.stage = "save"]
  <2>1. to.msg = m /\ to.item = item /\ to.stage = "save"
    BY <1>1, <1>2 DEF Awake
  <2>2. worker' = [worker EXCEPT ![w] = to]
    BY DEF startRun, Advance
  <2> HIDE DEF to
  <2>3. QED BY <2>1, <2>2 DEF RecordInv, TypeOK
<1>6. Report(w)' = r
  BY <1>2, <1>3, <1>5 DEF Report
<1>7. RecordedBelow(m, item) /\ item \in DOMAIN Results[r] /\ Matches(r, item)
  BY <1>1, <1>2 DEF RecordInv, WorkFits
<1>8. RecordedBelow(worker[w].msg, worker[w].item)'
  <2>1. RecordedBelow(m, item)'
    BY <1>1, <1>2, <1>3, <1>7, BelowStays
  <2>2. QED BY <1>5, <2>1 DEF RecordedBelow
<1> HIDE DEF new
<1>9. new \in CurrentRuns(w)'
  BY <1>3, <1>4, <1>5 DEF CurrentRuns
<1>10. Underway(w, << >>)'
  BY <1>4, <1>5, <1>6, <1>9 DEF Underway
<1>11. QED BY <1>5, <1>6, <1>7, <1>8, <1>10 DEF WorkFits

(* Recording its step, when the answer comes. *)
LEMMA SaveFits ==
    ASSUME RecordInv, NEW w \in Workers, saveStepResult(w, TRUE)
    PROVE  WorkFits(w)'
<1>1. worker[w].stage = "save" /\ worker[w] # Asleep /\ worker[w] \in Awake
  BY DEF saveStepResult, Asleep, RecordInv, TypeOK
<1>2. PICK m, item, r : m = worker[w].msg /\ item = worker[w].item /\ r = Report(w)
  OBVIOUS
<1>3. /\ message' = message
      /\ \A run \in runs : run \in CurrentRuns(w) \/ run \in runs'
      /\ \A run \in CurrentRuns(w) :
            /\ Saved(w, run) \in runs' /\ SameRun(Saved(w, run), run)
            /\ Saved(w, run).steps = Append(run.steps, Verdict(r, item))
  BY <1>2, SavedRuns DEF saveStepResult, RecordInv
<1>4. worker'[w].msg = m /\ worker'[w].item = item /\ worker'[w].stage = "finalize"
  <2> DEFINE to == [worker[w] EXCEPT !.stage = "finalize"]
  <2>1. to.msg = m /\ to.item = item /\ to.stage = "finalize"
    BY <1>1, <1>2 DEF Awake
  <2>2. worker' = [worker EXCEPT ![w] = to]
    BY DEF saveStepResult, Advance
  <2> HIDE DEF to
  <2>3. QED BY <2>1, <2>2 DEF RecordInv, TypeOK
<1>5. Report(w)' = r
  BY <1>2, <1>3, <1>4 DEF Report
<1>6. RecordedBelow(m, item) /\ item \in DOMAIN Results[r] /\ Matches(r, item)
      /\ Underway(w, << >>)
  BY <1>1, <1>2 DEF RecordInv, WorkFits
<1>7. RecordedBelow(worker[w].msg, worker[w].item)'
  <2>1. RecordedBelow(m, item)'
    BY <1>1, <1>2, <1>3, <1>6, BelowStays
  <2>2. QED BY <1>4, <2>1 DEF RecordedBelow
<1>8. PICK run \in CurrentRuns(w) : run.case = keyMap(Results[r][item].key) /\ run.steps = << >>
  BY <1>2, <1>6 DEF Underway
<1>9. PICK new : new = Saved(w, run)
  OBVIOUS
<1>10. new \in runs' /\ SameRun(new, run) /\ new.steps = << Verdict(r, item) >>
  <2>1. Append(<< >>, Verdict(r, item)) = << Verdict(r, item) >>
    OBVIOUS
  <2>2. QED BY <1>3, <1>8, <1>9, <2>1
<1>11. new \in CurrentRuns(w)' /\ new.case = keyMap(Results[r][item].key)
  BY <1>2, <1>3, <1>4, <1>8, <1>10 DEF CurrentRuns, SameRun
<1>12. Underway(w, << Verdict(Report(w), worker[w].item) >>)'
  BY <1>4, <1>5, <1>10, <1>11 DEF Underway
<1>13. QED BY <1>4, <1>5, <1>6, <1>7, <1>12 DEF WorkFits

(* Ending the run, when the answer comes: this result is recorded as well. *)
LEMMA FinalizeFits ==
    ASSUME RecordInv, NEW w \in Workers, finalizeRun(w, TRUE)
    PROVE  WorkFits(w)'
<1>1. worker[w].stage = "finalize" /\ worker[w] # Asleep /\ worker[w] \in Awake
  BY DEF finalizeRun, Asleep, RecordInv, TypeOK
<1>2. PICK m \in Messages, item \in Nat, r \in Reports :
         m = worker[w].msg /\ item = worker[w].item /\ r = Report(w)
  BY <1>1, HeldMessage DEF RecordInv, Awake
<1>3. /\ message' = message
      /\ \A run \in runs : run \in CurrentRuns(w) \/ run \in runs'
      /\ \A run \in CurrentRuns(w) :
            /\ Finalized(run) \in runs' /\ SameRun(Finalized(run), run)
            /\ Finalized(run).state = "Completed"
            /\ Finalized(run).globalStatus = computeGlobalStatus(run.steps)
  BY FinalizedRuns DEF finalizeRun, RecordInv
<1>4. RecordedBelow(m, item) /\ message'[m].report = r
      /\ Underway(w, << Verdict(r, item) >>)
  BY <1>1, <1>2, <1>3 DEF RecordInv, WorkFits, Report
<1>5. RecordedBelow(m, item)'
  BY <1>1, <1>2, <1>3, <1>4, BelowStays
<1>6. Recorded(m, item)'
  <2>1. PICK run \in CurrentRuns(w) : /\ run.case = keyMap(Results[r][item].key)
                                      /\ run.steps = << Verdict(r, item) >>
    BY <1>2, <1>4 DEF Underway
  <2>2. computeGlobalStatus(run.steps) = Verdict(r, item)
    BY <2>1, StatusOfOne DEF Verdict, Verdicts
  <2>3. PICK new : new = Finalized(run)
    OBVIOUS
  <2>4. /\ new \in runs' /\ SameRun(new, run) /\ new.state = "Completed"
        /\ new.globalStatus = Verdict(r, item)
    BY <1>3, <2>2, <2>3
  <2>5. new.msg = m /\ new.item = item /\ new.case = keyMap(Results[r][item].key)
    BY <1>2, <2>1, <2>4 DEF SameRun, CurrentRuns
  <2>6. new \in RunsOf(m, item)'
    BY <2>4, <2>5 DEF RunsOf
  <2>7. QED BY <1>4, <2>4, <2>5, <2>6 DEF Recorded, IsRecord
<1>7. \A k \in DOMAIN Results[r] : (k < item + 1 /\ Matches(r, k)) => Recorded(m, k)'
  <2>1. ASSUME NEW k \in DOMAIN Results[r], k < item + 1, Matches(r, k)
        PROVE  Recorded(m, k)'
    <3>1. k \in Nat
      BY WebhookAssumption DEF WebhookAssumption
    <3>2. CASE k = item
      BY <1>6, <3>2
    <3>3. CASE k < item
      BY <1>4, <1>5, <2>1, <3>3 DEF RecordedBelow
    <3>4. QED BY <2>1, <3>1, <3>2, <3>3
  <2>2. QED BY <2>1
<1>8. worker' = [worker EXCEPT ![w] = AtItem(w, NextMatch(Report(w), item + 1))]
  BY <1>2 DEF finalizeRun, Advance
<1>9. item + 1 \in Nat \ {0}
  OBVIOUS
<1>10. QED BY <1>1, <1>2, <1>3, <1>7, <1>8, <1>9, NextFits DEF RecordInv

(* After its own step a worker relies on what is true. *)
LEMMA OwnFits ==
    ASSUME RecordInv, NEW w \in Workers, Work(w)
    PROVE  WorkFits(w)'
<1>1. TypeOK /\ Holding
  BY DEF RecordInv
<1>2. CASE (\E m \in Messages : dequeue(w, m)) \/ complete(w) \/ release(w)
  <2>1. worker'[w] = Asleep \/ worker'[w].stage \in {"token", "list", "failed"}
    <3>1. CASE \E m \in Messages : dequeue(w, m)
      <4>1. PICK m \in Messages : dequeue(w, m)
        BY <3>1
      <4>2. worker'[w] = [stage |-> "token", msg |-> m, item |-> 0]
        BY <1>1, <4>1 DEF dequeue, TypeOK
      <4>3. QED BY <4>2
    <3>2. CASE complete(w) \/ release(w)
      <4>1. worker'[w] = Asleep
        BY <1>1, <3>2 DEF complete, release, TypeOK
      <4>2. QED BY <4>1
    <3>3. QED BY <1>2, <3>1, <3>2
  <2>2. QED BY <2>1, IdleFits
<1>3. ASSUME NEW stage \in {"list", "failed"}, worker[w] # Asleep,
             worker' = [worker EXCEPT ![w] = [worker[w] EXCEPT !.stage = stage]]
      PROVE  WorkFits(w)'
  <2> DEFINE to == [worker[w] EXCEPT !.stage = stage]
  <2>1. to.stage = stage
    BY <1>1, <1>3 DEF TypeOK, Awake
  <2> HIDE DEF to
  <2>2. worker'[w].stage = stage
    BY <1>1, <1>3, <2>1 DEF TypeOK, to
  <2>3. QED BY <2>2, IdleFits
<1>4. CASE checkToken(w)
  BY <1>3, <1>4 DEF checkToken, Asleep
<1>5. CASE listTestCases(w)
  <2>1. worker[w] # Asleep
    BY <1>5 DEF listTestCases, Asleep
  <2>2. PICK m \in Messages, r \in Reports : m = worker[w].msg /\ r = Report(w)
    BY <1>1, <2>1, HeldMessage
  <2>3. \A k \in DOMAIN Results[r] : ~(k < 1)
    BY WebhookAssumption DEF WebhookAssumption
  <2>4. \A k \in DOMAIN Results[Report(w)] :
           (k < 1 /\ Matches(Report(w), k)) => Recorded(m, k)'
    BY <2>2, <2>3
  <2>5. /\ worker' = [worker EXCEPT ![w] = AtItem(w, NextMatch(Report(w), 1))]
        /\ message' = message
    BY <1>5 DEF listTestCases
  <2>6. 1 \in Nat \ {0}
    OBVIOUS
  <2>7. QED BY <1>1, <2>1, <2>2, <2>4, <2>5, <2>6, NextFits
<1>6. CASE startRun(w, FALSE) \/ saveStepResult(w, FALSE) \/ finalizeRun(w, FALSE)
  <2>1. worker[w].stage \in Stages
    BY <1>6 DEF startRun, saveStepResult, finalizeRun, Stages
  <2>2. worker' = [worker EXCEPT ![w] = [worker[w] EXCEPT !.stage = "failed"]]
    BY <1>6 DEF startRun, saveStepResult, finalizeRun, Advance
  <2>3. QED BY <1>3, <2>1, <2>2 DEF Asleep, Stages
<1>7. CASE startRun(w, TRUE) \/ saveStepResult(w, TRUE) \/ finalizeRun(w, TRUE)
  BY <1>7, StartFits, SaveFits, FinalizeFits
<1>8. QED BY <1>2, <1>4, <1>5, <1>6, <1>7 DEF Work

(* A report that leaves the queue is recorded, and stays so. *)
LEMMA DoneStays ==
    ASSUME RecordInv, NEW w \in Workers, Work(w)
    PROVE  DoneMeansRecorded'
<1>1. TypeOK /\ Holding
  BY DEF RecordInv
<1>2. ASSUME NEW n \in Messages, message'[n].state = "done"
      PROVE  /\ message[n] # NoMessage /\ Same(n)
             /\ \A run \in runs : run.msg = n => run \in runs'
             /\ \A i \in DOMAIN Results[message[n].report] :
                   Matches(message[n].report, i) => Recorded(n, i)
  <2>1. CASE message[n].state = "done" /\ (worker[w] # Asleep => n # worker[w].msg)
    <3>1. message[n] # NoMessage /\ Same(n)
      BY <1>1, <2>1, WorkType DEF NoMessage
    <3>2. \A run \in runs : run.msg = n => run \in runs'
      BY <1>1, <2>1, WorkIsOwn DEF CurrentRuns
    <3>3. \A i \in DOMAIN Results[message[n].report] :
             Matches(message[n].report, i) => Recorded(n, i)
      BY <2>1, DoneIsRecorded DEF RecordInv
    <3>4. QED BY <3>1, <3>2, <3>3
  <2>2. CASE complete(w) /\ n = worker[w].msg
    <3>1. worker[w] # Asleep /\ worker[w].stage = "done" /\ runs' = runs
      BY <2>2 DEF complete, Asleep
    <3>2. message[n] # NoMessage /\ Same(n) /\ message[n].report \in Reports
      BY <1>1, <2>2, <3>1, HeldMessage, WorkType DEF NoMessage, Report
    <3>3. RecordedBelow(n, End(message[n].report))
      BY <2>2, <3>1 DEF RecordInv, WorkFits, Report
    <3>4. \A i \in DOMAIN Results[message[n].report] : i < End(message[n].report)
      BY <3>2, WebhookAssumption DEF WebhookAssumption, End
    <3>5. QED BY <3>1, <3>2, <3>3, <3>4 DEF RecordedBelow
  <2>3. QED BY <1>1, <1>2, <2>1, <2>2, WorkIsOwn
<1>3. ASSUME NEW n \in Messages, message'[n].state = "done",
             NEW i \in DOMAIN Results[message'[n].report], Matches(message'[n].report, i)
      PROVE  Recorded(n, i)'
  <2>1. Same(n) /\ Recorded(n, i) /\ \A run \in RunsOf(n, i) : run \in runs'
    BY <1>2, <1>3 DEF Same, RunsOf
  <2>2. QED BY <2>1, RecordedStays
<1>4. QED BY <1>3, DoneIsRecorded DEF DoneMeansRecorded, Recorded, IsRecord

(* Every step keeps the invariant. *)
LEMMA RecordStep == RecordInv /\ [Next]_vars => RecordInv'
<1>1. CASE RecordInv /\ UNCHANGED << message, worker, runs >> /\ [Next]_vars
  <2>1. TypeOK' /\ Holding'
    BY <1>1, TypeStep DEF RecordInv
  <2>2. DoneMeansRecorded'
    BY <1>1 DEF RecordInv, DoneMeansRecorded, RunsOf
  <2>3. \A v \in Workers : WorkFits(v)'
    BY <1>1, OthersFit
  <2>4. QED BY <2>1, <2>2, <2>3 DEF RecordInv
<1> SUFFICES ASSUME RecordInv, Next PROVE RecordInv'
  BY <1>1 DEF vars
<1>2. TypeOK /\ Holding /\ TypeOK' /\ Holding'
  BY TypeStep DEF RecordInv
<1>3. CASE \E t \in Tokens : create(t) \/ revoke(t)
  BY <1>1, <1>3 DEF create, revoke
<1>4. ASSUME NEW h \in Posts, Ingest(h)
      PROVE  RecordInv'
  <2>1. /\ UNCHANGED << worker, runs >>
        /\ \A m \in Messages : message[m] # NoMessage => message'[m] = message[m]
    BY <1>2, <1>4, IngestType
  <2>2. \A v \in Workers : WorkFits(v)'
    BY <1>2, <2>1, OthersFit, HeldMessage DEF NoMessage
  <2>3. \A m \in Messages : message'[m].state = "done" =>
           message[m].state = "done" /\ message'[m] = message[m]
    <3>1. ASSUME NEW m \in Messages, message[m] = NoMessage
          PROVE  message'[m].state # "done"
      BY <1>2, <1>4, <3>1 DEF Ingest, Arrive, handleWebhookRequest, enqueue, lost, TypeOK, NoMessage
    <3>2. QED BY <2>1, <3>1
  <2>4. DoneMeansRecorded'
    BY <2>1, <2>3 DEF RecordInv, DoneMeansRecorded, RunsOf
  <2>5. QED BY <1>2, <2>2, <2>4 DEF RecordInv
<1>5. ASSUME NEW w \in Workers, Work(w)
      PROVE  RecordInv'
  <2>1. ASSUME NEW v \in Workers, v # w PROVE WorkFits(v)'
    <3>1. worker'[v] = worker[v]
          /\ (worker[v] # Asleep => message'[worker[v].msg] = message[worker[v].msg])
      BY <1>2, <1>5, <2>1, WorkIsOwn
    <3>2. worker[v] # Asleep => \A run \in runs : run.msg = worker[v].msg => run \in runs'
      BY <1>2, <1>5, <2>1, WorkIsOwn DEF CurrentRuns, Holding
    <3>3. QED BY <3>1, <3>2, OthersFit
  <2>2. WorkFits(w)' /\ DoneMeansRecorded'
    BY <1>5, OwnFits, DoneStays
  <2>3. QED BY <1>2, <2>1, <2>2 DEF RecordInv
<1>6. QED BY <1>3, <1>4, <1>5 DEF Next

(* In the beginning nothing is recorded and nothing has left the queue. *)
LEMMA RecordInit == Init => RecordInv
<1> SUFFICES ASSUME Init PROVE RecordInv
  OBVIOUS
<1>1. TypeOK /\ Holding
  BY TypeInit
<1>2. \A w \in Workers : WorkFits(w)
  BY DEF Init, WorkFits
<1>3. DoneMeansRecorded
  BY DEF Init, DoneMeansRecorded, NoMessage
<1>4. QED BY <1>1, <1>2, <1>3 DEF RecordInv

(* A report that left the queue has a completed run with the right verdict for
   every result with a test case, however often it was delivered before. *)
THEOREM DoneIsComplete == Spec => []DoneMeansRecorded
<1>1. RecordInv => DoneMeansRecorded
  BY DEF RecordInv
<1>2. QED BY <1>1, RecordInit, RecordStep, PTL DEF Spec

-----------------------------------------------------------------------------
(* The deliveries of a message are told apart by the runs they create: each
   creates at most one run of a result, and leaves at most one in progress. *)

OfDelivery(run, m, d) == run.msg = m /\ run.delivery = d

RunsFit ==
    \A run \in runs : /\ message[run.msg] # NoMessage
                      /\ run.delivery \in 1..message[run.msg].dequeues

OneEach ==
    \A run, other \in runs :
        /\ OfDelivery(other, run.msg, run.delivery)
        /\ run.item = other.item \/ (run.state = "InProgress" /\ other.state = "InProgress")
        => run = other

(* What the delivery under way has created so far: completed runs of results
   before the one it is at, and perhaps one of that. *)
DeliveryFits(w) ==
    worker[w] # Asleep =>
        \A run \in runs : OfDelivery(run, worker[w].msg, message[worker[w].msg].dequeues) =>
            /\ worker[w].stage \notin {"token", "list"}
            /\ worker[w].stage = "start" => run.item < worker[w].item
            /\ worker[w].stage \in {"start", "done"} => run.state = "Completed"
            /\ worker[w].stage \in {"save", "finalize"} =>
                  /\ run.item <= worker[w].item
                  /\ run.item # worker[w].item => run.state = "Completed"

DoneIsClosed ==
    \A run \in runs : (message[run.msg].state = "done"
                       /\ run.delivery = message[run.msg].dequeues) => run.state = "Completed"

(* A message that was taken from the queue was delivered. *)
Counted ==
    \A m \in Messages : message[m].state \in {"held", "done"} => message[m].dequeues # 0

LeftInv ==
    /\ TypeOK
    /\ Holding
    /\ Counted
    /\ RunsFit
    /\ OneEach
    /\ \A w \in Workers : DeliveryFits(w)
    /\ DoneIsClosed

(* A set of runs told apart by their delivery is no larger than the deliveries. *)
LEMMA ByDelivery ==
    ASSUME NEW S, NEW n \in Nat, \A s \in S : s.delivery \in 1..n,
           \A s, t \in S : s.delivery = t.delivery => s = t
    PROVE  IsFiniteSet(S) /\ Cardinality(S) <= n
<1> DEFINE f == [s \in S |-> s.delivery]
<1>1. f \in [S -> 1..n] /\ \A s, t \in S : f[s] = f[t] => s = t
  OBVIOUS
<1> HIDE DEF f
<1>2. f \in Injection(S, 1..n)
  BY <1>1 DEF Injection, IsInjective
<1>3. IsFiniteSet(1..n) /\ Cardinality(1..n) = n
  BY FS_Interval
<1>4. QED BY <1>2, <1>3, FS_Injection

(* Before the first delivery no run is left in progress. *)
LEMMA LeftInit == Init => LeftInv
BY TypeInit DEF Init, LeftInv, NoMessage, Counted, RunsFit, OneEach, DeliveryFits, DoneIsClosed, Asleep

(* A delivery that has created no run fits everywhere. *)
LEMMA NothingYet ==
    ASSUME LeftInv, NEW w \in Workers, worker[w].stage \in {"token", "list"}, NEW run \in runs
    PROVE  ~OfDelivery(run, worker[w].msg, message[worker[w].msg].dequeues)
<1>1. worker[w] # Asleep
  BY DEF Asleep
<1>2. QED BY <1>1 DEF LeftInv, DeliveryFits

(* A step that writes no run. *)
LEMMA RunsKept ==
    ASSUME LeftInv, runs' = runs, TypeOK', Holding', Counted',
           \A m \in Messages : message[m] # NoMessage =>
              message'[m] # NoMessage /\ message[m].dequeues <= message'[m].dequeues,
           \A w \in Workers : DeliveryFits(w)', DoneIsClosed'
    PROVE  LeftInv'
<1>1. ASSUME NEW run \in runs
      PROVE  message'[run.msg] # NoMessage /\ run.delivery \in 1..message'[run.msg].dequeues
  <2>1. run.msg \in Messages /\ run.delivery \in Nat
    BY DEF LeftInv, TypeOK, Executions
  <2>2. message[run.msg] # NoMessage /\ run.delivery \in 1..message[run.msg].dequeues
    BY DEF LeftInv, RunsFit
  <2>3. message'[run.msg] # NoMessage /\ message[run.msg].dequeues <= message'[run.msg].dequeues
    BY <2>1, <2>2
  <2>4. message[run.msg].dequeues \in Nat /\ message'[run.msg].dequeues \in Nat
    BY <2>1, <2>2, <2>3 DEF LeftInv, TypeOK, QueueMessages
  <2>5. QED BY <2>2, <2>3, <2>4
<1>2. RunsFit'
  BY <1>1 DEF RunsFit
<1>3. OneEach'
  BY DEF LeftInv, OneEach, OfDelivery
<1>4. QED BY <1>2, <1>3 DEF LeftInv

(* Messages and runs as they were. *)
LEMMA AllKept ==
    ASSUME LeftInv, runs' = runs, message' = message, TypeOK', Holding',
           \A w \in Workers : DeliveryFits(w)'
    PROVE  LeftInv'
<1>1. \A m \in Messages : message[m] # NoMessage =>
          message'[m] # NoMessage /\ message[m].dequeues <= message'[m].dequeues
  BY DEF LeftInv, TypeOK, QueueMessages
<1>2. DoneIsClosed' /\ Counted'
  BY DEF LeftInv, DoneIsClosed, Counted
<1>3. QED BY <1>1, <1>2, RunsKept

(* The deliveries of the other workers see neither. *)
LEMMA OthersDeliver ==
    ASSUME LeftInv, NEW v \in Workers, worker'[v] = worker[v],
           worker[v] # Asleep => message'[worker[v].msg] = message[worker[v].msg],
           worker[v] # Asleep => \A run \in runs' : run.msg = worker[v].msg => run \in runs
    PROVE  DeliveryFits(v)'
<1> SUFFICES ASSUME worker[v] # Asleep PROVE DeliveryFits(v)'
  BY DEF DeliveryFits
<1>1. DeliveryFits(v)
  BY DEF LeftInv
<1>2. QED BY <1>1 DEF DeliveryFits, OfDelivery

(* Rewriting the runs of the delivery under way, each in its place. *)
LEMMA Rewritten ==
    ASSUME LeftInv, NEW w \in Workers, NEW g, message' = message,
           runs' = (runs \ CurrentRuns(w)) \cup {g[run] : run \in CurrentRuns(w)},
           \A run \in CurrentRuns(w) :
              SameRun(g[run], run) /\ (g[run].state = run.state \/ g[run].state = "Completed")
    PROVE  /\ RunsFit' /\ OneEach'
           /\ \A run \in runs' : \E old \in runs :
                 /\ SameRun(run, old) /\ (run.state = "InProgress" => old.state = "InProgress")
                 /\ \/ old \notin CurrentRuns(w) /\ run = old
                    \/ old \in CurrentRuns(w) /\ run = g[old]
<1>1. ASSUME NEW run \in runs'
      PROVE  \E old \in runs :
                 /\ SameRun(run, old) /\ (run.state = "InProgress" => old.state = "InProgress")
                 /\ \/ old \notin CurrentRuns(w) /\ run = old
                    \/ old \in CurrentRuns(w) /\ run = g[old]
  <2>1. CASE run \in runs \ CurrentRuns(w)
    BY <2>1 DEF SameRun
  <2>2. ASSUME NEW old \in CurrentRuns(w), run = g[old]
        PROVE  /\ old \in runs /\ SameRun(run, old)
               /\ run.state = "InProgress" => old.state = "InProgress"
    BY <2>2 DEF CurrentRuns
  <2>3. QED BY <2>1, <2>2
<1>2. RunsFit'
  BY <1>1 DEF LeftInv, RunsFit, SameRun
<1>3. ASSUME NEW run \in runs', NEW other \in runs',
             OfDelivery(other, run.msg, run.delivery),
             run.item = other.item \/ (run.state = "InProgress" /\ other.state = "InProgress")
      PROVE  run = other
  <2>1. PICK old \in runs :
            /\ SameRun(run, old) /\ (run.state = "InProgress" => old.state = "InProgress")
            /\ \/ old \notin CurrentRuns(w) /\ run = old
               \/ old \in CurrentRuns(w) /\ run = g[old]
    BY <1>1
  <2>2. PICK old2 \in runs :
            /\ SameRun(other, old2) /\ (other.state = "InProgress" => old2.state = "InProgress")
            /\ \/ old2 \notin CurrentRuns(w) /\ other = old2
               \/ old2 \in CurrentRuns(w) /\ other = g[old2]
    BY <1>1
  <2>3. /\ OfDelivery(old2, old.msg, old.delivery)
        /\ old.item = old2.item \/ (old.state = "InProgress" /\ old2.state = "InProgress")
    BY <1>3, <2>1, <2>2 DEF SameRun, OfDelivery
  <2>4. old = old2
    BY <2>3 DEF LeftInv, OneEach
  <2>5. QED BY <2>1, <2>2, <2>4
<1>4. OneEach'
  BY <1>3 DEF OneEach, OfDelivery
<1>5. QED BY <1>1, <1>2, <1>4

-----------------------------------------------------------------------------
(* A step of a worker is of no concern to the deliveries of the others. *)
LEMMA OthersAreKept ==
    ASSUME LeftInv, NEW w \in Workers, Work(w), NEW v \in Workers \ {w}
    PROVE  DeliveryFits(v)'
<1>1. TypeOK /\ Holding
  BY DEF LeftInv
<1>2. worker'[v] = worker[v]
      /\ (worker[v] # Asleep => message'[worker[v].msg] = message[worker[v].msg])
  BY <1>1, WorkIsOwn
<1>3. ASSUME worker[v] # Asleep, NEW run \in runs', run.msg = worker[v].msg
      PROVE  run \in runs
  <2>1. run \notin runs => worker[w] # Asleep /\ run.msg = worker[w].msg
    BY <1>1, NewRunsAreOwn
  <2>2. QED BY <1>1, <1>3, <2>1 DEF Holding
<1>4. QED BY <1>2, <1>3, OthersDeliver

(* Taking a message from the queue begins a delivery without runs. *)
LEMMA DeliveryBegins ==
    ASSUME LeftInv, NEW w \in Workers, NEW m \in Messages, dequeue(w, m)
    PROVE  LeftInv'
<1>1. Work(w) /\ runs' = runs /\ message[m].state = "queued"
  BY DEF Work, dequeue
<1>2. TypeOK' /\ Holding'
  BY WorkerWakes DEF LeftInv
<1>3. message[m] \in QueueMessages
  BY <1>1 DEF LeftInv, TypeOK, NoMessage
<1>4. /\ message'[m].state = "held" /\ message'[m].dequeues = message[m].dequeues + 1
      /\ message'[m] # NoMessage
      /\ \A n \in Messages \ {m} : message'[n] = message[n]
  <2>1. message'[m] = [message[m] EXCEPT !.state = "held", !.dequeues = @ + 1]
        /\ \A n \in Messages \ {m} : message'[n] = message[n]
    BY DEF dequeue, LeftInv, TypeOK
  <2>2. message'[m].state = "held" /\ message'[m].dequeues = message[m].dequeues + 1
    BY <1>3, <2>1 DEF QueueMessages
  <2>3. message'[m] # NoMessage
    BY <2>2 DEF NoMessage
  <2>4. QED BY <2>1, <2>2, <2>3
<1>5. message[m].dequeues \in Nat
  BY <1>3 DEF QueueMessages
<1>6. \A n \in Messages : message[n] # NoMessage =>
          message'[n] # NoMessage /\ message[n].dequeues <= message'[n].dequeues
  <2>1. \A n \in Messages : message[n] # NoMessage => message[n].dequeues \in Nat
    BY DEF LeftInv, TypeOK, QueueMessages
  <2>2. QED BY <1>4, <1>5, <2>1
<1>7. DeliveryFits(w)'
  <2>1. worker'[w].msg = m
    BY DEF dequeue, LeftInv, TypeOK
  <2>2. ASSUME NEW run \in runs, run.msg = m PROVE run.delivery # message'[m].dequeues
    BY <1>4, <1>5, <2>2 DEF LeftInv, RunsFit
  <2>3. QED BY <1>1, <2>1, <2>2 DEF DeliveryFits, OfDelivery
<1>8. DoneIsClosed'
  BY <1>1, <1>4 DEF LeftInv, TypeOK, Executions, DoneIsClosed
<1>9. \A v \in Workers : DeliveryFits(v)'
  BY <1>1, <1>7, OthersAreKept
<1>10. Counted'
  BY <1>4, <1>5 DEF LeftInv, Counted
<1>11. QED BY <1>1, <1>2, <1>6, <1>8, <1>9, <1>10, RunsKept

(* Reading the token and the list of cases records nothing. *)
LEMMA DeliveryGoesOn ==
    ASSUME LeftInv, NEW w \in Workers, checkToken(w) \/ listTestCases(w)
    PROVE  LeftInv'
<1>1. Work(w) /\ runs' = runs /\ message' = message /\ worker[w].stage \in {"token", "list"}
  BY DEF Work, checkToken, listTestCases
<1>2. TypeOK' /\ Holding'
  BY CallType DEF LeftInv
<1>3. worker'[w].msg = worker[w].msg
  <2>1. worker[w] \in Awake
    BY <1>1 DEF LeftInv, TypeOK, Asleep
  <2>2. CASE checkToken(w)
    <3> DEFINE to == [worker[w] EXCEPT !.stage = "list"]
    <3>1. to.msg = worker[w].msg
      BY <2>1 DEF Awake
    <3> HIDE DEF to
    <3>2. worker'[w] = to
      BY <2>2 DEF checkToken, LeftInv, TypeOK, to
    <3>3. QED BY <3>1, <3>2
  <2>3. CASE listTestCases(w)
    <3> DEFINE to == AtItem(w, NextMatch(Report(w), 1))
    <3>1. to.msg = worker[w].msg
      BY DEF AtItem
    <3> HIDE DEF to
    <3>2. worker'[w] = to
      BY <2>3 DEF listTestCases, LeftInv, TypeOK, to
    <3>3. QED BY <3>1, <3>2
  <2>4. QED BY <2>2, <2>3
<1>4. \A run \in runs : ~OfDelivery(run, worker[w].msg, message[worker[w].msg].dequeues)
  BY <1>1, NothingYet
<1>5. DeliveryFits(w)'
  BY <1>1, <1>3, <1>4 DEF DeliveryFits, OfDelivery
<1>6. \A v \in Workers : DeliveryFits(v)'
  BY <1>1, <1>5, OthersAreKept
<1>7. QED BY <1>1, <1>2, <1>6, AllKept

(* A call whose answer is lost leaves the delivery failed; one that is
   answered leads to the next stage. *)
LEMMA Answered ==
    ASSUME LeftInv, NEW w \in Workers, worker[w] # Asleep, NEW answered \in BOOLEAN,
           NEW then \in Awake, then.msg = worker[w].msg, Advance(w, answered, then)
    PROVE  /\ worker'[w].msg = worker[w].msg
           /\ worker'[w].stage = "failed" \/ worker'[w] = then
<1>1. worker[w] \in Awake
  BY DEF LeftInv, TypeOK
<1> DEFINE failed == [worker[w] EXCEPT !.stage = "failed"]
<1>2. failed.stage = "failed" /\ failed.msg = worker[w].msg
  BY <1>1 DEF Awake
<1>3. worker' = [worker EXCEPT ![w] = IF answered THEN then ELSE failed]
  BY DEF Advance
<1> HIDE DEF failed
<1>4. QED BY <1>2, <1>3 DEF LeftInv, TypeOK

(* A new run is one of the result at hand, and the only one of its delivery. *)
LEMMA DeliveryStarts ==
    ASSUME LeftInv, NEW w \in Workers, NEW answered \in BOOLEAN, startRun(w, answered)
    PROVE  LeftInv'
<1>1. Work(w) /\ message' = message /\ worker[w].stage = "start" /\ worker[w] # Asleep
  BY DEF Work, startRun, Asleep
<1>2. TypeOK /\ Holding /\ TypeOK' /\ Holding'
  BY CallType DEF LeftInv
<1>3. worker[w] \in Awake /\ message[worker[w].msg] \in QueueMessages
      /\ worker[w].msg \in Messages /\ message[worker[w].msg].state = "held"
  BY <1>1, <1>2, HeldMessage
<1>4. worker[w].item \in Nat /\ message[worker[w].msg].dequeues \in Nat
  BY <1>3 DEF Awake, QueueMessages
<1> DEFINE new == [msg |-> worker[w].msg, item |-> worker[w].item,
                   delivery |-> message[worker[w].msg].dequeues,
                   case |-> keyMap(Results[Report(w)][worker[w].item].key),
                   state |-> "InProgress", steps |-> << >>,
                   globalStatus |-> "Unexecuted"]
<1>5. runs' = runs \cup {new} /\ new \in Executions
  BY <1>2, StartedRun
<1>6. new.msg = worker[w].msg /\ new.item = worker[w].item /\ new.state = "InProgress"
      /\ new.delivery = message[worker[w].msg].dequeues
  OBVIOUS
<1> HIDE DEF new
<1>7. \A run \in runs : OfDelivery(run, new.msg, new.delivery) =>
          run.state = "Completed" /\ run.item < worker[w].item
  BY <1>1, <1>6 DEF LeftInv, DeliveryFits
<1>8. \A run \in runs : run.item \in Nat
  BY <1>2 DEF TypeOK, Executions
<1>9. RunsFit'
  <2>1. message[new.msg] # NoMessage
    BY <1>3, <1>6 DEF NoMessage
  <2>2. new.delivery # 0
    <3>1. message[worker[w].msg].dequeues # 0
      BY <1>3 DEF LeftInv, Counted
    <3>2. QED BY <1>6, <3>1
  <2>3. new.delivery \in 1..message[new.msg].dequeues
    BY <1>4, <1>6, <2>2
  <2>4. QED BY <1>1, <1>5, <2>1, <2>3 DEF LeftInv, RunsFit
<1>10. ASSUME NEW run \in runs, OfDelivery(run, new.msg, new.delivery)
       PROVE  run.item # new.item /\ run.state # "InProgress"
  BY <1>4, <1>6, <1>7, <1>8, <1>10
<1>11. OneEach'
  BY <1>5, <1>10 DEF LeftInv, OneEach, OfDelivery
<1>12. DeliveryFits(w)'
  <2> DEFINE to == [worker[w] EXCEPT !.stage = "save"]
  <2>1. to \in Awake /\ to.msg = worker[w].msg /\ to.stage = "save"
        /\ to.item = worker[w].item
    BY <1>3 DEF Awake, Stages
  <2>2. Advance(w, answered, to)
    BY DEF startRun
  <2> HIDE DEF to
  <2>3. worker'[w].msg = worker[w].msg /\ (worker'[w].stage = "failed" \/ worker'[w] = to)
    BY <1>1, <2>1, <2>2, Answered
  <2>4. CASE worker'[w].stage = "failed"
    BY <2>4 DEF DeliveryFits
  <2>5. CASE worker'[w] = to
    <3>1. \A run \in runs' : OfDelivery(run, worker[w].msg, message[worker[w].msg].dequeues) =>
             /\ run.item <= worker[w].item
             /\ run.item # worker[w].item => run.state = "Completed"
      BY <1>4, <1>5, <1>6, <1>7, <1>8
    <3>2. QED BY <1>1, <2>1, <2>5, <3>1 DEF DeliveryFits
  <2>6. QED BY <2>3, <2>4, <2>5
<1>13. DoneIsClosed'
  <2>1. message[new.msg].state # "done"
    BY <1>3, <1>6
  <2>2. QED BY <1>1, <1>5, <2>1 DEF LeftInv, DoneIsClosed
<1>14. \A v \in Workers : DeliveryFits(v)'
  BY <1>1, <1>12, OthersAreKept
<1>15. Counted'
  BY <1>1 DEF LeftInv, Counted
<1>16. QED BY <1>2, <1>9, <1>11, <1>13, <1>14, <1>15 DEF LeftInv

(* A call that rewrites the run at hand: the rest of the invariant follows from
   what the delivery relies on next. *)
LEMMA DeliveryRewrites ==
    ASSUME LeftInv, NEW w \in Workers, Work(w), worker[w] # Asleep, message' = message,
           TypeOK', Holding', RunsFit', OneEach', DeliveryFits(w)',
           \A run \in runs' : \E old \in runs :
              SameRun(run, old) /\ (run.state = "InProgress" => old.state = "InProgress")
    PROVE  LeftInv'
<1>1. \A v \in Workers : DeliveryFits(v)'
  BY OthersAreKept
<1>2. Counted'
  BY DEF LeftInv, Counted
<1>3. DoneIsClosed'
  <2>1. ASSUME NEW run \in runs', message[run.msg].state = "done",
               run.delivery = message[run.msg].dequeues
        PROVE  run.state = "Completed"
    <3>1. PICK old \in runs :
             SameRun(run, old) /\ (run.state = "InProgress" => old.state = "InProgress")
      OBVIOUS
    <3>2. old.state = "Completed"
      BY <2>1, <3>1 DEF LeftInv, DoneIsClosed, SameRun
    <3>3. QED BY <3>1, <3>2 DEF TypeOK, Executions
  <2>2. QED BY <2>1 DEF DoneIsClosed
<1>4. QED BY <1>1, <1>2, <1>3 DEF LeftInv

(* Recording the step of a result keeps its run where it was. *)
LEMMA DeliverySaves ==
    ASSUME LeftInv, NEW w \in Workers, NEW answered \in BOOLEAN, saveStepResult(w, answered)
    PROVE  LeftInv'
<1>1. Work(w) /\ message' = message /\ worker[w].stage = "save" /\ worker[w] # Asleep
  <2>1. Work(w)
    BY DEF Work
  <2>2. message' = message /\ worker[w].stage = "save"
    BY DEF saveStepResult
  <2>3. QED BY <2>1, <2>2 DEF Asleep
<1>2. TypeOK /\ Holding /\ TypeOK' /\ Holding'
  BY CallType DEF LeftInv
<1> DEFINE g == [run \in CurrentRuns(w) |-> Saved(w, run)]
<1>3. runs' = (runs \ CurrentRuns(w)) \cup {g[run] : run \in CurrentRuns(w)}
  BY DEF saveStepResult, Rewrite, Saved
<1>4. \A run \in CurrentRuns(w) :
         SameRun(g[run], run) /\ (g[run].state = run.state \/ g[run].state = "Completed")
  BY <1>2, SavedRuns
<1> HIDE DEF g
<1>5. /\ RunsFit' /\ OneEach'
      /\ \A run \in runs' : \E old \in runs :
            SameRun(run, old) /\ (run.state = "InProgress" => old.state = "InProgress")
  BY <1>1, <1>3, <1>4, Rewritten
<1>6. worker[w] \in Awake
  BY <1>1, <1>2 DEF TypeOK
<1> DEFINE to == [worker[w] EXCEPT !.stage = "finalize"]
<1>7. to \in Awake /\ to.msg = worker[w].msg /\ to.stage = "finalize"
      /\ to.item = worker[w].item
  BY <1>6 DEF Awake, Stages
<1>8. Advance(w, answered, to)
  BY DEF saveStepResult
<1> HIDE DEF to
<1>9. worker'[w].msg = worker[w].msg /\ (worker'[w].stage = "failed" \/ worker'[w] = to)
  BY <1>1, <1>7, <1>8, Answered
<1>10. DeliveryFits(w)'
  <2>1. CASE worker'[w].stage = "failed"
    BY <2>1 DEF DeliveryFits
  <2>2. CASE worker'[w] = to
    <3>1. ASSUME NEW run \in runs',
                 OfDelivery(run, worker[w].msg, message[worker[w].msg].dequeues)
          PROVE  /\ run.item <= worker[w].item
                 /\ run.item # worker[w].item => run.state = "Completed"
      <4>1. PICK old \in runs :
               SameRun(run, old) /\ (run.state = "InProgress" => old.state = "InProgress")
        BY <1>5
      <4>2. /\ old.item <= worker[w].item
            /\ old.item # worker[w].item => old.state = "Completed"
        BY <1>1, <3>1, <4>1 DEF LeftInv, DeliveryFits, OfDelivery, SameRun
      <4>3. run.state \in {"InProgress", "Completed"}
        BY <1>2 DEF TypeOK, Executions
      <4>4. QED BY <4>1, <4>2, <4>3 DEF SameRun
    <3>2. QED BY <1>1, <1>7, <2>2, <3>1 DEF DeliveryFits
  <2>3. QED BY <1>9, <2>1, <2>2
<1>11. QED BY <1>1, <1>2, <1>5, <1>10, DeliveryRewrites

(* Ending the run: all runs of the delivery are complete, and of results before
   the one that comes next. *)
LEMMA DeliveryFinalizes ==
    ASSUME LeftInv, NEW w \in Workers, NEW answered \in BOOLEAN, finalizeRun(w, answered)
    PROVE  LeftInv'
<1>1. Work(w) /\ message' = message /\ worker[w].stage = "finalize" /\ worker[w] # Asleep
  BY DEF Work, finalizeRun, Asleep
<1>2. TypeOK /\ Holding /\ TypeOK' /\ Holding'
  BY CallType DEF LeftInv
<1> DEFINE g == [run \in CurrentRuns(w) |-> Finalized(run)]
<1>3. runs' = (runs \ CurrentRuns(w)) \cup {g[run] : run \in CurrentRuns(w)}
  BY DEF finalizeRun, Rewrite
<1>4. \A run \in CurrentRuns(w) : SameRun(g[run], run) /\ g[run].state = "Completed"
  BY <1>2, FinalizedRuns
<1> HIDE DEF g
<1>5. /\ RunsFit' /\ OneEach'
      /\ \A run \in runs' : \E old \in runs :
            /\ SameRun(run, old) /\ (run.state = "InProgress" => old.state = "InProgress")
            /\ \/ old \notin CurrentRuns(w) /\ run = old
               \/ old \in CurrentRuns(w) /\ run = g[old]
  BY <1>1, <1>3, <1>4, Rewritten
<1>6. worker[w] \in Awake /\ Report(w) \in Reports
  BY <1>1, <1>2, HeldMessage
<1>7. PICK item \in Nat, r \in Reports : item = worker[w].item /\ r = Report(w)
  BY <1>6 DEF Awake
<1>8. PICK j \in Nat : j = NextMatch(r, item + 1) /\ (j = End(r) \/ item + 1 <= j)
  <2>1. item + 1 \in Nat \ {0}
    OBVIOUS
  <2>2. QED BY <2>1, NextMatchIsFirst
<1> DEFINE to == AtItem(w, j)
<1>9. /\ to \in Awake /\ to.msg = worker[w].msg /\ to.item = j
      /\ to.stage = IF j = End(r) THEN "done" ELSE "start"
  BY <1>1, <1>2, <1>7, AtItemType DEF AtItem
<1>10. Advance(w, answered, to)
  BY <1>7, <1>8 DEF finalizeRun
<1> HIDE DEF to
<1>11. worker'[w].msg = worker[w].msg /\ (worker'[w].stage = "failed" \/ worker'[w] = to)
  BY <1>1, <1>9, <1>10, Answered
<1>12. ASSUME NEW run \in runs',
              OfDelivery(run, worker[w].msg, message[worker[w].msg].dequeues)
       PROVE  run.item \in Nat /\ run.item <= item /\ run.state = "Completed"
  <2>1. PICK old \in runs :
           /\ SameRun(run, old) /\ (run.state = "InProgress" => old.state = "InProgress")
           /\ \/ old \notin CurrentRuns(w) /\ run = old
              \/ old \in CurrentRuns(w) /\ run = g[old]
    BY <1>5
  <2>2. OfDelivery(old, worker[w].msg, message[worker[w].msg].dequeues)
    BY <1>12, <2>1 DEF OfDelivery, SameRun
  <2>3. old.item <= item /\ (old.item # item => old.state = "Completed")
    BY <1>1, <1>7, <2>2 DEF LeftInv, DeliveryFits
  <2>4. old.item = item => old \in CurrentRuns(w)
    BY <1>7, <2>2 DEF OfDelivery, CurrentRuns
  <2>5. run.state = "Completed"
    BY <1>4, <2>1, <2>3, <2>4
  <2>6. run.item \in Nat
    BY <1>2 DEF TypeOK, Executions
  <2>7. QED BY <2>1, <2>3, <2>5, <2>6 DEF SameRun
<1>13. DeliveryFits(w)'
  <2>1. CASE worker'[w].stage = "failed"
    BY <2>1 DEF DeliveryFits
  <2>2. CASE worker'[w] = to
    <3>1. \A run \in runs' : OfDelivery(run, worker[w].msg, message[worker[w].msg].dequeues)
             => (to.stage = "start" => run.item < j) /\ run.state = "Completed"
      BY <1>8, <1>9, <1>12
    <3>2. to.stage \in {"start", "done"}
      BY <1>9
    <3>3. QED BY <1>1, <1>9, <2>2, <3>1, <3>2 DEF DeliveryFits
  <2>3. QED BY <1>11, <2>1, <2>2
<1>14. QED BY <1>1, <1>2, <1>5, <1>13, DeliveryRewrites

(* A worker that ends its delivery: complete after the last result, or failed. *)
LEMMA DeliveryEnds ==
    ASSUME LeftInv, NEW w \in Workers, complete(w) \/ release(w)
    PROVE  LeftInv'
<1>1. runs' = runs /\ worker[w] # Asleep
  BY DEF complete, release, Asleep
<1>2. Work(w)
  BY DEF Work
<1>3. TypeOK' /\ Holding'
  BY <1>2, WorkType DEF LeftInv
<1>4. PICK m \in Messages : m = worker[w].msg /\ message[m] \in QueueMessages
  BY <1>1, HeldMessage DEF LeftInv
<1>5. PICK state \in {"queued", "done", "poison"} :
         message' = [message EXCEPT ![m].state = state] /\ (state = "done" => complete(w))
  <2>1. CASE complete(w)
    BY <1>4, <2>1 DEF complete
  <2>2. CASE release(w)
    BY <1>4, <2>2 DEF release
  <2>3. QED BY <2>1, <2>2
<1>6. /\ message'[m] # NoMessage /\ message'[m].state = state
      /\ message'[m].dequeues = message[m].dequeues
      /\ \A n \in Messages \ {m} : message'[n] = message[n]
  <2>1. message'[m] = [message[m] EXCEPT !.state = state]
        /\ \A n \in Messages \ {m} : message'[n] = message[n]
    BY <1>5 DEF LeftInv, TypeOK
  <2>2. message'[m].state = state /\ message'[m].dequeues = message[m].dequeues
    BY <1>4, <2>1 DEF QueueMessages
  <2>3. message'[m] # NoMessage
    BY <2>2 DEF NoMessage
  <2>4. QED BY <2>1, <2>2, <2>3
<1>7. \A n \in Messages : message[n] # NoMessage =>
          message'[n] # NoMessage /\ message[n].dequeues <= message'[n].dequeues
  <2>1. \A n \in Messages : message[n] # NoMessage => message[n].dequeues \in Nat
    BY DEF LeftInv, TypeOK, QueueMessages
  <2>2. message[m].dequeues \in Nat
    BY <1>4 DEF QueueMessages
  <2>3. QED BY <1>6, <2>1, <2>2
<1>8. Counted'
  <2>1. message[m].state = "held"
    BY <1>1, <1>4 DEF LeftInv, Holding
  <2>2. QED BY <1>6, <2>1 DEF LeftInv, Counted
<1>9. DoneIsClosed'
  <2>1. ASSUME NEW run \in runs, run.msg = m, state = "done",
               run.delivery = message[m].dequeues
        PROVE  run.state = "Completed"
    BY <1>1, <1>4, <1>5, <2>1 DEF complete, LeftInv, DeliveryFits, OfDelivery
  <2>2. ASSUME NEW run \in runs, message'[run.msg].state = "done",
               run.delivery = message'[run.msg].dequeues
        PROVE  run.state = "Completed"
    <3>1. CASE run.msg = m
      BY <1>6, <2>1, <2>2, <3>1
    <3>2. CASE run.msg # m
      <4>1. run.msg \in Messages
        BY DEF LeftInv, TypeOK, Executions
      <4>2. QED BY <1>6, <2>2, <3>2, <4>1 DEF LeftInv, DoneIsClosed
    <3>3. QED BY <3>1, <3>2
  <2>3. QED BY <1>1, <2>2 DEF DoneIsClosed
<1>10. DeliveryFits(w)'
  <2>1. worker'[w] = Asleep
    BY DEF complete, release, LeftInv, TypeOK
  <2>2. QED BY <2>1 DEF DeliveryFits
<1>11. \A v \in Workers : DeliveryFits(v)'
  BY <1>2, <1>10, OthersAreKept
<1>12. QED BY <1>1, <1>3, <1>7, <1>8, <1>9, <1>11, RunsKept

(* Every step keeps the deliveries told apart. *)
LEMMA LeftStep == LeftInv /\ [Next]_vars => LeftInv'
<1> SUFFICES ASSUME LeftInv, [Next]_vars PROVE LeftInv'
  OBVIOUS
<1>1. TypeOK' /\ Holding'
  BY TypeStep DEF LeftInv
<1>2. ASSUME UNCHANGED << message, worker, runs >> PROVE LeftInv'
  <2>1. \A v \in Workers : DeliveryFits(v)'
    BY <1>2, OthersDeliver
  <2>2. QED BY <1>1, <1>2, <2>1, AllKept
<1>3. ASSUME NEW h \in Posts, Ingest(h) PROVE LeftInv'
  <2>1. /\ UNCHANGED << worker, runs >>
        /\ \A m \in Messages : message[m] # NoMessage => message'[m] = message[m]
    BY <1>3, IngestType DEF LeftInv
  <2>2. \A v \in Workers : worker[v] # Asleep => message'[worker[v].msg] = message[worker[v].msg]
    BY <2>1, HeldMessage DEF LeftInv, NoMessage
  <2>3. \A v \in Workers : DeliveryFits(v)'
    BY <2>1, <2>2, OthersDeliver
  <2>4. \A m \in Messages : message[m] # NoMessage =>
            message'[m] # NoMessage /\ message[m].dequeues <= message'[m].dequeues
    BY <2>1 DEF LeftInv, TypeOK, QueueMessages
  <2>5. \A run \in runs : run.msg \in Messages /\ message'[run.msg] = message[run.msg]
    BY <2>1 DEF LeftInv, RunsFit, TypeOK, Executions
  <2>6. DoneIsClosed'
    BY <2>1, <2>5 DEF LeftInv, DoneIsClosed
  <2>7. \A m \in Messages : message[m] = NoMessage =>
            message'[m].state \notin {"held", "done"}
    BY <1>3 DEF Ingest, Arrive, handleWebhookRequest, enqueue, lost, LeftInv, TypeOK, NoMessage
  <2>8. Counted'
    BY <2>1, <2>7 DEF LeftInv, Counted
  <2>9. QED BY <1>1, <2>1, <2>3, <2>4, <2>6, <2>8, RunsKept
<1>4. ASSUME NEW w \in Workers, Work(w) PROVE LeftInv'
  BY <1>4, DeliveryBegins, DeliveryGoesOn, DeliveryStarts, DeliverySaves, DeliveryFinalizes,
     DeliveryEnds DEF Work
<1>5. CASE UNCHANGED vars
  BY <1>2, <1>5 DEF vars
<1>6. CASE \E t \in Tokens : create(t) \/ revoke(t)
  BY <1>2, <1>6 DEF create, revoke
<1>7. QED BY <1>3, <1>4, <1>5, <1>6 DEF Next

(* A failed delivery leaves one run in progress at most, and every delivery
   adds one run of a result at most. *)
LEMMA OnlyLeftovers == LeftInv => OneLeftoverPerFailure
<1> SUFFICES ASSUME LeftInv, NEW m \in Messages, message[m] # NoMessage
             PROVE  /\ Cardinality(Abandoned(m)) <= FailedDeliveries(m)
                    /\ \A i \in DOMAIN Results[message[m].report] :
                          Cardinality(RunsOf(m, i)) <= message[m].dequeues
  BY DEF OneLeftoverPerFailure
<1>1. message[m] \in QueueMessages /\ message[m].dequeues \in Nat
  BY DEF LeftInv, TypeOK, QueueMessages
<1>2. \A run \in runs : run.msg = m => run.delivery \in 1..message[m].dequeues
  BY DEF LeftInv, RunsFit
<1>3. ASSUME NEW i PROVE Cardinality(RunsOf(m, i)) <= message[m].dequeues
  <2>1. \A run \in RunsOf(m, i) : run.delivery \in 1..message[m].dequeues
    BY <1>2 DEF RunsOf
  <2>2. \A run, other \in RunsOf(m, i) : run.delivery = other.delivery => run = other
    BY DEF RunsOf, LeftInv, OneEach, OfDelivery
  <2>3. QED BY <1>1, <2>1, <2>2, ByDelivery
<1>4. \A run, other \in Abandoned(m) : run.delivery = other.delivery => run = other
  BY DEF Abandoned, LeftInv, OneEach, OfDelivery
<1>5. PICK n : n = FailedDeliveries(m)
  OBVIOUS
<1>6. n \in Nat /\ \A run \in Abandoned(m) : run.delivery \in 1..n
  <2>1. CASE message[m].state \in {"held", "done"}
    <3>1. n = message[m].dequeues - 1 /\ message[m].dequeues # 0
      BY <1>5, <2>1 DEF FailedDeliveries, LeftInv, Counted
    <3>2. ASSUME NEW run \in Abandoned(m) PROVE run.delivery # message[m].dequeues
      <4>1. run.delivery \in 1..message[m].dequeues
        BY <1>2 DEF Abandoned
      <4>2. CASE message[m].state = "held"
        BY <1>1, <4>1, <4>2 DEF Abandoned
      <4>3. CASE message[m].state = "done"
        BY <4>3 DEF Abandoned, LeftInv, DoneIsClosed
      <4>4. QED BY <2>1, <4>2, <4>3
    <3>3. \A run \in Abandoned(m) : run.delivery \in 1..message[m].dequeues
      BY <1>2 DEF Abandoned
    <3>4. QED BY <1>1, <3>1, <3>2, <3>3
  <2>2. CASE message[m].state \notin {"held", "done"}
    BY <1>1, <1>2, <1>5, <2>2 DEF FailedDeliveries, Abandoned
  <2>3. QED BY <2>1, <2>2
<1>7. Cardinality(Abandoned(m)) <= n
  BY <1>4, <1>6, ByDelivery
<1>8. QED BY <1>3, <1>5, <1>7

(* However often a report is delivered, it leaves at most one run in progress
   for each failed delivery, and no delivery records a result twice. *)
THEOREM LeftoversAreBounded == Spec => []OneLeftoverPerFailure
BY LeftInit, LeftStep, OnlyLeftovers, PTL DEF Spec
=============================================================================
