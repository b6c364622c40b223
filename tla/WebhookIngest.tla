---------------------------- MODULE WebhookIngest ----------------------------
(***************************************************************************)
(* Continuous integration results pushed to the Cloud-Plus backend:        *)
(* token-service.ts, webhook-handler.ts, queue-processor.ts and            *)
(* functions.ts of apps/argos-functions/src/webhooks.                      *)
(*                                                                         *)
(* An HTTP function authenticates a posted report and puts it on a storage *)
(* queue; a queue function records one execution per matched test result   *)
(* with three calls of the execution service (startRun, saveStepResult,    *)
(* finalizeRun).  The queue delivers at least once: a handler that throws, *)
(* or a host that dies, gives the message back until it has been delivered *)
(* MaxDequeue times, then it is put aside as poison.  The worker keeps no  *)
(* record of what an earlier delivery did.                                 *)
(*                                                                         *)
(* Nobody else knows the id of a run the worker has just created, so each  *)
(* call of the execution service is one step here; how such calls overlap  *)
(* with those of other clients is the subject of TestExecution.  A run is  *)
(* identified by its message, the position of its result in the report and *)
(* the delivery that created it.  A malformed body parses to no results.   *)
(***************************************************************************)
EXTENDS GlobalStatus, FiniteSets

CONSTANTS Tokens, Posts, Workers,
          Reports,     \* the bodies continuous integration jobs send
          Results,     \* Results[r]: the parsed results of report r, in order
          CaseKeys,    \* CaseKeys[id]: the automation key of test case id
          NoKey,       \* a result or a test case without an automation key
          Top,         \* how many test cases one listing returns
          MaxMessages, \* bound: reports accepted
          MaxDequeue   \* deliveries before a message is poison

VARIABLES
    token,    \* token[t]: "none", "active" or "revoked"
    post,     \* post[h]: the request HTTP function h is serving, or NoPost
    message,  \* message[m]: the m-th queue message
    worker,   \* worker[w]: the message queue function w is processing, or Asleep
    runs      \* the executions created by the workers

vars == << token, post, message, worker, runs >>

Messages == 1..MaxMessages
CaseIds == DOMAIN CaseKeys

WebhookAssumption ==
    /\ Top \in Nat
    /\ MaxMessages \in Nat
    /\ MaxDequeue \in Nat \ {0}
    /\ \A r \in Reports :
          /\ Len(Results[r]) \in Nat
          /\ DOMAIN Results[r] = 1..Len(Results[r])
          /\ \A i \in DOMAIN Results[r] : Results[r][i].fails \in BOOLEAN
ASSUME WebhookAssumption

NoPost == [stage |-> "none"]
Asleep == [stage |-> "asleep"]
NoMessage == [state |-> "none", token |-> "none", report |-> "none", dequeues |-> 0]

-----------------------------------------------------------------------------
(* Matching a result with a test case *)

(* list({top}) returns the highest ids first and stops after Top of them. *)
Listed == {id \in CaseIds : Cardinality({other \in CaseIds : other > id}) < Top}

Candidates(key) == {id \in Listed : CaseKeys[id] = key}

(* The map is filled in the order of the list: the last id, the lowest, wins. *)
keyMap(key) == CHOOSE id \in Candidates(key) : \A other \in Candidates(key) : id <= other

Matches(r, i) == Results[r][i].key # NoKey /\ Candidates(Results[r][i].key) # {}

End(r) == Len(Results[r]) + 1

(* The first result from position i on that has a test case, or the end. *)
NextMatch(r, i) ==
    LET later == {j \in DOMAIN Results[r] : j >= i /\ Matches(r, j)} \cup {End(r)}
    IN CHOOSE j \in later : \A other \in later : j <= other

Verdict(r, i) == IF Results[r][i].fails THEN "Fail" ELSE "Pass"

-----------------------------------------------------------------------------
(* Tokens: ids are fresh, revokedAt is never removed *)

create(t) ==
    /\ token[t] = "none"
    /\ token' = [token EXCEPT ![t] = "active"]
    /\ UNCHANGED << post, message, worker, runs >>

revoke(t) ==
    /\ token[t] = "active"
    /\ token' = [token EXCEPT ![t] = "revoked"]
    /\ UNCHANGED << post, message, worker, runs >>

-----------------------------------------------------------------------------
(* The HTTP function *)

Arrive(h, t, r) ==
    /\ post[h] = NoPost
    /\ post' = [post EXCEPT ![h] = [stage |-> "received", token |-> t, report |-> r]]
    /\ UNCHANGED << token, message, worker, runs >>

(* The token is read and the signature checked: 401, or on to the queue. *)
handleWebhookRequest(h, signed) ==
    /\ post[h].stage = "received"
    /\ post' = [post EXCEPT ![h] =
                   IF token[@.token] = "active" /\ signed
                   THEN [@ EXCEPT !.stage = "accepted"]
                   ELSE NoPost]
    /\ UNCHANGED << token, message, worker, runs >>

(* The host writes the queue output, then answers 202. *)
enqueue(h, m) ==
    /\ post[h].stage = "accepted"
    /\ message[m] = NoMessage
    /\ \A n \in Messages : n < m => message[n] # NoMessage
    /\ message' = [message EXCEPT ![m] = [state |-> "queued", token |-> post[h].token,
                                          report |-> post[h].report, dequeues |-> 0]]
    /\ post' = [post EXCEPT ![h] = NoPost]
    /\ UNCHANGED << token, worker, runs >>

(* The host dies before the output is written: no 202, no message. *)
lost(h) ==
    /\ post[h].stage = "accepted"
    /\ post' = [post EXCEPT ![h] = NoPost]
    /\ UNCHANGED << token, message, worker, runs >>

-----------------------------------------------------------------------------
(* The queue function *)

Report(w) == message[worker[w].msg].report

dequeue(w, m) ==
    /\ worker[w] = Asleep
    /\ message[m].state = "queued"
    /\ message' = [message EXCEPT ![m].state = "held", ![m].dequeues = @ + 1]
    /\ worker' = [worker EXCEPT ![w] = [stage |-> "token", msg |-> m, item |-> 0]]
    /\ UNCHANGED << token, post, runs >>

AtItem(w, i) == [stage |-> IF i = End(Report(w)) THEN "done" ELSE "start",
                 msg |-> worker[w].msg, item |-> i]

UsableOnceIssued(t) == token[t] # "none"
Usable(t) == token[t] = "active"

(* The token is read again: a revoked one makes the handler throw. *)
checkToken(w) ==
    /\ worker[w].stage = "token"
    /\ Usable(message[worker[w].msg].token)
    /\ worker' = [worker EXCEPT ![w].stage = "list"]
    /\ UNCHANGED << token, post, message, runs >>

listTestCases(w) ==
    /\ worker[w].stage = "list"
    /\ worker' = [worker EXCEPT ![w] = AtItem(w, NextMatch(Report(w), 1))]
    /\ UNCHANGED << token, post, message, runs >>

CurrentRuns(w) == {run \in runs : /\ run.msg = worker[w].msg
                                  /\ run.item = worker[w].item
                                  /\ run.delivery = message[run.msg].dequeues}

Advance(w, answered, then) ==
    worker' = [worker EXCEPT ![w] = IF answered THEN then ELSE [@ EXCEPT !.stage = "failed"]]

(* The answer of a call may be lost after the call took effect. *)
startRun(w, answered) ==
    /\ worker[w].stage = "start"
    /\ runs' = runs \cup {[msg |-> worker[w].msg, item |-> worker[w].item,
                           delivery |-> message[worker[w].msg].dequeues,
                           case |-> keyMap(Results[Report(w)][worker[w].item].key),
                           state |-> "InProgress", steps |-> << >>,
                           globalStatus |-> "Unexecuted"]}
    /\ Advance(w, answered, [worker[w] EXCEPT !.stage = "save"])
    /\ UNCHANGED << token, post, message >>

Rewrite(w, Patch(_)) ==
    runs' = (runs \ CurrentRuns(w)) \cup {Patch(run) : run \in CurrentRuns(w)}

(* A mutated form: the run is left open. *)
saveStepResultOnly(w, answered) ==
    /\ worker[w].stage = "save"
    /\ LET Patch(run) == [run EXCEPT !.steps =
                             Append(@, Verdict(Report(w), worker[w].item))]
       IN Rewrite(w, Patch)
    /\ Advance(w, answered, AtItem(w, NextMatch(Report(w), worker[w].item + 1)))
    /\ UNCHANGED << token, post, message >>

saveStepResult(w, answered) ==
    /\ worker[w].stage = "save"
    /\ LET Patch(run) == [run EXCEPT !.steps =
                             Append(@, Verdict(Report(w), worker[w].item))]
       IN Rewrite(w, Patch)
    /\ Advance(w, answered, [worker[w] EXCEPT !.stage = "finalize"])
    /\ UNCHANGED << token, post, message >>

Finalized(run) ==
    [run EXCEPT !.state = "Completed", !.globalStatus = computeGlobalStatus(run.steps)]

finalizeRun(w, answered) ==
    /\ worker[w].stage = "finalize"
    /\ Rewrite(w, Finalized)
    /\ Advance(w, answered, AtItem(w, NextMatch(Report(w), worker[w].item + 1)))
    /\ UNCHANGED << token, post, message >>

(* A mutated form: an error of one result ends the report. *)
completeDespiteError(w) ==
    /\ worker[w].stage \in {"done", "failed"}
    /\ message' = [message EXCEPT ![worker[w].msg].state = "done"]
    /\ worker' = [worker EXCEPT ![w] = Asleep]
    /\ UNCHANGED << token, post, runs >>

complete(w) ==
    /\ worker[w].stage = "done"
    /\ message' = [message EXCEPT ![worker[w].msg].state = "done"]
    /\ worker' = [worker EXCEPT ![w] = Asleep]
    /\ UNCHANGED << token, post, runs >>

(* A mutated form: a failed message is posted again as a new one. *)
releaseAsNew(w) ==
    /\ worker[w] # Asleep
    /\ message' = [message EXCEPT ![worker[w].msg].state = "queued",
                                  ![worker[w].msg].dequeues = 0]
    /\ worker' = [worker EXCEPT ![w] = Asleep]
    /\ UNCHANGED << token, post, runs >>

(* The handler throws, or its host dies: the message is given back. *)
release(w) ==
    /\ worker[w] # Asleep
    /\ message' = [message EXCEPT ![worker[w].msg].state =
                      IF message[worker[w].msg].dequeues < MaxDequeue
                      THEN "queued" ELSE "poison"]
    /\ worker' = [worker EXCEPT ![w] = Asleep]
    /\ UNCHANGED << token, post, runs >>

-----------------------------------------------------------------------------

Init ==
    /\ token = [t \in Tokens |-> "none"]
    /\ post = [h \in Posts |-> NoPost]
    /\ message = [m \in Messages |-> NoMessage]
    /\ worker = [w \in Workers |-> Asleep]
    /\ runs = {}

Ingest(h) ==
    \/ \E t \in Tokens, r \in Reports : Arrive(h, t, r)
    \/ \E signed \in BOOLEAN : handleWebhookRequest(h, signed)
    \/ \E m \in Messages : enqueue(h, m)
    \/ lost(h)

Work(w) ==
    \/ \E m \in Messages : dequeue(w, m)
    \/ checkToken(w)
    \/ listTestCases(w)
    \/ \E answered \in BOOLEAN : \/ startRun(w, answered)
                                 \/ saveStepResult(w, answered)
                                 \/ finalizeRun(w, answered)
    \/ complete(w)
    \/ release(w)

Next == \/ \E t \in Tokens : create(t) \/ revoke(t)
        \/ \E h \in Posts : Ingest(h)
        \/ \E w \in Workers : Work(w)

(* Every call of a worker ends: the ADO client gives up after 30 s, and the
   host gives the message of a dead worker to another one.  Jobs need never
   post, nor administrators act. *)
Spec == Init /\ [][Next]_vars /\ \A w \in Workers : WF_vars(Work(w))

-----------------------------------------------------------------------------
(* Properties *)

RunsOf(m, i) == {run \in runs : run.msg = m /\ run.item = i}

(* A report that left the queue was recorded in full: every result with a test
   case has a completed run with the verdict of that result, whatever the
   earlier deliveries of the message left undone. *)
DoneMeansRecorded ==
    \A m \in Messages : message[m].state = "done" =>
        \A i \in DOMAIN Results[message[m].report] :
            Matches(message[m].report, i) =>
                \E run \in RunsOf(m, i) :
                    /\ run.case = keyMap(Results[message[m].report][i].key)
                    /\ run.state = "Completed"
                    /\ run.globalStatus = Verdict(message[m].report, i)

Abandoned(m) == {run \in runs : /\ run.msg = m
                                /\ run.state = "InProgress"
                                /\ run.delivery < message[m].dequeues
                                     \/ message[m].state # "held"}

FailedDeliveries(m) ==
    IF message[m].state \in {"held", "done"} THEN message[m].dequeues - 1
                                             ELSE message[m].dequeues

(* The price of a failed delivery is bounded: it leaves at most one run that
   stays InProgress, and each delivery adds at most one run per result.  A
   report delivered once therefore has one completed run per matched result
   and nothing else. *)
OneLeftoverPerFailure ==
    \A m \in Messages : message[m] # NoMessage =>
        /\ Cardinality(Abandoned(m)) <= FailedDeliveries(m)
        /\ \A i \in DOMAIN Results[message[m].report] :
              Cardinality(RunsOf(m, i)) <= message[m].dequeues

PastTheCheck(t) ==
    \E w \in Workers : /\ worker[w].stage \notin {"asleep", "token"}
                       /\ message[worker[w].msg].token = t

Shut(t) == token[t] = "revoked" /\ ~PastTheCheck(t)

(* Once a token is revoked and the deliveries that had read it before are
   over, nothing is ever recorded in its name again, whatever is still queued
   or on its way through the HTTP function. *)
RevokedTokenIsShut ==
    [][\A t \in Tokens : Shut(t) =>
          /\ Shut(t)'
          /\ \A run \in runs' \ runs : message[run.msg].token # t]_vars

(* Every report answered 202 leaves the queue: it is recorded, or it is put
   aside as poison after MaxDequeue deliveries. *)
EveryReportSettles ==
    \A m \in Messages :
        message[m].state = "queued" ~> message[m].state \in {"done", "poison"}

-----------------------------------------------------------------------------
(* What the data model announces (Specs/plan.md:315, TestVault.CiPayloadHash
   "SHA-256 du payload recu, anti-rejeu"): one body is not ingested twice. *)
ReplayIsRejected ==
    \A m, n \in Messages :
        (message[m] # NoMessage /\ message[n] # NoMessage
         /\ message[m].token = message[n].token
         /\ message[m].report = message[n].report) => m = n
=============================================================================
