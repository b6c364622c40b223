------------------------------- MODULE AiProxy -------------------------------
(***************************************************************************)
(* The AI backend of apps/argos-functions: handleGenerateTestCases over    *)
(* checkAndDecrementQuota, the provider store and the LLM client.          *)
(*                                                                         *)
(* Requests of one user run at the same time.  The quota is one record,    *)
(* read, tested and written back without a lock, and spent before the      *)
(* provider is looked up and called; a client that gets nothing asks       *)
(* again.                                                                  *)
(***************************************************************************)
EXTENDS Naturals, FiniteSets

CONSTANTS
    Requests, \* requests of one user for the feature
    Limit,    \* the limit of the quota record
    Modes     \* the modes it may have: "hard", "soft", or "none" without a record

ASSUME LimitAssumption == Limit \in Nat

VARIABLES
    mode,    \* the mode of the quota
    used,    \* state.used in the store
    request, \* where each request is suspended, or its answer
    history  \* who spent the quota, who overlapped another in doing so

proxyVars == << mode, used, request, history >>

New == [at |-> "new"]
Answer(status) == [at |-> "done", status |-> status]
RequestGoes(r, to) == request' = [request EXCEPT ![r] = to]

ProxyInit ==
    /\ mode \in Modes
    /\ used = 0
    /\ request = [r \in Requests |-> New]
    /\ history = [spent |-> {}, overlapped |-> {}]

(* The schema of the request and the length of its description, before any
   state is read; then the record is fetched. *)
Rejected(r) ==
    /\ request[r] = New
    /\ RequestGoes(r, Answer(400))
    /\ UNCHANGED << mode, used, history >>

(* Mutant: one call more than the limit passes. *)
getQuotaPastLimit(r) ==
    /\ request[r] = New
    /\ IF mode = "none" THEN RequestGoes(r, [at |-> "provider"])
       ELSE IF mode = "hard" /\ used > Limit THEN RequestGoes(r, Answer(402))
       ELSE RequestGoes(r, [at |-> "set", read |-> used])
    /\ UNCHANGED << mode, used, history >>

getQuota(r) ==
    /\ request[r] = New
    /\ IF mode = "none" THEN RequestGoes(r, [at |-> "provider"])
       ELSE IF mode = "hard" /\ used >= Limit THEN RequestGoes(r, Answer(402))
       ELSE RequestGoes(r, [at |-> "set", read |-> used])
    /\ UNCHANGED << mode, used, history >>

(* The record as it was read, with one more call. *)
setQuota(r) ==
    LET holding == {q \in Requests \ {r} : request[q].at = "set"}
    IN  /\ request[r].at = "set"
        /\ used' = request[r].read + 1
        /\ history' = [spent |-> history.spent \cup {r},
                       overlapped |-> IF holding = {} THEN history.overlapped
                                      ELSE history.overlapped \cup {r} \cup holding]
        /\ RequestGoes(r, [at |-> "provider"])
        /\ UNCHANGED mode

(* The provider is not found, its key or the store fails, or it is called. *)
getProvider(r) ==
    /\ request[r].at = "provider"
    /\ \E to \in {[at |-> "call", attempt |-> 0], Answer(404), Answer(500)} : RequestGoes(r, to)
    /\ UNCHANGED << mode, used, history >>

(* A malformed answer is asked for once more; a failed call is not. *)
callProvider(r) ==
    /\ request[r].at = "call"
    /\ \E to \in {Answer(200), Answer(500),
                  IF request[r].attempt = 0 THEN [at |-> "call", attempt |-> 1]
                  ELSE Answer(502)} : RequestGoes(r, to)
    /\ UNCHANGED << mode, used, history >>

ProxyNext ==
    \E r \in Requests :
        Rejected(r) \/ getQuota(r) \/ setQuota(r) \/ getProvider(r) \/ callProvider(r)

ProxySpec == ProxyInit /\ [][ProxyNext]_proxyVars

-----------------------------------------------------------------------------
(* A hard quota admits no more calls than its limit, and counts every call it
   admits, unless a request read it between the read and the write of another;
   even then the record never claims more calls than were admitted nor more
   than the limit, so nobody is refused for calls that were never made. *)
OverrunNeedsAnOverlap ==
    mode = "hard" =>
        /\ used <= Limit
        /\ used <= Cardinality(history.spent)
        /\ history.overlapped = {} => used = Cardinality(history.spent)
=============================================================================
