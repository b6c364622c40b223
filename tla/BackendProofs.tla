---------------------------- MODULE BackendProofs ----------------------------
(***************************************************************************)
(* What reads files or writes to the store without a page, for any number  *)
(* of requests, events, pushes, uploads and lines: the quota of AiProxy,   *)
(* whose record is read and written without a lock; the licence of         *)
(* Licensing, kept from events in any order; the cases of BddSync, created *)
(* by handlers that overlap; the cases and runs of ResultUpload, written   *)
(* by jobs that overlap; and the feature files of GherkinDocument, read    *)
(* line by line and written back.                                          *)
(***************************************************************************)
EXTENDS AiProxy, Licensing, BddSync, ResultUpload, GherkinDocument, SubsequenceLemmas

-----------------------------------------------------------------------------
(* The quota *)

(* What a request that has read the record still knows of it: it read no more
   than was spent, less than a hard limit, and the current value unless it
   was overlapped. *)
Reading(r) ==
    /\ request[r].read \in Nat
    /\ request[r].read <= Cardinality(history.spent)
    /\ mode = "hard" => request[r].read < Limit
    /\ request[r].read = used \/ r \in history.overlapped

(* The inductive invariant. *)
ProxyInv ==
    /\ used \in Nat
    /\ IsFiniteSet(history.spent)
    /\ request = [r \in Requests |-> request[r]]
    /\ \A r \in Requests :
          /\ request[r].at \in {"new", "set"} => r \notin history.spent
          /\ request[r].at = "set" => Reading(r)
    /\ used <= Cardinality(history.spent)
    /\ mode = "hard" => used <= Limit
    /\ history.overlapped = {} => used = Cardinality(history.spent)

(* Before the first request nothing is spent and nothing recorded. *)
THEOREM InitProxy == ProxyInit => ProxyInv
BY FS_EmptySet, LimitAssumption DEF ProxyInit, ProxyInv, New

(* A request goes on, and the quota is not touched. *)
LEMMA RequestStep ==
    ASSUME ProxyInv, NEW r \in Requests, NEW to, RequestGoes(r, to),
           UNCHANGED << mode, used, history >>,
           to.at # "new",
           to.at = "set" => /\ request[r].at = "new" /\ to.read = used
                            /\ mode = "hard" => used < Limit
    PROVE  ProxyInv'
<1>1. request' = [q \in Requests |-> IF q = r THEN to ELSE request[q]]
  BY DEF RequestGoes, ProxyInv
<1>2. request' = [q \in Requests |-> request'[q]]
  BY <1>1
<1>3. ASSUME NEW q \in Requests
      PROVE  /\ request'[q].at \in {"new", "set"} => q \notin history'.spent
             /\ request'[q].at = "set" => Reading(q)'
  <2>1. CASE q = r
    BY <1>1, <2>1 DEF Reading, ProxyInv
  <2>2. CASE q # r
    BY <1>1, <2>2 DEF Reading, ProxyInv
  <2>3. QED BY <2>1, <2>2
<1>4. QED BY <1>2, <1>3 DEF ProxyInv

(* Every step of a request keeps the record within the limit and within the
   calls admitted. *)
THEOREM ProxyStep == ProxyInv /\ [ProxyNext]_proxyVars => ProxyInv'
<1> SUFFICES ASSUME ProxyInv, [ProxyNext]_proxyVars PROVE ProxyInv'
  OBVIOUS
<1>1. ASSUME NEW r \in Requests, Rejected(r) PROVE ProxyInv'
  BY <1>1, RequestStep DEF Rejected, Answer
<1>2. ASSUME NEW r \in Requests, getQuota(r) PROVE ProxyInv'
  <2>1. request[r].at = "new"
    BY <1>2 DEF getQuota, New
  <2>2. CASE mode = "hard" /\ used >= Limit
    BY <1>2, <2>2, RequestStep DEF getQuota, Answer
  <2>3. CASE mode = "none"
    BY <1>2, <2>3, RequestStep DEF getQuota
  <2>4. CASE mode # "none" /\ ~(mode = "hard" /\ used >= Limit)
    <3>1. RequestGoes(r, [at |-> "set", read |-> used])
      BY <1>2, <2>4 DEF getQuota
    <3>2. mode = "hard" => used < Limit
      BY <2>4, LimitAssumption DEF ProxyInv
    <3>3. UNCHANGED << mode, used, history >>
      BY <1>2 DEF getQuota
    <3>4. QED BY <2>1, <3>1, <3>2, <3>3, RequestStep
  <2>5. QED BY <2>2, <2>3, <2>4
<1>3. ASSUME NEW r \in Requests, setQuota(r) PROVE ProxyInv'
  <2> DEFINE holding == {q \in Requests \ {r} : request[q].at = "set"}
             spent == history.spent
  <2>1. /\ request[r].at = "set" /\ Reading(r) /\ r \notin spent
        /\ used' = request[r].read + 1 /\ mode' = mode
        /\ history'.spent = spent \cup {r}
        /\ history'.overlapped = IF holding = {} THEN history.overlapped
                                 ELSE history.overlapped \cup {r} \cup holding
        /\ RequestGoes(r, [at |-> "provider"])
    BY <1>3 DEF setQuota, ProxyInv
  <2>2. /\ IsFiniteSet(history'.spent)
        /\ Cardinality(history'.spent) = Cardinality(spent) + 1
        /\ Cardinality(spent) \in Nat
    BY <2>1, FS_AddElement, FS_CardinalityType DEF ProxyInv
  <2>3. request' = [q \in Requests |-> IF q = r THEN [at |-> "provider"] ELSE request[q]]
    BY <2>1 DEF RequestGoes, ProxyInv
  <2>4. request' = [q \in Requests |-> request'[q]]
    BY <2>3
  <2>5. /\ used' \in Nat
        /\ used' <= Cardinality(history'.spent)
        /\ mode' = "hard" => used' <= Limit
    BY <2>1, <2>2, LimitAssumption DEF Reading
  <2>6. history'.overlapped = {} => used' = Cardinality(history'.spent)
    BY <2>1, <2>2 DEF Reading, ProxyInv
  <2>7. ASSUME NEW q \in Requests
        PROVE  /\ request'[q].at \in {"new", "set"} => q \notin history'.spent
               /\ request'[q].at = "set" => Reading(q)'
    <3>1. CASE q = r
      BY <2>3, <3>1
    <3>2. CASE q # r
      <4>1. request'[q] = request[q]
        BY <2>3, <3>2
      <4>2. request[q].at = "set" => q \in holding /\ q \in history'.overlapped
        BY <2>1, <3>2
      <4>3. request[q].at = "set" => Reading(q)'
        <5> SUFFICES ASSUME request[q].at = "set" PROVE Reading(q)'
          OBVIOUS
        <5>1. /\ request[q].read \in Nat
              /\ request[q].read <= Cardinality(spent)
              /\ mode = "hard" => request[q].read < Limit
          BY DEF Reading, ProxyInv
        <5>2. q \in history'.overlapped
          BY <4>2
        <5>3. request[q].read <= Cardinality(history'.spent)
          BY <2>2, <5>1
        <5>4. QED BY <2>1, <4>1, <5>1, <5>2, <5>3 DEF Reading
      <4>4. QED BY <2>1, <3>2, <4>1, <4>3 DEF ProxyInv
    <3>3. QED BY <3>1, <3>2
  <2>8. QED BY <2>2, <2>4, <2>5, <2>6, <2>7 DEF ProxyInv
<1>4. ASSUME NEW r \in Requests, getProvider(r) PROVE ProxyInv'
  BY <1>4, RequestStep DEF getProvider, Answer
<1>5. ASSUME NEW r \in Requests, callProvider(r) PROVE ProxyInv'
  BY <1>5, RequestStep DEF callProvider, Answer
<1>6. CASE UNCHANGED proxyVars
  BY <1>6 DEF proxyVars, ProxyInv, Reading
<1>7. QED BY <1>1, <1>2, <1>3, <1>4, <1>5, <1>6 DEF ProxyNext

(* OverrunNeedsAnOverlap, for any number of requests and any limit: the hard
   quota of checkAndDecrementQuota is overrun only by requests that overlap
   between its get and its set, and its record never claims too much. *)
THEOREM QuotaHolds == ProxySpec => []OverrunNeedsAnOverlap
<1>1. ProxyInv => OverrunNeedsAnOverlap
  BY DEF ProxyInv, OverrunNeedsAnOverlap
<1>2. QED BY <1>1, InitProxy, ProxyStep, PTL DEF ProxySpec

-----------------------------------------------------------------------------
(* The licence *)

(* What an event says is what Stripe holds of its subscription. *)
AtStripe(e) == stripe[e.sub] = IF e.type = "deleted" THEN "ended" ELSE e.status

(* The licence is that of its subscription, and a dead subscription has none. *)
FollowsStripe ==
    /\ licence # NoLicence =>
          (licence.status = "active") <=> (stripe[licence.sub] \in {"active", "trialing"})
    /\ (\A s \in Subscriptions : stripe[s] \in {"none", "ended", "canceled"})
          => licence = NoLicence

(* The inductive invariant.  The newest event is true of Stripe and stays
   pending until it was handled once; a licence written by it, or by nothing,
   follows Stripe. *)
LicenceInv ==
    /\ stripe = [s \in Subscriptions |-> stripe[s]]
    /\ delivery \in [sent : Nat, latest : Nat, inOrder : BOOLEAN, outages : Nat]
    /\ delivery.latest <= delivery.sent
    /\ \A e \in pending :
          /\ e.nr \in Nat /\ e.nr <= delivery.sent
          /\ e.sub \in Subscriptions
          /\ e.type \in {"created", "updated", "deleted"} /\ e.status \in Statuses
          /\ e.nr = delivery.sent => AtStripe(e)
    /\ delivery.latest < delivery.sent => \E e \in pending : e.nr = delivery.sent
    /\ delivery.inOrder /\ delivery.latest = delivery.sent => FollowsStripe

(* Before the first event there is no licence. *)
THEOREM InitLicence == LicenceInit => LicenceInv
BY DEF LicenceInit, LicenceInv, FollowsStripe

(* The licence of an event that is true of Stripe follows Stripe. *)
LEMMA LicenceOfTheNewest ==
    ASSUME NEW e, e.sub \in Subscriptions, e.status \in Statuses, AtStripe(e),
           licence' = LicenceOf(e), UNCHANGED stripe
    PROVE  FollowsStripe'
<1>1. CASE e.type = "deleted" \/ e.status = "canceled"
  BY <1>1 DEF LicenceOf, FollowsStripe
<1>2. CASE ~(e.type = "deleted" \/ e.status = "canceled")
  <2>1. stripe'[e.sub] = e.status
    BY <1>2 DEF AtStripe
  <2>2. licence' = [status |-> CASE e.status \in {"active", "trialing"} -> "active"
                                 [] e.status = "past_due" -> "past_due"
                                 [] OTHER -> "canceled",
                    sub |-> e.sub]
    BY <1>2 DEF LicenceOf
  <2>3. licence'.sub = e.sub
    BY <2>2
  <2>4. (licence'.status = "active") <=> (e.status \in {"active", "trialing"})
    BY <2>2
  <2>5. QED BY <1>2, <2>1, <2>3, <2>4 DEF FollowsStripe, Statuses
<1>3. QED BY <1>1, <1>2

(* Stripe emits an event: no licence can follow it before it was handled. *)
LEMMA EmitsStep ==
    ASSUME LicenceInv, NEW s \in Subscriptions, NEW type \in {"created", "updated", "deleted"},
           NEW status \in Statuses, Emits(s, type, status)
    PROVE  LicenceInv'
<1> DEFINE new == [nr |-> delivery.sent + 1, sub |-> s, type |-> type, status |-> status]
<1>1. /\ delivery' \in [sent : Nat, latest : Nat, inOrder : BOOLEAN, outages : Nat]
      /\ delivery'.sent = delivery.sent + 1 /\ delivery'.latest = delivery.latest
      /\ delivery.sent \in Nat /\ delivery.latest \in Nat
      /\ delivery.latest <= delivery.sent
  BY DEF Emits, LicenceInv
<1>2. pending' = pending \cup {new}
  BY DEF Emits
<1>3. /\ stripe' = [q \in Subscriptions |-> stripe'[q]]
      /\ stripe'[s] = IF type = "deleted" THEN "ended" ELSE status
  BY DEF Emits, LicenceInv
<1>4. AtStripe(new)'
  BY <1>3 DEF AtStripe
<1>5. ASSUME NEW e \in pending'
      PROVE  /\ e.nr \in Nat /\ e.nr <= delivery'.sent
             /\ e.sub \in Subscriptions
             /\ e.type \in {"created", "updated", "deleted"} /\ e.status \in Statuses
             /\ e.nr = delivery'.sent => AtStripe(e)'
  <2>1. CASE e = new
    BY <1>1, <1>4, <2>1 DEF AtStripe
  <2>2. CASE e \in pending
    <3>1. /\ e.nr \in Nat /\ e.nr <= delivery.sent
          /\ e.sub \in Subscriptions
          /\ e.type \in {"created", "updated", "deleted"} /\ e.status \in Statuses
      BY <2>2 DEF LicenceInv
    <3>2. e.nr <= delivery'.sent /\ e.nr # delivery'.sent
      BY <1>1, <3>1
    <3>3. QED BY <3>1, <3>2
  <2>3. QED BY <1>2, <2>1, <2>2
<1>6. new \in pending' /\ new.nr = delivery'.sent
  BY <1>1, <1>2
<1>7. delivery'.latest <= delivery'.sent /\ delivery'.latest # delivery'.sent
  BY <1>1
<1>8. QED
  <2> HIDE DEF new
  <2>1. \E e \in pending' : e.nr = delivery'.sent
    BY <1>6
  <2>2. QED BY <1>1, <1>3, <1>5, <1>7, <2>1 DEF LicenceInv

(* A delivery: after the newest event the licence follows Stripe, after an
   older one the order is not kept. *)
LEMMA DeliveryStep ==
    ASSUME LicenceInv, NEW e \in pending, handleStripeWebhook(e)
    PROVE  LicenceInv'
<1>1. /\ stripe' = stripe
      /\ e.nr \in Nat /\ e.nr <= delivery.sent /\ e.sub \in Subscriptions
      /\ e.status \in Statuses
      /\ e.nr = delivery.sent => AtStripe(e)
      /\ delivery.sent \in Nat /\ delivery.latest \in Nat /\ delivery.latest <= delivery.sent
  BY DEF handleStripeWebhook, LicenceInv
<1>2. CASE /\ licence' = LicenceOf(e)
           /\ delivery' = [delivery EXCEPT !.latest = IF e.nr > @ THEN e.nr ELSE @,
                                           !.inOrder = e.nr >= delivery.latest]
           /\ pending' \in {pending, pending \ {e}}
  <2>1. /\ delivery' \in [sent : Nat, latest : Nat, inOrder : BOOLEAN, outages : Nat]
        /\ delivery'.sent = delivery.sent
        /\ delivery'.latest = IF e.nr > delivery.latest THEN e.nr ELSE delivery.latest
        /\ delivery'.inOrder <=> e.nr >= delivery.latest
    <3>1. delivery \in [sent : Nat, latest : Nat, inOrder : BOOLEAN, outages : Nat]
      BY DEF LicenceInv
    <3>2. (e.nr >= delivery.latest) \in BOOLEAN
      BY <1>1
    <3>3. (IF e.nr > delivery.latest THEN e.nr ELSE delivery.latest) \in Nat
      BY <1>1
    <3> DEFINE latest == IF e.nr > delivery.latest THEN e.nr ELSE delivery.latest
               inOrder == e.nr >= delivery.latest
    <3>4. latest \in Nat /\ inOrder \in BOOLEAN
      BY <3>2, <3>3
    <3>5. delivery' = [delivery EXCEPT !.latest = latest, !.inOrder = inOrder]
      BY <1>2
    <3> HIDE DEF latest, inOrder
    <3>6. /\ delivery' \in [sent : Nat, latest : Nat, inOrder : BOOLEAN, outages : Nat]
          /\ delivery'.sent = delivery.sent
          /\ delivery'.latest = latest
          /\ delivery'.inOrder = inOrder
      BY <3>1, <3>4, <3>5
    <3>7. QED BY <3>6 DEF latest, inOrder
  <2>2. delivery'.inOrder /\ delivery'.latest = delivery'.sent => FollowsStripe'
    <3> SUFFICES ASSUME delivery'.inOrder, delivery'.latest = delivery'.sent
                 PROVE  FollowsStripe'
      OBVIOUS
    <3>1. e.nr = delivery.sent
      BY <1>1, <2>1
    <3>2. QED BY <1>1, <1>2, <3>1, LicenceOfTheNewest
  <2>3. delivery'.latest < delivery'.sent => \E d \in pending' : d.nr = delivery'.sent
    <3> SUFFICES ASSUME delivery'.latest < delivery'.sent
                 PROVE  \E d \in pending' : d.nr = delivery'.sent
      OBVIOUS
    <3>1. delivery.latest < delivery.sent /\ e.nr < delivery.sent
      BY <1>1, <2>1
    <3>2. PICK d \in pending : d.nr = delivery.sent
      BY <3>1 DEF LicenceInv
    <3>3. d # e
      BY <1>1, <3>1, <3>2
    <3>4. QED BY <1>2, <2>1, <3>2, <3>3
  <2>4. pending' \subseteq pending
    BY <1>2
  <2>5. delivery'.latest <= delivery'.sent
    BY <1>1, <2>1
  <2>6. \A d \in pending' : AtStripe(d)' <=> AtStripe(d)
    BY <1>1 DEF AtStripe
  <2>7. QED BY <1>1, <2>1, <2>2, <2>3, <2>4, <2>5, <2>6 DEF LicenceInv
<1>3. CASE /\ delivery' = [delivery EXCEPT !.outages = @ + 1]
           /\ UNCHANGED << licence, pending >>
  BY <1>1, <1>3 DEF LicenceInv, AtStripe, FollowsStripe
<1>4. QED BY <1>2, <1>3 DEF handleStripeWebhook

(* Every step keeps the invariant. *)
THEOREM LicenceStep == LicenceInv /\ [LicenceNext]_licenceVars => LicenceInv'
<1> SUFFICES ASSUME LicenceInv, [LicenceNext]_licenceVars PROVE LicenceInv'
  OBVIOUS
<1>1. ASSUME NEW s \in Subscriptions, Creates(s) PROVE LicenceInv'
  BY <1>1, EmitsStep DEF Creates, Statuses
<1>2. ASSUME NEW s \in Subscriptions, Updates(s) PROVE LicenceInv'
  BY <1>2, EmitsStep DEF Updates
<1>3. ASSUME NEW s \in Subscriptions, Deletes(s) PROVE LicenceInv'
  BY <1>3, EmitsStep DEF Deletes, Statuses
<1>4. ASSUME NEW e \in pending, handleStripeWebhook(e) PROVE LicenceInv'
  BY <1>4, DeliveryStep
<1>5. CASE UNCHANGED licenceVars
  BY <1>5 DEF licenceVars, LicenceInv, AtStripe, FollowsStripe
<1>6. QED BY <1>1, <1>2, <1>3, <1>4, <1>5 DEF LicenceNext

(* LicenceFollowsStripe, for any subscriptions, events and redeliveries: when
   nothing is pending and the last event handleStripeWebhook took was not
   overtaken, the licence it left is that of the subscription at Stripe. *)
THEOREM LicenceIsRight == LicenceSpec => []LicenceFollowsStripe
<1>1. LicenceInv => LicenceFollowsStripe
  <2> SUFFICES ASSUME LicenceInv, pending = {}, delivery.inOrder
               PROVE  FollowsStripe
    BY DEF LicenceFollowsStripe, FollowsStripe
  <2>1. delivery.latest = delivery.sent
    BY DEF LicenceInv
  <2>2. QED BY <2>1 DEF LicenceInv
<1>2. QED BY <1>1, InitLicence, LicenceStep, PTL DEF LicenceSpec

-----------------------------------------------------------------------------
(* The cases of the area *)

AllTitles == Manual \cup Retired \cup UNION {ToSet(c) : c \in Contents}
AreaCase == [title : AllTitles, bdd : BOOLEAN, active : BOOLEAN]
ListedCase == [id : Nat, title : AllTitles, bdd : BOOLEAN]
FileLists == Seq(Files) \ {<< >>}

OnItsWay == [at : {"read", "list"}, by : {"push", "cli"}, deleted : BOOLEAN,
             files : FileLists, titles : Seq(AllTitles)]
Applying == [at : {"apply"}, by : {"push", "cli"}, deleted : BOOLEAN,
             files : FileLists, titles : Seq(AllTitles), todo : Seq(AllTitles),
             listed : SUBSET ListedCase, sweep : SUBSET ListedCase]

HandlerStates == {Waiting} \cup OnItsWay \cup Applying

Traces == [pushes : Nat, faults : Nat, serial : BOOLEAN, raced : SUBSET AllTitles,
           last : [by : {"none", "failure", "push", "cli"}, titles : SUBSET AllTitles]]

(* What the service and its handlers keep. *)
BddTypeOK ==
    /\ head \in [Files -> Contents \cup {Gone}]
    /\ \A e \in events : e.files \in FileLists /\ e.deleted \in BOOLEAN
    /\ areaCases \in Seq(AreaCase)
    /\ worker \in [Workers -> HandlerStates]
    /\ trace \in Traces

HasTitle(title) == \E i \in DOMAIN areaCases : areaCases[i].title = title

(* A case a handler does not know by its listing has a raced title, or one it
   has no scenario left for; the command line knows what it created itself. *)
ListingKnows(w) ==
    \A i \in DOMAIN areaCases :
        LET title == areaCases[i].title
        IN  \/ \E c \in worker[w].listed : c.title = title
            \/ title \in trace.raced
            \/ worker[w].by = "push" /\ title \notin ToSet(worker[w].todo)

(* What is listed exists, and scenarios left to do are scenarios of the file. *)
ListingIsTrue(w) ==
    /\ \A c \in worker[w].listed :
          c.id \in DOMAIN areaCases /\ areaCases[c.id].title = c.title
    /\ ToSet(worker[w].todo) \subseteq ToSet(worker[w].titles)

(* How far a handler that runs alone has brought the area towards its file. *)
Progress(w) ==
    /\ \A title \in ToSet(worker[w].titles) :
          title \in ToSet(worker[w].todo) \/ HasTitle(title)
    /\ worker[w].by = "push" =>
          \A i \in DOMAIN areaCases : areaCases[i].bdd /\ areaCases[i].active =>
              \/ areaCases[i].title \in ToSet(worker[w].titles)
              \/ \E c \in worker[w].sweep : c.id = i

(* The area shows the titles of a file handled by a push or the command line. *)
Shows(titles, by) ==
    /\ \A title \in titles : HasTitle(title)
    /\ by = "push" => \A i \in DOMAIN areaCases :
          areaCases[i].bdd /\ areaCases[i].active => areaCases[i].title \in titles

BddInv ==
    /\ BddTypeOK
    /\ TwinsNeedARace
    /\ \A w \in Workers : worker[w].at = "apply" => ListingKnows(w) /\ ListingIsTrue(w)
    /\ trace.serial =>
          /\ \A v, w \in Workers : worker[v] # Waiting /\ worker[w] # Waiting => v = w
          /\ \A w \in Workers : worker[w].at = "apply" => Progress(w)
          /\ ~Busy /\ trace.last.by \in {"push", "cli"} =>
                Shows(trace.last.titles, trace.last.by)

(* The elements of a sequence belong to the set it is over. *)
LEMMA Elements == ASSUME NEW S, NEW s \in Seq(S) PROVE ToSet(s) \subseteq S
BY ElementOfSeq, LenProperties DEF ToSet

(* A sequence has its head and the elements of its tail. *)
LEMMA HeadAndTail ==
    ASSUME NEW S, NEW s \in Seq(S), s # << >>
    PROVE  /\ Head(s) \in S /\ Tail(s) \in Seq(S)
           /\ ToSet(s) = {Head(s)} \cup ToSet(Tail(s))
<1>1. /\ Head(s) \in S /\ Tail(s) \in Seq(S)
      /\ Len(Tail(s)) = Len(s) - 1
      /\ \A i \in 1..Len(Tail(s)) : Tail(s)[i] = s[i + 1]
  BY HeadTailProperties
<1>2. /\ DOMAIN s = 1..Len(s) /\ Len(s) \in Nat \ {0}
      /\ DOMAIN Tail(s) = 1..Len(Tail(s))
  BY <1>1, LenProperties, EmptySeq
<1>3. Head(s) = s[1]
  BY <1>2
<1>4. ASSUME NEW i \in DOMAIN s PROVE s[i] \in {Head(s)} \cup ToSet(Tail(s))
  <2>1. CASE i = 1
    BY <1>3, <2>1
  <2>2. CASE i # 1
    <3>1. i - 1 \in 1..Len(Tail(s)) /\ Tail(s)[i - 1] = s[i]
      BY <1>1, <1>2, <2>2
    <3>2. QED BY <1>2, <3>1 DEF ToSet
  <2>3. QED BY <2>1, <2>2
<1>5. ASSUME NEW i \in DOMAIN Tail(s) PROVE Tail(s)[i] \in ToSet(s)
  <2>1. i + 1 \in DOMAIN s /\ Tail(s)[i] = s[i + 1]
    BY <1>1, <1>2
  <2>2. QED BY <2>1 DEF ToSet
<1>6. Head(s) \in ToSet(s)
  BY <1>2, <1>3 DEF ToSet
<1>7. QED BY <1>1, <1>4, <1>5, <1>6 DEF ToSet

(* A finite set is listed without repetition. *)
LEMMA ListOfASet ==
    ASSUME NEW S, IsFiniteSet(S)
    PROVE  /\ SetToSeq(S) \in Seq(S)
           /\ \A i, j \in DOMAIN SetToSeq(S) : SetToSeq(S)[i] = SetToSeq(S)[j] => i = j
           /\ S # {} => SetToSeq(S) # << >>
<1>1. Cardinality(S) \in Nat /\ ExistsBijection(1..Cardinality(S), S)
  BY FS_CardinalityType
<1>2. PICK g \in [1..Cardinality(S) -> S] : IsInjective(g)
  BY <1>1 DEF ExistsBijection, Bijection, Injection, Surjection, IsInjective
<1>3. SetToSeq(S) \in [1..Cardinality(S) -> S] /\ IsInjective(SetToSeq(S))
  BY <1>2 DEF SetToSeq
<1>4. SetToSeq(S) \in Seq(S)
  BY <1>1, <1>3, SeqDef
<1>5. S # {} => SetToSeq(S) # << >>
  <2> SUFFICES ASSUME S # {} PROVE SetToSeq(S) # << >>
    OBVIOUS
  <2>1. Cardinality(S) # 0
    BY FS_EmptySet
  <2>2. 1 \in DOMAIN SetToSeq(S)
    BY <1>1, <1>3, <2>1
  <2>3. QED BY <2>2, EmptySeq, <1>4, LenProperties
<1>6. QED BY <1>3, <1>4, <1>5 DEF IsInjective

(* Among cases with different numbers up to N one comes last. *)
LEMMA OneIsLast ==
    ASSUME NEW cs, cs # {}, NEW N \in Nat, \A c \in cs : c.id \in 1..N
    PROVE  LastOf(cs) \in cs
<1> DEFINE back == {N - c.id : c \in cs}
<1>1. back \in SUBSET Nat /\ back # {}
  OBVIOUS
<1>2. PICK k \in back : \A j \in back : k <= j
  BY <1>1, Smallest
<1>3. PICK c \in cs : k = N - c.id
  OBVIOUS
<1>4. ASSUME NEW d \in cs PROVE d.id <= c.id
  <2>1. N - d.id \in back
    OBVIOUS
  <2>2. k <= N - d.id
    BY <1>2, <2>1
  <2>3. QED BY <1>3, <2>2
<1>5. QED BY <1>4 DEF LastOf

(* Sequences in a row are a sequence.  The recursive function flatten exists
   and has sequences as values, by the least index at which it would not. *)
LEMMA Flattened ==
    ASSUME NEW S, NEW ss \in Seq(Seq(S))
    PROVE  FlattenSeq(ss) \in Seq(S)
<1> DEFINE N == Len(ss)
           flatten[i \in 1..N] == IF i = 1 THEN ss[i] ELSE flatten[i - 1] \o ss[i]
<1>1. N \in Nat /\ \A i \in 1..N : ss[i] \in Seq(S)
  BY LenProperties, ElementOfSeq
<1>2. CASE N = 0
  <2>1. FlattenSeq(ss) = ss /\ ss = << >>
    BY <1>1, <1>2, EmptySeq DEF FlattenSeq
  <2>2. QED BY <2>1, EmptySeq
<1>3. CASE N # 0
  <2>1. FlattenSeq(ss) = flatten[N]
    BY <1>3 DEF FlattenSeq
  <2> DEFINE is(f, n) == f = [i \in 1..n |-> IF i = 1 THEN ss[i] ELSE f[i - 1] \o ss[i]]
             none == {n \in 0..N : ~\E f : is(f, n)}
  <2>2. none = {}
    <3> SUFFICES ASSUME none # {} PROVE FALSE
      OBVIOUS
    <3>1. none \in SUBSET Nat
      <4> HIDE DEF is
      <4>1. QED BY <1>1
    <3>2. PICK n \in none : \A m \in none : n <= m
      <4> HIDE DEF none
      <4>1. QED BY <3>1, Smallest
    <3>3. n \in 0..N /\ ~\E f : is(f, n)
      BY <3>2
    <3>4. n # 0
      <4>1. is(<< >>, 0)
        OBVIOUS
      <4>2. QED BY <3>3, <4>1
    <3>5. n - 1 \in 0..N /\ n - 1 \notin none
      <4> HIDE DEF is
      <4>1. n - 1 \in 0..N /\ ~(n <= n - 1)
        BY <1>1, <3>3, <3>4
      <4>2. QED BY <3>2, <4>1
    <3>6. PICK f : is(f, n - 1)
      BY <3>5
    <3> DEFINE g == [i \in 1..n |-> IF i = n THEN IF n = 1 THEN ss[1] ELSE f[n - 1] \o ss[n]
                                    ELSE f[i]]
    <3>7. ASSUME NEW i \in 1..n PROVE g[i] = IF i = 1 THEN ss[i] ELSE g[i - 1] \o ss[i]
      <4>1. CASE i = n
        <5>1. i # 1 => i - 1 \in 1..n /\ i - 1 # n
          BY <3>3, <4>1
        <5>2. QED BY <4>1, <5>1
      <4>2. CASE i # n
        <5>1. i \in 1..(n - 1) /\ (i # 1 => i - 1 \in 1..n /\ i - 1 # n)
          BY <3>3, <4>2
        <5>2. f[i] = IF i = 1 THEN ss[i] ELSE f[i - 1] \o ss[i]
          BY <3>6, <5>1
        <5>3. QED BY <4>2, <5>1, <5>2
      <4>3. QED BY <4>1, <4>2
    <3>8. g = [i \in 1..n |-> g[i]]
      OBVIOUS
    <3>9. is(g, n)
      <4> HIDE DEF g
      <4>1. QED BY <3>7, <3>8
    <3>10. QED BY <3>3, <3>9
  <2>3. \E f : is(f, N)
    <3> HIDE DEF is
    <3>1. QED BY <1>1, <2>2
  <2>4. is(flatten, N)
    BY <2>3, Zenon
  <2> HIDE DEF flatten
  <2> DEFINE bad == {n \in 1..N : flatten[n] \notin Seq(S)}
  <2>5. bad = {}
    <3> SUFFICES ASSUME bad # {} PROVE FALSE
      OBVIOUS
    <3>1. bad \in SUBSET Nat
      BY <1>1
    <3>2. PICK n \in bad : \A m \in bad : n <= m
      <4> HIDE DEF bad
      <4>1. QED BY <3>1, Smallest
    <3>3. flatten[n] = IF n = 1 THEN ss[n] ELSE flatten[n - 1] \o ss[n]
      BY <2>4
    <3>4. n # 1 => flatten[n - 1] \in Seq(S)
      BY <1>1, <3>2
    <3>5. QED BY <1>1, <3>3, <3>4, ConcatProperties
  <2>6. QED BY <1>1, <1>3, <2>1, <2>5
<1>4. QED BY <1>2, <1>3

(* The contents of files are sequences of titles. *)
LEMMA ContentsAreTitles == \A c \in Contents \cup {Gone} : c \in Seq(AllTitles)
<1>1. ASSUME NEW c \in Contents PROVE c \in Seq(AllTitles)
  <2>1. c \in Seq(ToSet(c)) /\ ToSet(c) \subseteq AllTitles
    BY BddAssumption DEF AllTitles
  <2>2. QED BY <2>1, SeqMonotonic
<1>2. Gone \in Seq(AllTitles)
  BY EmptySeq DEF Gone
<1>3. QED BY <1>1, <1>2

(* The files of a commit are listed. *)
LEMMA CommitFiles ==
    ASSUME NEW fs \in (SUBSET Files) \ {{}}
    PROVE  SetToSeq(fs) \in FileLists
<1>1. IsFiniteSet(fs)
  BY BddAssumption, FS_Subset
<1>2. SetToSeq(fs) \in Seq(fs) /\ SetToSeq(fs) # << >>
  BY <1>1, ListOfASet
<1>3. SetToSeq(fs) \in Seq(Files)
  BY <1>2, SeqMonotonic
<1>4. QED BY <1>2, <1>3 DEF FileLists

(* A handler goes on to a state that is well formed. *)
LEMMA GoesOn ==
    ASSUME BddTypeOK, NEW w \in Workers, NEW to \in HandlerStates, WorkerGoes(w, to)
    PROVE  /\ worker' \in [Workers -> HandlerStates]
           /\ worker'[w] = to
           /\ \A v \in Workers \ {w} : worker'[v] = worker[v]
BY DEF BddTypeOK, WorkerGoes

(* What a handler that is not waiting holds. *)
LEMMA HandlerHolds ==
    ASSUME BddTypeOK, NEW w \in Workers
    PROVE  /\ worker[w] # Waiting <=> worker[w].at # "idle"
           /\ worker[w].at = "apply" <=> worker[w] \in Applying
           /\ worker[w].at \in {"read", "list"} <=> worker[w] \in OnItsWay
           /\ worker[w].at \in {"idle", "read", "list", "apply"}
BY DEF BddTypeOK, HandlerStates, Waiting, OnItsWay, Applying

(* A listing knows every case of the area, by its title. *)
LEMMA ListingIsTyped ==
    ASSUME BddTypeOK
    PROVE  /\ ToSet(Listing(areaCases)) \subseteq ListedCase
           /\ \A c \in ToSet(Listing(areaCases)) :
                 /\ c.id \in DOMAIN areaCases
                 /\ areaCases[c.id].title = c.title /\ areaCases[c.id].bdd = c.bdd
           /\ \A i \in DOMAIN areaCases : \E c \in ToSet(Listing(areaCases)) :
                 c.id = i /\ c.title = areaCases[i].title /\ c.bdd = areaCases[i].bdd
<1>1. /\ DOMAIN areaCases \subseteq Nat
      /\ \A i \in DOMAIN areaCases : areaCases[i] \in AreaCase
  BY LenProperties, ElementOfSeq DEF BddTypeOK
<1>2. ToSet(Listing(areaCases)) =
        {[id |-> i, title |-> areaCases[i].title, bdd |-> areaCases[i].bdd] : i \in DOMAIN areaCases}
  BY DEF Listing, ToSet
<1>3. ASSUME NEW i \in DOMAIN areaCases
      PROVE  \E c \in ToSet(Listing(areaCases)) :
                c.id = i /\ c.title = areaCases[i].title /\ c.bdd = areaCases[i].bdd
  <2>1. [id |-> i, title |-> areaCases[i].title, bdd |-> areaCases[i].bdd]
           \in ToSet(Listing(areaCases))
    BY <1>2
  <2>2. QED BY <2>1
<1>4. QED BY <1>1, <1>2, <1>3 DEF AreaCase, ListedCase

(* A changed case keeps its title, and the others are as they were. *)
LEMMA CaseWritten ==
    ASSUME BddTypeOK, NEW n, NEW flag \in {"bdd", "active"}, NEW value \in BOOLEAN,
           areaCases' = [areaCases EXCEPT ![n] = [@ EXCEPT ![flag] = value]]
    PROVE  /\ areaCases' \in Seq(AreaCase)
           /\ DOMAIN areaCases' = DOMAIN areaCases
           /\ \A i \in DOMAIN areaCases : areaCases'[i].title = areaCases[i].title
           /\ \A i \in DOMAIN areaCases \ {n} : areaCases'[i] = areaCases[i]
           /\ n \in DOMAIN areaCases => areaCases'[n][flag] = value
           /\ n \in DOMAIN areaCases /\ flag = "bdd" =>
                 areaCases'[n].active = areaCases[n].active
<1>1. /\ Len(areaCases) \in Nat /\ DOMAIN areaCases = 1..Len(areaCases)
      /\ areaCases \in [1..Len(areaCases) -> AreaCase]
  BY LenProperties DEF BddTypeOK
<1>2. areaCases' = [i \in 1..Len(areaCases) |->
                       IF i = n THEN [areaCases[n] EXCEPT ![flag] = value] ELSE areaCases[i]]
  BY <1>1
<1>3. ASSUME NEW i \in 1..Len(areaCases) PROVE areaCases'[i] \in AreaCase
  BY <1>1, <1>2 DEF AreaCase
<1>4. areaCases' \in Seq(AreaCase)
  <2>1. areaCases' \in [1..Len(areaCases) -> AreaCase]
    BY <1>2, <1>3
  <2>2. QED BY <1>1, <2>1, SeqDef
<1>5. QED BY <1>1, <1>2, <1>4 DEF AreaCase

(* A created case comes last. *)
LEMMA CaseAdded ==
    ASSUME BddTypeOK, NEW title \in AllTitles,
           areaCases' = Append(areaCases, [title |-> title, bdd |-> TRUE, active |-> TRUE])
    PROVE  /\ areaCases' \in Seq(AreaCase)
           /\ Len(areaCases) \in Nat /\ Len(areaCases) + 1 \notin DOMAIN areaCases
           /\ DOMAIN areaCases' = DOMAIN areaCases \cup {Len(areaCases) + 1}
           /\ \A i \in DOMAIN areaCases : areaCases'[i] = areaCases[i]
           /\ areaCases'[Len(areaCases) + 1] = [title |-> title, bdd |-> TRUE, active |-> TRUE]
<1>1. [title |-> title, bdd |-> TRUE, active |-> TRUE] \in AreaCase
  BY DEF AreaCase
<1>2. /\ areaCases' \in Seq(AreaCase)
      /\ Len(areaCases') = Len(areaCases) + 1
      /\ \A i \in 1..Len(areaCases) : areaCases'[i] = areaCases[i]
      /\ areaCases'[Len(areaCases) + 1] = [title |-> title, bdd |-> TRUE, active |-> TRUE]
  BY <1>1, AppendProperties DEF BddTypeOK
<1>3. /\ DOMAIN areaCases = 1..Len(areaCases) /\ Len(areaCases) \in Nat
      /\ DOMAIN areaCases' = 1..Len(areaCases')
  BY <1>2, LenProperties DEF BddTypeOK
<1>4. QED BY <1>2, <1>3

(* The cases of the area at the start. *)
FirstCases == {[title |-> t, bdd |-> t \in Retired, active |-> t \notin Retired] :
                  t \in Manual \cup Retired}

(* They are finitely many, and are listed. *)
LEMMA FirstListed ==
    /\ FirstCases \subseteq AreaCase
    /\ SetToSeq(FirstCases) \in Seq(FirstCases)
    /\ \A i, j \in DOMAIN SetToSeq(FirstCases) :
          SetToSeq(FirstCases)[i] = SetToSeq(FirstCases)[j] => i = j
<1>1. IsFiniteSet(FirstCases)
  <2>1. IsFiniteSet(Manual \cup Retired)
    BY BddAssumption, FS_Union
  <2> DEFINE g == [t \in Manual \cup Retired |->
                     [title |-> t, bdd |-> t \in Retired, active |-> t \notin Retired]]
  <2>2. g \in Surjection(Manual \cup Retired, FirstCases)
    BY DEF Surjection, FirstCases
  <2> HIDE DEF g
  <2>3. QED BY <2>1, <2>2, FS_Surjection
<1>2. FirstCases \subseteq AreaCase
  <2> SUFFICES ASSUME NEW t \in Manual \cup Retired
               PROVE  [title |-> t, bdd |-> t \in Retired, active |-> t \notin Retired]
                         \in AreaCase
    BY DEF FirstCases
  <2>1. (t \in Retired) \in BOOLEAN /\ (t \notin Retired) \in BOOLEAN /\ t \in AllTitles
    BY DEF AllTitles
  <2>2. QED BY <2>1 DEF AreaCase
<1>3. QED BY <1>1, <1>2, ListOfASet

(* Types at the start. *)
LEMMA InitBddType == BddInit => BddTypeOK
<1> SUFFICES ASSUME BddInit PROVE BddTypeOK
  OBVIOUS
<1>1. areaCases \in Seq(AreaCase)
  BY FirstListed, SeqMonotonic DEF BddInit, FirstCases
<1>2. QED BY <1>1 DEF BddInit, BddTypeOK, HandlerStates, Traces

(* At the start the titles are different, and no handler runs. *)
THEOREM InitBdd == BddInit => BddInv
<1> SUFFICES ASSUME BddInit PROVE BddInv
  OBVIOUS
<1>1. BddTypeOK
  BY InitBddType
<1>2. TwinsNeedARace
  <2>1. areaCases = SetToSeq(FirstCases)
    BY DEF BddInit, FirstCases
  <2>2. \A i \in DOMAIN areaCases : areaCases[i] \in FirstCases
    BY <2>1, FirstListed, LenProperties, ElementOfSeq
  <2>3. \A x, y \in FirstCases : x.title = y.title => x = y
    BY DEF FirstCases
  <2>4. QED BY <2>1, <2>2, <2>3, FirstListed DEF TwinsNeedARace
<1>3. \A w \in Workers : worker[w].at # "apply" /\ worker[w] = Waiting
  BY DEF BddInit, Waiting
<1>4. trace.last.by \notin {"push", "cli"}
  BY DEF BddInit
<1>5. QED BY <1>1, <1>2, <1>3, <1>4 DEF BddInv

(* A handler goes on and the cases of the area stay as they are. *)
LEMMA QuietStep ==
    ASSUME BddInv, BddTypeOK', NEW w \in Workers, NEW to \in HandlerStates, WorkerGoes(w, to),
           UNCHANGED areaCases, trace'.raced = trace.raced,
           to.at = "apply" => ListingKnows(w)' /\ ListingIsTrue(w)',
           trace'.serial => trace.serial /\ (worker[w] = Waiting => ~Busy),
           trace'.serial /\ to.at = "apply" => Progress(w)',
           trace'.serial /\ to = Waiting /\ trace'.last.by \in {"push", "cli"}
              => Shows(trace.last.titles, trace.last.by)'
    PROVE  BddInv'
<1>1. /\ worker'[w] = to
      /\ \A v \in Workers \ {w} : worker'[v] = worker[v]
  BY GoesOn DEF BddInv
<1>2. TwinsNeedARace'
  BY DEF BddInv, TwinsNeedARace
<1>3. ASSUME NEW v \in Workers, worker'[v].at = "apply"
      PROVE  ListingKnows(v)' /\ ListingIsTrue(v)'
  <2>1. CASE v = w
    BY <1>1, <1>3, <2>1
  <2>2. CASE v # w
    BY <1>1, <1>3, <2>2 DEF BddInv, ListingKnows, ListingIsTrue
  <2>3. QED BY <2>1, <2>2
<1>4. ASSUME trace'.serial
      PROVE  /\ \A u, v \in Workers : worker'[u] # Waiting /\ worker'[v] # Waiting => u = v
             /\ \A v \in Workers : worker'[v].at = "apply" => Progress(v)'
             /\ ~Busy' /\ trace'.last.by \in {"push", "cli"}
                   => Shows(trace.last.titles, trace.last.by)'
  <2>1. \A v \in Workers \ {w} : worker[v] = Waiting
    BY <1>4 DEF BddInv, Busy
  <2>2. \A v \in Workers \ {w} : worker'[v] = Waiting /\ worker'[v].at # "apply"
    BY <1>1, <2>1 DEF Waiting
  <2>3. ~Busy' => to = Waiting
    BY <1>1 DEF Busy
  <2>4. QED BY <1>1, <1>4, <2>2, <2>3
<1>5. QED BY <1>2, <1>3, <1>4 DEF BddInv

(* A handler creates or changes a case. *)
LEMMA AreaStep ==
    ASSUME BddInv, BddTypeOK', TwinsNeedARace', NEW w \in Workers, worker[w] \in Applying,
           NEW to \in Applying, WorkerGoes(w, to), trace'.serial = trace.serial,
           \A v \in Workers : worker'[v].at = "apply" => ListingKnows(v)' /\ ListingIsTrue(v)',
           trace.serial => Progress(w)'
    PROVE  BddInv'
<1>1. /\ worker'[w] = to /\ to # Waiting /\ worker[w] # Waiting
      /\ \A v \in Workers \ {w} : worker'[v] = worker[v]
  <2>1. to \in HandlerStates
    BY DEF HandlerStates
  <2>2. to # Waiting /\ worker[w] # Waiting
    BY DEF Applying, Waiting
  <2>3. QED BY <2>1, <2>2, GoesOn DEF BddInv
<1>2. ASSUME trace.serial
      PROVE  /\ \A u, v \in Workers : worker'[u] # Waiting /\ worker'[v] # Waiting => u = v
             /\ \A v \in Workers : worker'[v].at = "apply" => Progress(v)'
  <2>1. \A v \in Workers \ {w} : worker[v] = Waiting
    BY <1>1, <1>2 DEF BddInv
  <2>2. \A v \in Workers \ {w} : worker'[v] = Waiting /\ worker'[v].at # "apply"
    BY <1>1, <2>1 DEF Waiting
  <2>3. QED BY <1>1, <1>2, <2>2
<1>3. Busy'
  BY <1>1 DEF Busy
<1>4. QED BY <1>2, <1>3 DEF BddInv

(* A commit changes the head of the branch, and no case. *)
LEMMA PushStep ==
    ASSUME BddInv, NEW fs \in (SUBSET Files) \ {{}}, NEW content \in Contents,
           NEW deleted \in BOOLEAN, Push(fs, content, deleted)
    PROVE  BddInv'
<1>1. head' \in [Files -> Contents \cup {Gone}]
  BY DEF Push, BddInv, BddTypeOK
<1>2. \A e \in events' : e.files \in FileLists /\ e.deleted \in BOOLEAN
  BY CommitFiles DEF Push, BddInv, BddTypeOK
<1>3. /\ trace' \in Traces
      /\ trace'.raced = trace.raced /\ trace'.serial = trace.serial /\ trace'.last = trace.last
  BY DEF Push, BddInv, BddTypeOK, Traces
<1>4. UNCHANGED << areaCases, worker >>
  BY DEF Push
<1>5. BddTypeOK'
  BY <1>1, <1>2, <1>3, <1>4 DEF BddInv, BddTypeOK
<1>6. QED
  BY <1>3, <1>4, <1>5 DEF BddInv, TwinsNeedARace, ListingKnows, ListingIsTrue, Progress,
                          Shows, HasTitle, Busy

(* A handler starts. *)
LEMMA StartStep ==
    ASSUME BddInv, NEW w \in Workers, NEW to \in OnItsWay, WorkerGoes(w, to),
           worker[w] = Waiting, NEW n \in Nat, trace' = Started(n),
           \A e \in events' : e \in events,
           UNCHANGED << head, areaCases >>
    PROVE  BddInv'
<1>1. to \in HandlerStates /\ to.at # "apply" /\ to # Waiting
  BY DEF HandlerStates, OnItsWay, Waiting
<1>2. worker' \in [Workers -> HandlerStates]
  BY <1>1, GoesOn DEF BddInv
<1>3. /\ trace' \in Traces
      /\ trace'.raced = trace.raced
      /\ trace'.serial => trace.serial /\ ~Busy
  <2>1. trace \in Traces
    BY DEF BddInv, BddTypeOK
  <2>2. trace.pushes + n \in Nat
    BY <2>1 DEF Traces
  <2>3. PICK alone \in BOOLEAN :
           /\ alone => trace.serial /\ ~Busy
           /\ trace' = [trace EXCEPT !.pushes = trace.pushes + n, !.serial = alone]
    BY DEF Started
  <2>4. trace' \in Traces
    BY <2>1, <2>2, <2>3 DEF Traces
  <2>5. trace'.raced = trace.raced /\ trace'.serial = alone
    BY <2>1, <2>3 DEF Traces
  <2>6. QED BY <2>3, <2>4, <2>5
<1>4. BddTypeOK'
  BY <1>2, <1>3 DEF BddInv, BddTypeOK
<1>5. QED BY <1>1, <1>3, <1>4, QuietStep

(* The handler of a push starts. *)
LEMMA GitPushStep ==
    ASSUME BddInv, NEW w \in Workers, NEW e \in events, handleGitPush(w, e)
    PROVE  BddInv'
<1> DEFINE to == [at |-> IF e.deleted THEN "list" ELSE "read", by |-> "push",
                  deleted |-> e.deleted, files |-> e.files, titles |-> Gone]
<1>1. e.files \in FileLists /\ e.deleted \in BOOLEAN
  BY DEF BddInv, BddTypeOK
<1>2. to \in OnItsWay
  BY <1>1, ContentsAreTitles DEF OnItsWay
<1>3. /\ worker[w] = Waiting /\ WorkerGoes(w, to) /\ trace' = Started(0)
      /\ \A d \in events' : d \in events
      /\ UNCHANGED << head, areaCases >>
  BY DEF handleGitPush
<1> HIDE DEF to
<1>4. QED BY <1>2, <1>3, StartStep

(* A run of the command line starts. *)
LEMMA CommandStep ==
    ASSUME BddInv, NEW w \in Workers, NEW fs \in (SUBSET Files) \ {{}}, processBddSync(w, fs)
    PROVE  BddInv'
<1> DEFINE files == SetToSeq(fs)
           contents == [i \in DOMAIN files |-> head[files[i]]]
           to == [at |-> "list", by |-> "cli", deleted |-> FALSE, files |-> files,
                  titles |-> FlattenSeq(contents)]
<1>1. files \in FileLists
  BY CommitFiles
<1>2. contents \in Seq(Seq(AllTitles))
  <2> HIDE DEF files
  <2>1. /\ Len(files) \in Nat /\ DOMAIN files = 1..Len(files)
        /\ \A i \in 1..Len(files) : files[i] \in Files
    BY <1>1, LenProperties, ElementOfSeq DEF FileLists
  <2>2. \A f \in Files : head[f] \in Seq(AllTitles)
    BY ContentsAreTitles DEF BddInv, BddTypeOK
  <2>3. contents \in [1..Len(files) -> Seq(AllTitles)]
    BY <2>1, <2>2
  <2>4. QED BY <2>1, <2>3, SeqDef
<1>3. to \in OnItsWay
  <2> HIDE DEF files, contents
  <2>1. FlattenSeq(contents) \in Seq(AllTitles)
    BY <1>2, Flattened
  <2>2. QED BY <1>1, <2>1 DEF OnItsWay
<1>4. /\ worker[w] = Waiting /\ WorkerGoes(w, to) /\ trace' = Started(1)
      /\ UNCHANGED << head, areaCases, events >>
  BY DEF processBddSync
<1> HIDE DEF to
<1>5. QED BY <1>3, <1>4, StartStep

(* A request that fails ends its handler. *)
LEMMA FailureStep ==
    ASSUME BddInv, NEW w \in Workers, worker[w] # Waiting, Fails(w),
           UNCHANGED << head, events, areaCases >>
    PROVE  BddInv'
<1>1. Waiting \in HandlerStates /\ Waiting.at # "apply"
  BY DEF HandlerStates, Waiting
<1>2. WorkerGoes(w, Waiting)
  BY DEF Fails
<1>3. trace \in Traces
  BY DEF BddInv, BddTypeOK
<1>4. /\ trace' \in Traces
      /\ trace'.raced = trace.raced /\ trace'.serial = trace.serial
      /\ trace'.last.by = "failure"
  <2>1. trace.faults + 1 \in Nat
    BY <1>3 DEF Traces
  <2>2. trace' = [trace EXCEPT !.faults = trace.faults + 1, !.last = [@ EXCEPT !.by = "failure"]]
    BY DEF Fails
  <2>3. [trace.last EXCEPT !.by = "failure"] =
          [by |-> "failure", titles |-> trace.last.titles]
    BY <1>3 DEF Traces
  <2>4. trace' = [pushes |-> trace.pushes, faults |-> trace.faults + 1, serial |-> trace.serial,
                  raced |-> trace.raced, last |-> [by |-> "failure", titles |-> trace.last.titles]]
    BY <1>3, <2>2, <2>3 DEF Traces
  <2>5. QED BY <1>3, <2>1, <2>4 DEF Traces
<1>5. worker' \in [Workers -> HandlerStates]
  BY <1>1, <1>2, GoesOn DEF BddInv
<1>6. BddTypeOK'
  BY <1>4, <1>5 DEF BddInv, BddTypeOK
<1>7. QED BY <1>1, <1>2, <1>4, <1>6, QuietStep

(* The content of a file is read at the head of the branch. *)
LEMMA ReadStep ==
    ASSUME BddInv, NEW w \in Workers, readFile(w)
    PROVE  BddInv'
<1> DEFINE content == head[Head(worker[w].files)]
           to == [worker[w] EXCEPT !.at = "list", !.titles = content]
<1>1. worker[w] \in OnItsWay /\ worker[w] # Waiting
  BY HandlerHolds DEF readFile, BddInv, OnItsWay, Waiting
<1>2. CASE content = Gone
  BY <1>1, <1>2, FailureStep DEF readFile
<1>3. CASE content # Gone
  <2>1. content \in Seq(AllTitles)
    <3>1. Head(worker[w].files) \in Files
      BY <1>1, HeadTailProperties DEF OnItsWay, FileLists
    <3>2. QED BY <3>1, ContentsAreTitles DEF BddInv, BddTypeOK
  <2>2. to \in OnItsWay /\ to.at # "apply" /\ to # Waiting
    BY <1>1, <2>1 DEF OnItsWay, Waiting
  <2>3. WorkerGoes(w, to) /\ UNCHANGED << head, events, areaCases, trace >>
    BY <1>3 DEF readFile
  <2>4. worker' \in [Workers -> HandlerStates] /\ to \in HandlerStates
    BY <2>2, <2>3, GoesOn DEF BddInv, HandlerStates
  <2>5. BddTypeOK'
    BY <2>3, <2>4 DEF BddInv, BddTypeOK
  <2> HIDE DEF to
  <2>6. QED BY <1>1, <2>2, <2>3, <2>4, <2>5, QuietStep
<1>4. QED BY <1>2, <1>3

(* A handler lists the area: it knows all of it, and what to sweep. *)
LEMMA ListStep ==
    ASSUME BddInv, NEW w \in Workers, listCases(w)
    PROVE  BddInv'
<1> DEFINE me == worker[w]
           listed == ToSet(Listing(areaCases))
           gone == {c \in listed : c.bdd /\ c.title \notin ToSet(me.titles)}
           to == [at |-> "apply", by |-> me.by, deleted |-> me.deleted, files |-> me.files,
                  titles |-> me.titles, todo |-> me.titles, listed |-> listed,
                  sweep |-> IF me.by = "cli" THEN {} ELSE gone]
<1>1. /\ WorkerGoes(w, to) /\ me.at = "list"
      /\ UNCHANGED << head, events, areaCases, trace >>
  BY DEF listCases
<1>2. me \in OnItsWay /\ me # Waiting
  BY <1>1, HandlerHolds DEF BddInv, OnItsWay, Waiting
<1>3. /\ listed \subseteq ListedCase
      /\ \A c \in listed :
            /\ c.id \in DOMAIN areaCases
            /\ areaCases[c.id].title = c.title /\ areaCases[c.id].bdd = c.bdd
      /\ \A i \in DOMAIN areaCases : \E c \in listed :
            c.id = i /\ c.title = areaCases[i].title /\ c.bdd = areaCases[i].bdd
  BY ListingIsTyped DEF BddInv
<1>4. to \in Applying
  BY <1>2, <1>3 DEF OnItsWay, Applying
<1>5. worker' \in [Workers -> HandlerStates] /\ to \in HandlerStates /\ worker'[w] = to
  BY <1>1, <1>4, GoesOn DEF BddInv, HandlerStates
<1>6. BddTypeOK'
  BY <1>1, <1>5 DEF BddInv, BddTypeOK
<1>7. ListingKnows(w)'
  <2> HIDE DEF listed
  <2>1. worker'[w].listed = listed
    BY <1>5
  <2>2. QED BY <1>1, <1>3, <2>1 DEF ListingKnows
<1>8. ListingIsTrue(w)'
  BY <1>1, <1>3, <1>5 DEF ListingIsTrue
<1>9. Progress(w)'
  <2>1. ASSUME me.by = "push", NEW i \in DOMAIN areaCases, areaCases[i].bdd,
               areaCases[i].title \notin ToSet(me.titles)
        PROVE  \E c \in gone : c.id = i
    BY <1>3, <2>1
  <2>2. QED BY <1>1, <1>5, <2>1 DEF Progress
<1>10. to # Waiting
  BY DEF Waiting
<1> HIDE DEF to
<1>11. QED BY <1>1, <1>2, <1>5, <1>6, <1>7, <1>8, <1>9, <1>10, QuietStep

(* A file is done: what the handler brought about is what the area shows. *)
LEMMA FinishStep ==
    ASSUME BddInv, NEW w \in Workers, Finish(w)
    PROVE  BddInv'
<1> DEFINE me == worker[w]
           left == Tail(me.files)
           to == IF left = << >> \/ me.by = "cli" THEN Waiting
                 ELSE [at |-> IF me.deleted THEN "list" ELSE "read", by |-> "push",
                       deleted |-> me.deleted, files |-> left, titles |-> Gone]
<1>1. /\ WorkerGoes(w, to) /\ me.at = "apply" /\ me.todo = << >> /\ me.sweep = {}
      /\ trace' = [trace EXCEPT !.last = [by |-> me.by, titles |-> ToSet(me.titles)]]
      /\ UNCHANGED << head, events, areaCases >>
  BY DEF Finish, FileDone
<1>2. me \in Applying /\ me # Waiting
  BY <1>1, HandlerHolds DEF BddInv, Applying, Waiting
<1>3. to \in HandlerStates /\ to.at # "apply"
  <2>1. left = << >> \/ left \in FileLists
    BY <1>2, HeadTailProperties DEF Applying, FileLists
  <2>2. QED BY <1>2, <2>1, ContentsAreTitles DEF Applying, HandlerStates, OnItsWay, Waiting
<1>4. /\ trace' \in Traces
      /\ trace'.raced = trace.raced /\ trace'.serial = trace.serial
      /\ trace'.last = [by |-> me.by, titles |-> ToSet(me.titles)]
  <2>1. ToSet(me.titles) \subseteq AllTitles
    BY <1>2, Elements DEF Applying
  <2>2. trace \in Traces
    BY DEF BddInv, BddTypeOK
  <2>3. QED BY <1>1, <1>2, <2>1, <2>2 DEF Traces, Applying
<1>5. BddTypeOK'
  BY <1>1, <1>3, <1>4, GoesOn DEF BddInv, BddTypeOK
<1>6. trace.serial => Shows(ToSet(me.titles), me.by)
  <2>1. ToSet(me.todo) = {}
    BY <1>1 DEF ToSet
  <2>2. QED BY <1>1, <2>1 DEF BddInv, Progress, Shows
<1>7. trace.serial => Shows(trace.last.titles, trace.last.by)'
  BY <1>1, <1>4, <1>6 DEF Shows, HasTitle
<1> HIDE DEF to
<1>8. QED BY <1>1, <1>2, <1>3, <1>4, <1>5, <1>7, QuietStep

(* A scenario without a case gets one: a second one of its title only if the
   title is raced already. *)
LEMMA CreateStep ==
    ASSUME BddInv, NEW w \in Workers, create(w)
    PROVE  BddInv'
<1> DEFINE me == worker[w]
           title == Head(me.todo)
           N == Len(areaCases) + 1
           new == [id |-> N, title |-> title, bdd |-> TRUE]
           listed == IF me.by = "cli" THEN me.listed \cup {new} ELSE me.listed
           to == [me EXCEPT !.todo = Tail(me.todo), !.listed = listed]
           raced == IF Raced(w, title) THEN trace.raced \cup {title} ELSE trace.raced
<1>1. /\ me.at = "apply" /\ me.todo # << >> /\ Existing(me.listed, title) = {}
      /\ areaCases' = Append(areaCases, [title |-> title, bdd |-> TRUE, active |-> TRUE])
      /\ WorkerGoes(w, to) /\ trace' = [trace EXCEPT !.raced = raced]
      /\ UNCHANGED << head, events >>
  BY DEF create
<1>2. me \in Applying
  BY <1>1, HandlerHolds DEF BddInv
<1>3. /\ title \in AllTitles /\ Tail(me.todo) \in Seq(AllTitles)
      /\ ToSet(me.todo) = {title} \cup ToSet(Tail(me.todo))
  BY <1>1, <1>2, HeadAndTail DEF Applying
<1>4. /\ areaCases' \in Seq(AreaCase) /\ N \in Nat /\ N \notin DOMAIN areaCases
      /\ DOMAIN areaCases' = DOMAIN areaCases \cup {N}
      /\ \A i \in DOMAIN areaCases : areaCases'[i] = areaCases[i]
      /\ areaCases'[N].title = title
  <2>1. BddTypeOK /\ title \in AllTitles
    BY <1>3 DEF BddInv
  <2>2. areaCases' = Append(areaCases, [title |-> title, bdd |-> TRUE, active |-> TRUE])
    BY <1>1
  <2> HIDE DEF title
  <2>3. /\ areaCases' \in Seq(AreaCase)
        /\ Len(areaCases) \in Nat /\ Len(areaCases) + 1 \notin DOMAIN areaCases
        /\ DOMAIN areaCases' = DOMAIN areaCases \cup {Len(areaCases) + 1}
        /\ \A i \in DOMAIN areaCases : areaCases'[i] = areaCases[i]
        /\ areaCases'[Len(areaCases) + 1] = [title |-> title, bdd |-> TRUE, active |-> TRUE]
    BY <2>1, <2>2, CaseAdded
  <2>4. QED BY <2>3
<1>5. /\ to \in Applying
      /\ to.by = me.by /\ to.titles = me.titles /\ to.sweep = me.sweep
      /\ to.todo = Tail(me.todo) /\ to.listed = listed
  <2>1. new \in ListedCase
    BY <1>3, <1>4 DEF ListedCase
  <2>2. listed \subseteq ListedCase
    BY <1>2, <2>1 DEF Applying
  <2> HIDE DEF listed
  <2>3. QED BY <1>2, <1>3, <2>2 DEF Applying
<1>6. /\ trace \in Traces /\ trace' \in Traces
      /\ trace'.raced = raced /\ trace'.serial = trace.serial
  <2>1. trace \in Traces /\ raced \subseteq AllTitles
    BY <1>3 DEF BddInv, BddTypeOK, Traces
  <2>2. QED BY <1>1, <2>1 DEF Traces
<1>7. /\ worker' \in [Workers -> HandlerStates] /\ to \in HandlerStates /\ worker'[w] = to
      /\ \A v \in Workers \ {w} : worker'[v] = worker[v]
  BY <1>1, <1>5, GoesOn DEF BddInv, HandlerStates
<1>8. BddTypeOK'
  BY <1>1, <1>4, <1>6, <1>7 DEF BddInv, BddTypeOK
<1>9. ListingKnows(w) /\ ListingIsTrue(w)
  BY <1>1 DEF BddInv
<1>10. \A i \in DOMAIN areaCases : areaCases[i].title = title => title \in trace.raced
  BY <1>1, <1>3, <1>9 DEF ListingKnows, Existing
<1>11. TwinsNeedARace'
  <2>1. trace.raced \subseteq trace'.raced
    BY <1>6
  <2>2. QED BY <1>4, <1>10, <2>1 DEF BddInv, TwinsNeedARace
<1>12. ASSUME NEW v \in Workers, worker'[v].at = "apply"
       PROVE  ListingKnows(v)' /\ ListingIsTrue(v)'
  <2>1. CASE v = w
    <3>1. ListingKnows(w)'
      <4>1. ASSUME NEW i \in DOMAIN areaCases'
            PROVE  \/ \E c \in listed : c.title = areaCases'[i].title
                   \/ areaCases'[i].title \in raced
                   \/ me.by = "push" /\ areaCases'[i].title \notin ToSet(Tail(me.todo))
        <5>1. CASE i = N
          <6>1. CASE me.by = "cli"
            <7>1. new \in listed /\ new.title = areaCases'[i].title
              BY <1>4, <5>1, <6>1
            <7>2. QED BY <7>1
          <6>2. CASE me.by = "push"
            BY <1>4, <5>1, <6>2 DEF Raced
          <6>3. QED BY <1>2, <6>1, <6>2 DEF Applying
        <5>2. CASE i \in DOMAIN areaCases
          BY <1>3, <1>4, <1>9, <5>2 DEF ListingKnows
        <5>3. QED BY <1>4, <5>1, <5>2
      <4> HIDE DEF to, listed, raced
      <4>2. QED BY <1>5, <1>6, <1>7, <4>1 DEF ListingKnows
    <3>2. ListingIsTrue(w)'
      <4>1. \A c \in listed : c.id \in DOMAIN areaCases' /\ areaCases'[c.id].title = c.title
        BY <1>4, <1>9 DEF ListingIsTrue
      <4>2. ToSet(Tail(me.todo)) \subseteq ToSet(me.titles)
        BY <1>3, <1>9 DEF ListingIsTrue
      <4> HIDE DEF to, listed
      <4>3. QED BY <1>5, <1>7, <4>1, <4>2 DEF ListingIsTrue
    <3>3. QED BY <2>1, <3>1, <3>2
  <2>2. CASE v # w
    <3>1. worker'[v] = worker[v] /\ ListingKnows(v) /\ ListingIsTrue(v) /\ worker[v].at = "apply"
      BY <1>7, <1>12, <2>2 DEF BddInv
    <3>2. title \in raced \/ \E c \in worker[v].listed : c.title = title
      BY <2>2, <3>1 DEF Raced, Existing
    <3>3. trace.raced \subseteq raced
      OBVIOUS
    <3>4. ListingKnows(v)'
      <4> HIDE DEF raced
      <4>1. QED BY <1>4, <1>6, <3>1, <3>2, <3>3 DEF ListingKnows
    <3>5. ListingIsTrue(v)'
      BY <1>4, <3>1 DEF ListingIsTrue
    <3>6. QED BY <3>4, <3>5
  <2>3. QED BY <2>1, <2>2
<1>13. trace.serial => Progress(w)'
  <2> SUFFICES ASSUME trace.serial PROVE Progress(w)'
    OBVIOUS
  <2>1. Progress(w)
    BY <1>1 DEF BddInv
  <2>2. \A t \in ToSet(me.titles) : t \in ToSet(Tail(me.todo)) \/ HasTitle(t)'
    BY <1>3, <1>4, <2>1 DEF Progress, HasTitle
  <2>3. title \in ToSet(me.titles)
    BY <1>3, <1>9 DEF ListingIsTrue
  <2>4. me.by = "push" => \A i \in DOMAIN areaCases' : areaCases'[i].bdd /\ areaCases'[i].active =>
           areaCases'[i].title \in ToSet(me.titles) \/ \E c \in me.sweep : c.id = i
    BY <1>4, <2>1, <2>3 DEF Progress
  <2> HIDE DEF to
  <2>5. QED BY <1>5, <1>7, <2>2, <2>4 DEF Progress
<1> HIDE DEF to
<1>14. QED BY <1>1, <1>2, <1>5, <1>6, <1>8, <1>11, <1>12, <1>13, AreaStep

(* Titles and listings are as true after a case was written as before. *)
LEMMA WrittenKeeps ==
    ASSUME BddInv, BddTypeOK', NEW w \in Workers, worker[w] \in Applying,
           NEW to \in Applying, WorkerGoes(w, to), UNCHANGED trace,
           DOMAIN areaCases' = DOMAIN areaCases,
           \A i \in DOMAIN areaCases : areaCases'[i].title = areaCases[i].title,
           to.by = worker[w].by, to.listed = worker[w].listed, to.titles = worker[w].titles,
           ToSet(to.todo) \subseteq ToSet(worker[w].todo),
           trace.serial => Progress(w)'
    PROVE  BddInv'
<1>1. /\ worker'[w] = to /\ worker[w].at = "apply"
      /\ \A v \in Workers \ {w} : worker'[v] = worker[v]
  <2>1. to \in HandlerStates
    BY DEF HandlerStates
  <2>2. QED BY <2>1, GoesOn DEF BddInv, Applying
<1>2. TwinsNeedARace'
  BY DEF BddInv, TwinsNeedARace
<1>3. ASSUME NEW v \in Workers, worker'[v].at = "apply"
      PROVE  ListingKnows(v)' /\ ListingIsTrue(v)'
  <2>1. /\ worker[v].at = "apply" /\ worker'[v].by = worker[v].by
        /\ worker'[v].listed = worker[v].listed /\ worker'[v].titles = worker[v].titles
        /\ ToSet(worker'[v].todo) \subseteq ToSet(worker[v].todo)
    BY <1>1, <1>3
  <2>2. ListingKnows(v) /\ ListingIsTrue(v)
    BY <2>1 DEF BddInv
  <2>3. QED BY <2>1, <2>2 DEF ListingKnows, ListingIsTrue
<1>4. QED BY <1>2, <1>3, AreaStep

(* A scenario with a case updates the last one of its title. *)
LEMMA UpdateStep ==
    ASSUME BddInv, NEW w \in Workers, update(w)
    PROVE  BddInv'
<1> DEFINE me == worker[w]
           title == Head(me.todo)
           known == Existing(me.listed, title)
           n == LastOf(known).id
           to == [me EXCEPT !.todo = Tail(me.todo)]
<1>1. /\ me.at = "apply" /\ me.todo # << >> /\ known # {}
      /\ areaCases' = [areaCases EXCEPT ![n] = [@ EXCEPT !["bdd"] = TRUE]]
      /\ WorkerGoes(w, to) /\ UNCHANGED << head, events, trace >>
  BY DEF update
<1>2. me \in Applying /\ ListingIsTrue(w)
  BY <1>1, HandlerHolds DEF BddInv
<1>3. /\ Tail(me.todo) \in Seq(AllTitles)
      /\ ToSet(me.todo) = {title} \cup ToSet(Tail(me.todo))
  BY <1>1, <1>2, HeadAndTail DEF Applying
<1>4. to \in Applying
  BY <1>2, <1>3 DEF Applying
<1>5. LastOf(known) \in known
  <2>1. \A c \in known : c.id \in 1..Len(areaCases)
    BY <1>2, LenProperties DEF ListingIsTrue, Existing, BddInv, BddTypeOK
  <2>2. Len(areaCases) \in Nat
    BY LenProperties DEF BddInv, BddTypeOK
  <2> HIDE DEF known
  <2>3. QED BY <1>1, <2>1, <2>2, OneIsLast
<1>6. n \in DOMAIN areaCases /\ areaCases[n].title = title
  BY <1>2, <1>5 DEF ListingIsTrue, Existing
<1>7. /\ areaCases' \in Seq(AreaCase)
      /\ DOMAIN areaCases' = DOMAIN areaCases
      /\ \A i \in DOMAIN areaCases : areaCases'[i].title = areaCases[i].title
      /\ \A i \in DOMAIN areaCases \ {n} : areaCases'[i] = areaCases[i]
  <2> HIDE DEF n
  <2>1. BddTypeOK
    BY DEF BddInv
  <2>2. QED BY <1>1, <2>1, CaseWritten
<1>8. worker' \in [Workers -> HandlerStates] /\ worker'[w] = to
  BY <1>1, <1>4, GoesOn DEF BddInv, HandlerStates
<1>9. BddTypeOK'
  BY <1>1, <1>7, <1>8 DEF BddInv, BddTypeOK
<1>10. trace.serial => Progress(w)'
  <2> SUFFICES ASSUME trace.serial PROVE Progress(w)'
    OBVIOUS
  <2>1. Progress(w)
    BY <1>1 DEF BddInv
  <2>2. to.titles = me.titles /\ to.by = me.by /\ to.sweep = me.sweep /\ to.todo = Tail(me.todo)
    BY <1>2 DEF Applying
  <2>3. ASSUME NEW t \in ToSet(me.titles)
        PROVE  t \in ToSet(Tail(me.todo)) \/ HasTitle(t)'
    <3>1. t \in ToSet(Tail(me.todo)) \/ t = title \/ HasTitle(t)
      BY <1>3, <2>1 DEF Progress
    <3>2. HasTitle(title)
      BY <1>6 DEF HasTitle
    <3>3. HasTitle(t) => HasTitle(t)'
      BY <1>7 DEF HasTitle
    <3>4. QED BY <3>1, <3>2, <3>3
  <2>4. title \in ToSet(me.titles)
    BY <1>2, <1>3 DEF ListingIsTrue
  <2>5. me.by = "push" => \A i \in DOMAIN areaCases : areaCases'[i].bdd /\ areaCases'[i].active =>
           areaCases'[i].title \in ToSet(me.titles) \/ \E c \in me.sweep : c.id = i
    BY <1>6, <1>7, <2>1, <2>4 DEF Progress
  <2> HIDE DEF to
  <2>6. QED BY <1>7, <1>8, <2>2, <2>3, <2>5 DEF Progress
<1>11. /\ to.by = me.by /\ to.listed = me.listed /\ to.titles = me.titles
       /\ ToSet(to.todo) \subseteq ToSet(me.todo)
  BY <1>2, <1>3 DEF Applying
<1> HIDE DEF to
<1>12. QED BY <1>1, <1>2, <1>4, <1>7, <1>9, <1>10, <1>11, WrittenKeeps

(* A case of a scenario that is gone is deprecated. *)
LEMMA DeprecateStep ==
    ASSUME BddInv, NEW w \in Workers, deprecate(w)
    PROVE  BddInv'
<1> DEFINE me == worker[w]
           c == FirstOf(me.sweep)
           n == c.id
           to == [me EXCEPT !.sweep = me.sweep \ {c}]
<1>1. /\ me.at = "apply"
      /\ areaCases' = [areaCases EXCEPT ![n] = [@ EXCEPT !["active"] = FALSE]]
      /\ WorkerGoes(w, to) /\ UNCHANGED << head, events, trace >>
  BY DEF deprecate
<1>2. me \in Applying
  BY <1>1, HandlerHolds DEF BddInv
<1>3. to \in Applying
  BY <1>2 DEF Applying
<1>4. /\ areaCases' \in Seq(AreaCase)
      /\ DOMAIN areaCases' = DOMAIN areaCases
      /\ \A i \in DOMAIN areaCases : areaCases'[i].title = areaCases[i].title
      /\ \A i \in DOMAIN areaCases \ {n} : areaCases'[i] = areaCases[i]
      /\ n \in DOMAIN areaCases => areaCases'[n].active = FALSE
  <2> HIDE DEF n
  <2>1. BddTypeOK
    BY DEF BddInv
  <2>2. QED BY <1>1, <2>1, CaseWritten
<1>5. worker' \in [Workers -> HandlerStates] /\ worker'[w] = to
  BY <1>1, <1>3, GoesOn DEF BddInv, HandlerStates
<1>6. BddTypeOK'
  BY <1>1, <1>4, <1>5 DEF BddInv, BddTypeOK
<1>7. /\ to.by = me.by /\ to.listed = me.listed /\ to.titles = me.titles
      /\ to.todo = me.todo /\ to.sweep = me.sweep \ {c}
  BY <1>2 DEF Applying
<1>8. trace.serial => Progress(w)'
  <2> SUFFICES ASSUME trace.serial PROVE Progress(w)'
    OBVIOUS
  <2>1. Progress(w)
    BY <1>1 DEF BddInv
  <2>2. \A t \in ToSet(me.titles) : t \in ToSet(me.todo) \/ HasTitle(t)'
    BY <1>4, <2>1 DEF Progress, HasTitle
  <2>3. ASSUME me.by = "push", NEW i \in DOMAIN areaCases,
               areaCases'[i].bdd, areaCases'[i].active
        PROVE  areaCases'[i].title \in ToSet(me.titles) \/ \E d \in me.sweep \ {c} : d.id = i
    <3>1. i # n
      BY <1>4, <2>3
    <3>2. areaCases[i].title \in ToSet(me.titles) \/ \E d \in me.sweep : d.id = i
      BY <1>4, <2>1, <2>3, <3>1 DEF Progress
    <3>3. QED BY <1>4, <3>1, <3>2
  <2> HIDE DEF to, c
  <2>4. QED BY <1>4, <1>5, <1>7, <2>2, <2>3 DEF Progress
<1> HIDE DEF to
<1>9. QED BY <1>1, <1>2, <1>3, <1>4, <1>6, <1>7, <1>8, WrittenKeeps

(* Every step keeps the invariant. *)
THEOREM BddStep == BddInv /\ [BddNext]_bddVars => BddInv'
<1> SUFFICES ASSUME BddInv, [BddNext]_bddVars PROVE BddInv'
  OBVIOUS
<1>1. ASSUME NEW fs \in (SUBSET Files) \ {{}}, NEW content \in Contents,
             NEW deleted \in BOOLEAN, Push(fs, content, deleted)
      PROVE  BddInv'
  BY <1>1, PushStep
<1>2. ASSUME NEW w \in Workers, NEW e \in events, handleGitPush(w, e) PROVE BddInv'
  BY <1>2, GitPushStep
<1>3. ASSUME NEW w \in Workers, NEW fs \in (SUBSET Files) \ {{}}, processBddSync(w, fs)
      PROVE  BddInv'
  BY <1>3, CommandStep
<1>4. ASSUME NEW w \in Workers, readFile(w) PROVE BddInv'
  BY <1>4, ReadStep
<1>5. ASSUME NEW w \in Workers, listCases(w) PROVE BddInv'
  BY <1>5, ListStep
<1>6. ASSUME NEW w \in Workers, create(w) PROVE BddInv'
  BY <1>6, CreateStep
<1>7. ASSUME NEW w \in Workers, update(w) PROVE BddInv'
  BY <1>7, UpdateStep
<1>8. ASSUME NEW w \in Workers, deprecate(w) PROVE BddInv'
  BY <1>8, DeprecateStep
<1>9. ASSUME NEW w \in Workers, Finish(w) PROVE BddInv'
  BY <1>9, FinishStep
<1>10. ASSUME NEW w \in Workers, RequestFails(w) PROVE BddInv'
  BY <1>10, FailureStep DEF RequestFails
<1>11. CASE UNCHANGED bddVars
  <2>1. BddTypeOK' /\ TwinsNeedARace'
    BY <1>11 DEF bddVars, BddInv, BddTypeOK, TwinsNeedARace
  <2>2. \A w \in Workers : worker'[w].at = "apply" => ListingKnows(w)' /\ ListingIsTrue(w)'
    BY <1>11 DEF bddVars, BddInv, ListingKnows, ListingIsTrue
  <2>3. trace.serial => \A w \in Workers : worker'[w].at = "apply" => Progress(w)'
    BY <1>11 DEF bddVars, BddInv, Progress, HasTitle
  <2>4. Shows(trace.last.titles, trace.last.by) => Shows(trace.last.titles, trace.last.by)'
    BY <1>11 DEF bddVars, Shows, HasTitle
  <2>5. UNCHANGED << worker, trace >> /\ (Busy' <=> Busy)
    BY <1>11 DEF bddVars, Busy
  <2>6. QED BY <2>1, <2>2, <2>3, <2>4, <2>5 DEF BddInv
<1>12. QED
  BY <1>1, <1>2, <1>3, <1>4, <1>5, <1>6, <1>7, <1>8, <1>9, <1>10, <1>11 DEF BddNext

(* TwinsNeedARace, for any files, handlers, pushes and failures: handleGitPush
   and processBddSync give a title a second case only if they overlapped while
   one created it, or a file has it twice. *)
THEOREM TwinsAreRaced == BddSpec => []TwinsNeedARace
<1>1. BddInv => TwinsNeedARace
  BY DEF BddInv
<1>2. QED BY <1>1, InitBdd, BddStep, PTL DEF BddSpec

(* AreaShowsTheLastFile, for any files, pushes and failures: handlers that take
   turns leave the area showing the file handled last. *)
THEOREM LastFileIsShown == BddSpec => []AreaShowsTheLastFile
<1>1. BddInv => AreaShowsTheLastFile
  <2> SUFFICES ASSUME BddInv, trace.serial, ~Busy, trace.last.by \in {"push", "cli"}
               PROVE  /\ trace.last.titles \subseteq {areaCases[i].title : i \in DOMAIN areaCases}
                      /\ trace.last.by = "push" => \A i \in DOMAIN areaCases :
                            areaCases[i].bdd /\ areaCases[i].active
                               => areaCases[i].title \in trace.last.titles
    BY DEF AreaShowsTheLastFile
  <2>1. Shows(trace.last.titles, trace.last.by)
    BY DEF BddInv
  <2>2. QED BY <2>1 DEF Shows, HasTitle
<1>2. QED BY <1>1, InitBdd, BddStep, PTL DEF BddSpec

-----------------------------------------------------------------------------
(* Uploads from the command line.  A job is counted by its own records: the
   runs it closed are its matched items, place by place, and a run still open
   belongs to the item it is at. *)

ItemLists == {parseFile(r) : r \in Reports}
TestKeys == {keys[i] : keys \in Portfolios, i \in Nat}
            \cup {items[i].key : items \in ItemLists, i \in Nat}
TestCases == [key: TestKeys, by: Jobs \cup {"user"}]
TestRuns == [case: Nat, by: Jobs, outcome: {items[i].outcome : items \in ItemLists, i \in Nat},
             status: {"Unexecuted", "Pass", "Fail"}, state: {"InProgress", "Completed"}]

KeyMaps == UNION {[K -> Nat] : K \in SUBSET TestKeys}

JobOff == [phase |-> "off"]
JobPhases == {"list", "next", "start", "save", "finalize", "failed", "done"}
JobStates == [phase: JobPhases, mode: UploadModes, items: ItemLists, errors: Nat, at: Nat,
              autoKeyMap: KeyMaps, listed: Nat, case: Nat, run: Nat,
              matched: Nat, unmatched: Nat]

UploadTypeOK ==
    /\ tests \in Seq(TestCases)
    /\ results \in Seq(TestRuns)
    /\ job \in [Jobs -> {JobOff} \cup JobStates]

(* The phases in which a job has listed the cases and not failed. *)
Live == {"next", "start", "save", "finalize", "done"}

(* The map holds cases with their keys; a case of the job is younger than what
   it listed, and its key is in the map, as are those of the cases listed. *)
MapFits(j) ==
    /\ NoKey \notin DOMAIN job[j].autoKeyMap
    /\ \A k \in DOMAIN job[j].autoKeyMap :
          /\ job[j].autoKeyMap[k] \in DOMAIN tests
          /\ tests[job[j].autoKeyMap[k]].key = k

CasesFit(j) ==
    /\ job[j].phase \in {"off", "list"} => \A c \in DOMAIN tests : tests[c].by # j
    /\ job[j].phase \in Live =>
        /\ job[j].listed <= Len(tests)
        /\ \A c \in DOMAIN tests : tests[c].by = j =>
              c > job[j].listed /\ tests[c].key \in DOMAIN job[j].autoKeyMap
        /\ \A c \in DOMAIN tests :
              (c <= job[j].listed /\ c + ListLimit > job[j].listed /\ tests[c].key # NoKey) =>
                  tests[c].key \in DOMAIN job[j].autoKeyMap

OpenRuns(j) == RunsOf(j) \ ClosedRuns(j)

(* The items behind the job that have a case. *)
Behind(j) == {i \in MatchedItems(j) : i < job[j].at}

(* Where a job stands in its file; an item it passed without a case has no key,
   or the job creates none. *)
PlaceFits(j) ==
    /\ job[j].phase = "list" => job[j].at = 1 /\ job[j].matched = 0 /\ job[j].unmatched = 0
    /\ job[j].phase \in Live =>
        /\ job[j].at \in 1..(Len(job[j].items) + 1)
        /\ job[j].matched + job[j].unmatched + 1 = job[j].at
        /\ \A i \in DOMAIN job[j].items : i < job[j].at =>
              \/ job[j].items[i].key \in DOMAIN job[j].autoKeyMap
              \/ job[j].items[i].key = NoKey
              \/ job[j].mode = "match"
    /\ job[j].phase \in {"start", "save", "finalize"} =>
          job[j].at <= Len(job[j].items) /\ Item(j).key \in DOMAIN job[j].autoKeyMap
    /\ job[j].phase = "done" => job[j].at = Len(job[j].items) + 1

(* What was recorded of the items behind the job, in their order. *)
RecordsFit(j) ==
    job[j].phase \in Live =>
        /\ job[j].matched = Cardinality(ClosedRuns(j))
        /\ job[j].matched = Cardinality(Behind(j))
        /\ \A n \in ClosedRuns(j), i \in Behind(j) :
              Place(n, ClosedRuns(j)) = Place(i, Behind(j)) => Records(n, job[j].items[i])

(* The run under way is the last one of the job, on a case for its item. *)
RunFits(j) ==
    /\ job[j].phase \in {"off", "list"} => RunsOf(j) = {}
    /\ job[j].phase \in {"next", "start", "done"} => OpenRuns(j) = {}
    /\ job[j].phase = "start" =>
          job[j].case \in DOMAIN tests /\ tests[job[j].case].key = Item(j).key
    /\ job[j].phase \in {"save", "finalize"} =>
          /\ OpenRuns(j) = {job[j].run}
          /\ \A n \in RunsOf(j) : n <= job[j].run
          /\ tests[results[job[j].run].case].key = Item(j).key
    /\ job[j].phase = "finalize" =>
          results[job[j].run].status = IF Item(j).text THEN "Fail" ELSE "Pass"
    /\ \A m, n \in OpenRuns(j) : m = n

JobFits(j) ==
    /\ CasesFit(j)
    /\ job[j].phase # "off" => MapFits(j) /\ PlaceFits(j) /\ RecordsFit(j)
    /\ RunFits(j)

UploadInv ==
    /\ UploadTypeOK
    /\ \A n \in DOMAIN results : results[n].case \in DOMAIN tests
    /\ \A j \in Jobs : JobFits(j)
    /\ TwinsNeedAStaleListing

-----------------------------------------------------------------------------
(* The lists of a job *)

(* A list of items is a sequence. *)
LEMMA ItemsAreLists ==
    ASSUME NEW items \in ItemLists
    PROVE  Len(items) \in Nat /\ DOMAIN items = 1..Len(items)
<1>1. PICK r \in Reports : items = parseFile(r)
  BY DEF ItemLists
<1> DEFINE n == Len(r.results)
           f == [i \in DOMAIN r.results |->
                    [key |-> r.results[i].key, outcome |-> r.results[i].outcome,
                     text |-> r.results[i].outcome \in WithText[r.format]]]
           S == {f[i] : i \in 1..n}
<1>2. n \in Nat /\ DOMAIN r.results = 1..n
  BY UploadAssumption
<1>3. items = f
  BY <1>1 DEF parseFile
<1>4. f \in [1..n -> S]
  BY <1>2
<1> HIDE DEF f, S, n
<1>5. items \in Seq(S)
  BY <1>2, <1>3, <1>4
<1>6. QED BY <1>5

(* What the runs of a job are. *)
LEMMA RunsAreNumbers ==
    ASSUME UploadTypeOK, NEW j \in Jobs
    PROVE  /\ ClosedRuns(j) \in SUBSET Nat /\ IsFiniteSet(ClosedRuns(j))
           /\ RunsOf(j) \in SUBSET Nat /\ IsFiniteSet(RunsOf(j))
<1>1. Len(results) \in Nat /\ DOMAIN results = 1..Len(results)
  BY DEF UploadTypeOK
<1>2. RunsOf(j) \in SUBSET (1..Len(results)) /\ ClosedRuns(j) \in SUBSET (1..Len(results))
  BY <1>1 DEF RunsOf, ClosedRuns
<1>3. IsFiniteSet(1..Len(results)) /\ 1..Len(results) \in SUBSET Nat
  BY <1>1, FS_Interval
<1>4. QED BY <1>2, <1>3, FS_Subset

(* The items a job is past are finitely many numbers. *)
LEMMA ItemsAreNumbers ==
    ASSUME UploadTypeOK, NEW j \in Jobs, job[j] \in JobStates
    PROVE  Behind(j) \in SUBSET Nat /\ IsFiniteSet(Behind(j))
<1>1. Len(job[j].items) \in Nat /\ DOMAIN job[j].items = 1..Len(job[j].items)
  BY ItemsAreLists DEF JobStates
<1>2. Behind(j) \in SUBSET (1..Len(job[j].items))
  BY <1>1 DEF Behind, MatchedItems
<1>3. IsFiniteSet(1..Len(job[j].items)) /\ 1..Len(job[j].items) \in SUBSET Nat
  BY <1>1, FS_Interval
<1>4. QED BY <1>2, <1>3, FS_Subset

-----------------------------------------------------------------------------
(* What the jobs do to each other: cases and runs are only ever added, and a
   job changes its own runs. *)

CasesGrow(j) ==
    /\ tests' \in Seq(TestCases)
    /\ Len(tests) <= Len(tests')
    /\ \A c \in DOMAIN tests : c \in DOMAIN tests' /\ tests'[c] = tests[c]
    /\ \A c \in DOMAIN tests' : c \in DOMAIN tests \/ (c > Len(tests) /\ tests'[c].by = j)

RunsGrow(j) ==
    /\ \A n \in DOMAIN results :
          /\ n \in DOMAIN results' /\ results'[n].by = results[n].by
          /\ results[n].by # j => results'[n] = results[n]
    /\ \A n \in DOMAIN results' : n \in DOMAIN results \/ results'[n].by = j

(* A step that writes neither a case nor a run adds none. *)
LEMMA NothingGrows ==
    ASSUME UploadTypeOK, NEW j
    PROVE  /\ tests' = tests => CasesGrow(j)
           /\ results' = results => RunsGrow(j)
<1>1. tests \in Seq(TestCases) /\ Len(tests) \in Nat
  BY DEF UploadTypeOK
<1>2. QED BY <1>1 DEF CasesGrow, RunsGrow

(* The runs of a job are not changed by the steps of another. *)
LEMMA OtherRuns ==
    ASSUME UploadInv, NEW j \in Jobs, NEW i \in Jobs \ {j}, CasesGrow(j), RunsGrow(j)
    PROVE  /\ RunsOf(i)' = RunsOf(i) /\ ClosedRuns(i)' = ClosedRuns(i)
           /\ \A n \in RunsOf(i) : /\ results'[n] = results[n]
                                   /\ results[n].case \in DOMAIN tests
                                   /\ \A item : Records(n, item)' <=> Records(n, item)
<1>1. RunsOf(i)' = RunsOf(i) /\ \A n \in RunsOf(i) : results'[n] = results[n]
  BY DEF RunsGrow, RunsOf
<1>2. ClosedRuns(i)' = ClosedRuns(i)
  BY <1>1 DEF ClosedRuns
<1>3. \A n \in RunsOf(i) : results[n].case \in DOMAIN tests
  BY DEF UploadInv, RunsOf
<1>4. \A n \in RunsOf(i) : tests'[results'[n].case] = tests[results[n].case]
  BY <1>1, <1>3 DEF CasesGrow
<1>5. \A n \in RunsOf(i) : \A item : Records(n, item)' <=> Records(n, item)
  BY <1>1, <1>4 DEF Records
<1>6. QED BY <1>1, <1>2, <1>3, <1>5

(* The cases and runs of another job are its own. *)
LEMMA OtherJobs ==
    ASSUME UploadInv, NEW j \in Jobs, NEW i \in Jobs \ {j}, job'[i] = job[i],
           CasesGrow(j), RunsGrow(j)
    PROVE  JobFits(i)'
<1>1. JobFits(i) /\ UploadTypeOK
  BY DEF UploadInv
<1>2. /\ RunsOf(i)' = RunsOf(i) /\ ClosedRuns(i)' = ClosedRuns(i)
      /\ \A n \in RunsOf(i) : /\ results'[n] = results[n]
                              /\ results[n].case \in DOMAIN tests
                              /\ \A item : Records(n, item)' <=> Records(n, item)
  BY OtherRuns
<1>3. MatchedItems(i)' = MatchedItems(i) /\ Behind(i)' = Behind(i)
      /\ OpenRuns(i)' = OpenRuns(i) /\ Item(i)' = Item(i)
  BY <1>2 DEF MatchedItems, Behind, OpenRuns, Item
<1>4. CasesFit(i)'
  <2>1. ASSUME NEW c \in DOMAIN tests' PROVE c \in DOMAIN tests \/ (c > Len(tests) /\ tests'[c].by # i)
    BY DEF CasesGrow
  <2>2. /\ Len(tests) \in Nat /\ Len(tests') \in Nat /\ Len(tests) <= Len(tests')
        /\ DOMAIN tests \subseteq Nat /\ DOMAIN tests' \subseteq Nat
    BY <1>1 DEF CasesGrow, UploadTypeOK
  <2>3. \A c \in DOMAIN tests : c \in DOMAIN tests' /\ tests'[c] = tests[c]
    BY DEF CasesGrow
  <2>4. CASE job[i].phase \in {"off", "list"}
    BY <1>1, <2>1, <2>3, <2>4 DEF JobFits, CasesFit, Live
  <2>5. CASE job[i].phase \in Live
    <3>1. job[i].listed \in Nat /\ job[i].phase \notin {"off", "list"}
      BY <1>1, <2>5 DEF UploadTypeOK, JobStates, JobOff, Live
    <3>2. /\ job[i].listed <= Len(tests)
          /\ \A c \in DOMAIN tests : tests[c].by = i =>
                c > job[i].listed /\ tests[c].key \in DOMAIN job[i].autoKeyMap
          /\ \A c \in DOMAIN tests :
                (c <= job[i].listed /\ c + ListLimit > job[i].listed /\ tests[c].key # NoKey) =>
                    tests[c].key \in DOMAIN job[i].autoKeyMap
      BY <1>1, <2>5 DEF JobFits, CasesFit
    <3>3. \A c \in DOMAIN tests' : c <= job[i].listed => c \in DOMAIN tests
      BY <2>1, <2>2, <3>1, <3>2
    <3>4. \A c \in DOMAIN tests' : tests'[c].by = i => c \in DOMAIN tests
      BY <2>1
    <3>5. job[i].listed <= Len(tests')
      BY <2>2, <3>1, <3>2
    <3>6. QED BY <2>3, <3>1, <3>2, <3>3, <3>4, <3>5 DEF CasesFit
  <2>6. CASE job[i].phase \notin {"off", "list"} /\ job[i].phase \notin Live
    BY <2>6 DEF CasesFit
  <2>7. QED BY <2>4, <2>5, <2>6
<1>5. job[i].phase # "off" => MapFits(i)'
  BY <1>1 DEF JobFits, MapFits, CasesGrow
<1>6. job[i].phase # "off" => PlaceFits(i)'
  BY <1>1, <1>3 DEF JobFits, PlaceFits
<1>7. job[i].phase # "off" => RecordsFit(i)'
  <2>1. ClosedRuns(i) \subseteq RunsOf(i)
    BY DEF ClosedRuns
  <2>2. QED BY <1>1, <1>2, <1>3, <2>1 DEF JobFits, RecordsFit, Place
<1>8. RunFits(i)'
  <2>1. job[i].phase \in {"save", "finalize"} => job[i].run \in RunsOf(i)
    BY <1>1 DEF JobFits, RunFits, OpenRuns
  <2>2. job[i].phase \in {"save", "finalize"} =>
           /\ results'[job[i].run] = results[job[i].run]
           /\ tests'[results[job[i].run].case] = tests[results[job[i].run].case]
    BY <1>2, <2>1 DEF CasesGrow
  <2>3. job[i].case \in DOMAIN tests =>
           job[i].case \in DOMAIN tests' /\ tests'[job[i].case] = tests[job[i].case]
    BY DEF CasesGrow
  <2>4. RunFits(i)
    BY <1>1 DEF JobFits
  <2>5. QED BY <1>2, <1>3, <2>2, <2>3, <2>4 DEF RunFits
<1>9. QED BY <1>4, <1>5, <1>6, <1>7, <1>8 DEF JobFits

(* A step of a job, once it is known where it leads the job itself. *)
LEMMA JobStep ==
    ASSUME UploadInv, NEW j \in Jobs, NEW to \in JobStates, JobGoes(j, to),
           CasesGrow(j), RunsGrow(j), results' \in Seq(TestRuns),
           \A n \in DOMAIN results' : results'[n].case \in DOMAIN tests',
           JobFits(j)', TwinsNeedAStaleListing'
    PROVE  UploadInv'
<1>1. UploadTypeOK'
  BY DEF UploadInv, UploadTypeOK, JobGoes, CasesGrow
<1>2. \A i \in Jobs \ {j} : job'[i] = job[i]
  BY DEF JobGoes, UploadInv, UploadTypeOK
<1>3. \A i \in Jobs : JobFits(i)'
  BY <1>2, OtherJobs
<1>4. QED BY <1>1, <1>3 DEF UploadInv

(* Twins are explained by what the jobs have listed. *)
LEMMA TwinsStay ==
    ASSUME UploadInv, NEW j \in Jobs, tests' = tests, \A i \in Jobs \ {j} : job'[i] = job[i],
           job'[j].listed = job[j].listed \/ \A c \in DOMAIN tests : tests[c].by # j
    PROVE  TwinsNeedAStaleListing'
<1>1. TwinsNeedAStaleListing
  BY DEF UploadInv
<1>2. QED BY <1>1 DEF TwinsNeedAStaleListing

(* A job that reads, decides or moves on: cases and runs stay. *)
LEMMA UploadQuietStep ==
    ASSUME UploadInv, NEW j \in Jobs, NEW to \in JobStates, JobGoes(j, to),
           tests' = tests, results' = results,
           job[j].listed = to.listed \/ \A c \in DOMAIN tests : tests[c].by # j,
           JobFits(j)'
    PROVE  UploadInv'
<1>1. CasesGrow(j) /\ RunsGrow(j)
  BY NothingGrows DEF UploadInv
<1>2. job'[j] = to /\ \A i \in Jobs \ {j} : job'[i] = job[i]
  BY DEF JobGoes, UploadInv, UploadTypeOK
<1>3. TwinsNeedAStaleListing'
  BY <1>2, TwinsStay
<1>4. results' \in Seq(TestRuns) /\ \A n \in DOMAIN results' : results'[n].case \in DOMAIN tests'
  BY DEF UploadInv, UploadTypeOK
<1>5. QED BY <1>1, <1>3, <1>4, JobStep

(* A job that failed only leaves what is there. *)
LEMMA FailedFits ==
    ASSUME UploadInv, NEW j \in Jobs, CasesGrow(j), job'[j].phase = "failed",
           job[j].phase # "off", job'[j].autoKeyMap = job[j].autoKeyMap,
           \A m, n \in OpenRuns(j)' : m = n
    PROVE  JobFits(j)'
<1>1. MapFits(j)'
  BY DEF UploadInv, JobFits, MapFits, CasesGrow
<1>2. CasesFit(j)' /\ PlaceFits(j)' /\ RecordsFit(j)'
  BY DEF CasesFit, PlaceFits, RecordsFit, Live
<1>3. RunFits(j)'
  BY DEF RunFits
<1>4. QED BY <1>1, <1>2, <1>3 DEF JobFits

(* Ending a job with a failure. *)
LEMMA FailedState ==
    ASSUME UploadInv, NEW j \in Jobs, job[j] \in JobStates,
           NEW to, to = [job[j] EXCEPT !.phase = "failed"], JobGoes(j, to)
    PROVE  /\ to \in JobStates /\ to.listed = job[j].listed
           /\ \A i \in Jobs \ {j} : job'[i] = job[i]
           /\ job'[j].phase = "failed" /\ job'[j].autoKeyMap = job[j].autoKeyMap
           /\ job'[j].listed = job[j].listed
<1>1. to \in JobStates
  BY DEF JobStates, JobPhases
<1>2. to.phase = "failed" /\ to.autoKeyMap = job[j].autoKeyMap /\ to.listed = job[j].listed
  BY DEF JobStates
<1>3. job'[j] = to /\ \A i \in Jobs \ {j} : job'[i] = job[i]
  BY DEF JobGoes, UploadInv, UploadTypeOK
<1>4. QED BY <1>1, <1>2, <1>3

(* A job that is under way has a state. *)
LEMMA JobHasState ==
    ASSUME UploadInv, NEW j \in Jobs, job[j].phase # "off"
    PROVE  job[j] \in JobStates
BY DEF UploadInv, UploadTypeOK, JobOff

(* A result with a key nobody has stops a strict upload; nothing is written. *)
LEMMA StopStep ==
    ASSUME UploadInv, NEW j \in Jobs, stopStrict(j) \/ refuse(j)
    PROVE  UploadInv'
<1> DEFINE to == [job[j] EXCEPT !.phase = "failed"]
<1>1. job[j].phase # "off" /\ JobGoes(j, to) /\ tests' = tests /\ results' = results
  BY DEF stopStrict, refuse, NeedsCase, HasItem, Returns
<1>2. job[j] \in JobStates
  BY <1>1, JobHasState
<1> HIDE DEF to
<1>3. /\ to \in JobStates /\ to.listed = job[j].listed
      /\ job'[j].phase = "failed" /\ job'[j].autoKeyMap = job[j].autoKeyMap
  <2>1. to = [job[j] EXCEPT !.phase = "failed"]
    BY DEF to
  <2>2. QED BY <1>1, <1>2, <2>1, FailedState
<1>4. \A m, n \in OpenRuns(j)' : m = n
  <2>1. OpenRuns(j)' = OpenRuns(j)
    BY <1>1 DEF OpenRuns, RunsOf, ClosedRuns
  <2>2. QED BY <2>1 DEF UploadInv, JobFits, RunFits
<1>5. CasesGrow(j)
  BY <1>1, NothingGrows DEF UploadInv
<1>6. JobFits(j)'
  BY <1>1, <1>3, <1>4, <1>5, FailedFits
<1>7. QED BY <1>1, <1>3, <1>6, UploadQuietStep

(* A job starts: nothing is of it yet. *)
LEMMA UploadStarts ==
    ASSUME UploadInv, NEW j \in Jobs, NEW r \in Reports, NEW how \in UploadModes,
           upload(j, r, how)
    PROVE  UploadInv'
<1> DEFINE to == [phase |-> IF r.format = "unsupported" THEN "failed" ELSE "list",
                  mode |-> how, items |-> parseFile(r),
                  errors |-> IF r.format = "garbled" THEN 1 ELSE 0, at |-> 1,
                  autoKeyMap |-> << >>, listed |-> 0, case |-> 0, run |-> 0,
                  matched |-> 0, unmatched |-> 0]
<1>1. job[j].phase = "off" /\ JobGoes(j, to) /\ tests' = tests /\ results' = results
  BY DEF upload
<1>2. << >> \in KeyMaps /\ DOMAIN << >> = {}
  <2>1. << >> \in [{} -> Nat]
    OBVIOUS
  <2>2. QED BY <2>1 DEF KeyMaps
<1>3. to \in JobStates
  <2>1. parseFile(r) \in ItemLists
    BY DEF ItemLists
  <2>2. QED BY <1>2, <2>1 DEF JobStates, JobPhases
<1>4. /\ to.phase \in {"list", "failed"} /\ to.autoKeyMap = << >>
      /\ to.at = 1 /\ to.matched = 0 /\ to.unmatched = 0
  OBVIOUS
<1> HIDE DEF to
<1>5. job'[j] = to
  BY <1>1 DEF JobGoes, UploadInv, UploadTypeOK
<1>6. (\A c \in DOMAIN tests : tests[c].by # j) /\ RunsOf(j) = {}
  BY <1>1 DEF UploadInv, JobFits, CasesFit, RunFits
<1>7. CasesFit(j)' /\ MapFits(j)' /\ PlaceFits(j)' /\ RecordsFit(j)'
  BY <1>1, <1>2, <1>4, <1>5, <1>6 DEF CasesFit, MapFits, PlaceFits, RecordsFit, Live
<1>8. RunFits(j)'
  <2>1. RunsOf(j)' = {}
    BY <1>1, <1>6 DEF RunsOf
  <2>2. QED BY <1>4, <1>5, <2>1 DEF RunFits, OpenRuns
<1>9. JobFits(j)'
  BY <1>7, <1>8 DEF JobFits
<1>10. QED BY <1>1, <1>3, <1>6, <1>9, UploadQuietStep

-----------------------------------------------------------------------------
(* The oldest case listed under a key is one of them. *)
LEMMA KeyMapIsRight ==
    ASSUME UploadTypeOK
    PROVE  /\ KeyMap \in KeyMaps /\ NoKey \notin DOMAIN KeyMap
           /\ \A k \in DOMAIN KeyMap : KeyMap[k] \in DOMAIN tests /\ tests[KeyMap[k]].key = k
           /\ \A c \in DOMAIN tests :
                 (c + ListLimit > Len(tests) /\ tests[c].key # NoKey) => tests[c].key \in DOMAIN KeyMap
<1> DEFINE K == {tests[i].key : i \in Listed}
<1>1. DOMAIN tests = 1..Len(tests) /\ \A c \in DOMAIN tests : tests[c] \in TestCases
  BY DEF UploadTypeOK
<1>2. Listed \in SUBSET Nat /\ Listed \subseteq DOMAIN tests
  BY <1>1 DEF Listed, UploadTypeOK
<1>3. K \in SUBSET TestKeys
  BY <1>1, <1>2 DEF TestCases
<1>4. DOMAIN KeyMap = K
  BY DEF KeyMap
<1>5. ASSUME NEW k \in K
      PROVE  KeyMap[k] \in Listed /\ tests[KeyMap[k]].key = k
  <2> DEFINE same == {i \in Listed : tests[i].key = k}
  <2>1. same # {} /\ same \in SUBSET Nat
    BY <1>2, <1>5
  <2>2. \E i \in same : \A h \in same : i <= h
    <3> HIDE DEF same
    <3>1. QED BY <2>1, Smallest
  <2>3. \E i \in Listed : tests[i].key = k /\ \A h \in Listed : tests[h].key = k => i <= h
    BY <2>2
  <2>4. KeyMap[k] = CHOOSE i \in Listed : tests[i].key = k /\ \A h \in Listed : tests[h].key = k => i <= h
    BY <1>5 DEF KeyMap
  <2>5. QED BY <2>3, <2>4
<1>6. KeyMap \in [K -> Nat]
  BY <1>2, <1>5 DEF KeyMap
<1>7. KeyMap \in KeyMaps
  BY <1>3, <1>6 DEF KeyMaps
<1>8. NoKey \notin K
  BY DEF Listed
<1>9. \A c \in DOMAIN tests :
         (c + ListLimit > Len(tests) /\ tests[c].key # NoKey) => tests[c].key \in K
  BY DEF Listed
<1> HIDE DEF K
<1>10. QED BY <1>2, <1>4, <1>5, <1>7, <1>8, <1>9

(* The listing gives a job its map: the oldest case of each key listed. *)
LEMMA UploadListStep ==
    ASSUME UploadInv, NEW j \in Jobs, list(j)
    PROVE  UploadInv'
<1> DEFINE to == [job[j] EXCEPT !.phase = "next", !.autoKeyMap = KeyMap, !.listed = Len(tests)]
<1>1. /\ job[j].phase = "list" /\ JobGoes(j, to) /\ tests' = tests /\ results' = results
      /\ job[j] \in JobStates /\ UploadTypeOK
  BY JobHasState DEF list, UploadInv
<1>2. Len(tests) \in Nat /\ DOMAIN tests = 1..Len(tests)
  BY <1>1 DEF UploadTypeOK
<1>3. to \in JobStates
  BY <1>1, <1>2, KeyMapIsRight DEF JobStates, JobPhases
<1>4. /\ to.phase = "next" /\ to.autoKeyMap = KeyMap /\ to.listed = Len(tests)
      /\ to.at = job[j].at /\ to.matched = job[j].matched /\ to.unmatched = job[j].unmatched
      /\ to.items = job[j].items
  BY <1>1 DEF JobStates
<1> HIDE DEF to
<1>5. job'[j] = to
  BY <1>1 DEF JobGoes, UploadTypeOK
<1>6. /\ \A c \in DOMAIN tests : tests[c].by # j
      /\ RunsOf(j) = {} /\ job[j].at = 1 /\ job[j].matched = 0 /\ job[j].unmatched = 0
  BY <1>1 DEF UploadInv, JobFits, CasesFit, RunFits, PlaceFits
<1>7. Len(job[j].items) \in Nat /\ DOMAIN job[j].items = 1..Len(job[j].items)
  BY <1>1, ItemsAreLists DEF JobStates
<1>8. CasesFit(j)'
  BY <1>1, <1>2, <1>4, <1>5, <1>6, KeyMapIsRight DEF CasesFit
<1>9. MapFits(j)'
  BY <1>1, <1>4, <1>5, KeyMapIsRight DEF MapFits
<1>10. PlaceFits(j)'
  BY <1>4, <1>5, <1>6, <1>7 DEF PlaceFits
<1>11. RunsOf(j)' = {}
  BY <1>1, <1>6 DEF RunsOf
<1>12. RecordsFit(j)'
  <2>1. ClosedRuns(j)' = {}
    BY <1>11 DEF ClosedRuns
  <2>2. Behind(j)' = {}
    BY <1>4, <1>5, <1>6, <1>7 DEF Behind, MatchedItems
  <2>3. Cardinality({}) = 0
    BY FS_EmptySet
  <2>4. QED BY <1>4, <1>5, <1>6, <2>1, <2>2, <2>3 DEF RecordsFit
<1>13. RunFits(j)'
  BY <1>4, <1>5, <1>11 DEF RunFits, OpenRuns
<1>14. JobFits(j)'
  BY <1>8, <1>9, <1>10, <1>12, <1>13 DEF JobFits
<1>15. QED BY <1>1, <1>3, <1>6, <1>14, UploadQuietStep

(* Cases and what was recorded stay as they are for a job that keeps its map
   and does not pass an item with a case. *)
LEMMA RecordsStay ==
    ASSUME UploadInv, NEW j \in Jobs, job[j].phase \in Live, CasesGrow(j),
           \A n \in ClosedRuns(j) : results'[n] = results[n],
           job'[j].phase \in Live, job'[j].items = job[j].items,
           job'[j].matched = job[j].matched,
           ClosedRuns(j)' = ClosedRuns(j), Behind(j)' = Behind(j)
    PROVE  RecordsFit(j)'
<1>1. \A n \in ClosedRuns(j) : results'[n] = results[n] /\ results[n].case \in DOMAIN tests
  BY DEF UploadInv, RunsOf, ClosedRuns
<1>2. \A n \in ClosedRuns(j) : tests'[results'[n].case] = tests[results[n].case]
  BY <1>1 DEF CasesGrow
<1>3. \A n \in ClosedRuns(j) : \A item : Records(n, item)' <=> Records(n, item)
  BY <1>1, <1>2 DEF Records
<1>4. RecordsFit(j)
  BY DEF UploadInv, JobFits, Live
<1>5. QED BY <1>3, <1>4 DEF RecordsFit, Place

(* The same for a job that only moves on. *)
LEMMA QuietFits ==
    ASSUME UploadInv, NEW j \in Jobs, job[j].phase \in Live, tests' = tests, results' = results,
           job'[j].phase \in Live, job'[j].items = job[j].items,
           job'[j].autoKeyMap = job[j].autoKeyMap, job'[j].listed = job[j].listed,
           job'[j].matched = job[j].matched, Behind(j)' = Behind(j)
    PROVE  CasesFit(j)' /\ MapFits(j)' /\ RecordsFit(j)' /\ OpenRuns(j)' = OpenRuns(j)
<1>1. CasesGrow(j)
  BY NothingGrows DEF UploadInv
<1>2. CasesFit(j) /\ MapFits(j)
  BY DEF UploadInv, JobFits, Live
<1>3. CasesFit(j)' /\ MapFits(j)'
  BY <1>2 DEF CasesFit, MapFits, Live
<1>4. RunsOf(j)' = RunsOf(j) /\ ClosedRuns(j)' = ClosedRuns(j) /\ OpenRuns(j)' = OpenRuns(j)
  BY DEF RunsOf, ClosedRuns, OpenRuns
<1>5. RecordsFit(j)'
  BY <1>1, <1>4, RecordsStay
<1>6. QED BY <1>3, <1>4, <1>5

(* A job goes on to the next item. *)
LEMMA PlaceMoves ==
    ASSUME UploadInv, NEW j \in Jobs, job[j].phase \in Live, job[j].at <= Len(job[j].items),
           job'[j].phase = "next", job'[j].items = job[j].items, job'[j].at = job[j].at + 1,
           job'[j].autoKeyMap = job[j].autoKeyMap, job'[j].mode = job[j].mode,
           job'[j].matched + job'[j].unmatched = job[j].matched + job[j].unmatched + 1,
           \/ Item(j).key \in DOMAIN job[j].autoKeyMap
           \/ Item(j).key = NoKey
           \/ job[j].mode = "match"
    PROVE  PlaceFits(j)'
<1>1. PlaceFits(j) /\ job[j] \in JobStates
  BY JobHasState DEF UploadInv, JobFits, Live
<1>2. PICK at \in Nat, n \in Nat, m \in Nat :
         at = job[j].at /\ n = Len(job[j].items) /\ m = job[j].matched + job[j].unmatched
  <2>1. job[j].items \in ItemLists /\ job[j].at \in Nat
        /\ job[j].matched \in Nat /\ job[j].unmatched \in Nat
    BY <1>1 DEF JobStates
  <2>2. Len(job[j].items) \in Nat /\ job[j].matched + job[j].unmatched \in Nat
    BY <2>1, ItemsAreLists
  <2>3. QED BY <2>1, <2>2
<1>3. DOMAIN job[j].items = 1..n
  BY <1>1, <1>2, ItemsAreLists DEF JobStates
<1>4. at <= n /\ m + 1 = at
  BY <1>1, <1>2 DEF PlaceFits
<1>5. at + 1 \in 1..(n + 1) /\ m + 1 + 1 = at + 1
  BY <1>4
<1>6. ASSUME NEW i \in DOMAIN job[j].items, i < at + 1
      PROVE  \/ job[j].items[i].key \in DOMAIN job[j].autoKeyMap
             \/ job[j].items[i].key = NoKey
             \/ job[j].mode = "match"
  <2>1. i < at \/ i = at
    BY <1>3, <1>6
  <2>2. QED BY <1>1, <1>2, <2>1 DEF PlaceFits, Item
<1>7. QED BY <1>2, <1>5, <1>6 DEF PlaceFits

(* An item is passed without a case. *)
LEMMA SkipStep ==
    ASSUME UploadInv, NEW j \in Jobs, skip(j)
    PROVE  UploadInv'
<1> DEFINE to == [job[j] EXCEPT !.at = @ + 1, !.unmatched = @ + 1]
<1>1. /\ HasItem(j) /\ ~Known(j) /\ JobGoes(j, to) /\ tests' = tests /\ results' = results
      /\ Item(j).key = NoKey \/ job[j].mode = "match"
  BY DEF skip
<1>2. job[j].phase = "next" /\ job[j].at <= Len(job[j].items) /\ job[j] \in JobStates
  BY <1>1, JobHasState DEF HasItem
<1>3. /\ job[j].at \in Nat /\ job[j].unmatched \in Nat /\ job[j].matched \in Nat
      /\ Len(job[j].items) \in Nat /\ DOMAIN job[j].items = 1..Len(job[j].items)
  BY <1>2, ItemsAreLists DEF JobStates
<1>4. to \in JobStates
  <2>1. job[j].at + 1 \in Nat /\ job[j].unmatched + 1 \in Nat
    BY <1>3
  <2>2. QED BY <1>2, <2>1 DEF JobStates
<1>5. /\ to.phase = "next" /\ to.autoKeyMap = job[j].autoKeyMap /\ to.listed = job[j].listed
      /\ to.at = job[j].at + 1 /\ to.unmatched = job[j].unmatched + 1
      /\ to.matched = job[j].matched /\ to.items = job[j].items /\ to.mode = job[j].mode
  BY <1>2 DEF JobStates
<1> HIDE DEF to
<1>6. job'[j] = to
  BY <1>1 DEF JobGoes, UploadInv, UploadTypeOK
<1>7. MatchedItems(j)' = MatchedItems(j)
  BY <1>5, <1>6 DEF MatchedItems
<1>8. Behind(j)' = Behind(j)
  <2>1. job[j].at \notin MatchedItems(j)
    BY <1>1 DEF Known, Item, MatchedItems
  <2>2. MatchedItems(j) \subseteq Nat
    BY <1>3 DEF MatchedItems
  <2>3. QED BY <1>3, <1>5, <1>6, <1>7, <2>1, <2>2 DEF Behind
<1>9. CasesFit(j)' /\ MapFits(j)' /\ RecordsFit(j)' /\ OpenRuns(j)' = OpenRuns(j)
  BY <1>1, <1>2, <1>5, <1>6, <1>8, QuietFits DEF Live
<1>10. PlaceFits(j)'
  <2>1. /\ Item(j).key \in DOMAIN job[j].autoKeyMap
           \/ Item(j).key = NoKey \/ job[j].mode = "match"
        /\ job'[j].matched + job'[j].unmatched = job[j].matched + job[j].unmatched + 1
    BY <1>1, <1>3, <1>5, <1>6
  <2>2. QED BY <1>2, <1>5, <1>6, <2>1, PlaceMoves DEF Live
<1>11. RunFits(j)'
  BY <1>2, <1>5, <1>6, <1>9 DEF UploadInv, JobFits, RunFits
<1>12. JobFits(j)'
  BY <1>9, <1>10, <1>11 DEF JobFits
<1>13. QED BY <1>1, <1>4, <1>5, <1>12, UploadQuietStep

(* An item has a case. *)
LEMMA FindStep ==
    ASSUME UploadInv, NEW j \in Jobs, findCase(j)
    PROVE  UploadInv'
<1> DEFINE to == [job[j] EXCEPT !.phase = "start", !.case = job[j].autoKeyMap[Item(j).key]]
<1>1. HasItem(j) /\ Known(j) /\ JobGoes(j, to) /\ tests' = tests /\ results' = results
  BY DEF findCase
<1>2. /\ job[j].phase = "next" /\ job[j].at <= Len(job[j].items) /\ job[j] \in JobStates
      /\ Item(j).key \in DOMAIN job[j].autoKeyMap
  BY <1>1, JobHasState DEF HasItem, Known
<1>3. PICK c \in DOMAIN tests : c = job[j].autoKeyMap[Item(j).key] /\ tests[c].key = Item(j).key
  BY <1>2 DEF UploadInv, JobFits, MapFits
<1>4. c \in Nat
  BY DEF UploadInv, UploadTypeOK
<1>5. to \in JobStates
  BY <1>2, <1>3, <1>4 DEF JobStates, JobPhases
<1>6. /\ to.phase = "start" /\ to.autoKeyMap = job[j].autoKeyMap /\ to.listed = job[j].listed
      /\ to.at = job[j].at /\ to.unmatched = job[j].unmatched /\ to.case = c
      /\ to.matched = job[j].matched /\ to.items = job[j].items /\ to.mode = job[j].mode
  BY <1>2, <1>3 DEF JobStates
<1> HIDE DEF to
<1>7. job'[j] = to
  BY <1>1 DEF JobGoes, UploadInv, UploadTypeOK
<1>8. Behind(j)' = Behind(j) /\ Item(j)' = Item(j)
  BY <1>6, <1>7 DEF Behind, MatchedItems, Item
<1>9. CasesFit(j)' /\ MapFits(j)' /\ RecordsFit(j)' /\ OpenRuns(j)' = OpenRuns(j)
  BY <1>1, <1>2, <1>6, <1>7, <1>8, QuietFits DEF Live
<1>10. PlaceFits(j)'
  BY <1>2, <1>6, <1>7, <1>8 DEF UploadInv, JobFits, PlaceFits, Live
<1>11. RunFits(j)'
  BY <1>1, <1>2, <1>3, <1>6, <1>7, <1>8, <1>9 DEF UploadInv, JobFits, RunFits
<1>12. JobFits(j)'
  BY <1>9, <1>10, <1>11 DEF JobFits
<1>13. QED BY <1>1, <1>5, <1>6, <1>12, UploadQuietStep

(* The summary is printed. *)
LEMMA EndStep ==
    ASSUME UploadInv, NEW j \in Jobs, end(j)
    PROVE  UploadInv'
<1>1. /\ job[j].phase = "next" /\ ~(job[j].at <= Len(job[j].items))
      /\ tests' = tests /\ results' = results /\ job[j] \in JobStates
  <2>1. job[j].phase = "next" /\ job[j].at > Len(job[j].items)
        /\ tests' = tests /\ results' = results
    BY DEF end
  <2>2. job[j] \in JobStates
    BY <2>1, JobHasState
  <2>3. job[j].at \in Nat /\ Len(job[j].items) \in Nat
    BY <2>2, ItemsAreLists DEF JobStates
  <2>4. QED BY <2>1, <2>2, <2>3
<1>2. PICK phase \in {"failed", "done"} : JobGoes(j, [job[j] EXCEPT !.phase = phase])
  BY DEF end
<1> DEFINE to == [job[j] EXCEPT !.phase = phase]
<1>3. /\ to \in JobStates
      /\ to.phase = phase /\ to.autoKeyMap = job[j].autoKeyMap /\ to.listed = job[j].listed
      /\ to.at = job[j].at /\ to.unmatched = job[j].unmatched
      /\ to.matched = job[j].matched /\ to.items = job[j].items /\ to.mode = job[j].mode
  BY <1>1 DEF JobStates, JobPhases
<1>4. JobGoes(j, to)
  BY <1>2
<1> HIDE DEF to
<1>5. job'[j] = to
  BY <1>4 DEF JobGoes, UploadInv, UploadTypeOK
<1>6. CASE phase = "failed"
  <2>1. \A m, n \in OpenRuns(j)' : m = n
    <3>1. OpenRuns(j)' = OpenRuns(j)
      BY <1>1 DEF OpenRuns, RunsOf, ClosedRuns
    <3>2. QED BY <3>1 DEF UploadInv, JobFits, RunFits
  <2>2. CasesGrow(j)
    BY <1>1, NothingGrows DEF UploadInv
  <2>3. JobFits(j)'
    BY <1>1, <1>3, <1>5, <1>6, <2>1, <2>2, FailedFits
  <2>4. QED BY <1>1, <1>3, <1>4, <2>3, UploadQuietStep
<1>7. CASE phase = "done"
  <2>1. Behind(j)' = Behind(j) /\ Item(j)' = Item(j)
    BY <1>3, <1>5 DEF Behind, MatchedItems, Item
  <2>2. CasesFit(j)' /\ MapFits(j)' /\ RecordsFit(j)' /\ OpenRuns(j)' = OpenRuns(j)
    BY <1>1, <1>3, <1>5, <1>7, <2>1, QuietFits DEF Live
  <2>3. PlaceFits(j)
    BY <1>1 DEF UploadInv, JobFits
  <2>4. job[j].at = Len(job[j].items) + 1
    <3>1. job[j].at \in 1..(Len(job[j].items) + 1)
      BY <1>1, <2>3 DEF PlaceFits, Live
    <3>2. PICK n \in Nat : n = Len(job[j].items)
      BY <1>1, ItemsAreLists DEF JobStates
    <3>3. QED BY <1>1, <3>1, <3>2
  <2>5. PlaceFits(j)'
    BY <1>1, <1>3, <1>5, <1>7, <2>3, <2>4 DEF PlaceFits, Live
  <2>6. RunFits(j)'
    BY <1>1, <1>3, <1>5, <1>7, <2>2 DEF UploadInv, JobFits, RunFits
  <2>7. JobFits(j)'
    BY <2>2, <2>5, <2>6 DEF JobFits
  <2>8. QED BY <1>1, <1>3, <1>4, <2>7, UploadQuietStep
<1>8. QED BY <1>6, <1>7

-----------------------------------------------------------------------------
(* A case is created: its key was not in the map, so every other case with it
   is one the job has not listed. *)
LEMMA CreateGrows ==
    ASSUME UploadInv, NEW j \in Jobs, NeedsCase(j),
           tests' = Append(tests, [key |-> Item(j).key, by |-> j])
    PROVE  /\ CasesGrow(j) /\ Len(tests) \in Nat /\ Len(tests') = Len(tests) + 1
           /\ DOMAIN tests = 1..Len(tests) /\ DOMAIN tests' = 1..(Len(tests) + 1)
           /\ tests'[Len(tests')].key = Item(j).key /\ tests'[Len(tests')].by = j
           /\ \A c \in DOMAIN tests : tests'[c] = tests[c]
<1> DEFINE new == [key |-> Item(j).key, by |-> j]
<1>1. job[j] \in JobStates /\ tests \in Seq(TestCases)
  <2>1. job[j].phase # "off"
    BY DEF NeedsCase, HasItem
  <2>2. QED BY <2>1, JobHasState DEF UploadInv, UploadTypeOK
<1>2. new \in TestCases /\ new.key = Item(j).key /\ new.by = j
  <2>1. job[j].items \in ItemLists /\ job[j].at \in Nat
    BY <1>1 DEF JobStates
  <2>2. Item(j).key \in TestKeys
    BY <2>1 DEF TestKeys, Item
  <2>3. QED BY <2>2 DEF TestCases
<1>3. tests' = Append(tests, new)
  OBVIOUS
<1> HIDE DEF new
<1>4. /\ tests' \in Seq(TestCases) /\ Len(tests) \in Nat /\ Len(tests') = Len(tests) + 1
      /\ DOMAIN tests = 1..Len(tests) /\ DOMAIN tests' = 1..(Len(tests) + 1)
      /\ tests'[Len(tests) + 1] = new
      /\ \A c \in 1..Len(tests) : tests'[c] = tests[c]
  BY <1>1, <1>2, <1>3
<1>5. \A c \in DOMAIN tests' : c \in DOMAIN tests \/ c = Len(tests) + 1
  BY <1>4
<1>6. CasesGrow(j)
  BY <1>2, <1>4, <1>5 DEF CasesGrow
<1>7. QED BY <1>2, <1>4, <1>6

(* Twins of the new case were created by others after the listing, or were
   beyond it. *)
LEMMA NewTwins ==
    ASSUME UploadInv, NEW j \in Jobs, NeedsCase(j),
           tests' = Append(tests, [key |-> Item(j).key, by |-> j]),
           job'[j].listed = job[j].listed, \A i \in Jobs \ {j} : job'[i] = job[i]
    PROVE  TwinsNeedAStaleListing'
<1>1. /\ CasesGrow(j) /\ Len(tests) \in Nat /\ Len(tests') = Len(tests) + 1
      /\ DOMAIN tests = 1..Len(tests) /\ DOMAIN tests' = 1..(Len(tests) + 1)
      /\ tests'[Len(tests')].key = Item(j).key /\ tests'[Len(tests')].by = j
      /\ \A c \in DOMAIN tests : tests'[c] = tests[c]
  BY CreateGrows
<1>2. job[j].phase = "next" /\ Item(j).key \notin DOMAIN job[j].autoKeyMap /\ Item(j).key # NoKey
      /\ job[j] \in JobStates
  <2>1. job[j].phase = "next" /\ Item(j).key \notin DOMAIN job[j].autoKeyMap /\ Item(j).key # NoKey
    BY DEF NeedsCase, HasItem, Known
  <2>2. QED BY <2>1, JobHasState
<1>3. CasesFit(j)
  BY DEF UploadInv, JobFits
<1>4. ASSUME NEW c \in DOMAIN tests, tests[c].key = Item(j).key
      PROVE  tests[c].by # j /\ (c > job[j].listed \/ c + ListLimit <= job[j].listed)
  <2>1. /\ tests[c].by = j => tests[c].key \in DOMAIN job[j].autoKeyMap
        /\ (c <= job[j].listed /\ c + ListLimit > job[j].listed /\ tests[c].key # NoKey) =>
               tests[c].key \in DOMAIN job[j].autoKeyMap
    BY <1>2, <1>3 DEF CasesFit, Live
  <2>2. c \in Nat /\ job[j].listed \in Nat /\ ListLimit \in Nat
    BY <1>1, <1>2, UploadAssumption DEF JobStates
  <2>3. ~(c <= job[j].listed /\ c + ListLimit > job[j].listed)
    BY <1>2, <1>4, <2>1
  <2>4. c > job[j].listed \/ c + ListLimit <= job[j].listed
    BY <2>2, <2>3
  <2>5. QED BY <1>2, <1>4, <2>1, <2>4
<1>5. ASSUME NEW c \in DOMAIN tests', NEW d \in DOMAIN tests', c < d,
             tests'[c].key = tests'[d].key, tests'[d].by \in Jobs
      PROVE  LET i == tests'[d].by
             IN  tests'[c].by # i /\ (c > job'[i].listed \/ c + ListLimit <= job'[i].listed)
  <2>1. c \in DOMAIN tests
    BY <1>1, <1>5
  <2>2. CASE d = Len(tests')
    BY <1>1, <1>4, <1>5, <2>1, <2>2
  <2>3. CASE d \in DOMAIN tests
    <3>1. \A i \in Jobs : job'[i].listed = job[i].listed
      OBVIOUS
    <3>2. QED BY <1>1, <1>5, <2>1, <2>3, <3>1 DEF UploadInv, TwinsNeedAStaleListing
  <2>4. QED BY <1>1, <2>2, <2>3
<1>6. QED BY <1>5 DEF TwinsNeedAStaleListing

(* A created case is put in the map of its job under the key it was made for. *)
LEMMA UploadCreateStep ==
    ASSUME UploadInv, NEW j \in Jobs, NEW answered \in BOOLEAN, createCase(j, answered)
    PROVE  UploadInv'
<1> DEFINE key == Item(j).key
           old == job[j].autoKeyMap
           wider == [k \in DOMAIN old \cup {key} |-> IF k = key THEN Len(tests') ELSE old[k]]
           to == [job[j] EXCEPT !.phase = "start", !.case = Len(tests'), !.autoKeyMap = wider]
           failed == [job[j] EXCEPT !.phase = "failed"]
<1>1. /\ NeedsCase(j) /\ tests' = Append(tests, [key |-> Item(j).key, by |-> j])
      /\ results' = results /\ (JobGoes(j, to) \/ JobGoes(j, failed))
  <2>1. /\ NeedsCase(j) /\ tests' = Append(tests, [key |-> Item(j).key, by |-> j])
        /\ results' = results
    BY DEF createCase
  <2>2. Returns(j, answered,
               [job[j] EXCEPT !.phase = "start", !.case = Len(tests'),
                              !.autoKeyMap = [k \in DOMAIN @ \cup {Item(j).key} |->
                                                 IF k = Item(j).key THEN Len(tests') ELSE @[k]]])
    BY DEF createCase
  <2>3. Returns(j, answered, to)
    BY <2>2
  <2> HIDE DEF to, failed
  <2>4. JobGoes(j, to) \/ JobGoes(j, failed)
    BY <2>3 DEF Returns, failed
  <2>5. QED BY <2>1, <2>4
<1>2. /\ job[j].phase = "next" /\ job[j].at <= Len(job[j].items)
      /\ Item(j).key # NoKey /\ key \notin DOMAIN old /\ job[j].mode = "create"
  BY <1>1 DEF NeedsCase, HasItem, Known
<1>3. job[j] \in JobStates /\ UploadTypeOK
  BY <1>2, JobHasState DEF UploadInv
<1>4. /\ CasesGrow(j) /\ Len(tests) \in Nat /\ Len(tests') = Len(tests) + 1
      /\ DOMAIN tests = 1..Len(tests) /\ DOMAIN tests' = 1..(Len(tests) + 1)
      /\ tests'[Len(tests')].key = Item(j).key /\ tests'[Len(tests')].by = j
      /\ \A c \in DOMAIN tests : tests'[c] = tests[c]
  BY <1>1, CreateGrows
<1>5. RunsGrow(j) /\ results' \in Seq(TestRuns)
      /\ \A n \in DOMAIN results' : results'[n].case \in DOMAIN tests'
  BY <1>1, <1>3, <1>4, NothingGrows DEF UploadTypeOK, UploadInv, CasesGrow
<1>6. RunsOf(j)' = RunsOf(j) /\ ClosedRuns(j)' = ClosedRuns(j) /\ OpenRuns(j)' = OpenRuns(j)
  BY <1>1 DEF RunsOf, ClosedRuns, OpenRuns
<1>7. OpenRuns(j) = {}
  BY <1>2 DEF UploadInv, JobFits, RunFits
<1>8. CASE JobGoes(j, failed)
  <2>1. /\ failed \in JobStates /\ \A i \in Jobs \ {j} : job'[i] = job[i]
        /\ job'[j].phase = "failed" /\ job'[j].autoKeyMap = job[j].autoKeyMap
        /\ job'[j].listed = job[j].listed
    BY <1>3, <1>8, FailedState
  <2> HIDE DEF failed
  <2>2. JobFits(j)'
    BY <1>2, <1>4, <1>6, <1>7, <2>1, FailedFits
  <2>3. TwinsNeedAStaleListing'
    BY <1>1, <2>1, NewTwins
  <2>4. QED BY <1>4, <1>5, <1>8, <2>1, <2>2, <2>3, JobStep
<1>9. CASE JobGoes(j, to)
  <2>1. old \in KeyMaps /\ key \in TestKeys
    <3>1. job[j].items \in ItemLists /\ job[j].at \in Nat /\ old \in KeyMaps
      BY <1>3 DEF JobStates
    <3>2. QED BY <3>1 DEF TestKeys, Item
  <2>2. wider \in KeyMaps /\ DOMAIN wider = DOMAIN old \cup {key}
        /\ wider[key] = Len(tests') /\ \A k \in DOMAIN old : wider[k] = old[k]
    <3>1. PICK K \in SUBSET TestKeys : old \in [K -> Nat]
      BY <2>1 DEF KeyMaps
    <3>2. Len(tests') \in Nat
      BY <1>4
    <3>3. wider \in [K \cup {key} -> Nat] /\ K \cup {key} \in SUBSET TestKeys
      BY <2>1, <3>1, <3>2
    <3>4. wider \in KeyMaps
      <4> HIDE DEF wider, key
      <4>1. QED BY <3>3 DEF KeyMaps
    <3>5. DOMAIN wider = DOMAIN old \cup {key}
          /\ wider[key] = Len(tests') /\ \A k \in DOMAIN old : wider[k] = old[k]
      BY <1>2
    <3>6. QED BY <3>4, <3>5
  <2> HIDE DEF wider
  <2>3. /\ to \in JobStates
        /\ to.phase = "start" /\ to.autoKeyMap = wider /\ to.listed = job[j].listed
        /\ to.at = job[j].at /\ to.unmatched = job[j].unmatched /\ to.case = Len(tests')
        /\ to.matched = job[j].matched /\ to.items = job[j].items /\ to.mode = job[j].mode
    <3>1. Len(tests') \in Nat
      BY <1>4
    <3>2. QED BY <1>3, <2>2, <3>1 DEF JobStates, JobPhases
  <2> HIDE DEF to
  <2>4. job'[j] = to /\ \A i \in Jobs \ {j} : job'[i] = job[i]
    BY <1>3, <1>9 DEF JobGoes, UploadTypeOK
  <2>5. CasesFit(j) /\ MapFits(j) /\ PlaceFits(j)
    BY <1>2 DEF UploadInv, JobFits
  <2>6. CasesFit(j)'
    <3>1. /\ job[j].listed <= Len(tests)
          /\ \A c \in DOMAIN tests : tests[c].by = j =>
                c > job[j].listed /\ tests[c].key \in DOMAIN old
          /\ \A c \in DOMAIN tests :
                (c <= job[j].listed /\ c + ListLimit > job[j].listed /\ tests[c].key # NoKey) =>
                    tests[c].key \in DOMAIN old
      BY <1>2, <2>5 DEF CasesFit, Live
    <3>2. job[j].listed \in Nat
      BY <1>3 DEF JobStates
    <3>3. job[j].listed <= Len(tests') /\ Len(tests') > job[j].listed
      BY <1>4, <3>1, <3>2
    <3>4. \A c \in DOMAIN tests' : c \in DOMAIN tests \/ (c = Len(tests') /\ tests'[c].key = key)
      BY <1>4
    <3>5. ASSUME NEW c \in DOMAIN tests'
          PROVE  /\ tests'[c].by = j => c > job[j].listed /\ tests'[c].key \in DOMAIN wider
                 /\ (c <= job[j].listed /\ c + ListLimit > job[j].listed /\ tests'[c].key # NoKey) =>
                       tests'[c].key \in DOMAIN wider
      BY <1>4, <2>2, <3>1, <3>3, <3>4
    <3>6. QED BY <2>3, <2>4, <3>3, <3>5 DEF CasesFit
  <2>7. MapFits(j)'
    BY <1>2, <1>4, <2>2, <2>3, <2>4, <2>5 DEF MapFits
  <2>8. Item(j)' = Item(j)
    BY <2>3, <2>4 DEF Item
  <2>9. PlaceFits(j)'
    BY <1>2, <2>2, <2>3, <2>4, <2>5, <2>8 DEF PlaceFits, Live
  <2>10. Behind(j)' = Behind(j)
    <3>1. \A i \in DOMAIN job[j].items : i < job[j].at => job[j].items[i].key # key
      BY <1>2, <2>5 DEF PlaceFits, Live
    <3>2. QED BY <2>2, <2>3, <2>4, <3>1 DEF Behind, MatchedItems
  <2>11. RecordsFit(j)'
    BY <1>1, <1>2, <1>4, <1>6, <2>3, <2>4, <2>10, RecordsStay DEF Live
  <2>12. RunFits(j)'
    BY <1>4, <1>6, <1>7, <2>3, <2>4, <2>8 DEF RunFits
  <2>13. JobFits(j)'
    BY <2>6, <2>7, <2>9, <2>11, <2>12 DEF JobFits
  <2>14. TwinsNeedAStaleListing'
    BY <1>1, <2>3, <2>4, NewTwins
  <2>15. QED BY <1>4, <1>5, <1>9, <2>3, <2>13, <2>14, JobStep
<1>10. QED BY <1>1, <1>8, <1>9

-----------------------------------------------------------------------------
(* The run under way: its start, its step and its end. *)

(* What a job keeps while it records: its items, its place, its map. *)
Keeps(j) ==
    /\ job'[j].items = job[j].items /\ job'[j].at = job[j].at /\ job'[j].mode = job[j].mode
    /\ job'[j].autoKeyMap = job[j].autoKeyMap /\ job'[j].listed = job[j].listed
    /\ job'[j].matched = job[j].matched /\ job'[j].unmatched = job[j].unmatched

(* A job that goes on recording keeps its cases, its map and its place. *)
LEMMA RecordingFits ==
    ASSUME UploadInv, NEW j \in Jobs, job[j].phase \in {"start", "save", "finalize"},
           job'[j].phase \in {"start", "save", "finalize"}, Keeps(j), tests' = tests,
           ClosedRuns(j)' = ClosedRuns(j), \A n \in ClosedRuns(j) : results'[n] = results[n]
    PROVE  CasesFit(j)' /\ MapFits(j)' /\ PlaceFits(j)' /\ RecordsFit(j)'
           /\ Item(j)' = Item(j)
<1>1. CasesFit(j) /\ MapFits(j) /\ PlaceFits(j)
  BY DEF UploadInv, JobFits
<1>2. CasesGrow(j)
  BY NothingGrows DEF UploadInv
<1>3. Behind(j)' = Behind(j) /\ Item(j)' = Item(j)
  BY DEF Keeps, Behind, MatchedItems, Item
<1>4. CasesFit(j)'
  BY <1>1 DEF CasesFit, Live, Keeps
<1>5. MapFits(j)'
  BY <1>1 DEF MapFits, Keeps
<1>6. PlaceFits(j)'
  BY <1>1, <1>3 DEF PlaceFits, Live, Keeps
<1>7. RecordsFit(j)'
  BY <1>2, <1>3, RecordsStay DEF Live, Keeps
<1>8. QED BY <1>3, <1>4, <1>5, <1>6, <1>7

(* A run is started for the case of the item, and it is the job's open one. *)
LEMMA UploadStartStep ==
    ASSUME UploadInv, NEW j \in Jobs, NEW answered \in BOOLEAN, startRun(j, answered)
    PROVE  UploadInv'
<1> DEFINE new == [case |-> job[j].case, by |-> j, outcome |-> Item(j).outcome,
                   status |-> "Unexecuted", state |-> "InProgress"]
           to == [job[j] EXCEPT !.phase = "save", !.run = Len(results')]
           failed == [job[j] EXCEPT !.phase = "failed"]
<1>1. /\ job[j].phase = "start" /\ results' = Append(results, new) /\ tests' = tests
      /\ JobGoes(j, to) \/ JobGoes(j, failed)
  <2>1. /\ job[j].phase = "start" /\ results' = Append(results, new) /\ tests' = tests
        /\ Returns(j, answered, to)
    BY DEF startRun
  <2> HIDE DEF to, new
  <2>2. QED BY <2>1 DEF Returns, failed
<1>2. job[j] \in JobStates /\ UploadTypeOK
  BY <1>1, JobHasState DEF UploadInv
<1>3. /\ OpenRuns(j) = {} /\ job[j].case \in DOMAIN tests
      /\ tests[job[j].case].key = Item(j).key
  BY <1>1 DEF UploadInv, JobFits, RunFits
<1>4. new \in TestRuns
  <2>1. job[j].items \in ItemLists /\ job[j].at \in Nat /\ job[j].case \in Nat
    BY <1>2 DEF JobStates
  <2>2. Item(j).outcome \in {items[i].outcome : items \in ItemLists, i \in Nat}
    BY <2>1 DEF Item
  <2>3. QED BY <2>1, <2>2 DEF TestRuns
<1>5. new.by = j /\ new.case = job[j].case /\ new.state = "InProgress"
  OBVIOUS
<1> HIDE DEF new
<1>6. /\ results' \in Seq(TestRuns) /\ Len(results) \in Nat /\ Len(results') = Len(results) + 1
      /\ DOMAIN results = 1..Len(results) /\ DOMAIN results' = 1..(Len(results) + 1)
      /\ results'[Len(results')] = new
      /\ \A n \in 1..Len(results) : results'[n] = results[n]
  BY <1>1, <1>2, <1>4 DEF UploadTypeOK
<1>7. DOMAIN results' = DOMAIN results \cup {Len(results')} /\ Len(results') \notin DOMAIN results
  BY <1>6
<1>8. RunsGrow(j)
  BY <1>5, <1>6, <1>7 DEF RunsGrow
<1>9. \A n \in DOMAIN results' : results'[n].case \in DOMAIN tests'
  BY <1>1, <1>3, <1>5, <1>6, <1>7 DEF UploadInv
<1>10. RunsOf(j)' = RunsOf(j) \cup {Len(results')} /\ Len(results') \notin RunsOf(j)
  BY <1>5, <1>6, <1>7 DEF RunsOf
<1>11. ClosedRuns(j)' = ClosedRuns(j) /\ \A n \in ClosedRuns(j) : results'[n] = results[n]
  BY <1>5, <1>6, <1>10 DEF ClosedRuns, RunsOf
<1>12. OpenRuns(j)' = {Len(results')}
  <2>1. Len(results') \notin ClosedRuns(j)
    BY <1>10 DEF ClosedRuns
  <2>2. QED BY <1>3, <1>10, <1>11, <2>1 DEF OpenRuns
<1>13. CasesGrow(j)
  BY <1>1, <1>2, NothingGrows
<1>14. CASE JobGoes(j, failed)
  <2>1. /\ failed \in JobStates /\ \A i \in Jobs \ {j} : job'[i] = job[i]
        /\ job'[j].phase = "failed" /\ job'[j].autoKeyMap = job[j].autoKeyMap
        /\ job'[j].listed = job[j].listed
    BY <1>2, <1>14, FailedState
  <2> HIDE DEF failed
  <2>2. JobFits(j)'
    BY <1>1, <1>12, <1>13, <2>1, FailedFits
  <2>3. TwinsNeedAStaleListing'
    BY <1>1, <2>1, TwinsStay
  <2>4. QED BY <1>6, <1>8, <1>9, <1>13, <1>14, <2>1, <2>2, <2>3, JobStep
<1>15. CASE JobGoes(j, to)
  <2>1. /\ to \in JobStates
        /\ to.phase = "save" /\ to.autoKeyMap = job[j].autoKeyMap /\ to.listed = job[j].listed
        /\ to.at = job[j].at /\ to.unmatched = job[j].unmatched /\ to.run = Len(results')
        /\ to.matched = job[j].matched /\ to.items = job[j].items /\ to.mode = job[j].mode
    <3>1. Len(results') \in Nat
      BY <1>6
    <3>2. QED BY <1>2, <3>1 DEF JobStates, JobPhases
  <2> HIDE DEF to
  <2>2. job'[j] = to /\ \A i \in Jobs \ {j} : job'[i] = job[i]
    BY <1>2, <1>15 DEF JobGoes, UploadTypeOK
  <2>3. Keeps(j)
    BY <2>1, <2>2 DEF Keeps
  <2>4. CasesFit(j)' /\ MapFits(j)' /\ PlaceFits(j)' /\ RecordsFit(j)' /\ Item(j)' = Item(j)
    BY <1>1, <1>11, <2>1, <2>2, <2>3, RecordingFits
  <2>5. RunFits(j)'
    <3>1. \A n \in RunsOf(j)' : n <= Len(results')
      BY <1>6 DEF RunsOf
    <3>2. tests'[results'[Len(results')].case].key = Item(j)'.key
      BY <1>1, <1>3, <1>5, <1>6, <2>4
    <3>3. QED BY <1>12, <2>1, <2>2, <3>1, <3>2 DEF RunFits
  <2>6. JobFits(j)'
    BY <2>4, <2>5 DEF JobFits
  <2>7. TwinsNeedAStaleListing'
    BY <1>1, <2>1, <2>2, TwinsStay
  <2>8. QED BY <1>6, <1>8, <1>9, <1>13, <1>15, <2>1, <2>6, <2>7, JobStep
<1>16. QED BY <1>1, <1>14, <1>15

(* Writing the run under way: it is the one that is open, and the last. *)
LEMMA RunWritten ==
    ASSUME UploadInv, NEW j \in Jobs, job[j].phase \in {"save", "finalize"}, tests' = tests,
           NEW written \in TestRuns, written.by = j, written.case = results[job[j].run].case,
           results' = [results EXCEPT ![job[j].run] = written]
    PROVE  /\ job[j].run \in RunsOf(j) /\ job[j].run \notin ClosedRuns(j)
           /\ RunsOf(j) = ClosedRuns(j) \cup {job[j].run}
           /\ \A n \in RunsOf(j) : n <= job[j].run
           /\ DOMAIN results' = DOMAIN results /\ results'[job[j].run] = written
           /\ \A n \in ClosedRuns(j) : results'[n] = results[n]
           /\ RunsOf(j)' = RunsOf(j)
           /\ RunsGrow(j) /\ results' \in Seq(TestRuns)
           /\ \A n \in DOMAIN results' : results'[n].case \in DOMAIN tests'
<1>1. OpenRuns(j) = {job[j].run} /\ \A n \in RunsOf(j) : n <= job[j].run
  BY DEF UploadInv, JobFits, RunFits
<1>2. job[j].run \in RunsOf(j) /\ job[j].run \notin ClosedRuns(j)
      /\ RunsOf(j) = ClosedRuns(j) \cup {job[j].run}
  BY <1>1 DEF OpenRuns, ClosedRuns
<1>3. job[j].run \in DOMAIN results /\ results[job[j].run].by = j
  BY <1>2 DEF RunsOf
<1>4. results \in Seq(TestRuns)
  BY DEF UploadInv, UploadTypeOK
<1>5. /\ DOMAIN results' = DOMAIN results /\ results'[job[j].run] = written
      /\ \A n \in DOMAIN results \ {job[j].run} : results'[n] = results[n]
      /\ results' \in Seq(TestRuns)
  BY <1>3, <1>4
<1>6. \A n \in ClosedRuns(j) : results'[n] = results[n]
  BY <1>2, <1>5 DEF ClosedRuns, RunsOf
<1>7. RunsOf(j)' = RunsOf(j) /\ RunsGrow(j)
  BY <1>3, <1>5 DEF RunsOf, RunsGrow
<1>8. \A n \in DOMAIN results' : results'[n].case \in DOMAIN tests'
  BY <1>3, <1>5 DEF UploadInv
<1>9. QED BY <1>1, <1>2, <1>5, <1>6, <1>7, <1>8

(* The step of the run is saved with the outcome of the item. *)
LEMMA SaveStep ==
    ASSUME UploadInv, NEW j \in Jobs, NEW answered \in BOOLEAN, saveStepResult(j, answered)
    PROVE  UploadInv'
<1> DEFINE verdict == IF Item(j).text THEN "Fail" ELSE "Pass"
           written == [results[job[j].run] EXCEPT !.status = verdict]
           to == [job[j] EXCEPT !.phase = "finalize"]
           failed == [job[j] EXCEPT !.phase = "failed"]
<1>1. /\ job[j].phase = "save" /\ tests' = tests
      /\ results' = [results EXCEPT ![job[j].run] = written]
      /\ JobGoes(j, to) \/ JobGoes(j, failed)
  <2>1. /\ job[j].phase = "save" /\ tests' = tests
        /\ results' = [results EXCEPT ![job[j].run].status = verdict]
        /\ Returns(j, answered, to)
    BY DEF saveStepResult
  <2>2. results' = [results EXCEPT ![job[j].run] = written]
    BY <2>1
  <2> HIDE DEF to, written
  <2>3. QED BY <2>1, <2>2 DEF Returns, failed
<1>2. job[j] \in JobStates /\ UploadTypeOK
  BY <1>1, JobHasState DEF UploadInv
<1>3. /\ job[j].run \in DOMAIN results /\ results[job[j].run].by = j
      /\ results[job[j].run].state # "Completed"
      /\ results[job[j].run] \in TestRuns
  BY <1>1, <1>2 DEF UploadInv, JobFits, RunFits, OpenRuns, ClosedRuns, RunsOf, UploadTypeOK
<1>4. /\ written \in TestRuns /\ written.by = j /\ written.case = results[job[j].run].case
      /\ written.state # "Completed" /\ written.status = verdict
  <2>1. verdict \in {"Pass", "Fail"}
    OBVIOUS
  <2> HIDE DEF verdict
  <2>2. QED BY <1>3, <2>1 DEF TestRuns
<1> HIDE DEF written
<1>5. /\ job[j].run \in RunsOf(j) /\ job[j].run \notin ClosedRuns(j)
      /\ RunsOf(j) = ClosedRuns(j) \cup {job[j].run}
      /\ \A n \in RunsOf(j) : n <= job[j].run
      /\ DOMAIN results' = DOMAIN results /\ results'[job[j].run] = written
      /\ \A n \in ClosedRuns(j) : results'[n] = results[n]
      /\ RunsOf(j)' = RunsOf(j)
      /\ RunsGrow(j) /\ results' \in Seq(TestRuns)
      /\ \A n \in DOMAIN results' : results'[n].case \in DOMAIN tests'
  BY <1>1, <1>4, RunWritten
<1>6. ClosedRuns(j)' = ClosedRuns(j)
  BY <1>4, <1>5 DEF ClosedRuns
<1>7. OpenRuns(j)' = {job[j].run}
  BY <1>5, <1>6 DEF OpenRuns
<1>8. CasesGrow(j)
  BY <1>1, <1>2, NothingGrows
<1>9. CASE JobGoes(j, failed)
  <2>1. /\ failed \in JobStates /\ \A i \in Jobs \ {j} : job'[i] = job[i]
        /\ job'[j].phase = "failed" /\ job'[j].autoKeyMap = job[j].autoKeyMap
        /\ job'[j].listed = job[j].listed
    BY <1>2, <1>9, FailedState
  <2> HIDE DEF failed
  <2>2. JobFits(j)'
    BY <1>1, <1>7, <1>8, <2>1, FailedFits
  <2>3. TwinsNeedAStaleListing'
    BY <1>1, <2>1, TwinsStay
  <2>4. QED BY <1>5, <1>8, <1>9, <2>1, <2>2, <2>3, JobStep
<1>10. CASE JobGoes(j, to)
  <2>1. /\ to \in JobStates
        /\ to.phase = "finalize" /\ to.autoKeyMap = job[j].autoKeyMap /\ to.listed = job[j].listed
        /\ to.at = job[j].at /\ to.unmatched = job[j].unmatched /\ to.run = job[j].run
        /\ to.matched = job[j].matched /\ to.items = job[j].items /\ to.mode = job[j].mode
    BY <1>2 DEF JobStates, JobPhases
  <2> HIDE DEF to
  <2>2. job'[j] = to /\ \A i \in Jobs \ {j} : job'[i] = job[i]
    BY <1>2, <1>10 DEF JobGoes, UploadTypeOK
  <2>3. Keeps(j)
    BY <2>1, <2>2 DEF Keeps
  <2>4. CasesFit(j)' /\ MapFits(j)' /\ PlaceFits(j)' /\ RecordsFit(j)' /\ Item(j)' = Item(j)
    BY <1>1, <1>5, <1>6, <2>1, <2>2, <2>3, RecordingFits
  <2>5. RunFits(j)'
    <3>1. tests[results[job[j].run].case].key = Item(j).key
      BY <1>1 DEF UploadInv, JobFits, RunFits
    <3>2. tests'[results'[job'[j].run].case].key = Item(j)'.key
      BY <1>1, <1>4, <1>5, <2>1, <2>2, <2>4, <3>1
    <3>3. results'[job'[j].run].status = IF Item(j)'.text THEN "Fail" ELSE "Pass"
      BY <1>4, <1>5, <2>1, <2>2, <2>4
    <3>4. QED BY <1>5, <1>7, <2>1, <2>2, <3>2, <3>3 DEF RunFits
  <2>6. JobFits(j)'
    BY <2>4, <2>5 DEF JobFits
  <2>7. TwinsNeedAStaleListing'
    BY <1>1, <2>1, <2>2, TwinsStay
  <2>8. QED BY <1>5, <1>8, <1>10, <2>1, <2>6, <2>7, JobStep
<1>11. QED BY <1>1, <1>9, <1>10

(* The run that ended is the last one, as its item is the last one behind the
   job: the others keep their places. *)
LEMMA FinalizedRecords ==
    ASSUME UploadInv, NEW j \in Jobs, job[j].phase = "finalize", tests' = tests,
           ClosedRuns(j)' = ClosedRuns(j) \cup {job[j].run},
           NEW run \in Nat, run = job[j].run, \A n \in ClosedRuns(j) : n < run,
           \A n \in ClosedRuns(j) : results'[n] = results[n],
           NEW item, item = Item(j), Records(run, item)',
           job'[j].items = job[j].items, job'[j].autoKeyMap = job[j].autoKeyMap,
           job'[j].at = job[j].at + 1, job'[j].matched = job[j].matched + 1
    PROVE  RecordsFit(j)'
<1>1. UploadTypeOK /\ RecordsFit(j) /\ PlaceFits(j) /\ job[j] \in JobStates
  BY JobHasState DEF UploadInv, JobFits
<1>2. PICK closed \in SUBSET Nat, behind \in SUBSET Nat, matched \in Nat, at \in Nat, items \in {job[j].items} :
         /\ closed = ClosedRuns(j) /\ behind = Behind(j) /\ matched = job[j].matched
         /\ at = job[j].at /\ items = job[j].items
         /\ IsFiniteSet(closed) /\ IsFiniteSet(behind)
  <2>1. job[j].matched \in Nat /\ job[j].at \in Nat
    BY <1>1 DEF JobStates
  <2>2. QED BY <1>1, <2>1, RunsAreNumbers, ItemsAreNumbers
<1>3. /\ matched = Cardinality(closed) /\ matched = Cardinality(behind)
      /\ \A n \in closed, i \in behind :
            Place(n, closed) = Place(i, behind) => Records(n, items[i])
  BY <1>1, <1>2 DEF RecordsFit, Live
<1>4. ASSUME NEW n \in closed, NEW i, Records(n, i) PROVE Records(n, i)'
  BY <1>2, <1>4 DEF Records
<1>5. at \in MatchedItems(j) /\ items[at] = item
  <2>1. at <= Len(job[j].items) /\ Item(j).key \in DOMAIN job[j].autoKeyMap
        /\ at \in 1..(Len(job[j].items) + 1)
    BY <1>1, <1>2 DEF PlaceFits, Live
  <2>2. Len(job[j].items) \in Nat /\ DOMAIN job[j].items = 1..Len(job[j].items)
    BY <1>1, ItemsAreLists DEF JobStates
  <2>3. at \in DOMAIN job[j].items
    BY <2>1, <2>2
  <2>4. QED BY <1>2, <2>1, <2>3 DEF MatchedItems, Item
<1>6. Behind(j)' = behind \cup {at}
  <2>1. DOMAIN job[j].items \subseteq Nat
    BY <1>1, ItemsAreLists DEF JobStates
  <2>2. MatchedItems(j)' = MatchedItems(j) /\ MatchedItems(j) \subseteq Nat
    BY <2>1 DEF MatchedItems
  <2>3. Behind(j)' = {i \in MatchedItems(j) : i < at + 1}
    BY <1>2, <2>2 DEF Behind
  <2>4. behind = {i \in MatchedItems(j) : i < at}
    BY <1>2 DEF Behind
  <2>5. \A i \in MatchedItems(j) : i < at + 1 <=> (i < at \/ i = at)
    BY <2>2
  <2>6. QED BY <1>5, <2>3, <2>4, <2>5
<1>7. PICK closed2, behind2 : closed2 = closed \cup {run} /\ behind2 = behind \cup {at}
  OBVIOUS
<1>8. ClosedRuns(j)' = closed2 /\ Behind(j)' = behind2
  BY <1>2, <1>6, <1>7
<1>9. /\ Cardinality(closed2) = matched + 1 /\ Place(run, closed2) = matched + 1
      /\ \A n \in closed : Place(n, closed2) = Place(n, closed) /\ Place(n, closed) \in 1..matched
  <2>1. \A n \in closed : n < run
    BY <1>2
  <2>2. /\ closed \in SUBSET Nat /\ IsFiniteSet(closed) /\ run \in Nat
        /\ closed2 = closed \cup {run} /\ \A y \in closed : y < run
    BY <1>2, <1>7, <2>1
  <2>3. /\ Cardinality(closed2) = Cardinality(closed) + 1
        /\ Place(run, closed2) = Cardinality(closed) + 1
        /\ \A n \in closed : /\ Place(n, closed2) = Place(n, closed)
                              /\ Place(n, closed) \in 1..Cardinality(closed)
    BY <2>2, PlaceOfNext
  <2>4. QED BY <1>3, <2>3
<1>10. /\ Cardinality(behind2) = matched + 1 /\ Place(at, behind2) = matched + 1
       /\ \A i \in behind : Place(i, behind2) = Place(i, behind) /\ Place(i, behind) \in 1..matched
  <2>1. \A i \in behind : i < at
    BY <1>2 DEF Behind
  <2>2. /\ behind \in SUBSET Nat /\ IsFiniteSet(behind) /\ at \in Nat
        /\ behind2 = behind \cup {at} /\ \A y \in behind : y < at
    BY <1>2, <1>7, <2>1
  <2>3. /\ Cardinality(behind2) = Cardinality(behind) + 1
        /\ Place(at, behind2) = Cardinality(behind) + 1
        /\ \A i \in behind : /\ Place(i, behind2) = Place(i, behind)
                              /\ Place(i, behind) \in 1..Cardinality(behind)
    BY <2>2, PlaceOfNext
  <2>4. QED BY <1>3, <2>3
<1>11. ASSUME NEW n \in closed2, NEW i \in behind2, Place(n, closed2) = Place(i, behind2)
       PROVE  Records(n, items[i])'
  <2>1. CASE n \in closed /\ i \in behind
    <3>1. Records(n, items[i])
      BY <1>3, <1>9, <1>10, <1>11, <2>1
    <3>2. PICK it : it = items[i]
      OBVIOUS
    <3>3. Records(n, it)'
      BY <1>4, <2>1, <3>1, <3>2
    <3>4. QED BY <3>2, <3>3
  <2>2. CASE n = run /\ i = at
    BY <1>5, <2>2
  <2>3. CASE n = run /\ i \in behind
    BY <1>9, <1>10, <1>11, <2>3
  <2>4. CASE n \in closed /\ i = at
    BY <1>9, <1>10, <1>11, <2>4
  <2>5. QED BY <1>7, <2>1, <2>2, <2>3, <2>4
<1>12. job'[j].matched = Cardinality(ClosedRuns(j)') /\ job'[j].matched = Cardinality(Behind(j)')
  BY <1>2, <1>8, <1>9, <1>10
<1>13. job'[j].items = items
  BY <1>2
<1>14. QED BY <1>8, <1>11, <1>12, <1>13 DEF RecordsFit

(* The run is closed: it is the record of the item the job was at. *)
LEMMA FinalizeStep ==
    ASSUME UploadInv, NEW j \in Jobs, NEW answered \in BOOLEAN, finalizeRun(j, answered)
    PROVE  UploadInv'
<1> DEFINE written == [results[job[j].run] EXCEPT !.state = "Completed"]
           to == [job[j] EXCEPT !.phase = "next", !.at = @ + 1, !.matched = @ + 1]
           failed == [job[j] EXCEPT !.phase = "failed"]
<1>1. /\ job[j].phase = "finalize" /\ tests' = tests
      /\ results' = [results EXCEPT ![job[j].run] = written]
      /\ JobGoes(j, to) \/ JobGoes(j, failed)
  <2>1. /\ job[j].phase = "finalize" /\ tests' = tests
        /\ results' = [results EXCEPT ![job[j].run].state = "Completed"]
        /\ Returns(j, answered, to)
    BY DEF finalizeRun
  <2>2. results' = [results EXCEPT ![job[j].run] = written]
    BY <2>1
  <2> HIDE DEF to, written
  <2>3. QED BY <2>1, <2>2 DEF Returns, failed
<1>2. job[j] \in JobStates /\ UploadTypeOK
  BY <1>1, JobHasState DEF UploadInv
<1>3. /\ job[j].run \in DOMAIN results /\ results[job[j].run].by = j
      /\ results[job[j].run] \in TestRuns
  BY <1>1, <1>2 DEF UploadInv, JobFits, RunFits, OpenRuns, RunsOf, UploadTypeOK
<1>4. /\ written \in TestRuns /\ written.by = j /\ written.case = results[job[j].run].case
      /\ written.state = "Completed" /\ written.status = results[job[j].run].status
  BY <1>3 DEF TestRuns
<1> HIDE DEF written
<1>5. /\ job[j].run \in RunsOf(j) /\ job[j].run \notin ClosedRuns(j)
      /\ RunsOf(j) = ClosedRuns(j) \cup {job[j].run}
      /\ \A n \in RunsOf(j) : n <= job[j].run
      /\ DOMAIN results' = DOMAIN results /\ results'[job[j].run] = written
      /\ \A n \in ClosedRuns(j) : results'[n] = results[n]
      /\ RunsOf(j)' = RunsOf(j)
      /\ RunsGrow(j) /\ results' \in Seq(TestRuns)
      /\ \A n \in DOMAIN results' : results'[n].case \in DOMAIN tests'
  BY <1>1, <1>4, RunWritten
<1>6. ClosedRuns(j)' = ClosedRuns(j) \cup {job[j].run} /\ OpenRuns(j)' = {}
  <2>1. ClosedRuns(j)' = RunsOf(j)
    BY <1>4, <1>5 DEF ClosedRuns
  <2>2. QED BY <1>5, <2>1 DEF OpenRuns
<1>7. CasesGrow(j)
  BY <1>1, <1>2, NothingGrows
<1>8. CASE JobGoes(j, failed)
  <2>1. /\ failed \in JobStates /\ \A i \in Jobs \ {j} : job'[i] = job[i]
        /\ job'[j].phase = "failed" /\ job'[j].autoKeyMap = job[j].autoKeyMap
        /\ job'[j].listed = job[j].listed
    BY <1>2, <1>8, FailedState
  <2> HIDE DEF failed
  <2>2. JobFits(j)'
    BY <1>1, <1>6, <1>7, <2>1, FailedFits
  <2>3. TwinsNeedAStaleListing'
    BY <1>1, <2>1, TwinsStay
  <2>4. QED BY <1>5, <1>7, <1>8, <2>1, <2>2, <2>3, JobStep
<1>9. CASE JobGoes(j, to)
  <2>1. job[j].at + 1 \in Nat /\ job[j].matched + 1 \in Nat
    BY <1>2 DEF JobStates
  <2>2. /\ to \in JobStates
        /\ to.phase = "next" /\ to.autoKeyMap = job[j].autoKeyMap /\ to.listed = job[j].listed
        /\ to.at = job[j].at + 1 /\ to.unmatched = job[j].unmatched
        /\ to.matched = job[j].matched + 1 /\ to.items = job[j].items /\ to.mode = job[j].mode
    BY <1>2, <2>1 DEF JobStates, JobPhases
  <2> HIDE DEF to
  <2>3. job'[j] = to /\ \A i \in Jobs \ {j} : job'[i] = job[i]
    BY <1>2, <1>9 DEF JobGoes, UploadTypeOK
  <2>4. CasesFit(j) /\ MapFits(j) /\ PlaceFits(j) /\ RunFits(j)
    BY <1>1 DEF UploadInv, JobFits
  <2>5. CasesFit(j)' /\ MapFits(j)'
    BY <1>1, <2>2, <2>3, <2>4 DEF CasesFit, MapFits, Live
  <2>6. PlaceFits(j)'
    <3>1. job[j].at <= Len(job[j].items) /\ Item(j).key \in DOMAIN job[j].autoKeyMap
      BY <1>1, <2>4 DEF PlaceFits
    <3>2. job'[j].matched + job'[j].unmatched = job[j].matched + job[j].unmatched + 1
      <4>1. job[j].matched \in Nat /\ job[j].unmatched \in Nat
        BY <1>2 DEF JobStates
      <4>2. QED BY <2>2, <2>3, <4>1
    <3>3. QED BY <1>1, <2>2, <2>3, <3>1, <3>2, PlaceMoves DEF Live
  <2>7. PICK run \in Nat : run = job[j].run
    BY <1>2 DEF JobStates
  <2>8. \A n \in ClosedRuns(j) : n < run
    <3>1. ClosedRuns(j) \in SUBSET Nat
      BY <1>2, RunsAreNumbers
    <3>2. \A n \in ClosedRuns(j) : n <= run /\ n # run
      BY <1>5, <2>7
    <3>3. QED BY <3>1, <3>2
  <2>9. PICK item : item = Item(j)
    OBVIOUS
  <2>10. Records(run, item)'
    <3>1. tests[results[run].case].key = item.key
          /\ results[run].status = IF item.text THEN "Fail" ELSE "Pass"
      BY <1>1, <2>4, <2>7, <2>9 DEF RunFits
    <3>2. results'[run].case = results[run].case /\ results'[run].status = results[run].status
      BY <1>4, <1>5, <2>7
    <3>3. QED BY <1>1, <3>1, <3>2 DEF Records
  <2>11. RecordsFit(j)'
    <3>1. /\ job'[j].items = job[j].items /\ job'[j].autoKeyMap = job[j].autoKeyMap
          /\ job'[j].at = job[j].at + 1 /\ job'[j].matched = job[j].matched + 1
      BY <2>2, <2>3
    <3>2. ClosedRuns(j)' = ClosedRuns(j) \cup {job[j].run}
          /\ \A n \in ClosedRuns(j) : results'[n] = results[n]
      BY <1>5, <1>6
    <3>3. QED BY <1>1, <2>7, <2>8, <2>9, <2>10, <3>1, <3>2, FinalizedRecords
  <2>12. RunFits(j)'
    BY <1>6, <2>2, <2>3 DEF RunFits
  <2>13. JobFits(j)'
    BY <2>5, <2>6, <2>11, <2>12 DEF JobFits
  <2>14. TwinsNeedAStaleListing'
    BY <1>1, <2>2, <2>3, TwinsStay
  <2>15. QED BY <1>5, <1>7, <1>9, <2>2, <2>13, <2>14, JobStep
<1>10. QED BY <1>1, <1>8, <1>9

-----------------------------------------------------------------------------

(* Before the first job there is no run, and every case is of a user. *)
LEMMA InitUpload == UploadInit => UploadInv
<1> SUFFICES ASSUME UploadInit PROVE UploadInv
  OBVIOUS
<1>1. PICK keys \in Portfolios : tests = [i \in DOMAIN keys |-> [key |-> keys[i], by |-> "user"]]
  BY DEF UploadInit
<1>2. Len(keys) \in Nat /\ DOMAIN keys = 1..Len(keys)
  BY UploadAssumption
<1>3. \A i \in DOMAIN keys : [key |-> keys[i], by |-> "user"] \in TestCases
  BY <1>2 DEF TestCases, TestKeys
<1>4. tests \in [1..Len(keys) -> TestCases]
  BY <1>1, <1>2, <1>3
<1>5. tests \in Seq(TestCases)
  <2>1. PICK n \in Nat : n = Len(keys)
    BY <1>2
  <2>2. tests \in [1..n -> TestCases]
    BY <1>4, <2>1
  <2>3. QED BY <2>2
<1>6. /\ results = << >> /\ DOMAIN results = {} /\ results \in Seq(TestRuns)
      /\ job = [j \in Jobs |-> JobOff]
  BY DEF UploadInit, JobOff
<1>7. UploadTypeOK
  BY <1>5, <1>6 DEF UploadTypeOK
<1>8. \A c \in DOMAIN tests : tests[c].by = "user"
  BY <1>1
<1>9. "user" \notin Jobs
  BY UploadAssumption
<1>10. ASSUME NEW j \in Jobs PROVE JobFits(j)
  <2>1. job[j].phase = "off"
    BY <1>6 DEF JobOff
  <2>2. RunsOf(j) = {}
    BY <1>6 DEF RunsOf
  <2>3. CasesFit(j) /\ RunFits(j)
    BY <1>8, <1>9, <2>1, <2>2 DEF CasesFit, RunFits, OpenRuns, Live
  <2>4. QED BY <2>1, <2>3 DEF JobFits
<1>11. TwinsNeedAStaleListing
  BY <1>8, <1>9 DEF TwinsNeedAStaleListing
<1>12. QED BY <1>6, <1>7, <1>10, <1>11 DEF UploadInv

(* Every step of every job keeps the invariant. *)
LEMMA UploadStep == UploadInv /\ [UploadNext]_uploadVars => UploadInv'
<1> SUFFICES ASSUME UploadInv, [UploadNext]_uploadVars PROVE UploadInv'
  OBVIOUS
<1>1. CASE UNCHANGED uploadVars
  <2>1. tests' = tests /\ results' = results /\ job' = job
    BY <1>1 DEF uploadVars
  <2>2. UploadTypeOK' /\ TwinsNeedAStaleListing'
        /\ \A n \in DOMAIN results' : results'[n].case \in DOMAIN tests'
    BY <2>1 DEF UploadInv, UploadTypeOK, TwinsNeedAStaleListing
  <2>3. ASSUME NEW j \in Jobs PROVE JobFits(j)'
    <3>1. /\ RunsOf(j)' = RunsOf(j) /\ ClosedRuns(j)' = ClosedRuns(j)
          /\ OpenRuns(j)' = OpenRuns(j) /\ Behind(j)' = Behind(j) /\ Item(j)' = Item(j)
      BY <2>1 DEF RunsOf, ClosedRuns, OpenRuns, Behind, MatchedItems, Item
    <3>2. JobFits(j)
      BY DEF UploadInv
    <3>3. CasesFit(j)' /\ (job[j].phase # "off" => MapFits(j)' /\ PlaceFits(j)')
      BY <2>1, <3>1, <3>2 DEF JobFits, CasesFit, MapFits, PlaceFits
    <3>4. \A n, item : Records(n, item)' <=> Records(n, item)
      BY <2>1 DEF Records
    <3>5. job[j].phase # "off" => RecordsFit(j)'
      BY <2>1, <3>1, <3>2, <3>4 DEF JobFits, RecordsFit, Place
    <3>6. RunFits(j)'
      BY <2>1, <3>1, <3>2 DEF JobFits, RunFits
    <3>7. QED BY <2>1, <3>3, <3>5, <3>6 DEF JobFits
  <2>4. QED BY <2>2, <2>3 DEF UploadInv
<1>2. CASE UploadNext
  BY <1>2, UploadStarts, UploadListStep, SkipStep, StopStep, FindStep, UploadCreateStep, UploadStartStep,
     SaveStep, FinalizeStep, EndStep DEF UploadNext
<1>3. QED BY <1>1, <1>2

(* TwinsNeedAStaleListing, for any portfolios, reports and jobs: the upload of
   runUpload gives a key a second case only if the case was not in the listing
   it matched against. *)
THEOREM TwinsAreExplained == UploadSpec => []TwinsNeedAStaleListing
<1>1. UploadInv => TwinsNeedAStaleListing
  BY DEF UploadInv
<1>2. QED BY <1>1, InitUpload, UploadStep, PTL DEF UploadSpec

(* What the invariant counts place by place is what a job promises when it ends. *)
LEMMA AllAccounted == UploadInv => UploadsAreAccountedFor
<1> SUFFICES ASSUME UploadInv, NEW j \in Jobs, job[j].phase # "off"
             PROVE  /\ Cardinality(RunsOf(j) \ ClosedRuns(j)) <=
                           IF job[j].phase \in {"save", "finalize", "failed"} THEN 1 ELSE 0
                    /\ job[j].phase = "done" =>
                        /\ job[j].mode # "match" =>
                               \A i \in DOMAIN job[j].items :
                                   job[j].items[i].key # NoKey => i \in MatchedItems(j)
                        /\ job[j].matched + job[j].unmatched = Len(job[j].items)
                        /\ job[j].matched = Cardinality(ClosedRuns(j))
                        /\ job[j].matched = Cardinality(MatchedItems(j))
                        /\ \A n \in ClosedRuns(j), i \in MatchedItems(j) :
                              Place(n, ClosedRuns(j)) = Place(i, MatchedItems(j)) =>
                                  Records(n, job[j].items[i])
  BY DEF UploadsAreAccountedFor
<1>1. job[j] \in JobStates /\ PlaceFits(j) /\ RecordsFit(j) /\ RunFits(j)
  BY JobHasState DEF UploadInv, JobFits
<1>2. Cardinality(OpenRuns(j)) <= IF job[j].phase \in {"save", "finalize", "failed"} THEN 1 ELSE 0
  <2>1. CASE OpenRuns(j) = {}
    BY <2>1, FS_EmptySet
  <2>2. ASSUME NEW n \in OpenRuns(j)
        PROVE  /\ Cardinality(OpenRuns(j)) = 1
               /\ job[j].phase \in {"save", "finalize", "failed"}
    <3>1. OpenRuns(j) = {n}
      BY <1>1, <2>2 DEF RunFits
    <3>2. RunsOf(j) # {}
      BY <2>2 DEF OpenRuns
    <3>3. job[j].phase \notin {"off", "list", "next", "start", "done"}
      BY <1>1, <2>2, <3>2 DEF RunFits
    <3>4. QED BY <1>1, <3>1, <3>3, FS_Singleton DEF JobStates, JobPhases
  <2>3. QED BY <2>1, <2>2
<1>3. ASSUME job[j].phase = "done"
      PROVE  /\ Behind(j) = MatchedItems(j)
             /\ job[j].matched + job[j].unmatched = Len(job[j].items)
             /\ job[j].mode # "match" =>
                    \A i \in DOMAIN job[j].items :
                        job[j].items[i].key # NoKey => i \in MatchedItems(j)
  <2>1. PICK n \in Nat, m \in Nat, u \in Nat :
           n = Len(job[j].items) /\ m = job[j].matched /\ u = job[j].unmatched
    <3>1. job[j].matched \in Nat /\ job[j].unmatched \in Nat /\ job[j].items \in ItemLists
      BY <1>1 DEF JobStates
    <3>2. QED BY <3>1, ItemsAreLists
  <2>2. DOMAIN job[j].items = 1..n
    BY <1>1, <2>1, ItemsAreLists DEF JobStates
  <2>3. job[j].at = n + 1 /\ m + u + 1 = n + 1
    BY <1>1, <1>3, <2>1 DEF PlaceFits, Live
  <2>4. \A i \in DOMAIN job[j].items : i < job[j].at
    BY <2>2, <2>3
  <2>5. Behind(j) = MatchedItems(j)
    BY <2>4 DEF Behind, MatchedItems
  <2>6. job[j].mode # "match" =>
           \A i \in DOMAIN job[j].items : job[j].items[i].key # NoKey => i \in MatchedItems(j)
    BY <1>1, <1>3, <2>4 DEF PlaceFits, Live, MatchedItems
  <2>7. m + u = n
    BY <2>3
  <2>8. QED BY <2>1, <2>5, <2>6, <2>7
<1>4. QED BY <1>1, <1>2, <1>3 DEF RecordsFit, Live, OpenRuns

(* UploadsAreAccountedFor, for any portfolios, reports and jobs: a job that ends
   well recorded each result with a case once, in order, with the verdict of its
   text; a job that fails leaves one run in progress at most. *)
THEOREM UploadsAccounted == UploadSpec => []UploadsAreAccountedFor
BY InitUpload, UploadStep, AllAccounted, PTL DEF UploadSpec


-----------------------------------------------------------------------------
(* A feature file and one with a line more. *)
TextLines == [kind : LineKinds, id : Nat]
Numbered(text) == \A i \in DOMAIN text : text[i].id = i

Grows(longer, text, l, n) ==
    /\ text \in Seq(TextLines) /\ longer \in Seq(TextLines)
    /\ n \in Nat /\ Len(text) = n /\ DOMAIN text = 1..n
    /\ Len(longer) = n + 1 /\ DOMAIN longer = 1..(n + 1)
    /\ longer[n + 1] = l /\ \A k \in 1..n : longer[k] = text[k]
    /\ Numbered(text) /\ Numbered(longer) /\ l.id = n + 1

(* The last line of some kinds, at a line or above it. *)
LEMMA LastIs ==
    ASSUME NEW text, NEW kinds, NEW i \in Nat
    PROVE  /\ LastLine(text, kinds, i) \in 0..i
           /\ LastLine(text, kinds, i) # 0 => text[LastLine(text, kinds, i)].kind \in kinds
           /\ \A j \in 1..i : text[j].kind \in kinds => j <= LastLine(text, kinds, i)
<1> DEFINE S == {0} \cup {j \in 1..i : text[j].kind \in kinds}
<1>1. S \in SUBSET (0..i) /\ 0 \in S
  OBVIOUS
<1>2. S \in SUBSET Nat /\ IsFiniteSet(S) /\ S # {}
  <2>1. IsFiniteSet(0..i)
    BY FS_Interval
  <2>2. QED BY <1>1, <2>1, FS_Subset
<1> HIDE DEF S
<1>3. PICK x \in S : \A y \in S \ {x} : y < x
  BY <1>2, Largest
<1>4. \A y \in S : x >= y
  BY <1>2, <1>3
<1>5. Max(S) \in S /\ \A y \in S : Max(S) >= y
  BY <1>3, <1>4 DEF Max
<1>6. PICK m \in S : m = Max(S) /\ (\A y \in S : m >= y) /\ m \in 0..i
  BY <1>1, <1>5
<1>7. LastLine(text, kinds, i) = m
  BY <1>6 DEF LastLine, S
<1>8. m # 0 => text[m].kind \in kinds
  BY DEF S
<1>9. \A j \in 1..i : text[j].kind \in kinds => j <= m
  <2>1. SUFFICES ASSUME NEW j \in 1..i, text[j].kind \in kinds PROVE j <= m
    OBVIOUS
  <2>2. j \in S
    BY <2>1 DEF S
  <2>3. QED BY <1>6, <2>2
<1>10. QED BY <1>6, <1>7, <1>8, <1>9

(* It is the only one such. *)
LEMMA LastIsOnly ==
    ASSUME NEW text, NEW kinds, NEW i \in Nat, NEW x \in 0..i,
           x # 0 => text[x].kind \in kinds,
           \A j \in 1..i : text[j].kind \in kinds => j <= x
    PROVE  LastLine(text, kinds, i) = x
<1>1. PICK m \in 0..i :
          /\ m = LastLine(text, kinds, i) /\ (m # 0 => text[m].kind \in kinds)
          /\ \A j \in 1..i : text[j].kind \in kinds => j <= m
  BY LastIs
<1>2. x = 0 \/ x <= m
  BY <1>1
<1>3. m = 0 \/ m <= x
  BY <1>1
<1>4. QED BY <1>1, <1>2, <1>3

(* A line more is the last of its own kind, and moves no other. *)
LEMMA LastOfLonger ==
    ASSUME NEW text, NEW longer, NEW l, NEW n, Grows(longer, text, l, n), NEW kinds
    PROVE  /\ \A i \in 0..n : LastLine(longer, kinds, i) = LastLine(text, kinds, i)
           /\ l.kind \in kinds => LastLine(longer, kinds, n + 1) = n + 1
           /\ l.kind \notin kinds => LastLine(longer, kinds, n + 1) = LastLine(text, kinds, n)
<1>1. n \in Nat /\ longer[n + 1] = l /\ \A k \in 1..n : longer[k] = text[k]
  BY DEF Grows
<1>2. ASSUME NEW i \in 0..n PROVE LastLine(longer, kinds, i) = LastLine(text, kinds, i)
  <2>1. {j \in 1..i : longer[j].kind \in kinds} = {j \in 1..i : text[j].kind \in kinds}
    <3>1. \A j \in 1..i : longer[j] = text[j]
      BY <1>1
    <3>2. QED BY <3>1
  <2>2. QED BY <2>1 DEF LastLine
<1>3. n + 1 \in Nat /\ \A j \in 1..(n + 1) : j \in 1..n \/ j = n + 1
  BY <1>1
<1>4. ASSUME l.kind \in kinds PROVE LastLine(longer, kinds, n + 1) = n + 1
  <2>1. n + 1 \in 0..(n + 1) /\ \A j \in 1..(n + 1) : j <= n + 1
    BY <1>1
  <2>2. longer[n + 1].kind \in kinds
    BY <1>1, <1>4
  <2>3. QED BY <1>3, <2>1, <2>2, LastIsOnly
<1>5. ASSUME l.kind \notin kinds
      PROVE  LastLine(longer, kinds, n + 1) = LastLine(text, kinds, n)
  <2>1. PICK m \in 0..n :
            /\ m = LastLine(text, kinds, n) /\ (m # 0 => text[m].kind \in kinds)
            /\ \A j \in 1..n : text[j].kind \in kinds => j <= m
    BY <1>1, LastIs
  <2>2. m \in 0..(n + 1) /\ (m # 0 => longer[m].kind \in kinds)
    BY <1>1, <2>1
  <2>3. \A j \in 1..(n + 1) : longer[j].kind \in kinds => j <= m
    BY <1>1, <1>3, <1>5, <2>1
  <2>4. QED BY <1>3, <2>1, <2>2, <2>3, LastIsOnly
<1>6. QED BY <1>2, <1>4, <1>5

(* Where a line more stands. *)
LEMMA PlaceOfLonger ==
    ASSUME NEW text, NEW longer, NEW l, NEW n, Grows(longer, text, l, n)
    PROVE  /\ \A k \in 1..n : IsInTable(longer, k) = IsInTable(text, k)
           /\ \A k \in 1..n : IsInBackground(longer, k) = IsInBackground(text, k)
           /\ IsInBackground(longer, n + 1) =
                  IF l.kind \in HeaderKinds \cup {"feature"} THEN l.kind = "background"
                  ELSE IsInBackground(text, n)
           /\ IsInTable(longer, n + 1) =
                  IF l.kind \in HeaderKinds \cup {"examples", "step"} THEN l.kind = "examples"
                  ELSE IsInTable(text, n)
<1>1. n \in Nat /\ longer[n + 1] = l /\ \A k \in 1..n : longer[k] = text[k]
  BY DEF Grows
<1>2. ASSUME NEW kinds, NEW k \in 0..n
      PROVE  /\ LastLine(text, kinds, k) \in 0..n
             /\ LastLine(longer, kinds, k) = LastLine(text, kinds, k)
  <2>1. k \in Nat
    BY <1>1
  <2>2. LastLine(text, kinds, k) \in 0..k
    BY <2>1, LastIs
  <2>3. QED BY <1>1, <2>2, LastOfLonger
<1>3. ASSUME NEW k \in 1..n PROVE IsInTable(longer, k) = IsInTable(text, k)
  <2>1. k \in 0..n
    BY <1>1
  <2>2. PICK j \in 0..n :
            /\ j = LastLine(text, HeaderKinds \cup {"examples", "step"}, k)
            /\ j = LastLine(longer, HeaderKinds \cup {"examples", "step"}, k)
    BY <1>2, <2>1
  <2>3. QED BY <1>1, <2>2 DEF IsInTable
<1>4. ASSUME NEW k \in 1..n PROVE IsInBackground(longer, k) = IsInBackground(text, k)
  <2>1. k \in 0..n
    BY <1>1
  <2>2. PICK j \in 0..n :
            /\ j = LastLine(text, HeaderKinds \cup {"feature"}, k)
            /\ j = LastLine(longer, HeaderKinds \cup {"feature"}, k)
    BY <1>2, <2>1
  <2>3. QED BY <1>1, <2>2 DEF IsInBackground
<1>5. IsInBackground(longer, n + 1) =
          IF l.kind \in HeaderKinds \cup {"feature"} THEN l.kind = "background"
          ELSE IsInBackground(text, n)
  <2>1. PICK j \in 0..n : j = LastLine(text, HeaderKinds \cup {"feature"}, n)
    BY <1>1, <1>2
  <2>2. LastLine(longer, HeaderKinds \cup {"feature"}, n + 1) =
            IF l.kind \in HeaderKinds \cup {"feature"} THEN n + 1 ELSE j
    BY <2>1, LastOfLonger
  <2>3. QED BY <1>1, <2>1, <2>2 DEF IsInBackground
<1>6. IsInTable(longer, n + 1) =
          IF l.kind \in HeaderKinds \cup {"examples", "step"} THEN l.kind = "examples"
          ELSE IsInTable(text, n)
  <2>1. PICK j \in 0..n : j = LastLine(text, HeaderKinds \cup {"examples", "step"}, n)
    BY <1>1, <1>2
  <2>2. LastLine(longer, HeaderKinds \cup {"examples", "step"}, n + 1) =
            IF l.kind \in HeaderKinds \cup {"examples", "step"} THEN n + 1 ELSE j
    BY <2>1, LastOfLonger
  <2>3. QED BY <1>1, <2>1, <2>2 DEF IsInTable
<1>7. QED BY <1>3, <1>4, <1>5, <1>6

(* The numbers of chosen lines, with a line more. *)
LEMMA IdsOfLonger ==
    ASSUME NEW text, NEW longer, NEW l, NEW n, Grows(longer, text, l, n),
           NEW S \in SUBSET (1..n)
    PROVE  /\ Ids(text, S) \in Seq(Nat) /\ Ids(longer, S) = Ids(text, S)
           /\ Ids(longer, S \cup {n + 1}) = Append(Ids(text, S), n + 1)
<1> DEFINE few == [i \in DOMAIN text |-> text[i].id]
           many == [i \in DOMAIN longer |-> longer[i].id]
<1>1. /\ n \in Nat /\ DOMAIN text = 1..n /\ DOMAIN longer = 1..(n + 1)
      /\ longer[n + 1].id = n + 1 /\ \A k \in 1..n : longer[k] = text[k]
  BY DEF Grows
<1>2. few = [i \in 1..n |-> text[i].id] /\ many = [i \in 1..(n + 1) |-> longer[i].id]
  BY <1>1
<1>3. /\ \A k \in 1..n : text[k].id \in Nat
      /\ \A k \in 1..(n + 1) : longer[k].id \in Nat
  BY <1>1 DEF Grows, Numbered
<1>4. /\ few \in Seq(Nat) /\ Len(few) = n /\ DOMAIN few = 1..n
      /\ many \in Seq(Nat) /\ Len(many) = n + 1 /\ DOMAIN many = 1..(n + 1)
  <2> HIDE DEF few, many
  <2>1. few \in [1..n -> Nat] /\ many \in [1..(n + 1) -> Nat]
    BY <1>2, <1>3
  <2>2. \A m \in Nat : \A f \in [1..m -> Nat] :
            f \in Seq(Nat) /\ Len(f) = m /\ DOMAIN f = 1..m
    OBVIOUS
  <2>3. n + 1 \in Nat
    BY <1>1
  <2>4. QED BY <1>1, <2>1, <2>2, <2>3
<1>5. many[n + 1] = n + 1 /\ \A k \in 1..n : many[k] = few[k]
  BY <1>1
<1> HIDE DEF few, many
<1>6. S \in SUBSET DOMAIN few
  BY <1>4
<1>7. S \in SUBSET DOMAIN many /\ Kept(many, S) = Kept(few, S)
  <2>1. \A k \in DOMAIN few : many[k] = few[k]
    BY <1>4, <1>5
  <2>2. Len(few) <= Len(many)
    BY <1>1, <1>4
  <2>3. few \in Seq(Nat) /\ many \in Seq(Nat)
    BY <1>4
  <2>4. S \in SUBSET DOMAIN many
    BY <1>1, <1>4
  <2>5. Kept(many, S) = Kept(few, S)
    <3>1. PICK T, a, b, A : T = Nat /\ a = few /\ b = many /\ A = S
      OBVIOUS
    <3>2. /\ a \in Seq(T) /\ b \in Seq(T) /\ A \in SUBSET DOMAIN a
          /\ Len(a) <= Len(b) /\ \A k \in DOMAIN a : b[k] = a[k]
      BY <1>6, <2>1, <2>2, <2>3, <3>1
    <3>3. Kept(b, A) = Kept(a, A)
      BY <3>2, KeptOfLonger
    <3>4. QED BY <3>1, <3>3
  <2>6. QED BY <2>4, <2>5
<1>8. Kept(many, S \cup {n + 1}) = Append(Kept(many, S), many[n + 1])
  <2>1. n \in Nat
    BY <1>1
  <2>2. n + 1 \in 1..(n + 1) /\ \A y \in 1..n : y < n + 1
    BY <2>1
  <2>3. n + 1 \in DOMAIN many /\ \A y \in S : y < n + 1
    BY <1>4, <2>2
  <2>4. QED BY <1>4, <1>7, <2>3, KeptWithNext
<1>9. Kept(few, S) \in Seq(Nat)
  BY <1>4, <1>6, KeptEntries
<1>10. Ids(text, S) = Kept(few, S) /\ Ids(longer, S) = Kept(many, S)
       /\ Ids(longer, S \cup {n + 1}) = Kept(many, S \cup {n + 1})
  BY DEF Ids, few, many
<1>11. QED BY <1>5, <1>7, <1>8, <1>9, <1>10

(* The steps under a header, those of the background and the rows of a table,
   with a line more. *)
LEMMA StepsOfLonger ==
    ASSUME NEW text, NEW longer, NEW l, NEW n, Grows(longer, text, l, n), NEW i
    PROVE  /\ StepsUnder(text, i) \in Seq(Nat)
           /\ StepsUnder(longer, i) =
                  IF l.kind = "step" /\ LastLine(text, HeaderKinds, n) = i
                  THEN Append(StepsUnder(text, i), n + 1) ELSE StepsUnder(text, i)
<1>1. /\ n \in Nat /\ DOMAIN text = 1..n /\ DOMAIN longer = 1..(n + 1)
      /\ longer[n + 1] = l /\ \A k \in 1..n : longer[k] = text[k]
  BY DEF Grows
<1> DEFINE S == {k \in DOMAIN text : IsStepUnder(text, k, i)}
           U == {k \in DOMAIN longer : IsStepUnder(longer, k, i)}
<1>2. S \in SUBSET (1..n)
  BY <1>1
<1>3. ASSUME NEW k \in 1..n PROVE IsStepUnder(longer, k, i) = IsStepUnder(text, k, i)
  <2>1. k \in 0..n
    BY <1>1
  <2>2. LastLine(longer, HeaderKinds, k) = LastLine(text, HeaderKinds, k)
    BY <2>1, LastOfLonger
  <2>3. QED BY <1>1, <2>2 DEF IsStepUnder
<1>4. IsStepUnder(longer, n + 1, i) <=> l.kind = "step" /\ LastLine(text, HeaderKinds, n) = i
  <2>1. ASSUME l.kind = "step"
        PROVE  LastLine(longer, HeaderKinds, n + 1) = LastLine(text, HeaderKinds, n)
    <3>1. l.kind \notin HeaderKinds
      BY <2>1 DEF HeaderKinds, ScenarioKinds
    <3>2. QED BY <3>1, LastOfLonger
  <2>2. QED BY <1>1, <2>1 DEF IsStepUnder
<1>5. U = IF l.kind = "step" /\ LastLine(text, HeaderKinds, n) = i THEN S \cup {n + 1} ELSE S
  <2>1. \A k \in 1..(n + 1) : k \in 1..n \/ k = n + 1
    BY <1>1
  <2>2. n + 1 \in 1..(n + 1) /\ \A k \in 1..n : k \in 1..(n + 1) /\ k # n + 1
    BY <1>1
  <2>3. QED BY <1>1, <1>3, <1>4, <2>1, <2>2
<1>6. StepsUnder(text, i) = Ids(text, S) /\ StepsUnder(longer, i) = Ids(longer, U)
  BY DEF StepsUnder
<1> HIDE DEF S, U
<1>7. /\ Ids(text, S) \in Seq(Nat) /\ Ids(longer, S) = Ids(text, S)
      /\ Ids(longer, S \cup {n + 1}) = Append(Ids(text, S), n + 1)
  BY <1>2, IdsOfLonger
<1>8. QED BY <1>5, <1>6, <1>7

(* With a step line under a background the background has one step more,
   with any other line the same. *)
LEMMA BackgroundOfLonger ==
    ASSUME NEW text, NEW longer, NEW l, NEW n, Grows(longer, text, l, n)
    PROVE  /\ BackgroundSteps(text) \in Seq(Nat)
           /\ BackgroundSteps(longer) =
                  IF l.kind = "step" /\ IsInBackground(text, n)
                  THEN Append(BackgroundSteps(text), n + 1) ELSE BackgroundSteps(text)
<1>1. /\ n \in Nat /\ DOMAIN text = 1..n /\ DOMAIN longer = 1..(n + 1)
      /\ longer[n + 1] = l /\ \A k \in 1..n : longer[k] = text[k]
  BY DEF Grows
<1> DEFINE S == {k \in DOMAIN text : text[k].kind = "step" /\ IsInBackground(text, k)}
           U == {k \in DOMAIN longer : longer[k].kind = "step" /\ IsInBackground(longer, k)}
<1>2. S \in SUBSET (1..n)
  BY <1>1
<1>3. /\ \A k \in 1..n : IsInBackground(longer, k) = IsInBackground(text, k)
      /\ l.kind = "step" => IsInBackground(longer, n + 1) = IsInBackground(text, n)
  <2>1. l.kind = "step" => l.kind \notin HeaderKinds \cup {"feature"}
    BY DEF HeaderKinds, ScenarioKinds
  <2>2. QED BY <2>1, PlaceOfLonger
<1>4. U = IF l.kind = "step" /\ IsInBackground(text, n) THEN S \cup {n + 1} ELSE S
  <2>1. \A k \in 1..(n + 1) : k \in 1..n \/ k = n + 1
    BY <1>1
  <2>2. n + 1 \in 1..(n + 1) /\ \A k \in 1..n : k \in 1..(n + 1) /\ k # n + 1
    BY <1>1
  <2>3. QED BY <1>1, <1>3, <2>1, <2>2
<1>5. BackgroundSteps(text) = Ids(text, S) /\ BackgroundSteps(longer) = Ids(longer, U)
  BY DEF BackgroundSteps
<1> HIDE DEF S, U
<1>6. /\ Ids(text, S) \in Seq(Nat) /\ Ids(longer, S) = Ids(text, S)
      /\ Ids(longer, S \cup {n + 1}) = Append(Ids(text, S), n + 1)
  BY <1>2, IdsOfLonger
<1>7. QED BY <1>4, <1>5, <1>6

(* With a row in a table the scenario of the table has one row more, with
   any other line the same. *)
LEMMA RowsOfLonger ==
    ASSUME NEW text, NEW longer, NEW l, NEW n, Grows(longer, text, l, n), NEW i
    PROVE  /\ RowsUnder(text, i) \in Seq(Nat)
           /\ RowsUnder(longer, i) =
                  IF l.kind = "row" /\ IsInTable(text, n) /\ LastLine(text, HeaderKinds, n) = i
                  THEN Append(RowsUnder(text, i), n + 1) ELSE RowsUnder(text, i)
<1>1. /\ n \in Nat /\ DOMAIN text = 1..n /\ DOMAIN longer = 1..(n + 1)
      /\ longer[n + 1] = l /\ \A k \in 1..n : longer[k] = text[k]
  BY DEF Grows
<1> DEFINE S == {k \in DOMAIN text : /\ text[k].kind = "row" /\ IsInTable(text, k)
                                     /\ LastLine(text, HeaderKinds, k) = i}
           U == {k \in DOMAIN longer : /\ longer[k].kind = "row" /\ IsInTable(longer, k)
                                       /\ LastLine(longer, HeaderKinds, k) = i}
<1>2. S \in SUBSET (1..n)
  BY <1>1
<1>3. /\ \A k \in 1..n : IsInTable(longer, k) = IsInTable(text, k)
      /\ l.kind = "row" => IsInTable(longer, n + 1) = IsInTable(text, n)
  <2>1. l.kind = "row" => l.kind \notin HeaderKinds \cup {"examples", "step"}
    BY DEF HeaderKinds, ScenarioKinds
  <2>2. QED BY <2>1, PlaceOfLonger
<1>4. /\ \A k \in 1..n : LastLine(longer, HeaderKinds, k) = LastLine(text, HeaderKinds, k)
      /\ l.kind = "row" =>
             LastLine(longer, HeaderKinds, n + 1) = LastLine(text, HeaderKinds, n)
  <2>1. l.kind = "row" => l.kind \notin HeaderKinds
    BY DEF HeaderKinds, ScenarioKinds
  <2>2. \A k \in 1..n : k \in 0..n
    BY <1>1
  <2>3. QED BY <2>1, <2>2, LastOfLonger
<1>5. U = IF l.kind = "row" /\ IsInTable(text, n) /\ LastLine(text, HeaderKinds, n) = i
          THEN S \cup {n + 1} ELSE S
  <2>1. \A k \in 1..(n + 1) : k \in 1..n \/ k = n + 1
    BY <1>1
  <2>2. n + 1 \in 1..(n + 1) /\ \A k \in 1..n : k \in 1..(n + 1) /\ k # n + 1
    BY <1>1
  <2>3. QED BY <1>1, <1>3, <1>4, <2>1, <2>2
<1>6. RowsUnder(text, i) = Ids(text, S) /\ RowsUnder(longer, i) = Ids(longer, U)
  BY DEF RowsUnder
<1> HIDE DEF S, U
<1>7. /\ Ids(text, S) \in Seq(Nat) /\ Ids(longer, S) = Ids(text, S)
      /\ Ids(longer, S \cup {n + 1}) = Append(Ids(text, S), n + 1)
  BY <1>2, IdsOfLonger
<1>8. QED BY <1>5, <1>6, <1>7

(* The scenario lines are lines of the text, each in a place of its own. *)
LEMMA StartIs ==
    ASSUME NEW text \in Seq(TextLines), Numbered(text)
    PROVE  /\ Starts(text) \in Seq(TextLines)
           /\ \A k \in DOMAIN Starts(text) :
                  /\ Starts(text)[k].id \in DOMAIN text
                  /\ Starts(text)[k] = text[Starts(text)[k].id]
                  /\ Starts(text)[k].kind \in ScenarioKinds
           /\ \A j, k \in DOMAIN Starts(text) : Starts(text)[j].id = Starts(text)[k].id => j = k
<1>1. PICK S \in SUBSET DOMAIN text : S = ScenarioStarts(text) /\ Starts(text) = Kept(text, S)
  BY DEF Starts, ScenarioStarts
<1>2. PICK starts \in Seq(TextLines), size \in Nat :
          /\ starts = Starts(text) /\ size = Cardinality(S) /\ Len(starts) = size
          /\ DOMAIN starts = 1..size
          /\ \A k \in 1..size : \E i \in S : Place(i, S) = k /\ starts[k] = text[i]
  <2>1. /\ Kept(text, S) \in Seq(TextLines)
        /\ Len(Kept(text, S)) = Cardinality(S) /\ Cardinality(S) \in Nat
        /\ \A k \in 1..Cardinality(S) :
               \E i \in S : Place(i, S) = k /\ Kept(text, S)[k] = text[i]
    BY KeptEntries
  <2>2. DOMAIN Kept(text, S) = 1..Cardinality(S)
    BY <2>1, LenProperties
  <2>3. QED BY <1>1, <2>1, <2>2
<1>3. ASSUME NEW k \in 1..size
      PROVE  /\ starts[k].id \in S /\ starts[k] = text[starts[k].id]
             /\ Place(starts[k].id, S) = k
  <2>1. PICK i \in S : Place(i, S) = k /\ starts[k] = text[i]
    BY <1>2
  <2>2. text[i].id = i
    BY <1>1 DEF Numbered
  <2>3. QED BY <2>1, <2>2
<1>4. \A i \in S : text[i].kind \in ScenarioKinds
  BY <1>1 DEF ScenarioStarts
<1>5. \A j, k \in 1..size : starts[j].id = starts[k].id => j = k
  BY <1>3
<1>6. QED BY <1>2, <1>3, <1>4, <1>5

(* A scenario line more is the last start. *)
LEMMA StartsOfLonger ==
    ASSUME NEW text, NEW longer, NEW l, NEW n, Grows(longer, text, l, n)
    PROVE  /\ l.kind \in ScenarioKinds => Starts(longer) = Append(Starts(text), l)
           /\ l.kind \notin ScenarioKinds => Starts(longer) = Starts(text)
<1>1. /\ n \in Nat /\ DOMAIN text = 1..n /\ DOMAIN longer = 1..(n + 1)
      /\ text \in Seq(TextLines) /\ longer \in Seq(TextLines)
      /\ Len(text) <= Len(longer)
      /\ longer[n + 1] = l /\ \A k \in 1..n : longer[k] = text[k]
  BY DEF Grows
<1>2. PICK S \in SUBSET DOMAIN text : S = ScenarioStarts(text)
  BY DEF ScenarioStarts
<1>3. ScenarioStarts(longer) = IF l.kind \in ScenarioKinds THEN S \cup {n + 1} ELSE S
  <2>1. \A k \in 1..(n + 1) : k \in 1..n \/ k = n + 1
    BY <1>1
  <2>2. n + 1 \in 1..(n + 1) /\ \A k \in 1..n : k \in 1..(n + 1) /\ k # n + 1
    BY <1>1
  <2>3. QED BY <1>1, <1>2, <2>1, <2>2 DEF ScenarioStarts
<1>4. S \in SUBSET DOMAIN longer /\ Kept(longer, S) = Kept(text, S)
  <2>1. PICK a \in Seq(TextLines), b \in Seq(TextLines) : a = text /\ b = longer
    BY <1>1
  <2>2. Len(a) <= Len(b) /\ (\A k \in DOMAIN a : b[k] = a[k]) /\ S \in SUBSET DOMAIN a
    BY <1>1, <2>1
  <2>3. Kept(b, S) = Kept(a, S)
    BY <2>2, KeptOfLonger
  <2>4. S \in SUBSET (1..(n + 1))
    BY <1>1
  <2>5. QED BY <1>1, <2>1, <2>3, <2>4
<1>5. Kept(longer, S \cup {n + 1}) = Append(Kept(longer, S), longer[n + 1])
  <2>1. n + 1 \in 1..(n + 1) /\ \A y \in 1..n : y < n + 1
    BY <1>1
  <2>2. n + 1 \in DOMAIN longer /\ \A y \in S : y < n + 1
    BY <1>1, <2>1
  <2>3. QED BY <1>1, <1>4, <2>2, KeptWithNext
<1>6. QED BY <1>1, <1>2, <1>3, <1>4, <1>5 DEF Starts

(* Tags in a range of lines do not change with the lines beyond it. *)
LEMMA TagsOfRange ==
    ASSUME NEW text, NEW longer, NEW l, NEW n, Grows(longer, text, l, n),
           NEW first \in 1..(n + 1), NEW last \in 0..n
    PROVE  /\ LastTags(longer, first, last) = LastTags(text, first, last)
           /\ l.kind # "tags" => LastTags(longer, first, n + 1) = LastTags(text, first, n)
           /\ l.kind = "tags" => LastTags(longer, first, n + 1) = << n + 1 >>
           /\ LastTags(text, first, last) \in Seq(Nat)
           /\ Len(LastTags(text, first, last)) <= 1
<1>1. n \in Nat /\ longer[n + 1] = l /\ \A k \in 1..n : longer[k] = text[k]
  BY DEF Grows
<1>2. LastTags(longer, first, last) = LastTags(text, first, last)
  <2>1. \A j \in first..last : longer[j] = text[j]
    BY <1>1
  <2>2. {j \in first..last : longer[j].kind = "tags"} = {j \in first..last : text[j].kind = "tags"}
    BY <2>1
  <2>3. QED BY <2>2 DEF LastTags
<1>3. ASSUME l.kind # "tags" PROVE LastTags(longer, first, n + 1) = LastTags(text, first, n)
  <2>1. \A j \in first..n : longer[j] = text[j] /\ j \in first..(n + 1)
    BY <1>1
  <2>2. \A j \in first..(n + 1) : j \in first..n \/ j = n + 1
    BY <1>1
  <2>3. {j \in first..(n + 1) : longer[j].kind = "tags"} = {j \in first..n : text[j].kind = "tags"}
    BY <1>1, <1>3, <2>1, <2>2
  <2>4. QED BY <2>3 DEF LastTags
<1>4. ASSUME l.kind = "tags" PROVE LastTags(longer, first, n + 1) = << n + 1 >>
  <2> DEFINE found == {j \in first..(n + 1) : longer[j].kind = "tags"}
  <2>1. n + 1 \in found /\ \A j \in found : j \in Nat /\ n + 1 >= j
    BY <1>1, <1>4
  <2> HIDE DEF found
  <2>2. \A x \in found : (\A y \in found : x >= y) => x = n + 1
    BY <1>1, <2>1
  <2>3. Max(found) = n + 1
    BY <2>1, <2>2 DEF Max
  <2>4. found # {}
    BY <2>1
  <2>5. QED BY <2>3, <2>4 DEF LastTags, found
<1>5. LastTags(text, first, last) \in Seq(Nat) /\ Len(LastTags(text, first, last)) <= 1
  <2> DEFINE found == {j \in first..last : text[j].kind = "tags"}
  <2>1. found \in SUBSET (first..last)
    OBVIOUS
  <2>2. found \in SUBSET Nat /\ IsFiniteSet(found)
    <3>1. IsFiniteSet(first..last)
      <4>1. first \in Int /\ last \in Int
        BY <1>1
      <4>2. QED BY <4>1, FS_Interval
    <3>2. \A j \in first..last : j \in Nat
      BY <1>1
    <3>3. QED BY <2>1, <3>1, <3>2, FS_Subset
  <2> HIDE DEF found
  <2>3. CASE found = {}
    BY <2>3 DEF LastTags, found
  <2>4. CASE found # {}
    <3>1. PICK x \in found : \A y \in found \ {x} : y < x
      BY <2>2, <2>4, Largest
    <3>2. \A y \in found : x >= y
      BY <2>2, <3>1
    <3>3. Max(found) \in found
      BY <3>2 DEF Max
    <3>4. PICK m \in Nat : m = Max(found)
      BY <2>2, <3>3
    <3>5. LastTags(text, first, last) = << m >>
      BY <2>4, <3>4 DEF LastTags, found
    <3>6. QED BY <3>5
  <2>5. QED BY <2>3, <2>4
<1>6. QED BY <1>2, <1>3, <1>4, <1>5

(* The tags that wait for the next scenario. *)
Pending(text) ==
    LastTags(text, IF Starts(text) = << >> THEN 1 ELSE Starts(text)[Len(Starts(text))].id,
             Len(text))

(* The last tags above a scenario are found when its line comes: they are
   those pending before it, and a line more changes no earlier scenario's
   tags. *)
LEMMA TagsOfLonger ==
    ASSUME NEW text, NEW longer, NEW l, NEW n, Grows(longer, text, l, n)
    PROVE  /\ \A k \in DOMAIN Starts(text) : TagsOf(longer, k) = TagsOf(text, k)
           /\ l.kind \in ScenarioKinds =>
                  /\ TagsOf(longer, Len(Starts(text)) + 1) = Pending(text)
                  /\ Pending(longer) = << >>
           /\ l.kind = "tags" => Pending(longer) = << n + 1 >>
           /\ l.kind \notin ScenarioKinds \cup {"tags"} => Pending(longer) = Pending(text)
           /\ Pending(text) \in Seq(Nat) /\ Len(Pending(text)) <= 1
<1>1. /\ n \in Nat /\ DOMAIN text = 1..n /\ Len(text) = n /\ Len(longer) = n + 1
      /\ text \in Seq(TextLines) /\ Numbered(text) /\ longer[n + 1] = l
      /\ l.id = n + 1 /\ l \in TextLines
  <2>1. /\ longer \in Seq(TextLines) /\ Len(longer) = n + 1 /\ n \in Nat /\ longer[n + 1] = l
    BY DEF Grows
  <2>2. l \in TextLines
    BY <2>1, ElementOfSeq
  <2>3. QED BY <2>2 DEF Grows
<1>2. PICK starts \in Seq(TextLines), m \in Nat :
          /\ starts = Starts(text) /\ m = Len(starts) /\ DOMAIN starts = 1..m
          /\ \A k \in 1..m : starts[k].id \in 1..n
  <2>1. /\ Starts(text) \in Seq(TextLines)
        /\ \A k \in DOMAIN Starts(text) : Starts(text)[k].id \in 1..n
    BY <1>1, StartIs
  <2>2. QED BY <2>1, LenProperties
<1>3. PICK more \in Seq(TextLines) :
          /\ more = Starts(longer) /\ \A k \in 1..m : more[k] = starts[k]
          /\ l.kind \in ScenarioKinds => Len(more) = m + 1 /\ more[m + 1] = l
          /\ l.kind \notin ScenarioKinds => more = starts
  <2>1. CASE l.kind \in ScenarioKinds
    <3>1. Starts(longer) = Append(starts, l)
      BY <1>2, <2>1, StartsOfLonger
    <3>2. /\ Append(starts, l) \in Seq(TextLines) /\ Len(Append(starts, l)) = m + 1
          /\ Append(starts, l)[m + 1] = l /\ \A k \in 1..m : Append(starts, l)[k] = starts[k]
      BY <1>1, <1>2, AppendProperties
    <3>3. QED BY <2>1, <3>1, <3>2
  <2>2. CASE l.kind \notin ScenarioKinds
    BY <1>2, <2>2, StartsOfLonger
  <2>3. QED BY <2>1, <2>2
<1>4. ASSUME NEW k \in 1..m PROVE TagsOf(longer, k) = TagsOf(text, k)
  <2>1. PICK first \in 1..(n + 1) :
            /\ first = IF k = 1 THEN 1 ELSE starts[k - 1].id
            /\ first = IF k = 1 THEN 1 ELSE more[k - 1].id
    <3>1. CASE k = 1
      BY <1>1, <3>1
    <3>2. CASE k # 1
      <4>1. k - 1 \in 1..m
        BY <1>2, <3>2
      <4>2. starts[k - 1].id \in 1..(n + 1) /\ more[k - 1] = starts[k - 1]
        BY <1>1, <1>2, <1>3, <4>1
      <4>3. QED BY <3>2, <4>2
    <3>3. QED BY <3>1, <3>2
  <2>2. PICK last \in 0..n : last = starts[k].id /\ last = more[k].id
    BY <1>1, <1>2, <1>3
  <2>3. TagsOf(text, k) = LastTags(text, first, last) /\ TagsOf(longer, k) = LastTags(longer, first, last)
    BY <1>2, <1>3, <2>1, <2>2 DEF TagsOf
  <2>4. QED BY <2>3, TagsOfRange
<1>5. PICK first \in 1..(n + 1) :
          first = IF starts = << >> THEN 1 ELSE starts[m].id
  <2>1. CASE starts = << >>
    BY <1>1, <2>1
  <2>2. CASE starts # << >>
    <3>1. m \in 1..m
      BY <1>2, <2>2, EmptySeq
    <3>2. starts[m].id \in 1..(n + 1)
      BY <1>1, <1>2, <3>1
    <3>3. QED BY <2>2, <3>2
  <2>3. QED BY <2>1, <2>2
<1>6. Pending(text) = LastTags(text, first, n)
  BY <1>1, <1>2, <1>5 DEF Pending
<1>7. n \in 0..n
  BY <1>1
<1>8. ASSUME l.kind \notin ScenarioKinds
      PROVE  Pending(longer) = LastTags(longer, first, n + 1)
  BY <1>1, <1>2, <1>3, <1>5, <1>8 DEF Pending
<1>9. ASSUME l.kind \in ScenarioKinds
      PROVE  /\ TagsOf(longer, m + 1) = LastTags(text, first, n)
             /\ Pending(longer) = << >>
  <2>1. l.kind # "tags"
    BY <1>9 DEF ScenarioKinds
  <2>2. first = IF m + 1 = 1 THEN 1 ELSE more[m + 1 - 1].id
    <3>1. starts = << >> <=> m = 0
      BY <1>2, EmptySeq
    <3>2. CASE m = 0
      BY <1>5, <3>1, <3>2
    <3>3. CASE m # 0
      <4>1. m \in 1..m /\ m + 1 # 1 /\ m + 1 - 1 = m
        BY <1>2, <3>3
      <4>2. QED BY <1>3, <1>5, <3>1, <3>3, <4>1
    <3>4. QED BY <3>2, <3>3
  <2>3. TagsOf(longer, m + 1) = LastTags(longer, first, n + 1)
    BY <1>1, <1>3, <1>9, <2>2 DEF TagsOf
  <2>4. LastTags(longer, first, n + 1) = LastTags(text, first, n)
    BY <1>7, <2>1, TagsOfRange
  <2>5. Pending(longer) = LastTags(longer, n + 1, n + 1)
    <3>1. more # << >>
      BY <1>2, <1>3, <1>9, EmptySeq
    <3>2. QED BY <1>1, <1>3, <1>9, <3>1 DEF Pending
  <2>6. {j \in (n + 1)..(n + 1) : longer[j].kind = "tags"} = {}
    <3>1. \A j \in (n + 1)..(n + 1) : j = n + 1
      BY <1>1
    <3>2. QED BY <1>1, <2>1, <3>1
  <2>7. QED BY <2>3, <2>4, <2>5, <2>6 DEF LastTags
<1>10. l.kind = "tags" => l.kind \notin ScenarioKinds
  BY DEF ScenarioKinds
<1>11. /\ l.kind # "tags" => LastTags(longer, first, n + 1) = LastTags(text, first, n)
       /\ l.kind = "tags" => LastTags(longer, first, n + 1) = << n + 1 >>
       /\ LastTags(text, first, n) \in Seq(Nat) /\ Len(LastTags(text, first, n)) <= 1
  BY <1>7, TagsOfRange
<1>12. QED BY <1>2, <1>4, <1>6, <1>8, <1>9, <1>10, <1>11

(* A scenario stays as written, unless the line more is a step under it. *)
LEMMA WrittenOfLonger ==
    ASSUME NEW text, NEW longer, NEW l, NEW n, Grows(longer, text, l, n),
           NEW s, NEW k \in DOMAIN Starts(text), IsAsWritten(text, s, k),
           ~(l.kind = "step" /\ LastLine(text, HeaderKinds, n) = s.title)
    PROVE  IsAsWritten(longer, s, k)
<1>1. StepsUnder(longer, s.title) = StepsUnder(text, s.title)
  BY StepsOfLonger
<1>2. TagsOf(longer, k) = TagsOf(text, k)
  BY TagsOfLonger
<1>3. Starts(longer)[k] = Starts(text)[k]
  <2>1. PICK starts \in Seq(TextLines), m \in Nat :
            /\ starts = Starts(text) /\ m = Len(starts) /\ k \in 1..m /\ l \in TextLines
    <3>1. text \in Seq(TextLines) /\ Numbered(text)
      BY DEF Grows
    <3>2. l \in TextLines
      <4>1. longer \in Seq(TextLines) /\ Len(longer) = n + 1 /\ n \in Nat /\ longer[n + 1] = l
        BY DEF Grows
      <4>2. QED BY <4>1, ElementOfSeq
    <3>3. QED BY <3>1, <3>2, StartIs, LenProperties
  <2>2. Append(starts, l)[k] = starts[k]
    BY <2>1, AppendProperties
  <2>3. QED BY <2>1, <2>2, StartsOfLonger
<1>4. QED BY <1>1, <1>2, <1>3 DEF IsAsWritten

-----------------------------------------------------------------------------
(* The parser's variables, by their types. *)
Scenarios ==
    [title : Nat, tags : Seq(Nat), steps : Seq(Nat), isOutline : BOOLEAN, examples : Seq(Nat)]
Parsers ==
    [title : Nat, description : Seq(Nat), background : Seq(Nat), scenarios : Seq(Scenarios),
     pendingTags : Seq(Nat), current : Seq(Scenarios), table : Seq(Nat),
     inBackground : BOOLEAN, inFeatureDesc : BOOLEAN, inExamples : BOOLEAN]

(* What the variables say of the text: which scenario is open, what was read of
   each, and, if every table stands in a scenario, whose rows "table" has. *)
Header(text) == LastLine(text, HeaderKinds, Len(text))
IsOpen(text) == Header(text) # 0 /\ text[Header(text)].kind \in ScenarioKinds

OpenAsWritten(text, p) ==
    /\ Len(p.current) <= 1 /\ (p.current # << >> <=> IsOpen(text))
    /\ Len(Starts(text)) = Len(p.scenarios) + Len(p.current)
    /\ p.current # << >> =>
          p.current[1].title = Header(text) /\ IsAsWritten(text, p.current[1], Len(Starts(text)))

TablesAsWritten(text, p) ==
    /\ p.inExamples = IsInTable(text, Len(text))
    /\ p.current = << >> => p.table = << >>
    /\ p.current # << >> => p.table = RowsUnder(text, Header(text))
    /\ \A k \in DOMAIN p.scenarios : p.scenarios[k].examples = RowsUnder(text, p.scenarios[k].title)

ScenariosAre(text, p) ==
    /\ p \in Parsers
    /\ p.pendingTags = Pending(text) /\ p.background = BackgroundSteps(text)
    /\ OpenAsWritten(text, p)
    /\ \A k \in DOMAIN p.scenarios : IsAsWritten(text, p.scenarios[k], k)
    /\ ExamplesInScenarios(text) => TablesAsWritten(text, p)

DocumentIs(text, p) ==
    ScenariosAre(text, p) /\ p.inBackground = IsInBackground(text, Len(text))

(* A list of at most one entry. *)
LEMMA AtMostOne ==
    ASSUME NEW T, NEW s \in Seq(T), Len(s) <= 1
    PROVE  /\ s = << >> => Len(s) = 0
           /\ s # << >> => Len(s) = 1 /\ DOMAIN s = {1} /\ s[1] \in T
<1>1. PICK n \in Nat : n = Len(s) /\ DOMAIN s = 1..n
  BY LenProperties
<1>2. s # << >> => n = 1
  BY <1>1, EmptySeq
<1>3. s = << >> => n = 0
  BY <1>1
<1>4. ASSUME n = 1 PROVE DOMAIN s = {1} /\ s[1] \in T
  <2>1. 1 \in 1..Len(s)
    BY <1>1, <1>4
  <2>2. s[1] \in T
    BY <2>1, ElementOfSeq
  <2>3. QED BY <1>1, <1>4, <2>2
<1>5. QED BY <1>1, <1>2, <1>3, <1>4

(* A scenario with its table. *)
LEMMA WithExamples ==
    ASSUME NEW s \in Scenarios, NEW rows \in Seq(Nat)
    PROVE  /\ [s EXCEPT !.examples = rows] \in Scenarios
           /\ [s EXCEPT !.examples = rows].examples = rows
           /\ [s EXCEPT !.examples = rows].title = s.title
           /\ [s EXCEPT !.examples = rows].tags = s.tags
           /\ [s EXCEPT !.examples = rows].steps = s.steps
           /\ [s EXCEPT !.examples = rows].isOutline = s.isOutline
BY DEF Scenarios

(* closeScenario, by what it leaves. *)
LEMMA CloseIs ==
    ASSUME NEW p \in Parsers, Len(p.current) <= 1, NEW c, c = closeScenario(p)
    PROVE  /\ c \in Parsers /\ c.current = << >> /\ c.title = p.title
           /\ c.background = p.background /\ c.pendingTags = p.pendingTags
           /\ c.inBackground = p.inBackground
           /\ p.current = << >> => c = p
           /\ p.current # << >> =>
                  /\ c.scenarios = Append(p.scenarios, [p.current[1] EXCEPT !.examples = p.table])
                  /\ c.table = << >> /\ c.inExamples = FALSE /\ p.current[1] \in Scenarios
<1>1. p.current \in Seq(Scenarios) /\ p.scenarios \in Seq(Scenarios) /\ p.table \in Seq(Nat)
  BY DEF Parsers
<1>2. CASE p.current = << >>
  BY <1>2 DEF closeScenario
<1>3. CASE p.current # << >>
  <2>1. p.current[1] \in Scenarios
    BY <1>1, <1>3, AtMostOne
  <2>2. PICK x \in Scenarios : x = [p.current[1] EXCEPT !.examples = p.table]
    BY <1>1, <2>1, WithExamples
  <2>3. PICK more \in Seq(Scenarios) : more = Append(p.scenarios, x)
    BY <1>1, <2>2, AppendProperties
  <2>4. c = [p EXCEPT !.scenarios = more, !.current = << >>, !.inExamples = FALSE, !.table = << >>]
    BY <1>3, <2>2, <2>3 DEF closeScenario
  <2>5. << >> \in Seq(Scenarios) /\ << >> \in Seq(Nat) /\ FALSE \in BOOLEAN
    OBVIOUS
  <2>6. /\ c \in Parsers /\ c.current = << >> /\ c.title = p.title
        /\ c.background = p.background /\ c.pendingTags = p.pendingTags
        /\ c.inBackground = p.inBackground
        /\ c.scenarios = more /\ c.table = << >> /\ c.inExamples = FALSE
    BY <2>4, <2>5 DEF Parsers
  <2>7. QED BY <1>3, <2>1, <2>2, <2>3, <2>6
<1>4. QED BY <1>2, <1>3

(* A row of a table has a header, and the header is a scenario. *)
LEMMA TableNeedsOpen ==
    ASSUME NEW text \in Seq(TextLines), ExamplesInScenarios(text), IsInTable(text, Len(text))
    PROVE  IsOpen(text)
<1>1. PICK n \in Nat : n = Len(text) /\ DOMAIN text = 1..n
  BY LenProperties
<1> DEFINE kinds == HeaderKinds \cup {"examples", "step"}
<1>2. PICK j \in 0..n :
          /\ j = LastLine(text, kinds, n) /\ j # 0 /\ text[j].kind = "examples"
          /\ \A k \in 1..n : text[k].kind \in kinds => k <= j
  BY <1>1, LastIs DEF IsInTable
<1>3. PICK h \in 0..n :
          /\ h = LastLine(text, HeaderKinds, n) /\ (h # 0 => text[h].kind \in HeaderKinds)
          /\ \A k \in 1..n : text[k].kind \in HeaderKinds => k <= h
  BY <1>1, LastIs
<1>4. PICK i \in 0..j :
          /\ i = LastLine(text, HeaderKinds, j) /\ i # 0 /\ text[i].kind \in ScenarioKinds
          /\ \A k \in 1..j : text[k].kind \in HeaderKinds => k <= i
  <2>1. j \in Nat /\ j \in DOMAIN text
    BY <1>1, <1>2
  <2>2. QED BY <1>2, <2>1, LastIs DEF ExamplesInScenarios
<1>5. h <= j
  <2>1. h # 0 => text[h].kind \in kinds /\ h \in 1..n
    BY <1>3
  <2> HIDE DEF kinds
  <2>2. CASE h = 0
    BY <1>2, <2>2
  <2>3. CASE h # 0
    BY <1>2, <2>1, <2>3
  <2>4. QED BY <2>2, <2>3
<1>6. i <= h
  <2>1. i \in 1..n /\ text[i].kind \in HeaderKinds
    BY <1>2, <1>4 DEF HeaderKinds
  <2>2. QED BY <1>3, <2>1
<1>7. h <= i
  <2>1. h # 0 /\ h \in 1..j
    BY <1>4, <1>5, <1>6
  <2>2. QED BY <1>3, <1>4, <2>1
<1>8. h = i
  BY <1>6, <1>7
<1>9. QED BY <1>1, <1>3, <1>4, <1>8 DEF IsOpen, Header

(* In a background no scenario is open. *)
LEMMA BackgroundIsNotOpen ==
    ASSUME NEW text \in Seq(TextLines), IsInBackground(text, Len(text))
    PROVE  ~IsOpen(text)
<1>1. PICK n \in Nat : n = Len(text) /\ DOMAIN text = 1..n
  BY LenProperties
<1> DEFINE kinds == HeaderKinds \cup {"feature"}
<1>2. PICK b \in 0..n :
          /\ b = LastLine(text, kinds, n) /\ b # 0 /\ text[b].kind = "background"
          /\ \A k \in 1..n : text[k].kind \in kinds => k <= b
  BY <1>1, LastIs DEF IsInBackground
<1>3. PICK h \in 0..n :
          /\ h = LastLine(text, HeaderKinds, n) /\ (h # 0 => text[h].kind \in HeaderKinds)
          /\ \A k \in 1..n : text[k].kind \in HeaderKinds => k <= h
  BY <1>1, LastIs
<1>4. b <= h
  <2>1. b \in 1..n /\ text[b].kind \in HeaderKinds
    BY <1>2 DEF HeaderKinds
  <2>2. QED BY <1>3, <2>1
<1>5. h <= b
  <2>1. h # 0 => text[h].kind \in kinds /\ h \in 1..n
    BY <1>3
  <2> HIDE DEF kinds
  <2>2. CASE h = 0
    BY <1>2, <2>2
  <2>3. CASE h # 0
    BY <1>2, <2>1, <2>3
  <2>4. QED BY <2>2, <2>3
<1>6. h = b
  BY <1>4, <1>5
<1>7. "background" \notin ScenarioKinds
  BY DEF ScenarioKinds
<1>8. QED BY <1>1, <1>2, <1>3, <1>6, <1>7 DEF IsOpen, Header

(* The scenarios closed are others than the one that lines go to. *)
LEMMA ClosedAreOthers ==
    ASSUME NEW text \in Seq(TextLines), Numbered(text), NEW p, ScenariosAre(text, p),
           NEW k \in DOMAIN p.scenarios
    PROVE  /\ p.scenarios[k].title # Header(text)
           /\ k \in DOMAIN Starts(text)
<1>1. p.scenarios \in Seq(Scenarios) /\ p.current \in Seq(Scenarios)
  BY DEF ScenariosAre, Parsers
<1>2. PICK m \in Nat, a \in Nat : m = Len(p.scenarios) /\ a = Len(p.current) /\ k \in 1..m
  BY <1>1, LenProperties
<1>3. PICK starts \in Seq(TextLines) : starts = Starts(text)
  BY StartIs
<1>4. DOMAIN starts = 1..(m + a) /\ Len(starts) = m + a
  BY <1>2, <1>3, LenProperties DEF ScenariosAre, OpenAsWritten
<1>5. k \in DOMAIN Starts(text) /\ p.scenarios[k].title = starts[k].id
  <2>1. IsAsWritten(text, p.scenarios[k], k)
    BY DEF ScenariosAre
  <2>2. k \in 1..(m + a)
    <3>1. \A i \in 1..m : i \in 1..(m + a)
      OBVIOUS
    <3>2. QED BY <1>2, <3>1
  <2>3. QED BY <1>3, <1>4, <2>1, <2>2 DEF IsAsWritten
<1>6. /\ starts[k] = text[starts[k].id] /\ starts[k].kind \in ScenarioKinds
      /\ starts[k].id \in DOMAIN text
  BY <1>3, <1>5, StartIs
<1>7. CASE IsOpen(text)
  <2>1. p.current # << >> /\ a = 1
    BY <1>1, <1>2, <1>7, AtMostOne DEF ScenariosAre, OpenAsWritten
  <2>2. Header(text) = starts[m + 1].id
    BY <1>2, <1>3, <1>4, <2>1 DEF ScenariosAre, OpenAsWritten, IsAsWritten
  <2>3. k # m + 1 /\ m + 1 \in DOMAIN starts
    BY <1>2, <1>4, <2>1
  <2>4. starts[k].id # starts[m + 1].id
    BY <1>3, <1>5, <2>3, StartIs
  <2>5. QED BY <1>5, <2>2, <2>4
<1>8. CASE ~IsOpen(text)
  <2>1. starts[k].id # 0
    <3>1. PICK n \in Nat : DOMAIN text = 1..n
      BY LenProperties
    <3>2. QED BY <1>6, <3>1
  <2>2. text[starts[k].id].kind \in ScenarioKinds
    BY <1>6
  <2>3. QED BY <1>5, <1>8, <2>1, <2>2 DEF IsOpen
<1>9. QED BY <1>5, <1>7, <1>8

(* What has been read once the open scenario is closed. *)
ClosedAre(text, c) ==
    /\ c \in Parsers /\ c.current = << >>
    /\ c.pendingTags = Pending(text) /\ c.background = BackgroundSteps(text)
    /\ Len(c.scenarios) = Len(Starts(text))
    /\ \A k \in DOMAIN c.scenarios : IsAsWritten(text, c.scenarios[k], k)
    /\ ExamplesInScenarios(text) =>
          /\ c.table = << >> /\ c.inExamples = FALSE
          /\ \A k \in DOMAIN c.scenarios : c.scenarios[k].examples = RowsUnder(text, c.scenarios[k].title)

(* Closing the open scenario gives the list of all the scenarios of the
   text. *)
LEMMA Closing ==
    ASSUME NEW text \in Seq(TextLines), NEW p, ScenariosAre(text, p),
           NEW c, c = closeScenario(p)
    PROVE  ClosedAre(text, c)
<1>1. p \in Parsers /\ Len(p.current) <= 1
  BY DEF ScenariosAre, OpenAsWritten
<1>2. p.scenarios \in Seq(Scenarios) /\ p.current \in Seq(Scenarios) /\ p.table \in Seq(Nat)
  BY <1>1 DEF Parsers
<1>3. /\ c \in Parsers /\ c.current = << >>
      /\ c.background = p.background /\ c.pendingTags = p.pendingTags
      /\ p.current = << >> => c = p
      /\ p.current # << >> =>
             /\ c.scenarios = Append(p.scenarios, [p.current[1] EXCEPT !.examples = p.table])
             /\ c.table = << >> /\ c.inExamples = FALSE /\ p.current[1] \in Scenarios
  BY <1>1, CloseIs
<1>4. PICK m \in Nat : m = Len(p.scenarios) /\ DOMAIN p.scenarios = 1..m
  BY <1>2, LenProperties
<1>5. CASE p.current = << >>
  <2>1. Len(p.scenarios) = Len(Starts(text)) /\ ~IsOpen(text)
    BY <1>4, <1>5 DEF ScenariosAre, OpenAsWritten
  <2>2. ExamplesInScenarios(text) => p.table = << >> /\ p.inExamples = FALSE
    <3>1. ASSUME ExamplesInScenarios(text) PROVE ~IsInTable(text, Len(text))
      BY <2>1, <3>1, TableNeedsOpen
    <3>2. QED BY <1>1, <1>5, <3>1 DEF ScenariosAre, TablesAsWritten, Parsers
  <2>3. QED BY <1>3, <1>5, <2>1, <2>2 DEF ScenariosAre, ClosedAre, TablesAsWritten
<1>6. CASE p.current # << >>
  <2>1. PICK s \in Scenarios : s = p.current[1]
    BY <1>3, <1>6
  <2>2. PICK x \in Scenarios :
            /\ x = [p.current[1] EXCEPT !.examples = p.table]
            /\ x.examples = p.table /\ x.title = s.title /\ x.tags = s.tags
            /\ x.steps = s.steps /\ x.isOutline = s.isOutline
    <3>1. PICK rows \in Seq(Nat) : rows = p.table
      BY <1>2
    <3>2. PICK x : x = [s EXCEPT !.examples = rows]
      OBVIOUS
    <3>3. /\ x \in Scenarios /\ x.examples = rows /\ x.title = s.title /\ x.tags = s.tags
          /\ x.steps = s.steps /\ x.isOutline = s.isOutline
      BY <3>2, WithExamples
    <3>4. QED BY <2>1, <3>1, <3>2, <3>3
  <2>3. Len(p.current) = 1
    BY <1>1, <1>2, <1>6, AtMostOne
  <2>4. Len(Starts(text)) = m + 1
    BY <1>4, <2>3 DEF ScenariosAre, OpenAsWritten
  <2>5. PICK more \in Seq(Scenarios) :
            /\ more = c.scenarios /\ Len(more) = m + 1 /\ DOMAIN more = 1..(m + 1)
            /\ more[m + 1] = x /\ \A k \in 1..m : more[k] = p.scenarios[k]
    <3>1. c.scenarios = Append(p.scenarios, x)
      BY <1>3, <1>6, <2>2
    <3>2. /\ Append(p.scenarios, x) \in Seq(Scenarios) /\ Len(Append(p.scenarios, x)) = m + 1
          /\ Append(p.scenarios, x)[m + 1] = x
          /\ \A k \in 1..m : Append(p.scenarios, x)[k] = p.scenarios[k]
      BY <1>2, <1>4, <2>2, AppendProperties
    <3>3. DOMAIN Append(p.scenarios, x) = 1..(m + 1)
      BY <3>2, LenProperties
    <3>4. QED BY <3>1, <3>2, <3>3
  <2>6. IsAsWritten(text, x, m + 1) /\ x.title = Header(text)
    <3>1. IsAsWritten(text, s, m + 1) /\ s.title = Header(text)
      BY <1>6, <2>1, <2>4 DEF ScenariosAre, OpenAsWritten
    <3>2. QED BY <2>2, <3>1 DEF IsAsWritten
  <2>7. \A k \in 1..(m + 1) : k \in 1..m \/ k = m + 1
    BY <1>4
  <2>8. \A k \in 1..(m + 1) : IsAsWritten(text, more[k], k)
    <3>1. \A k \in 1..m : IsAsWritten(text, p.scenarios[k], k)
      BY <1>4 DEF ScenariosAre
    <3>2. QED BY <2>5, <2>6, <2>7, <3>1
  <2>9. ASSUME ExamplesInScenarios(text), NEW k \in 1..(m + 1)
        PROVE  more[k].examples = RowsUnder(text, more[k].title)
    <3>1. CASE k = m + 1
      BY <1>6, <2>2, <2>5, <2>6, <2>9, <3>1 DEF ScenariosAre, TablesAsWritten
    <3>2. CASE k \in 1..m
      BY <1>4, <2>5, <2>9, <3>2 DEF ScenariosAre, TablesAsWritten
    <3>3. QED BY <2>7, <3>1, <3>2
  <2>10. c.pendingTags = Pending(text) /\ c.background = BackgroundSteps(text)
    BY <1>3 DEF ScenariosAre
  <2>11. QED BY <1>3, <1>6, <2>4, <2>5, <2>8, <2>9, <2>10 DEF ClosedAre
<1>7. QED BY <1>5, <1>6

-----------------------------------------------------------------------------
(* A header line opens what comes after it; another line changes no header. *)
LEMMA HeaderOfLonger ==
    ASSUME NEW text, NEW longer, NEW l, NEW n, Grows(longer, text, l, n)
    PROVE  /\ Header(text) \in 0..n /\ n \in Nat
           /\ l.kind \in HeaderKinds =>
                  Header(longer) = n + 1 /\ (IsOpen(longer) <=> l.kind \in ScenarioKinds)
           /\ l.kind \notin HeaderKinds =>
                  Header(longer) = Header(text) /\ (IsOpen(longer) <=> IsOpen(text))
<1>1. /\ n \in Nat /\ Len(text) = n /\ Len(longer) = n + 1
      /\ longer[n + 1] = l /\ \A k \in 1..n : longer[k] = text[k]
  BY DEF Grows
<1>2. PICK h \in 0..n : h = LastLine(text, HeaderKinds, n) /\ h = Header(text)
  BY <1>1, LastIs DEF Header
<1>3. l.kind \in HeaderKinds => Header(longer) = n + 1
  BY <1>1, LastOfLonger DEF Header
<1>4. l.kind \notin HeaderKinds => Header(longer) = h
  BY <1>1, <1>2, LastOfLonger DEF Header
<1>5. h # 0 => longer[h] = text[h]
  BY <1>1
<1>6. n + 1 # 0
  BY <1>1
<1>7. QED BY <1>1, <1>2, <1>3, <1>4, <1>5, <1>6 DEF IsOpen

(* If every table of the longer text stands in a scenario, so did those of the
   shorter, and a new one does. *)
LEMMA ExamplesOfLonger ==
    ASSUME NEW text, NEW longer, NEW l, NEW n, Grows(longer, text, l, n),
           ExamplesInScenarios(longer)
    PROVE  ExamplesInScenarios(text) /\ (l.kind = "examples" => IsOpen(text))
<1>1. /\ n \in Nat /\ Len(text) = n /\ DOMAIN text = 1..n /\ DOMAIN longer = 1..(n + 1)
      /\ longer[n + 1] = l /\ \A k \in 1..n : longer[k] = text[k]
  BY DEF Grows
<1>2. ASSUME NEW i \in 1..n, text[i].kind = "examples"
      PROVE  LET h == LastLine(text, HeaderKinds, i)
             IN  h # 0 /\ text[h].kind \in ScenarioKinds
  <2>1. i \in 0..n /\ i \in 1..(n + 1) /\ i \in Nat
    BY <1>1
  <2>2. LastLine(longer, HeaderKinds, i) = LastLine(text, HeaderKinds, i)
    BY <2>1, LastOfLonger
  <2>3. PICK h \in 0..i : h = LastLine(text, HeaderKinds, i)
    BY <2>1, LastIs
  <2>4. h # 0 /\ longer[h].kind \in ScenarioKinds
    BY <1>1, <1>2, <2>1, <2>2, <2>3 DEF ExamplesInScenarios
  <2>5. longer[h] = text[h]
    BY <1>1, <2>1, <2>3, <2>4
  <2>6. QED BY <2>3, <2>4, <2>5
<1>3. ASSUME l.kind = "examples" PROVE IsOpen(text)
  <2>1. l.kind \notin HeaderKinds
    BY <1>3 DEF HeaderKinds, ScenarioKinds
  <2>2. LastLine(longer, HeaderKinds, n + 1) = Header(text)
    BY <1>1, <2>1, LastOfLonger DEF Header
  <2>3. n + 1 \in DOMAIN longer
    BY <1>1
  <2>4. Header(text) # 0 /\ longer[Header(text)].kind \in ScenarioKinds
    BY <1>1, <1>3, <2>2, <2>3 DEF ExamplesInScenarios
  <2>5. Header(text) \in 0..n
    BY HeaderOfLonger
  <2>6. longer[Header(text)] = text[Header(text)]
    BY <1>1, <2>4, <2>5
  <2>7. QED BY <2>4, <2>6 DEF IsOpen
<1>4. QED BY <1>1, <1>2, <1>3 DEF ExamplesInScenarios

(* Under a header not read yet there is nothing. *)
LEMMA EmptyUnder ==
    ASSUME NEW text, NEW longer, NEW l, NEW n, Grows(longer, text, l, n)
    PROVE  StepsUnder(text, n + 1) = << >> /\ RowsUnder(text, n + 1) = << >>
<1>1. n \in Nat /\ Len(text) = n /\ DOMAIN text = 1..n
  BY DEF Grows
<1>2. Ids(text, {}) = << >>
  <2>1. {} \in SUBSET (1..n) /\ Ids(text, {}) \in Seq(Nat)
    BY IdsOfLonger
  <2>2. DOMAIN Ids(text, {}) = 1..0
    BY FS_EmptySet DEF Ids, Kept
  <2>3. Len(Ids(text, {})) = 0
    BY <2>1, <2>2, LenProperties
  <2>4. QED BY <2>1, <2>3, EmptySeq
<1>3. ASSUME NEW k \in 1..n PROVE LastLine(text, HeaderKinds, k) # n + 1
  <2>1. LastLine(text, HeaderKinds, k) \in 0..k
    BY <1>1, LastIs
  <2>2. QED BY <1>1, <2>1
<1>4. {k \in DOMAIN text : IsStepUnder(text, k, n + 1)} = {}
  BY <1>1, <1>3 DEF IsStepUnder
<1>5. {k \in DOMAIN text : /\ text[k].kind = "row" /\ IsInTable(text, k)
                           /\ LastLine(text, HeaderKinds, k) = n + 1} = {}
  BY <1>1, <1>3
<1>6. QED BY <1>2, <1>4, <1>5 DEF StepsUnder, RowsUnder

(* A line that is no header: the closed scenarios stay, the open one and the
   rest are what the line makes of them. *)
LEMMA StaysOpen ==
    ASSUME NEW text, NEW longer, NEW l, NEW n, Grows(longer, text, l, n),
           l.kind \notin HeaderKinds,
           NEW p, ScenariosAre(text, p),
           NEW q \in Parsers, q.scenarios = p.scenarios,
           q.pendingTags = Pending(longer), q.background = BackgroundSteps(longer),
           q.current = << >> <=> p.current = << >>, Len(q.current) = Len(p.current),
           p.current # << >> =>
               /\ q.current[1].title = p.current[1].title
               /\ q.current[1].isOutline = p.current[1].isOutline
               /\ q.current[1].tags = p.current[1].tags
               /\ q.current[1].steps = StepsUnder(longer, Header(text)),
           ExamplesInScenarios(longer) =>
               /\ q.inExamples = IsInTable(longer, n + 1)
               /\ p.current = << >> => q.table = << >>
               /\ p.current # << >> => q.table = RowsUnder(longer, Header(text))
    PROVE  ScenariosAre(longer, q)
<1>1. /\ text \in Seq(TextLines) /\ Numbered(text) /\ Len(text) = n /\ Len(longer) = n + 1
      /\ n \in Nat
  BY DEF Grows
<1>2. l.kind \notin ScenarioKinds
  BY DEF HeaderKinds
<1>3. Header(longer) = Header(text) /\ (IsOpen(longer) <=> IsOpen(text))
  BY HeaderOfLonger
<1>4. Starts(longer) = Starts(text)
  BY <1>2, StartsOfLonger
<1>5. ASSUME NEW k \in DOMAIN q.scenarios
      PROVE  /\ IsAsWritten(longer, q.scenarios[k], k)
             /\ ExamplesInScenarios(longer) =>
                    q.scenarios[k].examples = RowsUnder(longer, q.scenarios[k].title)
  <2>1. k \in DOMAIN p.scenarios
    BY <1>5
  <2>2. p.scenarios[k].title # Header(text) /\ k \in DOMAIN Starts(text)
    BY <1>1, <2>1, ClosedAreOthers
  <2>3. IsAsWritten(text, p.scenarios[k], k)
    BY <2>1 DEF ScenariosAre
  <2>4. LastLine(text, HeaderKinds, n) # p.scenarios[k].title
    BY <1>1, <2>2 DEF Header
  <2>5. IsAsWritten(longer, p.scenarios[k], k)
    BY <2>2, <2>3, <2>4, WrittenOfLonger
  <2>6. RowsUnder(longer, p.scenarios[k].title) = RowsUnder(text, p.scenarios[k].title)
    BY <2>4, RowsOfLonger
  <2>7. ExamplesInScenarios(longer) =>
            p.scenarios[k].examples = RowsUnder(text, p.scenarios[k].title)
    BY <2>1, ExamplesOfLonger DEF ScenariosAre, TablesAsWritten
  <2>8. QED BY <2>5, <2>6, <2>7
<1>6. ASSUME q.current # << >>
      PROVE  /\ q.current[1].title = Header(longer)
             /\ IsAsWritten(longer, q.current[1], Len(Starts(longer)))
  <2>1. p.current # << >>
    BY <1>6
  <2>2. PICK k : k = Len(Starts(text))
    OBVIOUS
  <2>3. p.current[1].title = Header(text) /\ IsAsWritten(text, p.current[1], k)
    BY <2>1, <2>2 DEF ScenariosAre, OpenAsWritten
  <2>4. k \in DOMAIN Starts(text)
    <3>1. PICK starts \in Seq(TextLines), m \in Nat :
              starts = Starts(text) /\ m = Len(starts) /\ DOMAIN starts = 1..m
      BY <1>1, StartIs, LenProperties
    <3>2. p.scenarios \in Seq(Scenarios) /\ p.current \in Seq(Scenarios) /\ Len(p.current) <= 1
      BY DEF ScenariosAre, OpenAsWritten, Parsers
    <3>3. Len(p.current) = 1 /\ Len(p.scenarios) \in Nat
      BY <2>1, <3>2, AtMostOne, LenProperties
    <3>4. m = Len(p.scenarios) + 1
      BY <3>1, <3>3 DEF ScenariosAre, OpenAsWritten
    <3>5. m \in 1..m
      BY <3>3, <3>4
    <3>6. QED BY <2>2, <3>1, <3>5
  <2>5. TagsOf(longer, k) = TagsOf(text, k)
    BY <2>4, TagsOfLonger
  <2>6. q.current[1].title = Header(text)
    BY <2>1, <2>3
  <2>7. IsAsWritten(longer, q.current[1], k)
    BY <1>4, <2>1, <2>3, <2>5, <2>6 DEF IsAsWritten
  <2>8. QED BY <1>3, <1>4, <2>2, <2>6, <2>7
<1>7. OpenAsWritten(longer, q)
  <2>1. Len(q.current) <= 1 /\ (q.current # << >> <=> IsOpen(longer))
    BY <1>3 DEF ScenariosAre, OpenAsWritten
  <2>2. Len(Starts(longer)) = Len(q.scenarios) + Len(q.current)
    BY <1>4 DEF ScenariosAre, OpenAsWritten
  <2>3. QED BY <1>6, <2>1, <2>2 DEF OpenAsWritten
<1>8. ExamplesInScenarios(longer) => TablesAsWritten(longer, q)
  BY <1>1, <1>3, <1>5 DEF TablesAsWritten
<1>9. QED BY <1>5, <1>7, <1>8 DEF ScenariosAre

(* A header line: the scenario that was open is closed, and the line opens a
   scenario or the background. *)
LEMMA Reopens ==
    ASSUME NEW text, NEW longer, NEW l, NEW n, Grows(longer, text, l, n),
           l.kind \in HeaderKinds,
           NEW c, ClosedAre(text, c),
           NEW q \in Parsers, q.scenarios = c.scenarios, q.background = c.background,
           q.table = c.table, q.inExamples = c.inExamples,
           l.kind \notin ScenarioKinds =>
               q.current = << >> /\ q.pendingTags = c.pendingTags,
           l.kind \in ScenarioKinds =>
               q.current = NewScenario(l, c.pendingTags) /\ q.pendingTags = << >>
    PROVE  ScenariosAre(longer, q)
<1>1. /\ text \in Seq(TextLines) /\ Numbered(text) /\ Len(text) = n /\ Len(longer) = n + 1
      /\ n \in Nat /\ l.id = n + 1 /\ longer \in Seq(TextLines) /\ longer[n + 1] = l
  BY DEF Grows
<1>2. /\ l.kind # "step" /\ l.kind # "row" /\ l.kind # "examples" /\ l.kind # "tags"
      /\ l.kind \in HeaderKinds \cup {"examples", "step"}
  BY DEF HeaderKinds, ScenarioKinds
<1>3. Header(longer) = n + 1 /\ (IsOpen(longer) <=> l.kind \in ScenarioKinds)
  BY HeaderOfLonger
<1>4. PICK starts \in Seq(TextLines), m \in Nat :
          starts = Starts(text) /\ m = Len(starts) /\ DOMAIN starts = 1..m
  BY <1>1, StartIs, LenProperties
<1>5. PICK closed \in Seq(Scenarios) :
          closed = c.scenarios /\ Len(closed) = m /\ DOMAIN closed = 1..m
  BY <1>4, LenProperties DEF ClosedAre, Parsers
<1>6. ASSUME NEW k \in 1..m
      PROVE  /\ IsAsWritten(longer, closed[k], k)
             /\ ExamplesInScenarios(longer) =>
                    closed[k].examples = RowsUnder(longer, closed[k].title)
  <2>1. IsAsWritten(text, closed[k], k) /\ k \in DOMAIN Starts(text)
    BY <1>4, <1>5 DEF ClosedAre
  <2>2. IsAsWritten(longer, closed[k], k)
    BY <1>2, <2>1, WrittenOfLonger
  <2>3. RowsUnder(longer, closed[k].title) = RowsUnder(text, closed[k].title)
    BY <1>2, RowsOfLonger
  <2>4. ExamplesInScenarios(longer) => closed[k].examples = RowsUnder(text, closed[k].title)
    BY <1>5, ExamplesOfLonger DEF ClosedAre
  <2>5. QED BY <2>2, <2>3, <2>4
<1>7. q.background = BackgroundSteps(longer)
  BY <1>2, BackgroundOfLonger DEF ClosedAre
<1>8. ExamplesInScenarios(longer) =>
          q.table = << >> /\ q.inExamples = FALSE /\ IsInTable(longer, n + 1) = FALSE
  <2>1. IsInTable(longer, n + 1) = (l.kind = "examples")
    BY <1>2, PlaceOfLonger
  <2>2. (l.kind = "examples") = FALSE
    BY <1>2
  <2>3. ExamplesInScenarios(longer) => ExamplesInScenarios(text)
    BY ExamplesOfLonger
  <2>4. ExamplesInScenarios(text) => q.table = << >> /\ q.inExamples = FALSE
    BY DEF ClosedAre
  <2>5. QED BY <2>1, <2>2, <2>3, <2>4
<1>9. CASE l.kind \notin ScenarioKinds
  <2>1. q.current = << >> /\ Len(q.current) = 0
    BY <1>9
  <2>2. q.pendingTags = Pending(longer)
    BY <1>2, <1>9, TagsOfLonger DEF ClosedAre
  <2>3. Len(Starts(longer)) = m
    BY <1>4, <1>9, StartsOfLonger
  <2>4. OpenAsWritten(longer, q)
    BY <1>3, <1>5, <1>9, <2>1, <2>3 DEF OpenAsWritten
  <2>5. ExamplesInScenarios(longer) => TablesAsWritten(longer, q)
    BY <1>1, <1>5, <1>6, <1>8, <2>1 DEF TablesAsWritten
  <2>6. QED BY <1>5, <1>6, <1>7, <2>2, <2>4, <2>5 DEF ScenariosAre
<1>10. CASE l.kind \in ScenarioKinds
  <2>1. PICK s : s = [title |-> l.id, tags |-> c.pendingTags, steps |-> << >>,
                      isOutline |-> l.kind = "outline", examples |-> << >>]
    OBVIOUS
  <2>2. q.current = << s >> /\ Len(q.current) = 1 /\ q.current[1] = s /\ q.current # << >>
    <3>1. NewScenario(l, c.pendingTags) = << s >>
      BY <2>1 DEF NewScenario
    <3>2. q.current = << s >>
      BY <1>10, <3>1
    <3>3. QED BY <3>2
  <2>3. q.pendingTags = Pending(longer)
    BY <1>10, TagsOfLonger
  <2>4. Len(Starts(longer)) = m + 1 /\ Starts(longer)[m + 1] = l
    <3>1. l \in TextLines
      <4>1. n + 1 \in 1..Len(longer)
        BY <1>1
      <4>2. QED BY <1>1, <4>1, ElementOfSeq
    <3>2. Starts(longer) = Append(starts, l)
      BY <1>4, <1>10, StartsOfLonger
    <3>3. QED BY <1>4, <3>1, <3>2, AppendProperties
  <2>5. StepsUnder(longer, n + 1) = << >> /\ RowsUnder(longer, n + 1) = << >>
    <3>1. StepsUnder(longer, n + 1) = StepsUnder(text, n + 1)
      BY <1>2, StepsOfLonger
    <3>2. RowsUnder(longer, n + 1) = RowsUnder(text, n + 1)
      BY <1>2, RowsOfLonger
    <3>3. QED BY <3>1, <3>2, EmptyUnder
  <2>6. TagsOf(longer, m + 1) = c.pendingTags
    BY <1>4, <1>10, TagsOfLonger DEF ClosedAre
  <2>7. IsAsWritten(longer, s, m + 1) /\ s.title = n + 1
    BY <1>1, <2>1, <2>4, <2>5, <2>6 DEF IsAsWritten
  <2>8. OpenAsWritten(longer, q)
    <3>1. Len(q.current) <= 1 /\ (q.current # << >> <=> IsOpen(longer))
      BY <1>3, <1>10, <2>2
    <3>2. Len(Starts(longer)) = Len(q.scenarios) + Len(q.current)
      BY <1>5, <2>2, <2>4
    <3>3. q.current[1].title = Header(longer) /\ IsAsWritten(longer, q.current[1], Len(Starts(longer)))
      BY <1>3, <2>2, <2>4, <2>7
    <3>4. QED BY <3>1, <3>2, <3>3 DEF OpenAsWritten
  <2>9. ExamplesInScenarios(longer) => TablesAsWritten(longer, q)
    BY <1>1, <1>3, <1>5, <1>6, <1>8, <2>2, <2>5 DEF TablesAsWritten
  <2>10. QED BY <1>5, <1>6, <1>7, <2>3, <2>8, <2>9 DEF ScenariosAre
<1>11. QED BY <1>9, <1>10

(* One turn of the loop, by the kind of the line. *)
LEMMA ReadIs ==
    ASSUME NEW p, NEW l
    PROVE  /\ l.kind = "feature" =>
                  Read(p, l) = [p EXCEPT !.title = l.id, !.inFeatureDesc = TRUE, !.inBackground = FALSE]
           /\ l.kind = "background" =>
                  Read(p, l) = closeScenario([p EXCEPT !.inFeatureDesc = FALSE, !.inBackground = TRUE])
           /\ l.kind = "tags" =>
                  Read(p, l) = [p EXCEPT !.inFeatureDesc = FALSE, !.pendingTags = << l.id >>]
           /\ l.kind \in ScenarioKinds => Read(p, l) = OpenScenario(p, l)
           /\ l.kind = "examples" => Read(p, l) = [p EXCEPT !.inExamples = TRUE]
           /\ l.kind = "row" /\ p.inExamples => Read(p, l) = [p EXCEPT !.table = Append(@, l.id)]
           /\ l.kind = "step" => Read(p, l) = AddStep(p, l)
           /\ \/ l.kind \notin HeaderKinds \cup {"feature", "tags", "examples", "row", "step"}
              \/ l.kind = "row" /\ ~p.inExamples
              => Read(p, l) = AddDescription(p, l)
<1>1. CASE l.kind = "feature"
  BY <1>1 DEF Read, ScenarioKinds, HeaderKinds
<1>2. CASE l.kind = "background"
  BY <1>2 DEF Read, ScenarioKinds, HeaderKinds
<1>3. CASE l.kind = "tags"
  BY <1>3 DEF Read, ScenarioKinds, HeaderKinds
<1>4. CASE l.kind \in ScenarioKinds
  <2>1. /\ l.kind # "feature" /\ l.kind # "background" /\ l.kind # "tags"
        /\ l.kind # "examples" /\ l.kind # "row" /\ l.kind # "step"
    BY <1>4 DEF ScenarioKinds
  <2>2. Read(p, l) = OpenScenario(p, l)
    BY <1>4, <2>1 DEF Read
  <2>3. QED BY <1>4, <2>1, <2>2 DEF HeaderKinds
<1>5. CASE l.kind = "examples"
  BY <1>5 DEF Read, ScenarioKinds, HeaderKinds
<1>6. CASE l.kind = "row"
  BY <1>6 DEF Read, ScenarioKinds, HeaderKinds
<1>7. CASE l.kind = "step"
  BY <1>7 DEF Read, ScenarioKinds, HeaderKinds
<1>8. CASE l.kind \notin HeaderKinds \cup {"feature", "tags", "examples", "row", "step"}
  BY <1>8 DEF Read, HeaderKinds
<1>9. QED BY <1>1, <1>2, <1>3, <1>4, <1>5, <1>6, <1>7, <1>8 DEF HeaderKinds

(* Facts about text, line and parser that every turn uses. *)
Turn(longer, text, l, n, p) ==
    /\ n \in Nat /\ Len(text) = n /\ Len(longer) = n + 1 /\ l.id = n + 1
    /\ p \in Parsers /\ Len(p.current) <= 1
    /\ p.pendingTags = Pending(text) /\ p.background = BackgroundSteps(text)
    /\ p.inBackground = IsInBackground(text, n)
    /\ p.current # << >> <=> IsOpen(text)
    /\ p.current # << >> =>
          /\ p.current[1] \in Scenarios /\ p.current[1].title = Header(text)
          /\ p.current[1].steps = StepsUnder(text, Header(text))
    /\ ExamplesInScenarios(longer) =>
          /\ p.inExamples = IsInTable(text, n)
          /\ p.current = << >> => p.table = << >>
          /\ p.current # << >> => p.table = RowsUnder(text, Header(text))
          /\ l.kind = "examples" => p.current # << >>
          /\ p.inExamples => p.current # << >>

(* What the lemmas above say of one line more, for a parser that says what
   is written. *)
LEMMA TurnIs ==
    ASSUME NEW text, NEW longer, NEW l, NEW n, Grows(longer, text, l, n),
           NEW p, DocumentIs(text, p)
    PROVE  Turn(longer, text, l, n, p)
<1>1. n \in Nat /\ Len(text) = n /\ Len(longer) = n + 1 /\ l.id = n + 1 /\ text \in Seq(TextLines)
  BY DEF Grows
<1>2. /\ p \in Parsers /\ Len(p.current) <= 1
      /\ p.pendingTags = Pending(text) /\ p.background = BackgroundSteps(text)
      /\ p.inBackground = IsInBackground(text, n)
      /\ p.current # << >> <=> IsOpen(text)
  BY <1>1 DEF DocumentIs, ScenariosAre, OpenAsWritten
<1>3. ASSUME p.current # << >>
      PROVE  /\ p.current[1] \in Scenarios /\ p.current[1].title = Header(text)
             /\ p.current[1].steps = StepsUnder(text, Header(text))
  <2>1. p.current[1] \in Scenarios
    <3>1. p.current \in Seq(Scenarios)
      BY <1>2 DEF Parsers
    <3>2. QED BY <1>2, <1>3, <3>1, AtMostOne
  <2>2. QED BY <1>3, <2>1 DEF DocumentIs, ScenariosAre, OpenAsWritten, IsAsWritten
<1>4. ASSUME ExamplesInScenarios(longer)
      PROVE  /\ p.inExamples = IsInTable(text, n)
             /\ p.current = << >> => p.table = << >>
             /\ p.current # << >> => p.table = RowsUnder(text, Header(text))
             /\ l.kind = "examples" => p.current # << >>
             /\ p.inExamples => p.current # << >>
  <2>1. ExamplesInScenarios(text) /\ (l.kind = "examples" => IsOpen(text))
    BY <1>4, ExamplesOfLonger
  <2>2. IsInTable(text, n) => IsOpen(text)
    BY <1>1, <2>1, TableNeedsOpen
  <2>3. QED BY <1>1, <1>2, <2>1, <2>2 DEF DocumentIs, ScenariosAre, TablesAsWritten
<1>5. QED BY <1>1, <1>2, <1>3, <1>4 DEF Turn

(* Lines that change neither steps nor rows. *)
LEMMA OtherLine ==
    ASSUME NEW text, NEW longer, NEW l, NEW n, Grows(longer, text, l, n),
           NEW p, DocumentIs(text, p),
           \/ l.kind \notin HeaderKinds \cup {"feature", "tags", "examples", "row", "step"}
           \/ l.kind = "row" /\ ~p.inExamples
    PROVE  DocumentIs(longer, Read(p, l))
<1>1. Turn(longer, text, l, n, p)
  BY TurnIs
<1>2. l.kind \notin HeaderKinds /\ l.kind \notin ScenarioKinds \cup {"tags", "step", "feature", "examples"}
  BY DEF HeaderKinds, ScenarioKinds
<1>3. PICK q : q = Read(p, l) /\ q = AddDescription(p, l)
  BY ReadIs
<1>4. /\ q \in Parsers /\ q.scenarios = p.scenarios /\ q.pendingTags = p.pendingTags
      /\ q.background = p.background /\ q.current = p.current /\ q.table = p.table
      /\ q.inExamples = p.inExamples /\ q.inBackground = p.inBackground
  <2>1. p \in Parsers /\ l.id \in Nat
    BY <1>1 DEF Turn
  <2>2. p.description \in Seq(Nat)
    BY <2>1 DEF Parsers
  <2>3. PICK d \in Seq(Nat) : d = Append(p.description, l.id)
    BY <2>1, <2>2, AppendProperties
  <2>4. q = IF p.inFeatureDesc THEN [p EXCEPT !.description = d] ELSE p
    BY <1>3, <2>3 DEF AddDescription
  <2>5. QED BY <2>1, <2>4 DEF Parsers
<1>5. Pending(longer) = Pending(text) /\ BackgroundSteps(longer) = BackgroundSteps(text)
  BY <1>2, TagsOfLonger, BackgroundOfLonger
<1>6. StepsUnder(longer, Header(text)) = StepsUnder(text, Header(text))
  BY <1>2, StepsOfLonger
<1>7. IsInTable(longer, n + 1) = IsInTable(text, n)
  BY <1>2, PlaceOfLonger
<1>8. IsInBackground(longer, n + 1) = IsInBackground(text, n)
  BY <1>2, PlaceOfLonger
<1>9. ExamplesInScenarios(longer) => RowsUnder(longer, Header(text)) = RowsUnder(text, Header(text))
  <2>1. ExamplesInScenarios(longer) => ~(l.kind = "row" /\ IsInTable(text, n))
    BY <1>1 DEF Turn, HeaderKinds
  <2>2. QED BY <2>1, RowsOfLonger
<1>10. ScenariosAre(text, p)
  BY DEF DocumentIs
<1>11. ScenariosAre(longer, q)
  BY <1>1, <1>2, <1>4, <1>5, <1>6, <1>7, <1>9, <1>10, StaysOpen DEF Turn
<1>12. QED BY <1>1, <1>3, <1>4, <1>8, <1>11 DEF DocumentIs, Turn

(* A Feature: line opens no scenario and takes no tags. *)
LEMMA FeatureLine ==
    ASSUME NEW text, NEW longer, NEW l, NEW n, Grows(longer, text, l, n),
           NEW p, DocumentIs(text, p), l.kind = "feature"
    PROVE  DocumentIs(longer, Read(p, l))
<1>1. Turn(longer, text, l, n, p)
  BY TurnIs
<1>2. /\ l.kind \notin HeaderKinds /\ l.kind \notin ScenarioKinds \cup {"tags", "step", "row"}
      /\ l.kind \notin HeaderKinds \cup {"examples", "step"}
  BY DEF HeaderKinds, ScenarioKinds
<1>3. PICK q : /\ q = Read(p, l)
               /\ q = [p EXCEPT !.title = l.id, !.inFeatureDesc = TRUE, !.inBackground = FALSE]
  BY ReadIs
<1>4. /\ q \in Parsers /\ q.scenarios = p.scenarios /\ q.pendingTags = p.pendingTags
      /\ q.background = p.background /\ q.current = p.current /\ q.table = p.table
      /\ q.inExamples = p.inExamples /\ q.inBackground = FALSE
  <2>1. p \in Parsers /\ l.id \in Nat
    BY <1>1 DEF Turn
  <2>2. QED BY <1>3, <2>1 DEF Parsers
<1>5. Pending(longer) = Pending(text) /\ BackgroundSteps(longer) = BackgroundSteps(text)
  BY <1>2, TagsOfLonger, BackgroundOfLonger
<1>6. StepsUnder(longer, Header(text)) = StepsUnder(text, Header(text))
  BY <1>2, StepsOfLonger
<1>7. RowsUnder(longer, Header(text)) = RowsUnder(text, Header(text))
  BY <1>2, RowsOfLonger
<1>8. IsInTable(longer, n + 1) = IsInTable(text, n)
  BY <1>2, PlaceOfLonger
<1>9. IsInBackground(longer, n + 1) = FALSE
  <2>1. IsInBackground(longer, n + 1) = (l.kind = "background")
    BY PlaceOfLonger
  <2>2. QED BY <2>1
<1>10. ScenariosAre(text, p)
  BY DEF DocumentIs
<1>11. ScenariosAre(longer, q)
  BY <1>1, <1>2, <1>4, <1>5, <1>6, <1>7, <1>8, <1>10, StaysOpen DEF Turn
<1>12. QED BY <1>1, <1>3, <1>4, <1>9, <1>11 DEF DocumentIs, Turn

(* A line of tags replaces the pending ones. *)
LEMMA TagsLine ==
    ASSUME NEW text, NEW longer, NEW l, NEW n, Grows(longer, text, l, n),
           NEW p, DocumentIs(text, p), l.kind = "tags"
    PROVE  DocumentIs(longer, Read(p, l))
<1>1. Turn(longer, text, l, n, p)
  BY TurnIs
<1>2. /\ l.kind \notin HeaderKinds /\ l.kind \notin {"step", "row"}
      /\ l.kind \notin HeaderKinds \cup {"examples", "step"}
      /\ l.kind \notin HeaderKinds \cup {"feature"}
  BY DEF HeaderKinds, ScenarioKinds
<1>3. PICK q : /\ q = Read(p, l)
               /\ q = [p EXCEPT !.inFeatureDesc = FALSE, !.pendingTags = << l.id >>]
  BY ReadIs
<1>4. /\ q \in Parsers /\ q.scenarios = p.scenarios /\ q.pendingTags = << n + 1 >>
      /\ q.background = p.background /\ q.current = p.current /\ q.table = p.table
      /\ q.inExamples = p.inExamples /\ q.inBackground = p.inBackground
  <2>1. p \in Parsers /\ l.id = n + 1 /\ n + 1 \in Nat
    BY <1>1 DEF Turn
  <2>2. PICK tags : tags = << n + 1 >>
    OBVIOUS
  <2>3. tags \in Seq(Nat)
    BY <2>1, <2>2
  <2>4. q = [p EXCEPT !.inFeatureDesc = FALSE, !.pendingTags = tags]
    BY <1>3, <2>1, <2>2
  <2>5. /\ q \in Parsers /\ q.scenarios = p.scenarios /\ q.pendingTags = tags
        /\ q.background = p.background /\ q.current = p.current /\ q.table = p.table
        /\ q.inExamples = p.inExamples /\ q.inBackground = p.inBackground
    BY <2>1, <2>3, <2>4 DEF Parsers
  <2>6. QED BY <2>2, <2>5
<1>5. Pending(longer) = << n + 1 >> /\ BackgroundSteps(longer) = BackgroundSteps(text)
  BY <1>2, TagsOfLonger, BackgroundOfLonger
<1>6. StepsUnder(longer, Header(text)) = StepsUnder(text, Header(text))
  BY <1>2, StepsOfLonger
<1>7. RowsUnder(longer, Header(text)) = RowsUnder(text, Header(text))
  BY <1>2, RowsOfLonger
<1>8. /\ IsInTable(longer, n + 1) = IsInTable(text, n)
      /\ IsInBackground(longer, n + 1) = IsInBackground(text, n)
  BY <1>2, PlaceOfLonger
<1>9. ScenariosAre(text, p)
  BY DEF DocumentIs
<1>10. ScenariosAre(longer, q)
  BY <1>1, <1>2, <1>4, <1>5, <1>6, <1>7, <1>8, <1>9, StaysOpen DEF Turn
<1>11. QED BY <1>1, <1>3, <1>4, <1>8, <1>10 DEF DocumentIs, Turn

(* An Examples: line opens a table, and changes no scenario. *)
LEMMA ExamplesLine ==
    ASSUME NEW text, NEW longer, NEW l, NEW n, Grows(longer, text, l, n),
           NEW p, DocumentIs(text, p), l.kind = "examples"
    PROVE  DocumentIs(longer, Read(p, l))
<1>1. Turn(longer, text, l, n, p)
  BY TurnIs
<1>2. /\ l.kind \notin HeaderKinds /\ l.kind \notin {"step", "row"}
      /\ l.kind \notin ScenarioKinds \cup {"tags"}
      /\ l.kind \notin HeaderKinds \cup {"feature"}
      /\ l.kind \in HeaderKinds \cup {"examples", "step"}
  BY DEF HeaderKinds, ScenarioKinds
<1>3. PICK q : q = Read(p, l) /\ q = [p EXCEPT !.inExamples = TRUE]
  BY ReadIs
<1>4. /\ q \in Parsers /\ q.scenarios = p.scenarios /\ q.pendingTags = p.pendingTags
      /\ q.background = p.background /\ q.current = p.current /\ q.table = p.table
      /\ q.inExamples = TRUE /\ q.inBackground = p.inBackground
  <2>1. p \in Parsers
    BY <1>1 DEF Turn
  <2>2. QED BY <1>3, <2>1 DEF Parsers
<1>5. Pending(longer) = Pending(text) /\ BackgroundSteps(longer) = BackgroundSteps(text)
  BY <1>2, TagsOfLonger, BackgroundOfLonger
<1>6. StepsUnder(longer, Header(text)) = StepsUnder(text, Header(text))
  BY <1>2, StepsOfLonger
<1>7. RowsUnder(longer, Header(text)) = RowsUnder(text, Header(text))
  BY <1>2, RowsOfLonger
<1>8. IsInTable(longer, n + 1) = TRUE
  <2>1. IsInTable(longer, n + 1) = (l.kind = "examples")
    BY <1>2, PlaceOfLonger
  <2>2. QED BY <2>1
<1>9. IsInBackground(longer, n + 1) = IsInBackground(text, n)
  BY <1>2, PlaceOfLonger
<1>10. ScenariosAre(text, p)
  BY DEF DocumentIs
<1>11. ScenariosAre(longer, q)
  <2>1. /\ q.pendingTags = Pending(longer) /\ q.background = BackgroundSteps(longer)
        /\ q.current # << >> => q.current[1].steps = StepsUnder(longer, Header(text))
    BY <1>1, <1>4, <1>5, <1>6 DEF Turn
  <2>2. ExamplesInScenarios(longer) =>
            /\ q.inExamples = IsInTable(longer, n + 1)
            /\ p.current = << >> => q.table = << >>
            /\ p.current # << >> => q.table = RowsUnder(longer, Header(text))
    BY <1>1, <1>4, <1>7, <1>8 DEF Turn
  <2>3. QED BY <1>2, <1>4, <1>10, <2>1, <2>2, StaysOpen
<1>12. QED BY <1>1, <1>3, <1>4, <1>9, <1>11 DEF DocumentIs, Turn

(* A row of a table goes to the table. *)
LEMMA RowLine ==
    ASSUME NEW text, NEW longer, NEW l, NEW n, Grows(longer, text, l, n),
           NEW p, DocumentIs(text, p), l.kind = "row", p.inExamples
    PROVE  DocumentIs(longer, Read(p, l))
<1>1. Turn(longer, text, l, n, p)
  BY TurnIs
<1>2. /\ l.kind \notin HeaderKinds /\ l.kind \notin {"step"}
      /\ l.kind \notin ScenarioKinds \cup {"tags"}
      /\ l.kind \notin HeaderKinds \cup {"feature"}
      /\ l.kind \notin HeaderKinds \cup {"examples", "step"}
  BY DEF HeaderKinds, ScenarioKinds
<1>3. PICK rows \in Seq(Nat) : rows = Append(p.table, n + 1)
  <2>1. n + 1 \in Nat /\ p.table \in Seq(Nat)
    BY <1>1 DEF Turn, Parsers
  <2>2. QED BY <2>1, AppendProperties
<1>4. PICK q : q = Read(p, l) /\ q = [p EXCEPT !.table = rows]
  <2>1. Read(p, l) = [p EXCEPT !.table = Append(@, l.id)]
    BY ReadIs
  <2>2. [p EXCEPT !.table = Append(@, l.id)] = [p EXCEPT !.table = rows]
    BY <1>1, <1>3 DEF Turn
  <2>3. QED BY <2>1, <2>2
<1>5. /\ q \in Parsers /\ q.scenarios = p.scenarios /\ q.pendingTags = p.pendingTags
      /\ q.background = p.background /\ q.current = p.current /\ q.table = rows
      /\ q.inExamples = p.inExamples /\ q.inBackground = p.inBackground
  <2>1. p \in Parsers
    BY <1>1 DEF Turn
  <2>2. QED BY <1>3, <1>4, <2>1 DEF Parsers
<1>6. Pending(longer) = Pending(text) /\ BackgroundSteps(longer) = BackgroundSteps(text)
  BY <1>2, TagsOfLonger, BackgroundOfLonger
<1>7. StepsUnder(longer, Header(text)) = StepsUnder(text, Header(text))
  BY <1>2, StepsOfLonger
<1>8. /\ IsInTable(longer, n + 1) = IsInTable(text, n)
      /\ IsInBackground(longer, n + 1) = IsInBackground(text, n)
  BY <1>2, PlaceOfLonger
<1>9. ExamplesInScenarios(longer) =>
          p.current # << >> /\ rows = RowsUnder(longer, Header(text))
  <2>1. SUFFICES ASSUME ExamplesInScenarios(longer)
                 PROVE  p.current # << >> /\ rows = RowsUnder(longer, Header(text))
    OBVIOUS
  <2>2. /\ IsInTable(text, n) /\ p.current # << >>
        /\ p.table = RowsUnder(text, Header(text)) /\ Len(text) = n
    BY <1>1, <2>1 DEF Turn
  <2>3. LastLine(text, HeaderKinds, n) = Header(text)
    BY <2>2 DEF Header
  <2>4. RowsUnder(longer, Header(text)) = Append(RowsUnder(text, Header(text)), n + 1)
    BY <2>2, <2>3, RowsOfLonger
  <2>5. QED BY <1>3, <2>2, <2>4
<1>10. ScenariosAre(text, p)
  BY DEF DocumentIs
<1>11. ScenariosAre(longer, q)
  <2>1. /\ q.pendingTags = Pending(longer) /\ q.background = BackgroundSteps(longer)
        /\ q.current # << >> => q.current[1].steps = StepsUnder(longer, Header(text))
    BY <1>1, <1>5, <1>6, <1>7 DEF Turn
  <2>2. ExamplesInScenarios(longer) =>
            /\ q.inExamples = IsInTable(longer, n + 1)
            /\ p.current = << >> => q.table = << >>
            /\ p.current # << >> => q.table = RowsUnder(longer, Header(text))
    BY <1>1, <1>5, <1>8, <1>9 DEF Turn
  <2>3. QED BY <1>2, <1>5, <1>10, <2>1, <2>2, StaysOpen
<1>12. QED BY <1>1, <1>4, <1>5, <1>8, <1>11 DEF DocumentIs, Turn

(* A step goes to the background, to the open scenario, or nowhere. *)
LEMMA StepLine ==
    ASSUME NEW text, NEW longer, NEW l, NEW n, Grows(longer, text, l, n),
           NEW p, DocumentIs(text, p), l.kind = "step"
    PROVE  DocumentIs(longer, Read(p, l))
<1>1. Turn(longer, text, l, n, p)
  BY TurnIs
<1>2. /\ l.kind \notin HeaderKinds /\ l.kind # "row"
      /\ l.kind \notin ScenarioKinds \cup {"tags"}
      /\ l.kind \notin HeaderKinds \cup {"feature"}
      /\ l.kind \in HeaderKinds \cup {"examples", "step"}
  BY DEF HeaderKinds, ScenarioKinds
<1>3. PICK q : q = Read(p, l) /\ q = AddStep(p, l)
  BY ReadIs
<1>4. /\ p \in Parsers /\ n + 1 \in Nat /\ l.id = n + 1 /\ p.background \in Seq(Nat)
      /\ p.current \in Seq(Scenarios) /\ p.inBackground \in BOOLEAN
  BY <1>1 DEF Turn, Parsers
<1>5. Pending(longer) = Pending(text)
  BY <1>2, TagsOfLonger
<1>6. LastLine(text, HeaderKinds, n) = Header(text)
  BY <1>1 DEF Header, Turn
<1>7. StepsUnder(longer, Header(text)) = Append(StepsUnder(text, Header(text)), n + 1)
  BY <1>6, StepsOfLonger
<1>8. RowsUnder(longer, Header(text)) = RowsUnder(text, Header(text))
  BY <1>2, RowsOfLonger
<1>9. IsInTable(longer, n + 1) = FALSE /\ IsInBackground(longer, n + 1) = IsInBackground(text, n)
  <2>1. IsInTable(longer, n + 1) = (l.kind = "examples")
    BY <1>2, PlaceOfLonger
  <2>2. IsInBackground(longer, n + 1) = IsInBackground(text, n)
    BY <1>2, PlaceOfLonger
  <2>3. QED BY <2>1, <2>2
<1>10. ScenariosAre(text, p)
  BY DEF DocumentIs
<1>11. CASE p.inBackground
  <2>1. PICK b \in Seq(Nat) : b = Append(p.background, n + 1)
    BY <1>4, AppendProperties
  <2>2. q = [p EXCEPT !.inExamples = FALSE, !.background = b]
    BY <1>3, <1>4, <1>11, <2>1 DEF AddStep, Parsers
  <2>3. /\ q \in Parsers /\ q.scenarios = p.scenarios /\ q.pendingTags = p.pendingTags
        /\ q.background = b /\ q.current = p.current /\ q.table = p.table
        /\ q.inExamples = FALSE /\ q.inBackground = p.inBackground
    BY <1>4, <2>1, <2>2 DEF Parsers
  <2>4. p.current = << >>
    <3>1. IsInBackground(text, Len(text)) /\ text \in Seq(TextLines)
      BY <1>1, <1>11 DEF Turn, Grows
    <3>2. ~IsOpen(text)
      BY <3>1, BackgroundIsNotOpen
    <3>3. QED BY <1>1, <3>2 DEF Turn
  <2>5. b = BackgroundSteps(longer)
    <3>1. IsInBackground(text, n) /\ p.background = BackgroundSteps(text)
      BY <1>1, <1>11 DEF Turn
    <3>2. QED BY <2>1, <3>1, BackgroundOfLonger
  <2>6. ScenariosAre(longer, q)
    <3>1. q.pendingTags = Pending(longer) /\ q.background = BackgroundSteps(longer)
      BY <1>1, <1>5, <2>3, <2>5 DEF Turn
    <3>2. ExamplesInScenarios(longer) =>
              q.inExamples = IsInTable(longer, n + 1) /\ q.table = << >>
      BY <1>1, <1>9, <2>3, <2>4 DEF Turn
    <3>3. QED BY <1>2, <1>10, <2>3, <2>4, <3>1, <3>2, StaysOpen
  <2>7. QED BY <1>1, <1>3, <1>9, <2>3, <2>6 DEF DocumentIs, Turn
<1>12. CASE ~p.inBackground
  <2>1. BackgroundSteps(longer) = p.background
    <3>1. ~IsInBackground(text, n) /\ p.background = BackgroundSteps(text)
      BY <1>1, <1>12 DEF Turn
    <3>2. QED BY <3>1, BackgroundOfLonger
  <2>2. CASE p.current = << >>
    <3>1. q = [p EXCEPT !.inExamples = FALSE]
      BY <1>3, <1>12, <2>2 DEF AddStep
    <3>2. /\ q \in Parsers /\ q.scenarios = p.scenarios /\ q.pendingTags = p.pendingTags
          /\ q.background = p.background /\ q.current = p.current /\ q.table = p.table
          /\ q.inExamples = FALSE /\ q.inBackground = p.inBackground
      BY <1>4, <3>1 DEF Parsers
    <3>3. ScenariosAre(longer, q)
      <4>1. q.pendingTags = Pending(longer) /\ q.background = BackgroundSteps(longer)
        BY <1>1, <1>5, <2>1, <3>2 DEF Turn
      <4>2. ExamplesInScenarios(longer) =>
                q.inExamples = IsInTable(longer, n + 1) /\ q.table = << >>
        BY <1>1, <1>9, <2>2, <3>2 DEF Turn
      <4>3. QED BY <1>2, <1>10, <2>2, <3>2, <4>1, <4>2, StaysOpen
    <3>4. QED BY <1>1, <1>3, <1>9, <3>2, <3>3 DEF DocumentIs, Turn
  <2>3. CASE p.current # << >>
    <3>1. PICK s \in Scenarios : s = p.current[1] /\ s.steps \in Seq(Nat)
      BY <1>1, <2>3 DEF Turn, Scenarios
    <3>2. PICK steps \in Seq(Nat) : steps = Append(s.steps, n + 1)
      BY <1>4, <3>1, AppendProperties
    <3>3. PICK x : x = [s EXCEPT !.steps = steps]
      OBVIOUS
    <3>4. /\ x \in Scenarios /\ x.title = s.title /\ x.isOutline = s.isOutline
          /\ x.tags = s.tags /\ x.steps = steps
      BY <3>1, <3>2, <3>3 DEF Scenarios
    <3>5. PICK now : now = [p.current EXCEPT ![1] = x]
      OBVIOUS
    <3>6. /\ now \in Seq(Scenarios) /\ Len(now) = Len(p.current) /\ now[1] = x /\ now # << >>
      <4>1. Len(p.current) = 1 /\ DOMAIN p.current = {1}
        BY <1>1, <1>4, <2>3, AtMostOne DEF Turn
      <4>2. p.current = [i \in {1} |-> p.current[i]]
        <5>1. p.current = [i \in DOMAIN p.current |-> p.current[i]]
          BY <1>4
        <5>2. QED BY <4>1, <5>1
      <4>3. now = [i \in {1} |-> x]
        BY <3>5, <4>2
      <4>4. << x >> = [i \in {1} |-> x]
        OBVIOUS
      <4>5. now = << x >>
        BY <4>3, <4>4
      <4>6. QED BY <3>4, <4>1, <4>5
    <3>7. q = [p EXCEPT !.inExamples = FALSE, !.current = now]
      <4>1. AddStep(p, l) = [[p EXCEPT !.inExamples = FALSE] EXCEPT !.current[1].steps = Append(@, l.id)]
        BY <1>12, <2>3 DEF AddStep
      <4>2. QED BY <1>3, <1>4, <3>1, <3>2, <3>3, <3>5, <4>1 DEF Parsers
    <3>8. /\ q \in Parsers /\ q.scenarios = p.scenarios /\ q.pendingTags = p.pendingTags
          /\ q.background = p.background /\ q.current = now /\ q.table = p.table
          /\ q.inExamples = FALSE /\ q.inBackground = p.inBackground
      BY <1>4, <3>6, <3>7 DEF Parsers
    <3>9. steps = StepsUnder(longer, Header(text))
      BY <1>1, <1>7, <2>3, <3>1, <3>2 DEF Turn
    <3>10. ScenariosAre(longer, q)
      <4>1. q.pendingTags = Pending(longer) /\ q.background = BackgroundSteps(longer)
        BY <1>1, <1>5, <2>1, <3>8 DEF Turn
      <4>2. ExamplesInScenarios(longer) =>
                /\ q.inExamples = IsInTable(longer, n + 1)
                /\ q.table = RowsUnder(longer, Header(text))
        BY <1>1, <1>8, <1>9, <2>3, <3>8 DEF Turn
      <4>3. /\ q.current # << >> /\ Len(q.current) = Len(p.current)
            /\ q.current[1].title = p.current[1].title
            /\ q.current[1].isOutline = p.current[1].isOutline
            /\ q.current[1].tags = p.current[1].tags
            /\ q.current[1].steps = StepsUnder(longer, Header(text))
        BY <3>1, <3>4, <3>6, <3>8, <3>9
      <4>4. QED BY <1>2, <1>10, <2>3, <3>8, <4>1, <4>2, <4>3, StaysOpen
    <3>11. QED BY <1>1, <1>3, <1>9, <3>8, <3>10 DEF DocumentIs, Turn
  <2>4. QED BY <2>2, <2>3
<1>13. QED BY <1>11, <1>12

(* The lines that close a scenario. *)
LEMMA BackgroundLine ==
    ASSUME NEW text, NEW longer, NEW l, NEW n, Grows(longer, text, l, n),
           NEW p, DocumentIs(text, p), l.kind = "background"
    PROVE  DocumentIs(longer, Read(p, l))
<1>1. Turn(longer, text, l, n, p)
  BY TurnIs
<1>2. l.kind \in HeaderKinds /\ l.kind \notin ScenarioKinds
      /\ l.kind \in HeaderKinds \cup {"feature"}
  BY DEF HeaderKinds, ScenarioKinds
<1>3. PICK o : o = [p EXCEPT !.inFeatureDesc = FALSE, !.inBackground = TRUE]
  OBVIOUS
<1>4. PICK q : q = Read(p, l) /\ q = closeScenario(o)
  BY <1>3, ReadIs
<1>5. /\ o \in Parsers /\ o.scenarios = p.scenarios /\ o.pendingTags = p.pendingTags
      /\ o.background = p.background /\ o.current = p.current /\ o.table = p.table
      /\ o.inExamples = p.inExamples /\ o.inBackground = TRUE
  <2>1. p \in Parsers
    BY <1>1 DEF Turn
  <2>2. QED BY <1>3, <2>1 DEF Parsers
<1>6. ScenariosAre(text, o)
  BY <1>5 DEF DocumentIs, ScenariosAre, OpenAsWritten, TablesAsWritten
<1>7. ClosedAre(text, q)
  <2>1. text \in Seq(TextLines)
    BY DEF Grows
  <2>2. QED BY <1>4, <1>6, <2>1, Closing
<1>8. q.inBackground = TRUE
  BY <1>1, <1>4, <1>5, CloseIs DEF Turn
<1>9. IsInBackground(longer, n + 1) = TRUE
  <2>1. IsInBackground(longer, n + 1) = (l.kind = "background")
    BY <1>2, PlaceOfLonger
  <2>2. QED BY <2>1
<1>10. ScenariosAre(longer, q)
  BY <1>2, <1>7, Reopens DEF ClosedAre
<1>11. QED BY <1>1, <1>4, <1>8, <1>9, <1>10 DEF DocumentIs, Turn

(* A scenario's line closes the one before it and takes the pending tags. *)
LEMMA ScenarioLine ==
    ASSUME NEW text, NEW longer, NEW l, NEW n, Grows(longer, text, l, n),
           NEW p, DocumentIs(text, p), l.kind \in ScenarioKinds
    PROVE  DocumentIs(longer, Read(p, l))
<1>1. Turn(longer, text, l, n, p)
  BY TurnIs
<1>2. /\ l.kind \in HeaderKinds /\ l.kind # "background"
      /\ l.kind \in HeaderKinds \cup {"feature"}
  BY DEF HeaderKinds, ScenarioKinds
<1>3. PICK c : c = closeScenario(p)
  OBVIOUS
<1>4. ClosedAre(text, c)
  <2>1. text \in Seq(TextLines) /\ ScenariosAre(text, p)
    BY DEF Grows, DocumentIs
  <2>2. QED BY <1>3, <2>1, Closing
<1>5. PICK opened, none : opened = NewScenario(l, p.pendingTags) /\ none = << >>
  OBVIOUS
<1>6. PICK q : /\ q = Read(p, l)
               /\ q = [c EXCEPT !.inFeatureDesc = FALSE, !.inBackground = FALSE,
                                !.current = opened, !.pendingTags = none]
  BY <1>3, <1>5, ReadIs DEF OpenScenario
<1>7. c \in Parsers /\ c.pendingTags = p.pendingTags /\ p.pendingTags \in Seq(Nat)
  BY <1>1, <1>3, CloseIs DEF Turn, Parsers
<1>8. opened \in Seq(Scenarios) /\ none \in Seq(Nat)
  <2>1. PICK s : s = [title |-> l.id, tags |-> p.pendingTags, steps |-> << >>,
                      isOutline |-> l.kind = "outline", examples |-> << >>]
    OBVIOUS
  <2>2. l.id \in Nat /\ << >> \in Seq(Nat) /\ (l.kind = "outline") \in BOOLEAN
    BY <1>1 DEF Turn
  <2>3. s \in Scenarios
    BY <1>7, <2>1, <2>2 DEF Scenarios
  <2>4. opened = << s >>
    BY <1>5, <2>1 DEF NewScenario
  <2>5. QED BY <1>5, <2>2, <2>3, <2>4
<1>9. /\ q \in Parsers /\ q.scenarios = c.scenarios /\ q.background = c.background
      /\ q.table = c.table /\ q.inExamples = c.inExamples
      /\ q.current = opened /\ q.pendingTags = none /\ q.inBackground = FALSE
  BY <1>6, <1>7, <1>8 DEF Parsers
<1>10. IsInBackground(longer, n + 1) = FALSE
  <2>1. IsInBackground(longer, n + 1) = (l.kind = "background")
    BY <1>2, PlaceOfLonger
  <2>2. QED BY <1>2, <2>1
<1>11. ScenariosAre(longer, q)
  BY <1>2, <1>4, <1>5, <1>7, <1>9, Reopens
<1>12. QED BY <1>1, <1>6, <1>9, <1>10, <1>11 DEF DocumentIs, Turn

(* Every line keeps the parser's variables true to the text. *)
LEMMA AnyLine ==
    ASSUME NEW text, NEW longer, NEW l, NEW n, Grows(longer, text, l, n),
           NEW p, DocumentIs(text, p)
    PROVE  DocumentIs(longer, Read(p, l))
<1>1. CASE l.kind = "feature"
  BY <1>1, FeatureLine
<1>2. CASE l.kind = "background"
  BY <1>2, BackgroundLine
<1>3. CASE l.kind = "tags"
  BY <1>3, TagsLine
<1>4. CASE l.kind \in ScenarioKinds
  BY <1>4, ScenarioLine
<1>5. CASE l.kind = "examples"
  BY <1>5, ExamplesLine
<1>6. CASE l.kind = "row" /\ p.inExamples
  BY <1>6, RowLine
<1>7. CASE l.kind = "step"
  BY <1>7, StepLine
<1>8. CASE \/ l.kind \notin HeaderKinds \cup {"feature", "tags", "examples", "row", "step"}
           \/ l.kind = "row" /\ ~p.inExamples
  BY <1>8, OtherLine
<1>9. QED
  BY <1>1, <1>2, <1>3, <1>4, <1>5, <1>6, <1>7, <1>8 DEF HeaderKinds

-----------------------------------------------------------------------------
(* A text without lines. *)
LEMMA NothingRead ==
    DocumentIs(<< >>, EmptyParser)
<1>1. PICK text \in Seq(TextLines) : text = << >> /\ Len(text) = 0 /\ DOMAIN text = {}
  <2>1. << >> \in Seq(TextLines) /\ Len(<< >>) = 0 /\ DOMAIN << >> = {}
    OBVIOUS
  <2>2. QED BY <2>1
<1>2. \A T : \A s \in Seq(T) : DOMAIN s = {} => Kept(s, {}) = << >>
  <2>1. SUFFICES ASSUME NEW T, NEW s \in Seq(T), DOMAIN s = {} PROVE Kept(s, {}) = << >>
    OBVIOUS
  <2>2. Kept(s, {}) \in Seq(T) /\ Len(Kept(s, {})) = Cardinality({})
    BY KeptEntries
  <2>3. QED BY <2>2, FS_EmptySet, EmptySeq
<1>3. Starts(text) = << >>
  <2>1. ScenarioStarts(text) = {}
    BY <1>1 DEF ScenarioStarts
  <2>2. QED BY <1>1, <1>2, <2>1 DEF Starts
<1>4. Ids(text, {}) = << >>
  <2>1. PICK ids : ids = [i \in DOMAIN text |-> text[i].id]
    OBVIOUS
  <2>2. ids = << >>
    BY <1>1, <2>1
  <2>3. ids \in Seq(Nat) /\ DOMAIN ids = {}
    BY <2>2
  <2>4. Kept(ids, {}) = << >>
    BY <1>2, <2>3
  <2>5. QED BY <2>1, <2>4 DEF Ids
<1>5. BackgroundSteps(text) = << >>
  <2>1. {n \in DOMAIN text : text[n].kind = "step" /\ IsInBackground(text, n)} = {}
    BY <1>1
  <2>2. QED BY <1>4, <2>1 DEF BackgroundSteps
<1>6. Pending(text) = << >>
  <2>1. {j \in 1..0 : text[j].kind = "tags"} = {}
    OBVIOUS
  <2>2. LastTags(text, 1, 0) = << >>
    BY <2>1 DEF LastTags
  <2>3. QED BY <1>1, <1>3, <2>2 DEF Pending
<1>7. \A kinds : LastLine(text, kinds, 0) = 0
  <2>1. SUFFICES ASSUME NEW kinds PROVE LastLine(text, kinds, 0) = 0
    OBVIOUS
  <2>2. LastLine(text, kinds, 0) \in 0..0
    BY LastIs
  <2>3. QED BY <2>2
<1>8. /\ IsOpen(text) = FALSE /\ IsInTable(text, 0) = FALSE /\ IsInBackground(text, 0) = FALSE
  BY <1>1, <1>7 DEF IsOpen, Header, IsInTable, IsInBackground
<1>9. PICK p : p = EmptyParser
  OBVIOUS
<1>10. /\ p \in Parsers /\ p.scenarios = << >> /\ p.current = << >> /\ p.table = << >>
       /\ p.pendingTags = << >> /\ p.background = << >>
       /\ p.inBackground = FALSE /\ p.inExamples = FALSE
  <2>1. << >> \in Seq(Nat) /\ << >> \in Seq(Scenarios) /\ 0 \in Nat
    OBVIOUS
  <2>2. QED BY <1>9, <2>1 DEF EmptyParser, NoTitle, Parsers
<1>11. Len(<< >>) = 0 /\ DOMAIN << >> = {}
  OBVIOUS
<1>12. OpenAsWritten(text, p)
  BY <1>3, <1>8, <1>10, <1>11 DEF OpenAsWritten
<1>13. TablesAsWritten(text, p)
  BY <1>1, <1>8, <1>10, <1>11 DEF TablesAsWritten
<1>14. ScenariosAre(text, p)
  BY <1>5, <1>6, <1>10, <1>11, <1>12, <1>13 DEF ScenariosAre
<1>15. QED BY <1>1, <1>8, <1>9, <1>10, <1>14 DEF DocumentIs

(* The lines are numbered, and the parser's variables say what is written. *)
GherkinInv == lines \in Seq(TextLines) /\ Numbered(lines) /\ DocumentIs(lines, parser)

(* The empty text is what the parser starts with. *)
LEMMA GherkinStart == GherkinInit => GherkinInv
<1>1. SUFFICES ASSUME GherkinInit PROVE GherkinInv
  OBVIOUS
<1>2. lines = << >> /\ parser = EmptyParser
  BY <1>1 DEF GherkinInit
<1>3. << >> \in Seq(TextLines) /\ DOMAIN << >> = {}
  OBVIOUS
<1>4. Numbered(lines)
  BY <1>2, <1>3 DEF Numbered
<1>5. QED BY <1>2, <1>3, <1>4, NothingRead DEF GherkinInv

(* A text and the same text with the next line. *)
LEMMA WithLine ==
    ASSUME NEW text \in Seq(TextLines), Numbered(text), NEW kind \in LineKinds,
           NEW l, l = Line(kind, Len(text) + 1), NEW longer, longer = Append(text, l)
    PROVE  Grows(longer, text, l, Len(text)) /\ longer \in Seq(TextLines) /\ Numbered(longer)
<1>1. PICK n \in Nat : n = Len(text) /\ DOMAIN text = 1..n
  BY LenProperties
<1>2. l \in TextLines /\ l.id = n + 1
  BY <1>1 DEF Line, TextLines
<1>3. /\ longer \in Seq(TextLines) /\ Len(longer) = n + 1 /\ longer[n + 1] = l
      /\ \A k \in 1..n : longer[k] = text[k]
  BY <1>1, <1>2, AppendProperties
<1>4. DOMAIN longer = 1..(n + 1)
  BY <1>3, LenProperties
<1>5. Numbered(longer)
  <2>1. SUFFICES ASSUME NEW i \in 1..(n + 1) PROVE longer[i].id = i
    BY <1>4 DEF Numbered
  <2>2. CASE i = n + 1
    BY <1>2, <1>3, <2>2
  <2>3. CASE i # n + 1
    <3>1. i \in 1..n
      BY <2>1, <2>3
    <3>2. QED BY <1>1, <1>3, <3>1 DEF Numbered
  <2>4. QED BY <2>2, <2>3
<1>6. QED BY <1>1, <1>2, <1>3, <1>4, <1>5 DEF Grows

(* Reading a line keeps the invariant. *)
LEMMA GherkinStep == GherkinInv /\ [GherkinNext]_gherkinVars => GherkinInv'
<1>1. SUFFICES ASSUME GherkinInv, [GherkinNext]_gherkinVars PROVE GherkinInv'
  OBVIOUS
<1>2. CASE UNCHANGED gherkinVars
  BY <1>1, <1>2 DEF GherkinInv, gherkinVars, DocumentIs, ScenariosAre, OpenAsWritten,
     TablesAsWritten
<1>3. ASSUME NEW kind \in LineKinds, ReadLine(kind)
      PROVE  GherkinInv'
  <2>1. PICK l : l = Line(kind, Len(lines) + 1)
    OBVIOUS
  <2>2. PICK longer, q : longer = lines' /\ q = parser'
    OBVIOUS
  <2>3. longer = Append(lines, l) /\ q = Read(parser, l)
    BY <1>3, <2>1, <2>2 DEF ReadLine
  <2>4. Grows(longer, lines, l, Len(lines)) /\ longer \in Seq(TextLines) /\ Numbered(longer)
    BY <1>1, <2>1, <2>3, WithLine DEF GherkinInv
  <2>5. DocumentIs(longer, q)
    BY <1>1, <2>3, <2>4, AnyLine DEF GherkinInv
  <2>6. GherkinInv' = (longer \in Seq(TextLines) /\ Numbered(longer) /\ DocumentIs(longer, q))
    BY <2>2 DEF GherkinInv
  <2>7. QED BY <2>4, <2>5, <2>6
<1>4. QED BY <1>1, <1>2, <1>3 DEF GherkinNext

(* What the parser holds after any text is what the text says, by position. *)
THEOREM GherkinCorrect == GherkinSpec => []GherkinInv
BY GherkinStart, GherkinStep, PTL DEF GherkinSpec

(* A step the validator finds in a scenario's block is one of its steps. *)
LEMMA BlockHasSteps ==
    ASSUME NEW text \in Seq(TextLines), Numbered(text),
           \A i \in DOMAIN text, s \in ScenarioStarts(text) : text[i].kind = "background" => i < s,
           NEW i \in ScenarioStarts(text), "step" \in Block(text, i)
    PROVE  StepsUnder(text, i) # << >>
<1>1. PICK n \in Nat : n = Len(text) /\ DOMAIN text = 1..n
  BY LenProperties
<1>2. i \in 1..n /\ text[i].kind \in ScenarioKinds
  BY <1>1 DEF ScenarioStarts
<1>3. PICK later : later = {j \in ScenarioStarts(text) : j > i}
  OBVIOUS
<1>4. PICK last : last = IF later = {} THEN Len(text) ELSE Min(later) - 1
  OBVIOUS
<1>5. last \in Nat /\ last <= n /\ \A j \in later : last < j
  <2>1. CASE later = {}
    BY <1>1, <1>4, <2>1
  <2>2. CASE later # {}
    <3>1. later \in SUBSET Nat
      BY <1>1, <1>3 DEF ScenarioStarts
    <3>2. PICK x \in later : \A y \in later : x <= y
      BY <2>2, <3>1, Smallest
    <3>3. Min(later) \in later /\ \A y \in later : Min(later) <= y
      BY <3>2 DEF Min
    <3>4. PICK x1 \in later : x1 = Min(later) /\ \A y \in later : x1 <= y
      BY <3>3
    <3>5. last = x1 - 1
      BY <1>4, <2>2, <3>4
    <3>6. x1 \in 1..n
      BY <1>1, <1>3 DEF ScenarioStarts
    <3>7. QED BY <3>1, <3>4, <3>5, <3>6
  <2>3. QED BY <2>1, <2>2
<1>6. PICK m \in (i + 1)..last : text[m].kind = "step"
  <2>1. Block(text, i) = {text[k].kind : k \in (i + 1)..last}
    BY <1>3, <1>4 DEF Block
  <2>2. QED BY <2>1
<1>7. m \in 1..n /\ i < m /\ m \in Nat /\ m <= last
  BY <1>2, <1>5, <1>6
<1>8. \A j \in 1..m : text[j].kind \in HeaderKinds => j <= i
  <2>1. SUFFICES ASSUME NEW j \in 1..m, text[j].kind \in HeaderKinds, ~(j <= i) PROVE FALSE
    OBVIOUS
  <2>2. j \in 1..n /\ j > i
    BY <1>2, <1>7, <2>1
  <2>3. CASE text[j].kind \in ScenarioKinds
    <3>1. j \in later
      BY <1>1, <1>3, <2>2, <2>3 DEF ScenarioStarts
    <3>2. QED BY <1>5, <1>7, <3>1
  <2>4. CASE text[j].kind = "background"
    <3>1. j < i
      BY <1>1, <2>2, <2>4
    <3>2. QED BY <1>2, <2>2, <3>1
  <2>5. QED BY <2>1, <2>3, <2>4 DEF HeaderKinds
<1>9. LastLine(text, HeaderKinds, m) = i
  <2>1. text[i].kind \in HeaderKinds /\ i \in 0..m
    BY <1>2, <1>7 DEF HeaderKinds
  <2>2. QED BY <1>7, <1>8, <2>1, LastIsOnly
<1>10. PICK S : S = {k \in DOMAIN text : IsStepUnder(text, k, i)}
  OBVIOUS
<1>11. m \in S /\ S \in SUBSET DOMAIN text
  BY <1>1, <1>6, <1>7, <1>9, <1>10 DEF IsStepUnder
<1>12. PICK ids \in Seq(Nat) : ids = [k \in DOMAIN text |-> text[k].id] /\ DOMAIN ids = DOMAIN text
  <2>1. \A k \in 1..n : text[k].id \in Nat
    <3>1. \A k \in 1..n : text[k] \in TextLines
      BY <1>1, ElementOfSeq
    <3>2. QED BY <3>1 DEF TextLines
  <2>2. [k \in 1..n |-> text[k].id] \in Seq(Nat)
    BY <2>1
  <2>3. QED BY <1>1, <2>2
<1>13. Len(Kept(ids, S)) = Cardinality(S) /\ Kept(ids, S) \in Seq(Nat)
  BY <1>11, <1>12, KeptEntries
<1>14. Cardinality(S) # 0
  <2>1. IsFiniteSet(S)
    BY <1>11, <1>12, PlacesFinite
  <2>2. QED BY <1>11, <2>1, FS_EmptySet
<1>15. StepsUnder(text, i) = Kept(ids, S)
  BY <1>10, <1>12 DEF StepsUnder, Ids
<1>16. QED BY <1>13, <1>14, <1>15

(* The second half of it: every scenario of a valid file has steps. *)
LEMMA ValidHasSteps ==
    ASSUME GherkinInv, NEW c, ClosedAre(lines, c), validateGherkin(lines), BackgroundFirst,
           NEW k \in DOMAIN c.scenarios
    PROVE  c.scenarios[k].steps # << >>
<1>1. lines \in Seq(TextLines) /\ Numbered(lines)
  BY DEF GherkinInv
<1>2. PICK i : i = c.scenarios[k].title
  OBVIOUS
<1>3. c.scenarios[k].steps = StepsUnder(lines, i) /\ i = Starts(lines)[k].id
  BY <1>2 DEF ClosedAre, IsAsWritten
<1>4. k \in DOMAIN Starts(lines)
  <2>1. c.scenarios \in Seq(Scenarios) /\ Len(c.scenarios) = Len(Starts(lines))
    BY DEF ClosedAre, Parsers
  <2>2. Starts(lines) \in Seq(TextLines)
    BY <1>1, StartIs
  <2>3. PICK m \in Nat : m = Len(c.scenarios) /\ DOMAIN c.scenarios = 1..m /\ DOMAIN Starts(lines) = 1..m
    BY <2>1, <2>2, LenProperties
  <2>4. QED BY <2>3
<1>5. i \in ScenarioStarts(lines)
  <2>1. i \in DOMAIN lines /\ lines[i] = Starts(lines)[k] /\ Starts(lines)[k].kind \in ScenarioKinds
    BY <1>1, <1>3, <1>4, StartIs
  <2>2. QED BY <2>1 DEF ScenarioStarts
<1>6. "step" \in Block(lines, i)
  BY <1>5 DEF validateGherkin
<1>7. QED BY <1>1, <1>3, <1>5, <1>6, BlockHasSteps DEF BackgroundFirst

(* The blocks of the parser are those of the text, and those of the validator. *)
LEMMA BlocksStay == GherkinInv => LinesStayInTheirBlock
<1>1. SUFFICES ASSUME GherkinInv PROVE LinesStayInTheirBlock
  OBVIOUS
<1>2. PICK c : c = Parsed
  OBVIOUS
<1>3. ClosedAre(lines, c)
  <2>1. lines \in Seq(TextLines) /\ ScenariosAre(lines, parser)
    BY <1>1 DEF GherkinInv, DocumentIs
  <2>2. QED BY <1>2, <2>1, Closing DEF Parsed
<1>4. DOMAIN c.scenarios = DOMAIN Starts(lines)
  <2>1. c.scenarios \in Seq(Scenarios) /\ Len(c.scenarios) = Len(Starts(lines))
    BY <1>3 DEF ClosedAre, Parsers
  <2>2. Starts(lines) \in Seq(TextLines)
    BY <1>1, StartIs DEF GherkinInv
  <2>3. PICK m \in Nat : m = Len(c.scenarios) /\ DOMAIN c.scenarios = 1..m /\ DOMAIN Starts(lines) = 1..m
    BY <2>1, <2>2, LenProperties
  <2>4. QED BY <2>3
<1>5. BlocksAsWritten
  BY <1>2, <1>3, <1>4 DEF BlocksAsWritten, ClosedAre
<1>6. ExamplesInScenarios(lines) =>
          \A s \in Range(c.scenarios) : s.examples = RowsUnder(lines, s.title)
  BY <1>3 DEF ClosedAre, Range
<1>7. validateGherkin(lines) /\ BackgroundFirst =>
          \A s \in Range(c.scenarios) : s.steps # << >>
  <2>1. SUFFICES ASSUME validateGherkin(lines), BackgroundFirst, NEW k \in DOMAIN c.scenarios
                 PROVE  c.scenarios[k].steps # << >>
    BY DEF Range
  <2>2. QED BY <1>1, <1>3, <2>1, ValidHasSteps
<1>8. QED BY <1>2, <1>5, <1>6, <1>7 DEF LinesStayInTheirBlock

(* Every step, tag and row of a parsed file is where it was written, and a file
   the validator accepts has no scenario without steps. *)
THEOREM LinesStay == GherkinSpec => []LinesStayInTheirBlock
BY GherkinCorrect, BlocksStay, PTL

-----------------------------------------------------------------------------
(* The loop over the lines of a text, turn by turn. *)
After(f, p, text, n) == IF n = 0 THEN p ELSE Read(f[n - 1], text[n])

IsRun(f, p, text, n) == f = [k \in 0..n |-> After(f, p, text, k)]

(* There is a function of the values of the loop's variables after each
   line. *)
LEMMA TurnsExist ==
    ASSUME NEW p, NEW text, NEW n \in Nat
    PROVE  \E f : IsRun(f, p, text, n)
<1> DEFINE G == {m \in Nat : \E f : IsRun(f, p, text, m)}
<1>1. 0 \in G
  <2> DEFINE g == [k \in 0..0 |-> p]
  <2>1. \A k \in 0..0 : After(g, p, text, k) = p
    BY DEF After
  <2>2. g = [k \in 0..0 |-> After(g, p, text, k)]
    BY <2>1
  <2> HIDE DEF g
  <2>3. IsRun(g, p, text, 0)
    BY <2>2 DEF IsRun
  <2>4. QED BY <2>3
<1>2. ASSUME NEW m \in Nat, m \in G PROVE m + 1 \in G
  <2>1. PICK g : g = [k \in 0..m |-> After(g, p, text, k)]
    BY <1>2 DEF IsRun
  <2> DEFINE h == [k \in 0..(m + 1) |-> After(g, p, text, k)]
  <2>2. \A k \in 0..m : h[k] = g[k]
    BY <2>1
  <2> HIDE DEF h
  <2>3. \A k \in 0..(m + 1) : After(h, p, text, k) = After(g, p, text, k)
    <3>1. SUFFICES ASSUME NEW k \in 0..(m + 1)
                   PROVE  After(h, p, text, k) = After(g, p, text, k)
      OBVIOUS
    <3>2. CASE k = 0
      BY <3>2 DEF After
    <3>3. CASE k # 0
      <4>1. k - 1 \in 0..m
        BY <3>1, <3>3
      <4>2. h[k - 1] = g[k - 1]
        BY <2>2, <4>1
      <4>3. QED BY <4>2 DEF After
    <3>4. QED BY <3>2, <3>3
  <2>4. h = [k \in 0..(m + 1) |-> After(h, p, text, k)]
    BY <2>3 DEF h
  <2>5. IsRun(h, p, text, m + 1)
    BY <2>4 DEF IsRun
  <2>6. QED BY <2>5
<1> HIDE DEF G
<1>3. n \in G
  BY <1>1, <1>2, EveryNatural
<1>4. QED BY <1>3 DEF G

(* The variables after a text are the last of those values. *)
LEMMA ReadsAre ==
    ASSUME NEW p, NEW T, NEW text \in Seq(T), NEW n, n = Len(text)
    PROVE  \E f : IsRun(f, p, text, n) /\ Reads(p, text) = f[n]
<1>1. PICK m \in Nat : m = Len(text)
  BY LenProperties
<1>2. PICK f : f = CHOOSE g : IsRun(g, p, text, m)
  OBVIOUS
<1>3. IsRun(f, p, text, m)
  BY <1>2, TurnsExist
<1>4. Reads(p, text) = f[m]
  BY <1>1, <1>2 DEF Reads, After, IsRun
<1>5. QED BY <1>1, <1>3, <1>4

(* No line, one line more, and one text after the other. *)
LEMMA ReadsNone ==
    ASSUME NEW p
    PROVE  Reads(p, << >>) = p
<1>1. << >> \in Seq({}) /\ 0 = Len(<< >>)
  OBVIOUS
<1>2. PICK f : IsRun(f, p, << >>, 0) /\ Reads(p, << >>) = f[0]
  BY <1>1, ReadsAre
<1>3. f[0] = After(f, p, << >>, 0)
  BY <1>2 DEF IsRun
<1>4. QED BY <1>2, <1>3 DEF After

(* A text with a line more is read as the text and then the line. *)
LEMMA ReadsMore ==
    ASSUME NEW p, NEW T, NEW text \in Seq(T), NEW l \in T
    PROVE  Reads(p, Append(text, l)) = Read(Reads(p, text), l)
<1> DEFINE longer == Append(text, l)
<1>1. PICK n \in Nat : n = Len(text)
  BY LenProperties
<1>2. /\ longer \in Seq(T) /\ Len(longer) = n + 1 /\ longer[n + 1] = l
      /\ \A k \in 1..n : longer[k] = text[k]
  BY <1>1, AppendProperties
<1> HIDE DEF longer
<1>3. PICK f : IsRun(f, p, text, n) /\ Reads(p, text) = f[n]
  BY <1>1, ReadsAre
<1>4. PICK g : IsRun(g, p, longer, n + 1) /\ Reads(p, longer) = g[n + 1]
  BY <1>2, ReadsAre
<1>5. \A k \in 0..n : f[k] = After(f, p, text, k)
  BY <1>3 DEF IsRun
<1>6. \A k \in 0..(n + 1) : g[k] = After(g, p, longer, k)
  BY <1>4 DEF IsRun
<1> DEFINE G == {k \in Nat : k <= n => g[k] = f[k]}
<1>7. 0 \in G
  BY <1>5, <1>6 DEF After
<1>8. ASSUME NEW k \in Nat, k \in G PROVE k + 1 \in G
  <2>1. SUFFICES ASSUME k + 1 <= n PROVE g[k + 1] = f[k + 1]
    OBVIOUS
  <2>2. k + 1 \in 1..n /\ k + 1 # 0 /\ k + 1 \in 0..n /\ k + 1 \in 0..(n + 1) /\ (k + 1) - 1 = k
    BY <2>1
  <2>3. g[k] = f[k]
    BY <1>8, <2>1
  <2>4. g[k + 1] = Read(g[k], longer[k + 1]) /\ f[k + 1] = Read(f[k], text[k + 1])
    BY <1>5, <1>6, <2>2 DEF After
  <2>5. QED BY <1>2, <2>2, <2>3, <2>4
<1> HIDE DEF G
<1>9. n \in G
  BY <1>7, <1>8, EveryNatural
<1>10. g[n] = f[n]
  BY <1>9 DEF G
<1>11. g[n + 1] = Read(g[n], longer[n + 1])
  <2>1. n + 1 \in 0..(n + 1) /\ n + 1 # 0 /\ (n + 1) - 1 = n
    OBVIOUS
  <2>2. QED BY <1>6, <2>1 DEF After
<1>12. Reads(p, longer) = Read(Reads(p, text), l)
  BY <1>2, <1>3, <1>4, <1>10, <1>11
<1>13. QED BY <1>12 DEF longer

(* Two texts written one after the other are read one after the other. *)
LEMMA ReadsJoined ==
    ASSUME NEW p, NEW T, NEW first \in Seq(T), NEW second \in Seq(T)
    PROVE  Reads(p, first \o second) = Reads(Reads(p, first), second)
<1> DEFINE G == {u \in Seq(T) : Reads(p, first \o u) = Reads(Reads(p, first), u)}
<1>1. << >> \in G
  <2>1. << >> \in Seq(T) /\ first \o << >> = first
    BY EmptySeq, ConcatEmptySeq
  <2>2. QED BY <2>1, ReadsNone
<1>2. ASSUME NEW u \in Seq(T), NEW x \in T, u \in G PROVE Append(u, x) \in G
  <2>1. PICK v \in Seq(T), w \in Seq(T), v1 \in Seq(T) :
            v = first \o u /\ w = Append(u, x) /\ v1 = Append(v, x)
    BY AppendProperties, ConcatProperties
  <2>2. first \o w = v1
    BY <2>1
  <2>3. Reads(p, Append(v, x)) = Read(Reads(p, v), x)
    BY ReadsMore
  <2>4. Reads(Reads(p, first), Append(u, x)) = Read(Reads(Reads(p, first), u), x)
    BY ReadsMore
  <2>5. Reads(p, v) = Reads(Reads(p, first), u)
    BY <1>2, <2>1
  <2>6. Reads(p, first \o w) = Reads(Reads(p, first), w)
    BY <2>1, <2>2, <2>3, <2>4, <2>5
  <2>7. QED BY <2>1, <2>6
<1> HIDE DEF G
<1>3. second \in G
  BY <1>1, <1>2, EverySequence
<1>4. QED BY <1>3 DEF G

-----------------------------------------------------------------------------
(* What the writers write is read again.  Their lines: *)
WrittenKinds == HeaderKinds \cup {"feature", "tags", "step", "examples", "row"}
WrittenLines == [kind : WrittenKinds, id : Nat]

(* What a written line is. *)
LEMMA LineIs ==
    ASSUME NEW kind \in WrittenKinds, NEW i \in Nat
    PROVE  Line(kind, i) \in WrittenLines /\ Line(kind, i).kind = kind /\ Line(kind, i).id = i
BY DEF Line, WrittenLines

(* The lines written for a list, one for each of its entries. *)
LEMMA LinesAre ==
    ASSUME NEW kind \in WrittenKinds, NEW ids \in Seq(Nat), NEW n, n = Len(ids)
    PROVE  /\ LinesOf(kind, ids) \in Seq(WrittenLines)
           /\ Len(LinesOf(kind, ids)) = n
           /\ \A k \in 1..n : LinesOf(kind, ids)[k] = Line(kind, ids[k])
<1>1. PICK m \in Nat : m = n /\ DOMAIN ids = 1..m
  BY LenProperties
<1>2. \A k \in 1..m : Line(kind, ids[k]) \in WrittenLines
  BY <1>1, ElementOfSeq, LineIs
<1>3. LinesOf(kind, ids) = [k \in 1..m |-> Line(kind, ids[k])]
  BY <1>1 DEF LinesOf
<1>4. [k \in 1..m |-> Line(kind, ids[k])] \in Seq(WrittenLines)
  BY <1>2
<1>5. Len([k \in 1..m |-> Line(kind, ids[k])]) = m
  OBVIOUS
<1>6. QED BY <1>1, <1>3, <1>4, <1>5

(* Nothing is written for the empty list. *)
LEMMA NoLines ==
    ASSUME NEW kind \in WrittenKinds
    PROVE  LinesOf(kind, << >>) = << >>
<1>1. << >> \in Seq(Nat) /\ Len(<< >>) = 0
  OBVIOUS
<1>2. LinesOf(kind, << >>) \in Seq(WrittenLines) /\ Len(LinesOf(kind, << >>)) = 0
  BY <1>1, LinesAre
<1>3. QED BY <1>2, EmptySeq

(* An entry more is a line more. *)
LEMMA LinesWith ==
    ASSUME NEW kind \in WrittenKinds, NEW ids \in Seq(Nat), NEW i \in Nat
    PROVE  LinesOf(kind, Append(ids, i)) = Append(LinesOf(kind, ids), Line(kind, i))
<1>1. PICK n \in Nat : n = Len(ids)
  BY LenProperties
<1>2. PICK of : of = LinesOf(kind, ids)
  OBVIOUS
<1>3. of \in Seq(WrittenLines) /\ Len(of) = n /\ \A k \in 1..n : of[k] = Line(kind, ids[k])
  BY <1>1, <1>2, LinesAre
<1>4. PICK l \in WrittenLines : l = Line(kind, i)
  BY LineIs
<1>5. PICK more : more = Append(ids, i)
  OBVIOUS
<1>6. more \in Seq(Nat) /\ Len(more) = n + 1 /\ more[n + 1] = i /\ \A k \in 1..n : more[k] = ids[k]
  BY <1>1, <1>5, AppendProperties
<1>7. PICK all : all = Append(of, l)
  OBVIOUS
<1>8. all \in Seq(WrittenLines) /\ Len(all) = n + 1 /\ all[n + 1] = l /\ \A k \in 1..n : all[k] = of[k]
  BY <1>3, <1>4, <1>7, AppendProperties
<1>9. PICK both : both = LinesOf(kind, more)
  OBVIOUS
<1>10. /\ both \in Seq(WrittenLines) /\ Len(both) = n + 1
       /\ \A k \in 1..(n + 1) : both[k] = Line(kind, more[k])
  BY <1>6, <1>9, LinesAre
<1>11. \A k \in 1..(n + 1) : both[k] = all[k]
  <2>1. SUFFICES ASSUME NEW k \in 1..(n + 1) PROVE both[k] = all[k]
    OBVIOUS
  <2>2. CASE k = n + 1
    BY <1>4, <1>6, <1>8, <1>10, <2>2
  <2>3. CASE k # n + 1
    <3>1. k \in 1..n
      BY <2>1, <2>3
    <3>2. QED BY <1>3, <1>6, <1>8, <1>10, <3>1
  <2>4. QED BY <2>2, <2>3
<1>12. both = all
  BY <1>8, <1>10, <1>11, SeqEqual
<1>13. QED BY <1>2, <1>4, <1>5, <1>7, <1>9, <1>12

(* A text of one line is read as that line. *)
LEMMA ReadsOne ==
    ASSUME NEW p, NEW l \in WrittenLines
    PROVE  Reads(p, << l >>) = Read(p, l)
<1>1. << >> \in Seq(WrittenLines) /\ Append(<< >>, l) = << l >>
  OBVIOUS
<1>2. Reads(p, Append(<< >>, l)) = Read(Reads(p, << >>), l)
  BY <1>1, ReadsMore
<1>3. QED BY <1>1, <1>2, ReadsNone

(* The parser while it holds s, as far as these steps and rows. *)
Holds(q, p, closed, s, steps, rows, on) ==
    /\ q \in Parsers /\ q.title = p.title /\ q.background = p.background
    /\ q.scenarios = closed /\ q.pendingTags = << >> /\ q.table = rows
    /\ q.inBackground = FALSE /\ q.inExamples = on
    /\ Len(q.current) = 1 /\ q.current[1] \in Scenarios
    /\ q.current[1].title = s.title /\ q.current[1].tags = s.tags
    /\ q.current[1].isOutline = s.isOutline /\ q.current[1].steps = steps

(* A written step goes to the open scenario. *)
LEMMA HoldsStep ==
    ASSUME NEW q, NEW p, NEW closed, NEW s, NEW steps \in Seq(Nat), NEW rows, NEW i \in Nat,
           Holds(q, p, closed, s, steps, rows, FALSE)
    PROVE  Holds(Read(q, Line("step", i)), p, closed, s, Append(steps, i), rows, FALSE)
<1>1. PICK l : l = Line("step", i)
  OBVIOUS
<1>2. l.kind = "step" /\ l.id = i
  BY <1>1, LineIs DEF WrittenKinds
<1>3. q \in Parsers /\ q.current \in Seq(Scenarios) /\ Len(q.current) = 1 /\ q.inBackground = FALSE
  BY DEF Holds, Parsers
<1>4. q.current # << >> /\ DOMAIN q.current = {1}
  <2>1. q.current # << >>
    <3>1. Len(<< >>) = 0
      OBVIOUS
    <3>2. q.current = << >> => Len(q.current) = 0
      BY <3>1, Zenon
    <3>3. QED BY <1>3, <3>2
  <2>2. Len(q.current) <= 1
    BY <1>3
  <2>3. QED BY <1>3, <2>1, <2>2, AtMostOne
<1>5. PICK o \in Scenarios : o = q.current[1] /\ o.steps = steps
  BY DEF Holds
<1>6. PICK more \in Seq(Nat) : more = Append(steps, i)
  BY AppendProperties
<1>7. PICK x : x = [o EXCEPT !.steps = more]
  OBVIOUS
<1>8. /\ x \in Scenarios /\ x.title = o.title /\ x.isOutline = o.isOutline
      /\ x.tags = o.tags /\ x.steps = more
  BY <1>6, <1>7 DEF Scenarios
<1>9. PICK now : now = [q.current EXCEPT ![1] = x]
  OBVIOUS
<1>10. now = << x >>
  <2>1. q.current = [k \in {1} |-> q.current[k]]
    <3>1. q.current = [k \in DOMAIN q.current |-> q.current[k]]
      BY <1>3
    <3>2. QED BY <1>4, <3>1
  <2>2. now = [k \in {1} |-> x]
    BY <1>9, <2>1
  <2>3. << x >> = [k \in {1} |-> x]
    OBVIOUS
  <2>4. QED BY <2>2, <2>3
<1>11. now \in Seq(Scenarios) /\ Len(now) = 1 /\ now[1] = x
  BY <1>8, <1>10
<1>12. PICK r : r = Read(q, l)
  OBVIOUS
<1>13. r = [q EXCEPT !.inExamples = FALSE, !.current = now]
  <2>1. Read(q, l) = AddStep(q, l)
    BY <1>2, ReadIs
  <2>2. AddStep(q, l) = [[q EXCEPT !.inExamples = FALSE] EXCEPT !.current[1].steps = Append(@, l.id)]
    BY <1>3, <1>4 DEF AddStep
  <2>3. QED BY <1>2, <1>3, <1>5, <1>6, <1>7, <1>9, <1>12, <2>1, <2>2 DEF Parsers
<1>14. /\ r \in Parsers /\ r.title = q.title /\ r.background = q.background
       /\ r.scenarios = q.scenarios /\ r.pendingTags = q.pendingTags /\ r.table = q.table
       /\ r.inBackground = q.inBackground /\ r.inExamples = FALSE /\ r.current = now
  BY <1>3, <1>11, <1>13 DEF Parsers
<1>15. QED BY <1>1, <1>5, <1>6, <1>8, <1>11, <1>12, <1>14 DEF Holds

(* A written row goes to the table. *)
LEMMA HoldsRow ==
    ASSUME NEW q, NEW p, NEW closed, NEW s, NEW steps, NEW rows \in Seq(Nat), NEW i \in Nat,
           Holds(q, p, closed, s, steps, rows, TRUE)
    PROVE  Holds(Read(q, Line("row", i)), p, closed, s, steps, Append(rows, i), TRUE)
<1>1. PICK l : l = Line("row", i)
  OBVIOUS
<1>2. l.kind = "row" /\ l.id = i
  BY <1>1, LineIs DEF WrittenKinds
<1>3. q \in Parsers /\ q.inExamples = TRUE /\ q.table = rows
  BY DEF Holds
<1>4. PICK more \in Seq(Nat) : more = Append(rows, i)
  BY AppendProperties
<1>5. PICK r : r = Read(q, l)
  OBVIOUS
<1>6. r = [q EXCEPT !.table = more]
  <2>1. Read(q, l) = [q EXCEPT !.table = Append(@, l.id)]
    BY <1>2, <1>3, ReadIs
  <2>2. QED BY <1>2, <1>3, <1>4, <1>5, <2>1
<1>7. /\ r \in Parsers /\ r.title = q.title /\ r.background = q.background
      /\ r.scenarios = q.scenarios /\ r.pendingTags = q.pendingTags /\ r.table = more
      /\ r.inBackground = q.inBackground /\ r.inExamples = TRUE /\ r.current = q.current
  BY <1>3, <1>4, <1>6 DEF Parsers
<1>8. QED BY <1>1, <1>4, <1>5, <1>7 DEF Holds

(* The written Examples: line opens the table. *)
LEMMA HoldsExamples ==
    ASSUME NEW q, NEW p, NEW closed, NEW s, NEW steps, NEW rows,
           Holds(q, p, closed, s, steps, rows, FALSE)
    PROVE  Holds(Read(q, Line("examples", 0)), p, closed, s, steps, rows, TRUE)
<1>1. PICK l : l = Line("examples", 0)
  OBVIOUS
<1>2. l.kind = "examples"
  BY <1>1, LineIs DEF WrittenKinds
<1>3. q \in Parsers
  BY DEF Holds
<1>4. PICK r : r = Read(q, l)
  OBVIOUS
<1>5. r = [q EXCEPT !.inExamples = TRUE]
  BY <1>2, <1>4, ReadIs
<1>6. /\ r \in Parsers /\ r.title = q.title /\ r.background = q.background
      /\ r.scenarios = q.scenarios /\ r.pendingTags = q.pendingTags /\ r.table = q.table
      /\ r.inBackground = q.inBackground /\ r.inExamples = TRUE /\ r.current = q.current
  BY <1>3, <1>5 DEF Parsers
<1>7. QED BY <1>1, <1>4, <1>6 DEF Holds

(* All steps, then all rows. *)
LEMMA HoldsSteps ==
    ASSUME NEW q, NEW p, NEW closed, NEW s, NEW rows, NEW ids \in Seq(Nat),
           Holds(q, p, closed, s, << >>, rows, FALSE)
    PROVE  Holds(Reads(q, LinesOf("step", ids)), p, closed, s, ids, rows, FALSE)
<1> DEFINE G == {a \in Seq(Nat) :
                   Holds(Reads(q, LinesOf("step", a)), p, closed, s, a, rows, FALSE)}
<1>1. << >> \in G
  <2>1. << >> \in Seq(Nat) /\ LinesOf("step", << >>) = << >>
    BY NoLines, EmptySeq DEF WrittenKinds
  <2>2. Reads(q, << >>) = q
    BY ReadsNone
  <2>3. QED BY <2>1, <2>2
<1>2. ASSUME NEW a \in Seq(Nat), NEW i \in Nat, a \in G PROVE Append(a, i) \in G
  <2>1. "step" \in WrittenKinds
    BY DEF WrittenKinds
  <2>2. PICK of \in Seq(WrittenLines) : of = LinesOf("step", a)
    BY <2>1, LinesAre
  <2>3. PICK l \in WrittenLines : l = Line("step", i)
    BY <2>1, LineIs
  <2>4. LinesOf("step", Append(a, i)) = Append(of, l)
    BY <2>1, <2>2, <2>3, LinesWith
  <2>5. Reads(q, Append(of, l)) = Read(Reads(q, of), l)
    BY ReadsMore
  <2>6. Holds(Reads(q, of), p, closed, s, a, rows, FALSE)
    BY <1>2, <2>2
  <2>7. Holds(Read(Reads(q, of), l), p, closed, s, Append(a, i), rows, FALSE)
    BY <2>3, <2>6, HoldsStep
  <2>8. Append(a, i) \in Seq(Nat)
    BY AppendProperties
  <2>9. QED BY <2>4, <2>5, <2>7, <2>8
<1> HIDE DEF G
<1>3. ids \in G
  BY <1>1, <1>2, EverySequence
<1>4. QED BY <1>3 DEF G

(* Rows written for a list are the rows of the table. *)
LEMMA HoldsRows ==
    ASSUME NEW q, NEW p, NEW closed, NEW s, NEW steps, NEW ids \in Seq(Nat),
           Holds(q, p, closed, s, steps, << >>, TRUE)
    PROVE  Holds(Reads(q, LinesOf("row", ids)), p, closed, s, steps, ids, TRUE)
<1> DEFINE G == {a \in Seq(Nat) :
                   Holds(Reads(q, LinesOf("row", a)), p, closed, s, steps, a, TRUE)}
<1>1. << >> \in G
  <2>1. << >> \in Seq(Nat) /\ LinesOf("row", << >>) = << >>
    BY NoLines, EmptySeq DEF WrittenKinds
  <2>2. Reads(q, << >>) = q
    BY ReadsNone
  <2>3. QED BY <2>1, <2>2
<1>2. ASSUME NEW a \in Seq(Nat), NEW i \in Nat, a \in G PROVE Append(a, i) \in G
  <2>1. "row" \in WrittenKinds
    BY DEF WrittenKinds
  <2>2. PICK of \in Seq(WrittenLines) : of = LinesOf("row", a)
    BY <2>1, LinesAre
  <2>3. PICK l \in WrittenLines : l = Line("row", i)
    BY <2>1, LineIs
  <2>4. LinesOf("row", Append(a, i)) = Append(of, l)
    BY <2>1, <2>2, <2>3, LinesWith
  <2>5. Reads(q, Append(of, l)) = Read(Reads(q, of), l)
    BY ReadsMore
  <2>6. Holds(Reads(q, of), p, closed, s, steps, a, TRUE)
    BY <1>2, <2>2
  <2>7. Holds(Read(Reads(q, of), l), p, closed, s, steps, Append(a, i), TRUE)
    BY <2>3, <2>6, HoldsRow
  <2>8. Append(a, i) \in Seq(Nat)
    BY AppendProperties
  <2>9. QED BY <2>4, <2>5, <2>7, <2>8
<1> HIDE DEF G
<1>3. ids \in G
  BY <1>1, <1>2, EverySequence
<1>4. QED BY <1>3 DEF G

(* The parser between two scenarios: closed, it holds just these. *)
Ready(p, closed) ==
    /\ p \in Parsers /\ Len(p.current) <= 1
    /\ closeScenario(p).scenarios = closed
    /\ closeScenario(p).table = << >> /\ closeScenario(p).inExamples = FALSE

(* The written tags are pending, and leave everything else. *)
LEMMA ReadyWithTags ==
    ASSUME NEW p, NEW closed, Ready(p, closed), p.pendingTags = << >>,
           NEW tags \in Seq(Nat), Len(tags) <= 1,
           NEW q, q = Reads(p, LinesOf("tags", tags))
    PROVE  /\ Ready(q, closed) /\ q.pendingTags = tags
           /\ q.title = p.title /\ q.background = p.background
<1>1. "tags" \in WrittenKinds
  BY DEF WrittenKinds
<1>2. CASE tags = << >>
  <2>1. LinesOf("tags", tags) = << >>
    BY <1>1, <1>2, NoLines
  <2>2. q = p
    BY <2>1, ReadsNone
  <2>3. QED BY <1>2, <2>2
<1>3. CASE tags # << >>
  <2>1. Len(tags) = 1 /\ tags[1] \in Nat
    BY <1>3, AtMostOne
  <2>2. PICK t \in Nat : t = tags[1]
    BY <2>1
  <2>3. PICK l \in WrittenLines : l = Line("tags", t)
    BY <1>1, LineIs
  <2>4. l.kind = "tags" /\ l.id = t
    BY <1>1, <2>3, LineIs
  <2>5. PICK of : of = LinesOf("tags", tags)
    OBVIOUS
  <2>6. of \in Seq(WrittenLines) /\ Len(of) = 1 /\ of[1] = l
    <3>1. /\ of \in Seq(WrittenLines) /\ Len(of) = 1
          /\ \A k \in 1..1 : of[k] = Line("tags", tags[k])
      BY <1>1, <2>1, <2>5, LinesAre
    <3>2. QED BY <2>2, <2>3, <3>1
  <2>7. of = << l >>
    <3>1. << l >> \in Seq(WrittenLines) /\ Len(<< l >>) = 1 /\ << l >>[1] = l
      OBVIOUS
    <3>2. QED BY <2>6, <3>1, SeqEqual
  <2>8. tags = << t >>
    <3>1. << t >> \in Seq(Nat) /\ Len(<< t >>) = 1 /\ << t >>[1] = t
      OBVIOUS
    <3>2. QED BY <2>1, <2>2, <3>1, SeqEqual
  <2>9. q = Read(p, l)
    BY <2>5, <2>7, ReadsOne
  <2>10. q = [p EXCEPT !.inFeatureDesc = FALSE, !.pendingTags = << l.id >>]
    BY <2>4, <2>9, ReadIs
  <2>11. p \in Parsers /\ << l.id >> = tags /\ p.scenarios \in Seq(Scenarios) /\ Len(p.current) <= 1
    BY <2>4, <2>8 DEF Ready, Parsers
  <2>12. /\ q \in Parsers /\ q.pendingTags = tags /\ q.title = p.title
         /\ q.background = p.background /\ q.scenarios = p.scenarios
         /\ q.current = p.current /\ q.table = p.table /\ q.inExamples = p.inExamples
    BY <2>10, <2>11 DEF Parsers
  <2>13. PICK c, d : c = closeScenario(p) /\ d = closeScenario(q)
    OBVIOUS
  <2>14. c.scenarios = closed /\ c.table = << >> /\ c.inExamples = FALSE
    BY <2>13 DEF Ready
  <2>15. d.scenarios = c.scenarios /\ d.table = << >> /\ d.inExamples = FALSE
    <3>1. /\ p.current = << >> => c = p
          /\ p.current # << >> =>
                 c.scenarios = Append(p.scenarios, [p.current[1] EXCEPT !.examples = p.table])
      BY <2>11, <2>13, CloseIs
    <3>2. q \in Parsers /\ Len(q.current) <= 1
      BY <2>11, <2>12
    <3>3. /\ q.current = << >> => d = q
          /\ q.current # << >> =>
                 /\ d.scenarios = Append(q.scenarios, [q.current[1] EXCEPT !.examples = q.table])
                 /\ d.table = << >> /\ d.inExamples = FALSE
      BY <2>13, <3>2, CloseIs
    <3>4. CASE p.current = << >>
      BY <2>12, <2>14, <3>1, <3>3, <3>4
    <3>5. CASE p.current # << >>
      BY <2>12, <2>14, <3>1, <3>3, <3>5
    <3>6. QED BY <3>4, <3>5
  <2>16. QED BY <2>11, <2>12, <2>13, <2>14, <2>15 DEF Ready
<1>4. QED BY <1>2, <1>3

HeaderOf(s) == Line(IF s.isOutline THEN "outline" ELSE "scenario", s.title)

(* The written header opens a scenario with its title and the pending tags. *)
LEMMA HoldsHeader ==
    ASSUME NEW p, NEW closed, Ready(p, closed), NEW s \in Scenarios, p.pendingTags = s.tags
    PROVE  Holds(Read(p, HeaderOf(s)), p, closed, s, << >>, << >>, FALSE)
<1>1. PICK l : l = HeaderOf(s)
  OBVIOUS
<1>2. /\ l.kind \in ScenarioKinds /\ l.id = s.title /\ l.id \in Nat
      /\ (l.kind = "outline") = s.isOutline
  <2>1. s.isOutline \in BOOLEAN /\ s.title \in Nat
    BY DEF Scenarios
  <2>2. CASE s.isOutline = TRUE
    <3>1. l = Line("outline", s.title)
      BY <1>1, <2>2 DEF HeaderOf
    <3>2. l.kind = "outline" /\ l.id = s.title
      BY <2>1, <3>1, LineIs DEF WrittenKinds, HeaderKinds, ScenarioKinds
    <3>3. QED BY <2>1, <2>2, <3>2 DEF ScenarioKinds
  <2>3. CASE s.isOutline = FALSE
    <3>1. l = Line("scenario", s.title)
      BY <1>1, <2>3 DEF HeaderOf
    <3>2. l.kind = "scenario" /\ l.id = s.title
      BY <2>1, <3>1, LineIs DEF WrittenKinds, HeaderKinds, ScenarioKinds
    <3>3. (l.kind = "outline") = FALSE
      BY <3>2
    <3>4. QED BY <2>1, <2>3, <3>2, <3>3 DEF ScenarioKinds
  <2>4. QED BY <2>1, <2>2, <2>3
<1>3. PICK c : c = closeScenario(p)
  OBVIOUS
<1>4. p \in Parsers /\ Len(p.current) <= 1
  BY DEF Ready
<1>5. c \in Parsers /\ c.title = p.title /\ c.background = p.background
  BY <1>3, <1>4, CloseIs
<1>6. c.scenarios = closed /\ c.table = << >> /\ c.inExamples = FALSE
  BY <1>3 DEF Ready
<1>7. PICK x : x = [title |-> l.id, tags |-> p.pendingTags, steps |-> << >>,
                    isOutline |-> l.kind = "outline", examples |-> << >>]
  OBVIOUS
<1>8. << >> \in Seq(Nat) /\ (l.kind = "outline") \in BOOLEAN /\ p.pendingTags \in Seq(Nat)
  BY <1>4 DEF Parsers
<1>9. /\ x \in Scenarios /\ x.title = s.title /\ x.tags = s.tags /\ x.steps = << >>
      /\ x.isOutline = s.isOutline
  BY <1>2, <1>7, <1>8 DEF Scenarios
<1>10. PICK opened, none : opened = << x >> /\ none = << >>
  OBVIOUS
<1>11. opened \in Seq(Scenarios) /\ Len(opened) = 1 /\ opened[1] = x /\ none \in Seq(Nat)
  BY <1>8, <1>9, <1>10
<1>12. NewScenario(l, p.pendingTags) = opened
  BY <1>7, <1>10 DEF NewScenario
<1>13. PICK q : q = Read(p, l)
  OBVIOUS
<1>14. q = [c EXCEPT !.inFeatureDesc = FALSE, !.inBackground = FALSE,
                     !.current = opened, !.pendingTags = none]
  <2>1. q = OpenScenario(p, l)
    <3>1. l.kind \in ScenarioKinds
      BY <1>2
    <3>2. QED BY <1>13, <3>1, ReadIs
  <2>2. QED BY <1>3, <1>10, <1>12, <2>1 DEF OpenScenario
<1>15. /\ q \in Parsers /\ q.title = c.title /\ q.background = c.background
       /\ q.scenarios = c.scenarios /\ q.pendingTags = none /\ q.table = c.table
       /\ q.inBackground = FALSE /\ q.inExamples = c.inExamples /\ q.current = opened
  BY <1>5, <1>11, <1>14 DEF Parsers
<1>16. QED BY <1>1, <1>5, <1>6, <1>9, <1>10, <1>11, <1>13, <1>15 DEF Holds

(* A scenario held to its end is the scenario. *)
LEMMA SameScenario ==
    ASSUME NEW a \in Scenarios, NEW b \in Scenarios, a.title = b.title, a.tags = b.tags,
           a.steps = b.steps, a.isOutline = b.isOutline, a.examples = b.examples
    PROVE  a = b
<1>1. a = [title |-> a.title, tags |-> a.tags, steps |-> a.steps,
           isOutline |-> a.isOutline, examples |-> a.examples]
  BY DEF Scenarios
<1>2. b = [title |-> b.title, tags |-> b.tags, steps |-> b.steps,
           isOutline |-> b.isOutline, examples |-> b.examples]
  BY DEF Scenarios
<1>3. QED BY <1>1, <1>2

(* The scenario that is held in full is the one that closing it adds. *)
LEMMA HeldToTheEnd ==
    ASSUME NEW q, NEW p, NEW closed, NEW s \in Scenarios, NEW on,
           Holds(q, p, closed, s, s.steps, s.examples, on)
    PROVE  /\ Ready(q, Append(closed, s)) /\ q.pendingTags = << >>
           /\ q.title = p.title /\ q.background = p.background
<1>1. /\ q \in Parsers /\ Len(q.current) = 1 /\ q.current[1] \in Scenarios
      /\ q.scenarios = closed /\ q.table = s.examples
  BY DEF Holds
<1>2. q.current # << >>
  <2>1. Len(<< >>) = 0
    OBVIOUS
  <2>2. q.current = << >> => Len(q.current) = 0
    BY <2>1, Zenon
  <2>3. QED BY <1>1, <2>2
<1>3. PICK c : c = closeScenario(q)
  OBVIOUS
<1>4. Len(q.current) <= 1
  BY <1>1
<1>5. /\ c.scenarios = Append(closed, [q.current[1] EXCEPT !.examples = q.table])
      /\ c.table = << >> /\ c.inExamples = FALSE
  BY <1>1, <1>2, <1>3, <1>4, CloseIs
<1>6. [q.current[1] EXCEPT !.examples = q.table] = s
  <2>1. PICK o \in Scenarios : o = q.current[1]
    BY <1>1
  <2>2. /\ o.title = s.title /\ o.tags = s.tags /\ o.isOutline = s.isOutline
        /\ o.steps = s.steps
    BY <2>1 DEF Holds
  <2>3. s.examples \in Seq(Nat)
    BY DEF Scenarios
  <2>4. PICK x : x = [o EXCEPT !.examples = s.examples]
    OBVIOUS
  <2>5. /\ x \in Scenarios /\ x.examples = s.examples /\ x.title = o.title /\ x.tags = o.tags
        /\ x.steps = o.steps /\ x.isOutline = o.isOutline
    BY <2>3, <2>4, WithExamples
  <2>6. x = s
    BY <2>2, <2>5, SameScenario
  <2>7. QED BY <1>1, <2>1, <2>4, <2>6
<1>7. QED BY <1>1, <1>3, <1>4, <1>5, <1>6 DEF Ready, Holds

(* The lines of one scenario, read after others. *)
Tagged == {s \in Scenarios : Len(s.tags) <= 1}

TableText(s) ==
    IF s.examples = << >> THEN << >>
    ELSE << Line("examples", 0) >> \o LinesOf("row", s.examples)

(* The parts a scenario's text is made of. *)
LEMMA ScenarioTextIs ==
    ASSUME NEW s \in Scenarios
    PROVE  /\ ScenarioText(s) = ((LinesOf("tags", s.tags) \o << HeaderOf(s) >>)
                                   \o LinesOf("step", s.steps)) \o TableText(s)
           /\ LinesOf("tags", s.tags) \in Seq(WrittenLines)
           /\ << HeaderOf(s) >> \in Seq(WrittenLines) /\ HeaderOf(s) \in WrittenLines
           /\ LinesOf("step", s.steps) \in Seq(WrittenLines)
           /\ TableText(s) \in Seq(WrittenLines)
           /\ ScenarioText(s) \in Seq(WrittenLines)
<1>1. /\ s.tags \in Seq(Nat) /\ s.steps \in Seq(Nat) /\ s.examples \in Seq(Nat)
      /\ s.title \in Nat /\ s.isOutline \in BOOLEAN
  BY DEF Scenarios
<1>2. /\ "tags" \in WrittenKinds /\ "step" \in WrittenKinds /\ "row" \in WrittenKinds
      /\ "examples" \in WrittenKinds /\ "outline" \in WrittenKinds /\ "scenario" \in WrittenKinds
  BY DEF WrittenKinds, HeaderKinds, ScenarioKinds
<1>3. LinesOf("tags", s.tags) \in Seq(WrittenLines) /\ LinesOf("step", s.steps) \in Seq(WrittenLines)
  BY <1>1, <1>2, LinesAre
<1>4. HeaderOf(s) \in WrittenLines
  <2>1. Line("outline", s.title) \in WrittenLines /\ Line("scenario", s.title) \in WrittenLines
    BY <1>1, <1>2, LineIs
  <2>2. QED BY <1>1, <2>1 DEF HeaderOf
<1>5. << HeaderOf(s) >> \in Seq(WrittenLines)
  BY <1>4
<1>6. TableText(s) \in Seq(WrittenLines)
  <2>1. PICK rows \in Seq(WrittenLines) : rows = LinesOf("row", s.examples)
    BY <1>1, <1>2, LinesAre
  <2>2. PICK e \in WrittenLines : e = Line("examples", 0)
    BY <1>2, LineIs
  <2>3. << e >> \in Seq(WrittenLines) /\ << >> \in Seq(WrittenLines)
    OBVIOUS
  <2>4. << e >> \o rows \in Seq(WrittenLines)
    BY <2>1, <2>3, ConcatProperties
  <2>5. QED BY <2>1, <2>2, <2>3, <2>4 DEF TableText
<1>7. ScenarioText(s) = ((LinesOf("tags", s.tags) \o << HeaderOf(s) >>)
                            \o LinesOf("step", s.steps)) \o TableText(s)
  BY DEF ScenarioText, HeaderOf, TableText
<1>8. ScenarioText(s) \in Seq(WrittenLines)
  <2>1. PICK a \in Seq(WrittenLines), b \in Seq(WrittenLines), c \in Seq(WrittenLines),
             d \in Seq(WrittenLines) :
            /\ a = LinesOf("tags", s.tags) /\ b = << HeaderOf(s) >>
            /\ c = LinesOf("step", s.steps) /\ d = TableText(s)
    BY <1>3, <1>5, <1>6
  <2>2. a \o b \in Seq(WrittenLines)
    BY ConcatProperties
  <2>3. (a \o b) \o c \in Seq(WrittenLines)
    BY <2>2, ConcatProperties
  <2>4. ((a \o b) \o c) \o d \in Seq(WrittenLines)
    BY <2>3, ConcatProperties
  <2>5. QED BY <1>7, <2>1, <2>4
<1>9. QED BY <1>3, <1>4, <1>5, <1>6, <1>7, <1>8

(* A written scenario is read as the scenario it was written from. *)
LEMMA ReadsScenario ==
    ASSUME NEW p, NEW closed, Ready(p, closed), p.pendingTags = << >>, NEW s \in Tagged,
           NEW q, q = Reads(p, ScenarioText(s))
    PROVE  /\ Ready(q, Append(closed, s)) /\ q.pendingTags = << >>
           /\ q.title = p.title /\ q.background = p.background
<1>1. /\ s \in Scenarios /\ Len(s.tags) <= 1 /\ s.tags \in Seq(Nat) /\ s.steps \in Seq(Nat)
      /\ s.examples \in Seq(Nat)
  BY DEF Tagged, Scenarios
<1>2. PICK a \in Seq(WrittenLines), b \in Seq(WrittenLines), c \in Seq(WrittenLines),
           d \in Seq(WrittenLines) :
          /\ a = LinesOf("tags", s.tags) /\ b = << HeaderOf(s) >>
          /\ c = LinesOf("step", s.steps) /\ d = TableText(s)
  BY <1>1, ScenarioTextIs
<1>3. ScenarioText(s) = ((a \o b) \o c) \o d
  BY <1>1, <1>2, ScenarioTextIs
<1>4. q = Reads(Reads(Reads(Reads(p, a), b), c), d)
  <2>1. PICK ab \in Seq(WrittenLines), abc \in Seq(WrittenLines) : ab = a \o b /\ abc = ab \o c
    BY ConcatProperties
  <2>2. Reads(p, abc \o d) = Reads(Reads(p, abc), d)
    BY ReadsJoined
  <2>3. Reads(p, ab \o c) = Reads(Reads(p, ab), c)
    BY ReadsJoined
  <2>4. Reads(p, a \o b) = Reads(Reads(p, a), b)
    BY ReadsJoined
  <2>5. QED BY <1>3, <2>1, <2>2, <2>3, <2>4
<1>5. PICK q1 : q1 = Reads(p, a)
  OBVIOUS
<1>6. /\ Ready(q1, closed) /\ q1.pendingTags = s.tags /\ q1.title = p.title
      /\ q1.background = p.background
  BY <1>1, <1>2, <1>5, ReadyWithTags
<1>7. PICK q2 : q2 = Reads(q1, b)
  OBVIOUS
<1>8. Holds(q2, q1, closed, s, << >>, << >>, FALSE)
  <2>1. HeaderOf(s) \in WrittenLines
    BY <1>1, ScenarioTextIs
  <2>2. q2 = Read(q1, HeaderOf(s))
    BY <1>2, <1>7, <2>1, ReadsOne
  <2>3. QED BY <1>1, <1>6, <2>2, HoldsHeader
<1>9. PICK q3 : q3 = Reads(q2, c)
  OBVIOUS
<1>10. Holds(q3, q1, closed, s, s.steps, << >>, FALSE)
  BY <1>1, <1>2, <1>8, <1>9, HoldsSteps
<1>11. q = Reads(q3, d)
  BY <1>4, <1>5, <1>7, <1>9
<1>12. \E on : Holds(q, q1, closed, s, s.steps, s.examples, on)
  <2>1. CASE s.examples = << >>
    <3>1. d = << >>
      BY <1>2, <2>1 DEF TableText
    <3>2. q = q3
      BY <1>11, <3>1, ReadsNone
    <3>3. QED BY <1>10, <2>1, <3>2
  <2>2. CASE s.examples # << >>
    <3>1. PICK e \in WrittenLines : e = Line("examples", 0)
      BY LineIs DEF WrittenKinds
    <3>2. PICK rows \in Seq(WrittenLines) : rows = LinesOf("row", s.examples)
      BY <1>1, LinesAre DEF WrittenKinds
    <3>3. PICK es : es = << e >>
      OBVIOUS
    <3>4. es \in Seq(WrittenLines)
      BY <3>3
    <3>5. Reads(q3, es \o rows) = Reads(Reads(q3, es), rows)
      BY <3>4, ReadsJoined
    <3>6. PICK q4 : q4 = Read(q3, e)
      OBVIOUS
    <3>7. q = Reads(q4, rows)
      <4>1. d = es \o rows
        BY <1>2, <2>2, <3>1, <3>2, <3>3 DEF TableText
      <4>2. Reads(q3, es) = q4
        BY <3>3, <3>6, ReadsOne
      <4>3. QED BY <1>11, <3>5, <4>1, <4>2
    <3>8. Holds(q4, q1, closed, s, s.steps, << >>, TRUE)
      BY <1>10, <3>1, <3>6, HoldsExamples
    <3>9. Holds(q, q1, closed, s, s.steps, s.examples, TRUE)
      BY <1>1, <3>2, <3>7, <3>8, HoldsRows
    <3>10. QED BY <3>9
  <2>3. QED BY <2>1, <2>2
<1>13. QED BY <1>1, <1>6, <1>12, HeldToTheEnd

-----------------------------------------------------------------------------
(* Texts put one after the other. *)
UpTo(f, texts, k) == IF k = 0 THEN << >> ELSE f[k - 1] \o texts[k]
IsJoin(f, texts, n) == f = [k \in 0..n |-> UpTo(f, texts, k)]

(* There is a function of the texts joined up to each place. *)
LEMMA JoinsExist ==
    ASSUME NEW texts, NEW n \in Nat
    PROVE  \E f : IsJoin(f, texts, n)
<1> DEFINE G == {m \in Nat : \E f : IsJoin(f, texts, m)}
<1>1. 0 \in G
  <2> DEFINE g == [k \in 0..0 |-> << >>]
  <2>1. \A k \in 0..0 : UpTo(g, texts, k) = << >>
    BY DEF UpTo
  <2>2. g = [k \in 0..0 |-> UpTo(g, texts, k)]
    BY <2>1
  <2> HIDE DEF g
  <2>3. IsJoin(g, texts, 0)
    BY <2>2 DEF IsJoin
  <2>4. QED BY <2>3
<1>2. ASSUME NEW m \in Nat, m \in G PROVE m + 1 \in G
  <2>1. PICK g : g = [k \in 0..m |-> UpTo(g, texts, k)]
    BY <1>2 DEF IsJoin
  <2> DEFINE h == [k \in 0..(m + 1) |-> UpTo(g, texts, k)]
  <2>2. \A k \in 0..m : h[k] = g[k]
    BY <2>1
  <2> HIDE DEF h
  <2>3. \A k \in 0..(m + 1) : UpTo(h, texts, k) = UpTo(g, texts, k)
    <3>1. SUFFICES ASSUME NEW k \in 0..(m + 1) PROVE UpTo(h, texts, k) = UpTo(g, texts, k)
      OBVIOUS
    <3>2. CASE k = 0
      BY <3>2 DEF UpTo
    <3>3. CASE k # 0
      <4>1. k - 1 \in 0..m
        BY <3>1, <3>3
      <4>2. h[k - 1] = g[k - 1]
        BY <2>2, <4>1
      <4>3. QED BY <4>2 DEF UpTo
    <3>4. QED BY <3>2, <3>3
  <2>4. h = [k \in 0..(m + 1) |-> UpTo(h, texts, k)]
    BY <2>3 DEF h
  <2>5. IsJoin(h, texts, m + 1)
    BY <2>4 DEF IsJoin
  <2>6. QED BY <2>5
<1> HIDE DEF G
<1>3. n \in G
  BY <1>1, <1>2, EveryNatural
<1>4. QED BY <1>3 DEF G

(* The joined texts are the last of its values. *)
LEMMA JoinedIs ==
    ASSUME NEW T, NEW texts \in Seq(T), NEW n, n = Len(texts)
    PROVE  \E f : IsJoin(f, texts, n) /\ Joined(texts) = f[n]
<1>1. PICK m \in Nat : m = Len(texts)
  BY LenProperties
<1>2. PICK f : f = CHOOSE g : IsJoin(g, texts, m)
  OBVIOUS
<1>3. IsJoin(f, texts, m)
  BY <1>2, JoinsExist
<1>4. Joined(texts) = f[m]
  BY <1>1, <1>2 DEF Joined, UpTo, IsJoin
<1>5. QED BY <1>1, <1>3, <1>4

(* No texts joined are the empty text. *)
LEMMA JoinedNone == Joined(<< >>) = << >>
<1>1. << >> \in Seq({}) /\ 0 = Len(<< >>)
  OBVIOUS
<1>2. PICK f : IsJoin(f, << >>, 0) /\ Joined(<< >>) = f[0]
  BY <1>1, JoinedIs
<1>3. f[0] = UpTo(f, << >>, 0)
  BY <1>2 DEF IsJoin
<1>4. QED BY <1>2, <1>3 DEF UpTo

(* A text more is written at the end. *)
LEMMA JoinedMore ==
    ASSUME NEW T, NEW texts \in Seq(T), NEW t \in T
    PROVE  Joined(Append(texts, t)) = Joined(texts) \o t
<1> DEFINE longer == Append(texts, t)
<1>1. PICK n \in Nat : n = Len(texts)
  BY LenProperties
<1>2. /\ longer \in Seq(T) /\ Len(longer) = n + 1 /\ longer[n + 1] = t
      /\ \A k \in 1..n : longer[k] = texts[k]
  BY <1>1, AppendProperties
<1> HIDE DEF longer
<1>3. PICK f : IsJoin(f, texts, n) /\ Joined(texts) = f[n]
  BY <1>1, JoinedIs
<1>4. PICK g : IsJoin(g, longer, n + 1) /\ Joined(longer) = g[n + 1]
  BY <1>2, JoinedIs
<1>5. \A k \in 0..n : f[k] = UpTo(f, texts, k)
  BY <1>3 DEF IsJoin
<1>6. \A k \in 0..(n + 1) : g[k] = UpTo(g, longer, k)
  BY <1>4 DEF IsJoin
<1> DEFINE G == {k \in Nat : k <= n => g[k] = f[k]}
<1>7. 0 \in G
  BY <1>5, <1>6 DEF UpTo
<1>8. ASSUME NEW k \in Nat, k \in G PROVE k + 1 \in G
  <2>1. SUFFICES ASSUME k + 1 <= n PROVE g[k + 1] = f[k + 1]
    OBVIOUS
  <2>2. k + 1 \in 1..n /\ k + 1 # 0 /\ k + 1 \in 0..n /\ k + 1 \in 0..(n + 1) /\ (k + 1) - 1 = k
    BY <2>1
  <2>3. g[k] = f[k]
    BY <1>8, <2>1
  <2>4. g[k + 1] = g[k] \o longer[k + 1] /\ f[k + 1] = f[k] \o texts[k + 1]
    BY <1>5, <1>6, <2>2 DEF UpTo
  <2>5. QED BY <1>2, <2>2, <2>3, <2>4
<1> HIDE DEF G
<1>9. n \in G
  BY <1>7, <1>8, EveryNatural
<1>10. g[n] = f[n]
  BY <1>9 DEF G
<1>11. g[n + 1] = g[n] \o longer[n + 1]
  <2>1. n + 1 \in 0..(n + 1) /\ n + 1 # 0 /\ (n + 1) - 1 = n
    OBVIOUS
  <2>2. QED BY <1>6, <2>1 DEF UpTo
<1>12. Joined(longer) = Joined(texts) \o t
  BY <1>2, <1>3, <1>4, <1>10, <1>11
<1>13. QED BY <1>12 DEF longer

(* The lines of joined texts are lines of the texts. *)
LEMMA JoinedType ==
    ASSUME NEW T, NEW texts \in Seq(Seq(T))
    PROVE  Joined(texts) \in Seq(T)
<1> DEFINE G == {a \in Seq(Seq(T)) : Joined(a) \in Seq(T)}
<1>1. << >> \in G
  BY JoinedNone, EmptySeq
<1>2. ASSUME NEW a \in Seq(Seq(T)), NEW t \in Seq(T), a \in G PROVE Append(a, t) \in G
  <2>1. Joined(Append(a, t)) = Joined(a) \o t
    BY JoinedMore
  <2>2. Joined(a) \in Seq(T)
    BY <1>2
  <2>3. Joined(a) \o t \in Seq(T)
    BY <2>2, ConcatProperties
  <2>4. Append(a, t) \in Seq(Seq(T))
    BY AppendProperties
  <2>5. QED BY <2>1, <2>3, <2>4
<1> HIDE DEF G
<1>3. texts \in G
  BY <1>1, <1>2, EverySequence
<1>4. QED BY <1>3 DEF G

(* One entry made of each of a list, and of one more. *)
Each(s, of) == [k \in DOMAIN s |-> of[s[k]]]
MapsTo(of, T, U) == of \in [T -> U]

(* A function applied to each entry of a list. *)
LEMMA EachIs ==
    ASSUME NEW T, NEW U, NEW of, MapsTo(of, T, U), NEW s \in Seq(T), NEW n, n = Len(s)
    PROVE  /\ Each(s, of) \in Seq(U) /\ Len(Each(s, of)) = n
           /\ \A k \in 1..n : Each(s, of)[k] = of[s[k]]
<1>1. PICK m \in Nat : m = n /\ DOMAIN s = 1..m
  BY LenProperties
<1>2. \A k \in 1..m : of[s[k]] \in U
  <2>1. \A k \in 1..m : s[k] \in T
    BY <1>1, ElementOfSeq
  <2>2. QED BY <2>1 DEF MapsTo
<1>3. Each(s, of) = [k \in 1..m |-> of[s[k]]]
  BY <1>1 DEF Each
<1>4. [k \in 1..m |-> of[s[k]]] \in Seq(U)
  BY <1>2
<1>5. Len([k \in 1..m |-> of[s[k]]]) = m
  OBVIOUS
<1>6. QED BY <1>1, <1>3, <1>4, <1>5

(* There is nothing to apply it to in the empty list. *)
LEMMA EachOfNone ==
    ASSUME NEW of
    PROVE  Each(<< >>, of) = << >>
<1>1. PICK none : none = << >> /\ DOMAIN none = {}
  OBVIOUS
<1>2. PICK each : each = [k \in DOMAIN none |-> of[none[k]]]
  OBVIOUS
<1>3. each = << >>
  BY <1>1, <1>2
<1>4. QED BY <1>1, <1>2, <1>3 DEF Each

(* An entry more has a value more. *)
LEMMA EachWith ==
    ASSUME NEW T, NEW U, NEW of, MapsTo(of, T, U), NEW s \in Seq(T), NEW x \in T
    PROVE  Each(Append(s, x), of) = Append(Each(s, of), of[x])
<1>1. PICK n \in Nat : n = Len(s)
  BY LenProperties
<1>2. PICK few : few = Each(s, of)
  OBVIOUS
<1>3. few \in Seq(U) /\ Len(few) = n /\ \A k \in 1..n : few[k] = of[s[k]]
  BY <1>1, <1>2, EachIs
<1>4. PICK y \in U : y = of[x]
  BY DEF MapsTo
<1>5. PICK more : more = Append(s, x)
  OBVIOUS
<1>6. more \in Seq(T) /\ Len(more) = n + 1 /\ more[n + 1] = x /\ \A k \in 1..n : more[k] = s[k]
  BY <1>1, <1>5, AppendProperties
<1>7. PICK all : all = Append(few, y)
  OBVIOUS
<1>8. all \in Seq(U) /\ Len(all) = n + 1 /\ all[n + 1] = y /\ \A k \in 1..n : all[k] = few[k]
  BY <1>3, <1>4, <1>7, AppendProperties
<1>9. PICK both : both = Each(more, of)
  OBVIOUS
<1>10. both \in Seq(U) /\ Len(both) = n + 1 /\ \A k \in 1..(n + 1) : both[k] = of[more[k]]
  BY <1>6, <1>9, EachIs
<1>11. \A k \in 1..(n + 1) : both[k] = all[k]
  <2>1. SUFFICES ASSUME NEW k \in 1..(n + 1) PROVE both[k] = all[k]
    OBVIOUS
  <2>2. CASE k = n + 1
    BY <1>4, <1>6, <1>8, <1>10, <2>2
  <2>3. CASE k # n + 1
    <3>1. k \in 1..n
      BY <2>1, <2>3
    <3>2. QED BY <1>3, <1>6, <1>8, <1>10, <3>1
  <2>4. QED BY <2>2, <2>3
<1>12. both = all
  BY <1>8, <1>10, <1>11, SeqEqual
<1>13. QED BY <1>2, <1>4, <1>5, <1>7, <1>9, <1>12

(* Lists of one entry put together are the list of the entries. *)
LEMMA JoinedSingles ==
    ASSUME NEW T, NEW s \in Seq(T),
           NEW of, MapsTo(of, T, Seq(T)), \A x \in T : of[x] = << x >>
    PROVE  Joined(Each(s, of)) = s
<1> DEFINE G == {a \in Seq(T) : Joined(Each(a, of)) = a}
<1>1. << >> \in G
  <2>1. << >> \in Seq(T) /\ Len(<< >>) = 0
    OBVIOUS
  <2>2. QED BY <2>1, EachOfNone, JoinedNone
<1>2. ASSUME NEW a \in Seq(T), NEW x \in T, a \in G PROVE Append(a, x) \in G
  <2>1. Each(Append(a, x), of) = Append(Each(a, of), of[x])
    BY EachWith
  <2>2. PICK few \in Seq(Seq(T)), y \in Seq(T) : few = Each(a, of) /\ y = of[x]
    <3>1. Each(a, of) \in Seq(Seq(T))
      BY EachIs
    <3>2. of[x] \in Seq(T)
      BY DEF MapsTo
    <3>3. QED BY <3>1, <3>2
  <2>3. Joined(Append(few, y)) = Joined(few) \o y
    BY JoinedMore
  <2>4. Joined(few) = a /\ y = << x >>
    BY <1>2, <2>2
  <2>5. a \o << x >> = Append(a, x)
    BY AppendIsConcat
  <2>6. Append(a, x) \in Seq(T)
    BY AppendProperties
  <2>7. QED BY <2>1, <2>2, <2>3, <2>4, <2>5, <2>6
<1> HIDE DEF G
<1>3. s \in G
  BY <1>1, <1>2, EverySequence
<1>4. QED BY <1>3 DEF G

-----------------------------------------------------------------------------
(* A whole file, written and read: the title, *)
Blank(q, title, background) ==
    /\ q \in Parsers /\ q.title = title /\ q.background = background
    /\ q.scenarios = << >> /\ q.current = << >> /\ q.table = << >>
    /\ q.pendingTags = << >> /\ q.inExamples = FALSE

(* A parser without scenarios is ready for the first. *)
LEMMA BlankIsReady ==
    ASSUME NEW q, NEW title, NEW background, Blank(q, title, background)
    PROVE  Ready(q, << >>)
<1>1. q \in Parsers /\ q.current = << >>
  BY DEF Blank
<1>2. Len(q.current) <= 1
  <2>1. Len(<< >>) <= 1
    OBVIOUS
  <2>2. QED BY <1>1, <2>1
<1>3. closeScenario(q) = q
  BY <1>1 DEF closeScenario
<1>4. QED BY <1>2, <1>3 DEF Blank, Ready

(* The written title is read as the title. *)
LEMMA ReadsTitle ==
    ASSUME NEW title \in Nat, NEW q, q = Reads(EmptyParser, << Line("feature", title) >>)
    PROVE  Blank(q, title, << >>)
<1>1. PICK l : l = Line("feature", title)
  OBVIOUS
<1>2. l.kind = "feature" /\ l.id = title /\ l \in WrittenLines
  BY <1>1, LineIs DEF WrittenKinds
<1>3. PICK p : p = EmptyParser
  OBVIOUS
<1>4. /\ p \in Parsers /\ p.scenarios = << >> /\ p.current = << >> /\ p.table = << >>
      /\ p.pendingTags = << >> /\ p.background = << >> /\ p.inExamples = FALSE
  <2>1. << >> \in Seq(Nat) /\ << >> \in Seq(Scenarios) /\ 0 \in Nat
    OBVIOUS
  <2>2. QED BY <1>3, <2>1 DEF EmptyParser, NoTitle, Parsers
<1>5. q = Read(p, l)
  BY <1>1, <1>2, <1>3, ReadsOne
<1>6. q = [p EXCEPT !.title = l.id, !.inFeatureDesc = TRUE, !.inBackground = FALSE]
  BY <1>2, <1>5, ReadIs
<1>7. /\ q \in Parsers /\ q.title = title /\ q.scenarios = p.scenarios /\ q.current = p.current
      /\ q.table = p.table /\ q.pendingTags = p.pendingTags /\ q.background = p.background
      /\ q.inExamples = p.inExamples
  BY <1>2, <1>4, <1>6 DEF Parsers
<1>8. QED BY <1>4, <1>7 DEF Blank

(* the background, *)
BackgroundText(ids) ==
    IF ids = << >> THEN << >> ELSE << Line("background", 0) >> \o LinesOf("step", ids)

(* The written Background: line opens the background. *)
LEMMA BackgroundLineRead ==
    ASSUME NEW p, NEW title, Blank(p, title, << >>), NEW q, q = Read(p, Line("background", 0))
    PROVE  Blank(q, title, << >>) /\ q.inBackground = TRUE
<1>1. PICK l : l = Line("background", 0)
  OBVIOUS
<1>2. l.kind = "background"
  BY <1>1, LineIs DEF WrittenKinds, HeaderKinds
<1>3. PICK o : o = [p EXCEPT !.inFeatureDesc = FALSE, !.inBackground = TRUE]
  OBVIOUS
<1>4. p \in Parsers
  BY DEF Blank
<1>5. /\ o \in Parsers /\ o.title = p.title /\ o.background = p.background
      /\ o.scenarios = p.scenarios /\ o.current = p.current /\ o.table = p.table
      /\ o.pendingTags = p.pendingTags /\ o.inExamples = p.inExamples /\ o.inBackground = TRUE
  BY <1>3, <1>4 DEF Parsers
<1>6. q = closeScenario(o)
  BY <1>1, <1>2, <1>3, ReadIs
<1>7. q = o
  BY <1>5, <1>6 DEF closeScenario, Blank
<1>8. QED BY <1>5, <1>7 DEF Blank

(* A step written after it goes to the background. *)
LEMMA BackgroundStepRead ==
    ASSUME NEW p, NEW title, NEW steps \in Seq(Nat), Blank(p, title, steps),
           p.inBackground = TRUE, NEW i \in Nat, NEW q, q = Read(p, Line("step", i))
    PROVE  Blank(q, title, Append(steps, i)) /\ q.inBackground = TRUE
<1>1. PICK l : l = Line("step", i)
  OBVIOUS
<1>2. l.kind = "step" /\ l.id = i
  BY <1>1, LineIs DEF WrittenKinds
<1>3. p \in Parsers /\ p.background = steps
  BY DEF Blank
<1>4. PICK more \in Seq(Nat) : more = Append(steps, i)
  BY AppendProperties
<1>5. q = [p EXCEPT !.inExamples = FALSE, !.background = more]
  <2>1. q = AddStep(p, l)
    <3>1. q = Read(p, l) /\ l.kind = "step"
      BY <1>1, <1>2
    <3>2. Read(p, l) = AddStep(p, l)
      BY <3>1, ReadIs
    <3>3. QED BY <3>1, <3>2
  <2>2. QED BY <1>2, <1>3, <1>4, <2>1 DEF AddStep, Parsers
<1>6. /\ q \in Parsers /\ q.title = p.title /\ q.background = more
      /\ q.scenarios = p.scenarios /\ q.current = p.current /\ q.table = p.table
      /\ q.pendingTags = p.pendingTags /\ q.inExamples = FALSE
      /\ q.inBackground = p.inBackground
  BY <1>3, <1>4, <1>5 DEF Parsers
<1>7. QED BY <1>4, <1>6 DEF Blank

(* The steps written after it are the steps of the background. *)
LEMMA BackgroundStepsRead ==
    ASSUME NEW p, NEW title, Blank(p, title, << >>), p.inBackground = TRUE,
           NEW ids \in Seq(Nat)
    PROVE  Blank(Reads(p, LinesOf("step", ids)), title, ids)
<1> DEFINE G == {a \in Seq(Nat) : /\ Blank(Reads(p, LinesOf("step", a)), title, a)
                                  /\ Reads(p, LinesOf("step", a)).inBackground = TRUE}
<1>1. << >> \in G
  <2>1. << >> \in Seq(Nat) /\ LinesOf("step", << >>) = << >>
    BY NoLines, EmptySeq DEF WrittenKinds
  <2>2. Reads(p, << >>) = p
    BY ReadsNone
  <2>3. QED BY <2>1, <2>2
<1>2. ASSUME NEW a \in Seq(Nat), NEW i \in Nat, a \in G PROVE Append(a, i) \in G
  <2>1. "step" \in WrittenKinds
    BY DEF WrittenKinds
  <2>2. PICK of \in Seq(WrittenLines) : of = LinesOf("step", a)
    BY <2>1, LinesAre
  <2>3. PICK l \in WrittenLines : l = Line("step", i)
    BY <2>1, LineIs
  <2>4. LinesOf("step", Append(a, i)) = Append(of, l)
    BY <2>1, <2>2, <2>3, LinesWith
  <2>5. PICK q, r : q = Reads(p, of) /\ r = Read(q, l)
    OBVIOUS
  <2>6. Reads(p, Append(of, l)) = r
    BY <2>5, ReadsMore
  <2>7. Blank(q, title, a) /\ q.inBackground = TRUE
    BY <1>2, <2>2, <2>5
  <2>8. Blank(r, title, Append(a, i)) /\ r.inBackground = TRUE
    BY <2>3, <2>5, <2>7, BackgroundStepRead
  <2>9. Append(a, i) \in Seq(Nat)
    BY AppendProperties
  <2>10. QED BY <2>4, <2>6, <2>8, <2>9
<1> HIDE DEF G
<1>3. ids \in G
  BY <1>1, <1>2, EverySequence
<1>4. QED BY <1>3 DEF G

(* The text of a background consists of lines. *)
LEMMA BackgroundTextIs ==
    ASSUME NEW ids \in Seq(Nat)
    PROVE  BackgroundText(ids) \in Seq(WrittenLines)
<1>1. PICK rows \in Seq(WrittenLines) : rows = LinesOf("step", ids)
  BY LinesAre DEF WrittenKinds
<1>2. PICK e \in WrittenLines : e = Line("background", 0)
  BY LineIs DEF WrittenKinds, HeaderKinds
<1>3. << e >> \in Seq(WrittenLines) /\ << >> \in Seq(WrittenLines)
  OBVIOUS
<1>4. << e >> \o rows \in Seq(WrittenLines)
  BY <1>1, <1>3, ConcatProperties
<1>5. QED BY <1>1, <1>2, <1>3, <1>4 DEF BackgroundText

(* A written background is read as the background it was written from, an
   empty one too. *)
LEMMA ReadsBackground ==
    ASSUME NEW p, NEW title, Blank(p, title, << >>), NEW ids \in Seq(Nat),
           NEW q, q = Reads(p, BackgroundText(ids))
    PROVE  Blank(q, title, ids)
<1>1. CASE ids = << >>
  <2>1. BackgroundText(ids) = << >>
    BY <1>1 DEF BackgroundText
  <2>2. q = p
    BY <2>1, ReadsNone
  <2>3. QED BY <1>1, <2>2
<1>2. CASE ids # << >>
  <2>1. PICK e \in WrittenLines : e = Line("background", 0)
    BY LineIs DEF WrittenKinds, HeaderKinds
  <2>2. PICK rows \in Seq(WrittenLines) : rows = LinesOf("step", ids)
    BY LinesAre DEF WrittenKinds
  <2>3. PICK es : es = << e >>
    OBVIOUS
  <2>4. es \in Seq(WrittenLines)
    BY <2>3
  <2>5. Reads(p, es \o rows) = Reads(Reads(p, es), rows)
    BY <2>4, ReadsJoined
  <2>6. PICK r : r = Read(p, e)
    OBVIOUS
  <2>7. q = Reads(r, rows)
    <3>1. BackgroundText(ids) = es \o rows
      BY <1>2, <2>1, <2>2, <2>3 DEF BackgroundText
    <3>2. Reads(p, es) = r
      BY <2>3, <2>6, ReadsOne
    <3>3. QED BY <2>5, <3>1, <3>2
  <2>8. Blank(r, title, << >>) /\ r.inBackground = TRUE
    BY <2>1, <2>6, BackgroundLineRead
  <2>9. QED BY <2>2, <2>7, <2>8, BackgroundStepsRead
<1>3. QED BY <1>1, <1>2

(* and the scenarios. *)
TextOf == [s \in Tagged |-> ScenarioText(s)]

(* Every scenario with at most one line of tags has a text. *)
LEMMA TextOfMaps == MapsTo(TextOf, Tagged, Seq(WrittenLines))
<1>1. \A s \in Tagged : ScenarioText(s) \in Seq(WrittenLines)
  BY ScenarioTextIs DEF Tagged
<1>2. QED BY <1>1 DEF TextOf, MapsTo

AllRead(q, p, ss) ==
    /\ Ready(q, ss) /\ q.pendingTags = << >>
    /\ q.title = p.title /\ q.background = p.background

(* Scenarios written one after the other are read as the list they were
   written from. *)
LEMMA ReadsScenarios ==
    ASSUME NEW p, Ready(p, << >>), p.pendingTags = << >>, NEW ss \in Seq(Tagged)
    PROVE  AllRead(Reads(p, Joined(Each(ss, TextOf))), p, ss)
<1> DEFINE G == {a \in Seq(Tagged) : AllRead(Reads(p, Joined(Each(a, TextOf))), p, a)}
<1>1. << >> \in G
  <2>1. << >> \in Seq(Tagged) /\ Joined(Each(<< >>, TextOf)) = << >>
    BY EachOfNone, JoinedNone, EmptySeq
  <2>2. Reads(p, << >>) = p
    BY ReadsNone
  <2>3. AllRead(p, p, << >>)
    BY DEF AllRead
  <2>4. QED BY <2>1, <2>2, <2>3
<1>2. ASSUME NEW a \in Seq(Tagged), NEW s \in Tagged, a \in G PROVE Append(a, s) \in G
  <2>1. Each(Append(a, s), TextOf) = Append(Each(a, TextOf), TextOf[s])
    BY TextOfMaps, EachWith
  <2>2. PICK few \in Seq(Seq(WrittenLines)) : few = Each(a, TextOf)
    BY TextOfMaps, EachIs
  <2>3. PICK t \in Seq(WrittenLines) : t = ScenarioText(s)
    BY ScenarioTextIs DEF Tagged
  <2>4. TextOf[s] = t
    BY <2>3 DEF TextOf
  <2>5. Joined(Append(few, t)) = Joined(few) \o t
    BY JoinedMore
  <2>6. PICK first \in Seq(WrittenLines) : first = Joined(few)
    BY JoinedType
  <2>7. Reads(p, first \o t) = Reads(Reads(p, first), t)
    BY ReadsJoined
  <2>8. PICK q, r : q = Reads(p, first) /\ r = Reads(q, t)
    OBVIOUS
  <2>9. AllRead(q, p, a)
    BY <1>2, <2>2, <2>6, <2>8
  <2>10. /\ Ready(r, Append(a, s)) /\ r.pendingTags = << >>
         /\ r.title = q.title /\ r.background = q.background
    BY <2>3, <2>8, <2>9, ReadsScenario DEF AllRead
  <2>11. AllRead(r, p, Append(a, s))
    BY <2>9, <2>10 DEF AllRead
  <2>12. Append(a, s) \in Seq(Tagged)
    BY AppendProperties
  <2>13. Reads(p, Joined(Each(Append(a, s), TextOf))) = r
    BY <2>1, <2>2, <2>4, <2>5, <2>6, <2>7, <2>8
  <2>14. QED BY <2>11, <2>12, <2>13
<1> HIDE DEF G
<1>3. ss \in G
  BY <1>1, <1>2, EverySequence
<1>4. QED BY <1>3 DEF G

(* The texts the writer joins are those of each scenario. *)
LEMMA EachText ==
    ASSUME NEW ss \in Seq(Tagged)
    PROVE  [k \in DOMAIN ss |-> ScenarioText(ss[k])] = Each(ss, TextOf)
<1>1. \A k \in DOMAIN ss : ss[k] \in Tagged
  BY LenProperties, ElementOfSeq
<1>2. \A k \in DOMAIN ss : TextOf[ss[k]] = ScenarioText(ss[k])
  BY <1>1 DEF TextOf
<1>3. QED BY <1>2 DEF Each

(* What generateFeature writes is what was there. *)
LEMMA WrittenIsRead ==
    ASSUME NEW title \in Nat, NEW ss \in Seq(Tagged), NEW ids \in Seq(Nat),
           NEW f, f = parseFeature(generateFeature(title, ss, ids))
    PROVE  f.title = title /\ f.background = ids /\ f.scenarios = ss
<1>1. PICK a, b, c : /\ a = << Line("feature", title) >> /\ b = BackgroundText(ids)
                     /\ c = Joined(Each(ss, TextOf))
  OBVIOUS
<1>2. generateFeature(title, ss, ids) = (a \o b) \o c
  <2>1. [k \in DOMAIN ss |-> ScenarioText(ss[k])] = Each(ss, TextOf)
    BY EachText
  <2>2. QED BY <1>1, <2>1 DEF generateFeature, BackgroundText
<1>3. a \in Seq(WrittenLines) /\ b \in Seq(WrittenLines) /\ c \in Seq(WrittenLines)
  <2>1. PICK l \in WrittenLines : l = Line("feature", title)
    BY LineIs DEF WrittenKinds
  <2>2. << l >> \in Seq(WrittenLines)
    OBVIOUS
  <2>3. Each(ss, TextOf) \in Seq(Seq(WrittenLines))
    BY TextOfMaps, EachIs
  <2>4. c \in Seq(WrittenLines)
    BY <1>1, <2>3, JoinedType
  <2>5. QED BY <1>1, <2>1, <2>2, <2>4, BackgroundTextIs
<1>4. PICK q1, q2, q3 : q1 = Reads(EmptyParser, a) /\ q2 = Reads(q1, b) /\ q3 = Reads(q2, c)
  OBVIOUS
<1>5. Reads(EmptyParser, (a \o b) \o c) = q3
  <2>1. PICK ab \in Seq(WrittenLines) : ab = a \o b
    BY <1>3, ConcatProperties
  <2>2. Reads(EmptyParser, ab \o c) = Reads(Reads(EmptyParser, ab), c)
    BY <1>3, ReadsJoined
  <2>3. Reads(EmptyParser, a \o b) = Reads(Reads(EmptyParser, a), b)
    BY <1>3, ReadsJoined
  <2>4. QED BY <1>4, <2>1, <2>2, <2>3
<1>6. Blank(q1, title, << >>)
  BY <1>1, <1>4, ReadsTitle
<1>7. Blank(q2, title, ids)
  BY <1>1, <1>4, <1>6, ReadsBackground
<1>8. AllRead(q3, q2, ss)
  <2>1. Ready(q2, << >>) /\ q2.pendingTags = << >>
    BY <1>7, BlankIsReady DEF Blank
  <2>2. QED BY <1>1, <1>4, <2>1, ReadsScenarios
<1>9. f = closeScenario(q3)
  BY <1>2, <1>5 DEF parseFeature
<1>10. q3 \in Parsers /\ Len(q3.current) <= 1
  BY <1>8 DEF AllRead, Ready
<1>11. f.title = q3.title /\ f.background = q3.background
  BY <1>9, <1>10, CloseIs
<1>12. QED BY <1>7, <1>8, <1>9, <1>11 DEF AllRead, Ready, Blank

(* A test case made of a scenario holds the scenario. *)
LEMMA DraftIsRead ==
    ASSUME NEW title \in Nat, NEW s \in Tagged, NEW d, d = Draft(title, s)
    PROVE  /\ d.gherkin # << >> /\ d.gherkin \in Seq(WrittenLines)
           /\ parseFeature(d.gherkin).scenarios = << s >>
<1>1. PICK a : a = << Line("feature", title) >>
  OBVIOUS
<1>2. PICK c : c = ScenarioText(s)
  OBVIOUS
<1>3. d.gherkin = a \o c
  BY <1>1, <1>2 DEF Draft
<1>4. a \in Seq(WrittenLines) /\ a # << >>
  <2>1. PICK l \in WrittenLines : l = Line("feature", title)
    BY LineIs DEF WrittenKinds
  <2>2. << l >> \in Seq(WrittenLines) /\ << l >> # << >>
    OBVIOUS
  <2>3. QED BY <1>1, <2>1, <2>2
<1>5. c \in Seq(WrittenLines)
  BY <1>2, ScenarioTextIs DEF Tagged
<1>6. d.gherkin # << >> /\ d.gherkin \in Seq(WrittenLines)
  BY <1>3, <1>4, <1>5, ConcatProperties, ConcatEqualIffEmpty
<1>7. PICK q1, q2 : q1 = Reads(EmptyParser, a) /\ q2 = Reads(q1, c)
  OBVIOUS
<1>8. Reads(EmptyParser, a \o c) = q2
  BY <1>4, <1>5, <1>7, ReadsJoined
<1>9. Blank(q1, title, << >>)
  BY <1>1, <1>7, ReadsTitle
<1>10. Ready(q1, << >>) /\ q1.pendingTags = << >>
  BY <1>9, BlankIsReady DEF Blank
<1>11. Ready(q2, Append(<< >>, s))
  BY <1>2, <1>7, <1>10, ReadsScenario
<1>12. Append(<< >>, s) = << s >>
  OBVIOUS
<1>13. parseFeature(d.gherkin) = closeScenario(q2)
  BY <1>3, <1>8 DEF parseFeature
<1>14. QED BY <1>6, <1>11, <1>12, <1>13 DEF Ready

-----------------------------------------------------------------------------
(* A file taken apart into test cases and put together again. *)
DraftCases == [title : Nat, steps : Seq(Nat), gherkin : Seq(WrittenLines)]
ManualCase == [title |-> NoTitle, steps |-> << >>, gherkin |-> << >>]
Drafts(title, ss) == [k \in DOMAIN ss |-> Draft(title, ss[k])]

(* There is a test case for every scenario, in their order. *)
LEMMA DraftsAre ==
    ASSUME NEW title \in Nat, NEW ss \in Seq(Tagged), NEW m, m = Len(ss)
    PROVE  /\ Drafts(title, ss) \in Seq(DraftCases) /\ Len(Drafts(title, ss)) = m
           /\ \A k \in 1..m : Drafts(title, ss)[k] = Draft(title, ss[k])
<1>1. PICK n \in Nat : n = m /\ DOMAIN ss = 1..n
  BY LenProperties
<1>2. ASSUME NEW k \in 1..n PROVE Draft(title, ss[k]) \in DraftCases
  <2>1. PICK s \in Tagged : s = ss[k]
    BY <1>1, ElementOfSeq
  <2>2. PICK d : d = Draft(title, s)
    OBVIOUS
  <2>3. s.title \in Nat /\ s.steps \in Seq(Nat)
    BY DEF Tagged, Scenarios
  <2>4. d.gherkin \in Seq(WrittenLines)
    BY <2>2, DraftIsRead
  <2>5. d = [title |-> s.title, steps |-> s.steps, gherkin |-> d.gherkin]
    BY <2>2 DEF Draft
  <2>6. d \in DraftCases
    BY <2>3, <2>4, <2>5 DEF DraftCases
  <2>7. QED BY <2>1, <2>2, <2>6
<1>3. Drafts(title, ss) = [k \in 1..n |-> Draft(title, ss[k])]
  BY <1>1 DEF Drafts
<1>4. [k \in 1..n |-> Draft(title, ss[k])] \in Seq(DraftCases)
  BY <1>2
<1>5. Len([k \in 1..n |-> Draft(title, ss[k])]) = n
  OBVIOUS
<1>6. QED BY <1>1, <1>3, <1>4, <1>5

(* The case without Gherkin is dropped, and no other. *)
WithGherkin(cases) == {k \in DOMAIN cases : cases[k].gherkin # << >>}

(* Of the test cases, the one without Gherkin among them, the filter keeps
   those of the scenarios. *)
LEMMA DraftsAreKept ==
    ASSUME NEW title \in Nat, NEW ss \in Seq(Tagged),
           NEW all, all = << ManualCase >> \o Drafts(title, ss)
    PROVE  Kept(all, WithGherkin(all)) = Drafts(title, ss)
<1>0. PICK drafts : drafts = Drafts(title, ss)
  OBVIOUS
<1>1. PICK m \in Nat : m = Len(ss) /\ DOMAIN ss = 1..m
  BY LenProperties
<1>2. /\ drafts \in Seq(DraftCases) /\ Len(drafts) = m
      /\ \A k \in 1..m : drafts[k] = Draft(title, ss[k])
  BY <1>0, <1>1, DraftsAre
<1>3. << ManualCase >> \in Seq(DraftCases) /\ Len(<< ManualCase >>) = 1 /\ << ManualCase >>[1] = ManualCase
  <2>1. << >> \in Seq(Nat) /\ << >> \in Seq(WrittenLines) /\ 0 \in Nat
    OBVIOUS
  <2>2. ManualCase \in DraftCases
    BY <2>1 DEF ManualCase, DraftCases, NoTitle
  <2>3. QED BY <2>2
<1>4. PICK first : first = << ManualCase >>
  OBVIOUS
<1>5. all \in Seq(DraftCases) /\ Len(all) = m + 1
  BY <1>0, <1>2, <1>3, <1>4, ConcatProperties
<1>6. all[1] = ManualCase /\ \A k \in 1..m : all[k + 1] = drafts[k]
  <2>1. \A i \in 1..(1 + m) : all[i] = IF i <= 1 THEN first[i] ELSE drafts[i - 1]
    BY <1>0, <1>2, <1>3, <1>4, ConcatProperties
  <2>2. all[1] = ManualCase
    BY <1>3, <1>4, <2>1
  <2>3. ASSUME NEW k \in 1..m PROVE all[k + 1] = drafts[k]
    <3>1. k + 1 \in 1..(1 + m) /\ ~(k + 1 <= 1) /\ (k + 1) - 1 = k
      OBVIOUS
    <3>2. QED BY <2>1, <3>1
  <2>4. QED BY <2>2, <2>3
<1>7. DOMAIN all = 1..(m + 1)
  BY <1>5, LenProperties
<1>8. PICK S : S = WithGherkin(all) /\ S = {k \in DOMAIN all : all[k].gherkin # << >>}
  BY DEF WithGherkin
<1>9. S = 2..(m + 1)
  <2>1. 1 \notin S
    BY <1>6, <1>8 DEF ManualCase
  <2>2. ASSUME NEW k \in 2..(m + 1) PROVE k \in S
    <3>1. k - 1 \in 1..m /\ (k - 1) + 1 = k /\ k \in 1..(m + 1)
      OBVIOUS
    <3>2. PICK s \in Tagged : s = ss[k - 1]
      BY <1>1, <3>1, ElementOfSeq
    <3>3. all[k] = Draft(title, s)
      BY <1>2, <1>6, <3>1, <3>2
    <3>4. all[k].gherkin # << >>
      BY <3>3, DraftIsRead
    <3>5. QED BY <1>7, <1>8, <3>1, <3>4
  <2>3. ASSUME NEW k \in S PROVE k \in 2..(m + 1)
    <3>1. k \in 1..(m + 1) /\ k # 1
      BY <1>7, <1>8, <2>1, <2>3
    <3>2. QED BY <3>1
  <2>4. QED BY <2>2, <2>3
<1>10. S \in SUBSET DOMAIN all
  BY <1>8
<1>11. Cardinality(S) = m
  <2>1. Cardinality(2..(m + 1)) = IF 2 > m + 1 THEN 0 ELSE (m + 1) - 2 + 1
    BY FS_Interval
  <2>2. QED BY <1>9, <2>1
<1>12. ASSUME NEW n \in S PROVE drafts[Place(n, S)] = all[n]
  <2>1. n \in 2..(m + 1)
    BY <1>9, <1>12
  <2>2. {i \in S : i <= n} = 2..n
    BY <1>9, <2>1
  <2>3. Cardinality(2..n) = IF 2 > n THEN 0 ELSE n - 2 + 1
    BY <2>1, FS_Interval
  <2>4. Place(n, S) = n - 1
    <3>1. Place(n, S) = Cardinality(2..n)
      BY <2>2 DEF Place
    <3>2. QED BY <2>1, <2>3, <3>1
  <2>5. n - 1 \in 1..m /\ (n - 1) + 1 = n
    BY <2>1
  <2>6. QED BY <1>6, <2>4, <2>5
<1>13. drafts = Kept(all, S)
  <2>1. /\ drafts \in Seq(DraftCases) /\ Len(drafts) = Cardinality(S)
        /\ all \in Seq(DraftCases)
    BY <1>2, <1>5, <1>11
  <2>2. QED BY <1>10, <1>12, <2>1, KeptIsOnly
<1>14. QED BY <1>0, <1>8, <1>13

Single == [s \in Tagged |-> << s >>]

(* The test cases of the scenarios give the scenarios back. *)
LEMMA CasesAreRead ==
    ASSUME NEW title \in Nat, NEW ss \in Seq(Tagged),
           NEW all, all = << ManualCase >> \o Drafts(title, ss)
    PROVE  parseFeature(testCasesToFeature(NoTitle, all)).scenarios = ss
<1>1. PICK m \in Nat : m = Len(ss) /\ DOMAIN ss = 1..m
  BY LenProperties
<1>2. PICK drafts : drafts = Drafts(title, ss)
  OBVIOUS
<1>3. /\ drafts \in Seq(DraftCases) /\ Len(drafts) = m
      /\ \A k \in 1..m : drafts[k] = Draft(title, ss[k])
  BY <1>1, <1>2, DraftsAre
<1>4. Kept(all, {k \in DOMAIN all : all[k].gherkin # << >>}) = drafts
  <2>1. Kept(all, WithGherkin(all)) = drafts
    BY <1>2, DraftsAreKept
  <2>2. QED BY <2>1 DEF WithGherkin
<1>5. DOMAIN drafts = 1..m
  BY <1>3, LenProperties
<1>6. \A k \in 1..m : parseFeature(drafts[k].gherkin).scenarios = Single[ss[k]]
  <2>1. SUFFICES ASSUME NEW k \in 1..m
                 PROVE  parseFeature(drafts[k].gherkin).scenarios = Single[ss[k]]
    OBVIOUS
  <2>2. PICK s \in Tagged : s = ss[k]
    BY <1>1, <2>1, ElementOfSeq
  <2>3. PICK d : d = Draft(title, s)
    OBVIOUS
  <2>4. parseFeature(d.gherkin).scenarios = << s >>
    BY <2>3, DraftIsRead
  <2>5. drafts[k] = d /\ Single[s] = << s >>
    BY <1>3, <2>1, <2>2, <2>3 DEF Single
  <2>6. QED BY <2>2, <2>4, <2>5
<1>7. [k \in DOMAIN drafts |-> parseFeature(drafts[k].gherkin).scenarios] = Each(ss, Single)
  BY <1>1, <1>5, <1>6 DEF Each
<1>8. Joined(Each(ss, Single)) = ss
  <2>1. MapsTo(Single, Tagged, Seq(Tagged)) /\ \A s \in Tagged : Single[s] = << s >>
    BY DEF MapsTo, Single
  <2>2. QED BY <2>1, JoinedSingles
<1>9. testCasesToFeature(NoTitle, all) = generateFeature(NoTitle, ss, << >>)
  BY <1>4, <1>7, <1>8 DEF testCasesToFeature
<1>10. PICK t, none : t = NoTitle /\ none = << >>
  OBVIOUS
<1>11. PICK f : f = parseFeature(generateFeature(t, ss, none))
  OBVIOUS
<1>12. f.scenarios = ss
  <2>1. t \in Nat /\ none \in Seq(Nat)
    BY <1>10 DEF NoTitle
  <2>2. QED BY <1>11, <2>1, WrittenIsRead
<1>13. QED BY <1>9, <1>10, <1>11, <1>12

(* The parser's variables are those of the loop over the text. *)
ReadInFull == parser = Reads(EmptyParser, lines)

(* Every line of the text has been through the loop. *)
LEMMA FullyRead == GherkinSpec => []ReadInFull
<1>1. GherkinInit => ReadInFull
  BY ReadsNone DEF GherkinInit, ReadInFull
<1>2. GherkinInv /\ ReadInFull /\ [GherkinNext]_gherkinVars => ReadInFull'
  <2>1. SUFFICES ASSUME GherkinInv, ReadInFull, [GherkinNext]_gherkinVars PROVE ReadInFull'
    OBVIOUS
  <2>2. CASE UNCHANGED gherkinVars
    BY <2>1, <2>2 DEF ReadInFull, gherkinVars
  <2>3. ASSUME NEW kind \in LineKinds, ReadLine(kind)
        PROVE  ReadInFull'
    <3>1. PICK text \in Seq(TextLines) : text = lines
      BY <2>1 DEF GherkinInv
    <3>2. PICK n \in Nat : n = Len(text)
      BY LenProperties
    <3>3. PICK l : l = Line(kind, n + 1)
      OBVIOUS
    <3>4. l \in TextLines
      BY <3>3 DEF Line, TextLines
    <3>5. lines' = Append(text, l) /\ parser' = Read(parser, l)
      BY <2>3, <3>1, <3>2, <3>3 DEF ReadLine
    <3>6. Reads(EmptyParser, Append(text, l)) = Read(Reads(EmptyParser, text), l)
      BY <3>4, ReadsMore
    <3>7. QED BY <2>1, <3>1, <3>5, <3>6 DEF ReadInFull
  <2>4. QED BY <2>1, <2>2, <2>3 DEF GherkinNext
<1>3. QED BY <1>1, <1>2, GherkinCorrect, PTL DEF GherkinSpec

(* Tags are those of one line. *)
LEMMA ClosedAreTagged ==
    ASSUME NEW text, NEW c, ClosedAre(text, c)
    PROVE  c.scenarios \in Seq(Tagged)
<1>1. PICK ss \in Seq(Scenarios) : ss = c.scenarios
  BY DEF ClosedAre, Parsers
<1>2. PICK n \in Nat : n = Len(ss) /\ DOMAIN ss = 1..n /\ ss \in [1..n -> Scenarios]
  BY LenProperties
<1>3. ASSUME NEW k \in 1..n PROVE ss[k] \in Tagged
  <2>1. ss[k].tags = TagsOf(text, k)
    BY <1>1, <1>2 DEF ClosedAre, IsAsWritten
  <2>2. \A first, last : Len(LastTags(text, first, last)) <= 1
    <3>1. SUFFICES ASSUME NEW first, NEW last PROVE Len(LastTags(text, first, last)) <= 1
      OBVIOUS
    <3>2. \A x : Len(<< x >>) = 1
      OBVIOUS
    <3>3. Len(<< >>) = 0
      OBVIOUS
    <3>4. QED BY <3>2, <3>3 DEF LastTags
  <2>3. Len(ss[k].tags) <= 1
    BY <2>1, <2>2 DEF TagsOf
  <2>4. QED BY <1>2, <2>3 DEF Tagged
<1>4. ss \in [1..n -> Tagged]
  BY <1>2, <1>3
<1>5. QED BY <1>1, <1>4

(* A text that has been read in full is kept by writing it again: its
   title, background and scenarios are of the kind the lemmas above are
   about. *)
LEMMA RewritingKeeps == GherkinInv /\ ReadInFull => RewritingKeepsScenarios
<1>1. SUFFICES ASSUME GherkinInv, ReadInFull PROVE RewritingKeepsScenarios
  OBVIOUS
<1>2. PICK c : c = Parsed
  OBVIOUS
<1>3. ClosedAre(lines, c)
  <2>1. lines \in Seq(TextLines) /\ ScenariosAre(lines, parser)
    BY <1>1 DEF GherkinInv, DocumentIs
  <2>2. QED BY <1>2, <2>1, Closing DEF Parsed
<1>4. PICK ss \in Seq(Tagged) : ss = c.scenarios
  BY <1>3, ClosedAreTagged
<1>5. c.title \in Nat /\ c.background \in Seq(Nat)
  BY <1>3 DEF ClosedAre, Parsers
<1>6. PICK again : again = parseFeature(generateFeature(c.title, ss, c.background))
  OBVIOUS
<1>7. again.title = c.title /\ again.background = c.background /\ again.scenarios = ss
  BY <1>5, <1>6, WrittenIsRead
<1>8. parseFeature(lines) = c
  BY <1>1, <1>2 DEF parseFeature, ReadInFull, Parsed
<1>9. featureToTestCases(lines) = Drafts(c.title, ss)
  BY <1>4, <1>8 DEF featureToTestCases, Drafts
<1>10. PICK all : all = << ManualCase >> \o Drafts(c.title, ss)
  OBVIOUS
<1>11. parseFeature(testCasesToFeature(NoTitle, all)).scenarios = ss
  BY <1>5, <1>10, CasesAreRead
<1>12. RewritingKeepsScenarios =
          /\ << again.title, again.background >> = << c.title, c.background >>
          /\ again.scenarios = c.scenarios
          /\ parseFeature(testCasesToFeature(NoTitle, all)).scenarios = c.scenarios
  BY <1>2, <1>4, <1>6, <1>9, <1>10 DEF RewritingKeepsScenarios, ManualCase
<1>13. QED BY <1>4, <1>7, <1>11, <1>12

(* Whatever was read, written again it is read as the same; and so is what the
   scenarios' test cases are put together to. *)
THEOREM RewritingIsFaithful == GherkinSpec => []RewritingKeepsScenarios
BY GherkinCorrect, FullyRead, RewritingKeeps, PTL
=============================================================================
