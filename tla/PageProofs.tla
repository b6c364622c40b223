----------------------------- MODULE PageProofs -----------------------------
(***************************************************************************)
(* The pages of the extension, for any number of records, steps, files and *)
(* handlers: the links of LinkPanel, the hub of HubForms with its router,  *)
(* lists and forms, the run screen of RunScreen, the drawer of             *)
(* SuggestTests.  Each has its part, with an invariant of its own.         *)
(***************************************************************************)
EXTENDS LinkPanel, HubForms, RunScreen, SuggestTests, SubsequenceLemmas

-----------------------------------------------------------------------------
(* The links of a work item.  The index a suspended removal holds names the
   relation of its link until that relation, or one before it, is removed; what
   is appended meanwhile comes after it. *)

Rels == [target : Targets, tag : Tags]

(* The index names the relation of the link that was clicked. *)
OnTarget(h) ==
    LET me == handler[h]
    IN  /\ me.index \in 1..Len(relations)
        /\ relations[me.index] = Relation(me.link.target, me.link.type)

(* A handler that is about to remove a relation. *)
Removing(me) ==
    me \in [at : {"remove"}, link : {me.link}, index : Nat, shifted : BOOLEAN]

LinkInv ==
    /\ relations \in Seq(Rels)
    /\ handler = [h \in Handlers |-> handler[h]]
    /\ \A h \in Handlers :
          /\ handler[h].at = "add" => handler[h].target \in Targets /\ handler[h].type \in LinkTypes
          /\ handler[h].at = "remove" => Removing(handler[h]) /\ (handler[h].shifted \/ OnTarget(h))

-----------------------------------------------------------------------------
(* A removal keeps what stands before the relation removed. *)
LEMMA RemoveAtPrefix ==
    ASSUME NEW S, NEW s \in Seq(S), NEW i \in 1..Len(s)
    PROVE  /\ RemoveAt(s, i) \in Seq(S)
           /\ Len(RemoveAt(s, i)) = Len(s) - 1
           /\ \A j \in 1..(i - 1) : RemoveAt(s, i)[j] = s[j]
<1> DEFINE front == SubSeq(s, 1, i - 1)
           back == SubSeq(s, i + 1, Len(s))
<1>1. front \in Seq(S) /\ Len(front) = i - 1 /\ \A j \in 1..(i - 1) : front[j] = s[j]
  OBVIOUS
<1>2. back \in Seq(S) /\ Len(back) = Len(s) - i
  OBVIOUS
<1> HIDE DEF front, back
<1>3. /\ front \o back \in Seq(S)
      /\ Len(front \o back) = Len(s) - 1
      /\ \A j \in 1..(i - 1) : (front \o back)[j] = s[j]
  BY <1>1, <1>2
<1>4. QED BY <1>3 DEF RemoveAt, front, back

(* The index found names the relation of the link. *)
LEMMA FindIndexHits ==
    ASSUME NEW rels \in Seq(Rels), NEW link, FindIndex(rels, link) # 0
    PROVE  /\ FindIndex(rels, link) \in 1..Len(rels)
           /\ rels[FindIndex(rels, link)] = Relation(link.target, link.type)
<1> DEFINE at == {i \in DOMAIN rels : rels[i] = Relation(link.target, link.type)}
<1>1. at # {}
  BY DEF FindIndex
<1>2. at \subseteq Nat
  OBVIOUS
<1>3. \E i \in at : \A j \in at : i <= j
  BY <1>1, <1>2, Smallest
<1>4. FindIndex(rels, link) \in at
  BY <1>1, <1>3 DEF FindIndex
<1>5. QED BY <1>4

-----------------------------------------------------------------------------
(* At the start no handler holds an index, so none can be wrong. *)
THEOREM InitLink == LinkInit => LinkInv
<1> SUFFICES ASSUME LinkInit PROVE LinkInv
  OBVIOUS
<1>1. relations \in Seq(Rels)
  BY DEF LinkInit, Rels, Relation
<1>2. handler = [h \in Handlers |-> Idle]
  BY DEF LinkInit
<1>3. QED BY <1>1, <1>2 DEF LinkInv, Idle

(* One handler goes on while the relations stay, or grow at their end. *)
LEMMA HandlerStep ==
    ASSUME LinkInv, NEW h \in Handlers, NEW to, HandlerGoes(h, to),
           relations' \in Seq(Rels), Len(relations) <= Len(relations'),
           \A i \in 1..Len(relations) : relations'[i] = relations[i],
           to.at = "add" => to.target \in Targets /\ to.type \in LinkTypes,
           to.at = "remove" => /\ Removing(to) /\ to.index \in 1..Len(relations')
                               /\ relations'[to.index] = Relation(to.link.target, to.link.type)
    PROVE  LinkInv'
<1>1. handler' = [g \in Handlers |-> IF g = h THEN to ELSE handler[g]]
  BY DEF HandlerGoes, LinkInv
<1>2. handler' = [g \in Handlers |-> handler'[g]]
  BY <1>1
<1>3. ASSUME NEW g \in Handlers
      PROVE  /\ handler'[g].at = "add" => handler'[g].target \in Targets /\ handler'[g].type \in LinkTypes
             /\ handler'[g].at = "remove" =>
                    Removing(handler'[g]) /\ (handler'[g].shifted \/ OnTarget(g)')
  <2>1. CASE g = h
    BY <1>1, <2>1 DEF OnTarget
  <2>2. CASE g # h
    BY <1>1, <2>2 DEF OnTarget, LinkInv
  <2>3. QED BY <2>1, <2>2
<1>4. QED BY <1>2, <1>3 DEF LinkInv

(* Marking it changes nothing else. *)
LEMMA MarkShifted ==
    ASSUME NEW me, Removing(me)
    PROVE  Removing([me EXCEPT !.shifted = TRUE]) /\ [me EXCEPT !.shifted = TRUE].shifted
<1> DEFINE marked == [me EXCEPT !.shifted = TRUE]
<1>1. /\ marked \in [at : {"remove"}, link : {me.link}, index : Nat, shifted : BOOLEAN]
      /\ marked.link = me.link /\ marked.shifted = TRUE
  BY DEF Removing
<1>2. QED BY <1>1 DEF Removing

(* A relation goes: the handlers it concerns are marked, the relations before
   it stay where they are. *)
LEMMA RemovalStep ==
    ASSUME LinkInv, NEW i \in 1..Len(relations), NEW after, Removed(i, after),
           \A g \in Handlers : after[g] = handler[g] \/ after[g] = [at |-> "reload"]
    PROVE  LinkInv'
<1>1. /\ relations' \in Seq(Rels)
      /\ Len(relations') = Len(relations) - 1
      /\ \A j \in 1..(i - 1) : relations'[j] = relations[j]
  BY RemoveAtPrefix DEF LinkInv, Removed
<1>2. handler' = [g \in Handlers |-> IF after[g].at = "remove" /\ i <= after[g].index
                                     THEN [after[g] EXCEPT !.shifted = TRUE] ELSE after[g]]
  BY DEF Removed
<1>3. handler' = [g \in Handlers |-> handler'[g]]
  BY <1>2
<1>4. ASSUME NEW g \in Handlers
      PROVE  /\ handler'[g].at = "add" => handler'[g].target \in Targets /\ handler'[g].type \in LinkTypes
             /\ handler'[g].at = "remove" =>
                    Removing(handler'[g]) /\ (handler'[g].shifted \/ OnTarget(g)')
  <2>1. CASE handler'[g].at # "remove"
    BY <1>2, <2>1 DEF LinkInv
  <2>2. CASE handler'[g].at = "remove"
    <3>1. after[g] = handler[g] /\ handler[g].at = "remove" /\ Removing(handler[g])
      BY <1>2, <2>2 DEF LinkInv
    <3>2. CASE i <= handler[g].index
      <4>1. handler'[g] = [handler[g] EXCEPT !.shifted = TRUE]
        BY <1>2, <3>1, <3>2
      <4>2. QED BY <4>1, <3>1, MarkShifted
    <3>3. CASE ~(i <= handler[g].index)
      <4>1. handler'[g] = handler[g]
        BY <1>2, <3>1, <3>3
      <4>2. OnTarget(g) => OnTarget(g)'
        BY <1>1, <3>1, <3>3, <4>1 DEF OnTarget, Removing
      <4>3. QED BY <4>1, <4>2, <3>1 DEF LinkInv
    <3>4. QED BY <3>2, <3>3
  <2>3. QED BY <2>1, <2>2
<1>5. QED BY <1>1, <1>3, <1>4 DEF LinkInv

(* No handler's request, answer or removal breaks the invariant: an index held
   names the relation clicked or is marked as shifted. *)
THEOREM LinkStep == LinkInv /\ [LinkNext]_linkVars => LinkInv'
<1> SUFFICES ASSUME LinkInv, [LinkNext]_linkVars PROVE LinkInv'
  OBVIOUS
<1> USE DEF LinkInv
<1>1. ASSUME NEW h \in Handlers, NEW t \in Targets, NEW type \in LinkTypes, handleAdd(h, t, type)
      PROVE  LinkInv'
  BY <1>1, HandlerStep DEF handleAdd
<1>2. ASSUME NEW h \in Handlers, NEW link \in links, handleRemove(h, link) PROVE LinkInv'
  BY <1>2, HandlerStep DEF handleRemove
<1>3. ASSUME NEW h \in Handlers, AddAnswer(h) PROVE LinkInv'
  <2>1. Relation(handler[h].target, handler[h].type) \in Rels
    BY <1>3 DEF AddAnswer, Relation, Rels, Tags
  <2>2. CASE /\ relations' = Append(relations, Relation(handler[h].target, handler[h].type))
             /\ HandlerGoes(h, [at |-> "reload"])
    <3>1. /\ relations' \in Seq(Rels)
          /\ Len(relations) <= Len(relations')
          /\ \A i \in 1..Len(relations) : relations'[i] = relations[i]
      BY <2>1, <2>2
    <3>2. QED BY <2>2, <3>1, HandlerStep
  <2>3. CASE HandlerGoes(h, Idle) /\ UNCHANGED relations
    BY <2>3, HandlerStep DEF Idle
  <2>4. QED BY <1>3, <2>2, <2>3 DEF AddAnswer
<1>4. ASSUME NEW h \in Handlers, FetchAnswer(h) PROVE LinkInv'
  <2> DEFINE i == FindIndex(relations, handler[h].link)
  <2>1. CASE i = 0
    BY <1>4, <2>1, HandlerStep DEF FetchAnswer
  <2>2. CASE i # 0
    <3> DEFINE to == [at |-> "remove", link |-> handler[h].link, index |-> i, shifted |-> FALSE]
    <3>1. /\ i \in 1..Len(relations)
          /\ relations[i] = Relation(handler[h].link.target, handler[h].link.type)
      BY <2>2, FindIndexHits
    <3>2. HandlerGoes(h, to) /\ relations' = relations
      BY <1>4, <2>2 DEF FetchAnswer
    <3> HIDE DEF i
    <3>3. to.at = "remove" /\ Removing(to) /\ to.index \in 1..Len(relations')
      BY <3>1, <3>2 DEF Removing
    <3>4. relations'[to.index] = Relation(to.link.target, to.link.type)
      BY <3>1, <3>2
    <3> HIDE DEF to
    <3>5. QED BY <3>2, <3>3, <3>4, HandlerStep
  <2>3. QED BY <2>1, <2>2
<1>5. ASSUME NEW h \in Handlers, RemoveAnswer(h) PROVE LinkInv'
  <2>1. CASE /\ handler[h].index \in DOMAIN relations
             /\ Removed(handler[h].index, [handler EXCEPT ![h] = [at |-> "reload"]])
    <3>1. \A g \in Handlers :
             LET after == [handler EXCEPT ![h] = [at |-> "reload"]]
             IN  after[g] = handler[g] \/ after[g] = [at |-> "reload"]
      OBVIOUS
    <3>2. handler[h].index \in 1..Len(relations)
      BY <2>1
    <3>3. QED BY <2>1, <3>1, <3>2, RemovalStep
  <2>2. CASE HandlerGoes(h, Idle) /\ UNCHANGED relations
    BY <2>2, HandlerStep DEF Idle
  <2>3. QED BY <1>5, <2>1, <2>2 DEF RemoveAnswer
<1>6. ASSUME NEW h \in Handlers, reload(h) PROVE LinkInv'
  BY <1>6, HandlerStep DEF reload
<1>7. ASSUME NEW h \in Handlers, setLinks(h) PROVE LinkInv'
  BY <1>7, HandlerStep DEF setLinks, Idle
<1>8. ASSUME NEW i \in 1..MaxRelations, OtherSessionRemoves(i) PROVE LinkInv'
  <2>1. i \in 1..Len(relations)
    BY <1>8 DEF OtherSessionRemoves
  <2>2. QED BY <1>8, <2>1, RemovalStep DEF OtherSessionRemoves
<1>9. CASE UNCHANGED linkVars
  BY <1>9 DEF linkVars, OnTarget
<1>10. QED BY <1>1, <1>2, <1>3, <1>4, <1>5, <1>6, <1>7, <1>8, <1>9 DEF LinkNext

(* A removal that goes through takes the relation of the link that was
   clicked, unless it was shifted: with LinkInv, at every step. *)
LEMMA RemovalHits ==
    ASSUME LinkInv, [LinkNext]_linkVars, NEW h \in Handlers,
           handler[h].at = "remove"
    PROVE  handler[h].shifted \/ relations[handler[h].index] =
               Relation(handler[h].link.target, handler[h].link.type)
BY DEF LinkInv, OnTarget

(* RemovalTakesTheLinkClicked, for any number of targets, types and handlers:
   removeLink of work-item-link-service never takes another link than the one
   clicked, but after a removal between its two requests. *)
THEOREM RemovalIsRight == LinkSpec => RemovalTakesTheLinkClicked
<1>1. LinkInv /\ [LinkNext]_linkVars =>
        [\A h \in Handlers :
          (handler[h].at = "remove" /\ handler'[h].at = "reload")
              => \/ handler[h].shifted
                 \/ relations[handler[h].index] =
                        Relation(handler[h].link.target, handler[h].link.type)]_linkVars
  BY RemovalHits
<1>2. QED BY <1>1, InitLink, LinkStep, PTL DEF LinkSpec, RemovalTakesTheLinkClicked

-----------------------------------------------------------------------------
(* The hub.  A form that is submitting has one call of its own under way; the
   forms submitted, the records created and the answers lost are counted page by
   page (Accounted); the types remembered are those of the process as it is
   known, but after a creation of the limited mode (ResolverOK). *)

Records == [kind : Kinds, state : {"Draft", "Locked"}, has : [Fields -> Nat]]

HubStates == [installed : {"unknown", "yes", "no"}, skipped : BOOLEAN,
              remembered : BOOLEAN, refresh : SUBSET {"here", "earlier"}]

FormState == [phase : {"loading", "editing", "failed", "saving"},
              shown : [Fields -> Nat], base : [Fields -> Nat], loaded : BOOLEAN,
              dirty : BOOLEAN, emptied : BOOLEAN, state : {"none", "Draft", "Locked"},
              moving : BOOLEAN]

Views == [at : {"list"}, kind : Kinds \cup {"versions"}, id : {NoId}]
           \cup [at : {"form"}, kind : Kinds, id : Ids \cup {NoId}]

HubHistory == [made : [1..MaxMounts -> Nat], lost : [1..MaxMounts -> Nat], lostInAll : Nat,
               walked : Nat, dropped : Nat, limited : BOOLEAN, foreign : Nat, edits : Nat]

HubTypeOK ==
    /\ mount \in Nat
    /\ hub \in HubStates
    /\ view \in Views
    /\ form \in {NoForm} \cup FormState
    /\ DOMAIN versions = {"asked", "shown", "failed", "overtaken"}
    /\ IsFiniteSet(calls)
    /\ store \in [Ids -> {NoRecord} \cup Records]
    /\ process \in BOOLEAN /\ session \in Sessions
    /\ tally \in HubHistory

Submits(cs) == {c \in cs : c.op \in {"create", "update"}}
Orphans == {c \in Submits(calls) : ~(c.mount = mount /\ form.phase = "saving")}

(* What a submit sends. *)
SentOK(c) ==
    /\ c.excused \in BOOLEAN
    /\ DOMAIN c.sent \subseteq {"need", "opt", "own"}
    /\ \A f \in DOMAIN c.sent : /\ c.sent[f] \in Nat
                                /\ c.sent[f] = Empty => f = "own" /\ c.excused

MayCreate(m) == m \in 1..MaxMounts => tally.made[m] <= tally.lost[m]

CallOK(c) ==
    /\ c.mount \in Nat /\ c.mount <= mount
    /\ c.op = "read" => c.id \in Ids
    /\ c.op = "read" /\ c.mount = mount /\ form.phase = "loading" => c.kind = view.kind
    /\ c.op \in {"create", "update"} =>
          /\ c.kind \in Kinds /\ SentOK(c)
          /\ c.mount = mount => form.phase \in {"saving", "none"}
    /\ c.op = "create" => MayCreate(c.mount) /\ (process \/ tally.limited)

(* The owner or the steps of a record that was loaded are in the form until
   the user empties them. *)
OwnedKept ==
    form # NoForm /\ form.loaded /\ view.kind \in {"case", "plan"} /\ ~form.emptied
        => form.shown["own"] # Empty \/ form.base["own"] = Empty

FormOK ==
    /\ view.at = "list" \/ ~AppShown => form = NoForm
    /\ form # NoForm => MayCreate(mount)
    /\ OwnedKept

Accounted ==
    /\ \A m \in 1..MaxMounts : tally.made[m] <= 1 + tally.lost[m]
    /\ \A m \in 1..MaxMounts : m > mount => MayCreate(m)
    /\ \A c, d \in Submits(calls) : c.mount = d.mount => c = d
    /\ tally.dropped + Cardinality(Orphans) <= tally.walked

ResolverOK ==
    /\ hub.installed = "yes" => process
    /\ types = "without" => tally.limited

HubInv ==
    /\ HubTypeOK
    /\ \A c \in calls : CallOK(c)
    /\ FormOK /\ Accounted /\ ResolverOK
    /\ VersionsAreOfTheCaseAskedFor

-----------------------------------------------------------------------------
(* A page that was not opened has no form and no call. *)
THEOREM InitHub == HubInit => HubInv
<1> SUFFICES ASSUME HubInit PROVE HubInv
  OBVIOUS
<1>1. /\ session \in Sessions /\ process = session.installed /\ process \in BOOLEAN
      /\ mount = 0 /\ form = NoForm /\ versions = NoVersions /\ calls = {} /\ types = "none"
      /\ view = List("plan")
  BY HubAssumption DEF HubInit
<1>2. hub \in HubStates /\ hub.installed = "unknown"
  <2>1. PICK seen \in {FALSE, session.flaky} :
          hub = [installed |-> "unknown", skipped |-> FALSE, remembered |-> seen, refresh |-> {}]
    BY DEF HubInit
  <2>2. seen \in BOOLEAN
    BY <1>1, HubAssumption
  <2>3. QED BY <2>1, <2>2 DEF HubStates
<1>3. store \in [Ids -> {NoRecord} \cup Records]
  <2>1. CASE process
    <3>1. PICK k \in session.visits \cap Kinds, own \in {Empty, Old} :
             store = [i \in Ids |->
                IF i = 1 THEN [kind |-> k, state |-> "Draft",
                               has |-> [f \in Fields |-> IF f = "own" THEN own ELSE Old]]
                ELSE NoRecord]
      BY <2>1 DEF HubInit
    <3> DEFINE has == [f \in Fields |-> IF f = "own" THEN own ELSE Old]
               r == [kind |-> k, state |-> "Draft", has |-> has]
    <3>2. has \in [Fields -> Nat]
      BY DEF Empty, Old
    <3> HIDE DEF has
    <3>3. r \in Records
      BY <3>2 DEF Records
    <3>4. store = [i \in Ids |-> IF i = 1 THEN r ELSE NoRecord]
      BY <3>1 DEF has
    <3> HIDE DEF r
    <3>5. QED BY <3>3, <3>4
  <2>2. CASE ~process
    BY <2>2 DEF HubInit
  <2>3. QED BY <2>1, <2>2
<1>4. /\ tally \in HubHistory /\ tally.dropped = 0 /\ tally.walked = 0
      /\ \A m \in 1..MaxMounts : tally.made[m] = 0 /\ tally.lost[m] = 0
  <2> DEFINE zero == [m \in 1..MaxMounts |-> 0]
  <2>1. zero \in [1..MaxMounts -> Nat] /\ \A m \in 1..MaxMounts : zero[m] = 0
    OBVIOUS
  <2> HIDE DEF zero
  <2>2. tally = [made |-> zero, lost |-> zero, lostInAll |-> 0, walked |-> 0, dropped |-> 0,
                 limited |-> FALSE, foreign |-> 0, edits |-> 0]
    BY DEF HubInit, zero
  <2>3. QED BY <2>1, <2>2 DEF HubHistory
<1>5. HubTypeOK
  BY <1>1, <1>2, <1>3, <1>4, FS_EmptySet DEF HubTypeOK, Views, List, NoId, Kinds, NoVersions
<1>6. Orphans = {} /\ Submits(calls) = {}
  BY <1>1 DEF Orphans, Submits
<1>7. Accounted
  BY <1>4, <1>6, FS_EmptySet DEF Accounted, MayCreate
<1>8. FormOK /\ ResolverOK /\ VersionsAreOfTheCaseAskedFor
  BY <1>1, <1>2 DEF FormOK, OwnedKept, ResolverOK, VersionsAreOfTheCaseAskedFor, NoVersions
<1>9. QED BY <1>1, <1>5, <1>7, <1>8 DEF HubInv

-----------------------------------------------------------------------------
(* A page without a form has the empty one, any other a whole form. *)
LEMMA FormPhase ==
    ASSUME HubTypeOK
    PROVE  /\ form.phase = "none" <=> form = NoForm
           /\ form.phase # "none" => form \in FormState
BY DEF HubTypeOK, FormState, NoForm

(* The same after a step. *)
LEMMA FormPhaseAfter ==
    ASSUME HubTypeOK'
    PROVE  /\ form'.phase = "none" <=> form' = NoForm
           /\ form'.phase # "none" => form' \in FormState
BY DEF HubTypeOK, FormState, NoForm

(* One submit at most belongs to the form that is shown; all the others are
   orphans. *)
LEMMA CountOrphans ==
    ASSUME HubInv
    PROVE  /\ IsFiniteSet(Submits(calls)) /\ IsFiniteSet(Orphans)
           /\ Cardinality(Submits(calls)) \in Nat /\ Cardinality(Orphans) \in Nat
           /\ form.phase # "saving" => Orphans = Submits(calls)
           /\ Cardinality(Submits(calls)) <= Cardinality(Orphans) + 1
<1>1. IsFiniteSet(calls) /\ Submits(calls) \in SUBSET calls /\ Orphans \in SUBSET Submits(calls)
  BY DEF HubInv, HubTypeOK, Submits, Orphans
<1>2. IsFiniteSet(Submits(calls)) /\ IsFiniteSet(Orphans)
  BY <1>1, FS_Subset
<1>3. Cardinality(Submits(calls)) \in Nat /\ Cardinality(Orphans) \in Nat
  BY <1>2, FS_CardinalityType
<1>4. form.phase # "saving" => Orphans = Submits(calls)
  BY DEF Orphans
<1>5. Cardinality(Submits(calls)) <= Cardinality(Orphans) + 1
  <2>1. CASE Submits(calls) = Orphans
    BY <1>3, <2>1
  <2>2. CASE Submits(calls) # Orphans
    <3>1. PICK c \in Submits(calls) : c \notin Orphans
      BY <1>1, <2>2
    <3>2. c.mount = mount
      BY <3>1 DEF Orphans
    <3>3. \A d \in Submits(calls) : d \notin Orphans => d = c
      BY <3>2 DEF Orphans, HubInv, Accounted
    <3>4. Submits(calls) = Orphans \cup {c}
      BY <1>1, <3>1, <3>3
    <3>5. Cardinality(Orphans \cup {c}) = Cardinality(Orphans) + 1
      BY <1>2, <3>1, FS_AddElement
    <3>6. QED BY <1>3, <3>4, <3>5
  <2>3. QED BY <2>1, <2>2
<1>6. QED BY <1>2, <1>3, <1>4, <1>5

(* What a draft sends is what the form shows: an empty field is sent for the
   owner or the steps only, or the area path of a test set. *)
LEMMA Drafts ==
    ASSUME NEW k \in Kinds, NEW f \in [Fields -> Nat], f["need"] # Empty
    PROVE  /\ DOMAIN Draft(k, f) \subseteq {"need", "opt", "own"}
           /\ \A n \in DOMAIN Draft(k, f) :
                 /\ Draft(k, f)[n] \in Nat
                 /\ Draft(k, f)[n] = Empty =>
                       /\ n = "own" /\ k \in {"case", "plan", "set"}
                       /\ k # "set" => f["own"] = Empty
<1> DEFINE given == {"need"} \cup Given(f)
           owned == {"need", "own"} \cup Given(f)
<1>1. /\ Given(f) \subseteq {"opt"} /\ ("opt" \in Given(f) => f["opt"] # Empty)
      /\ Given(f) \subseteq Fields
  BY DEF Given, Fields
<1>2. ASSUME NEW names \in SUBSET Fields
      PROVE  /\ DOMAIN Only(f, names) = names
             /\ \A n \in names : Only(f, names)[n] = f[n] /\ f[n] \in Nat
  BY DEF Only
<1>3. given \in SUBSET Fields /\ owned \in SUBSET Fields /\ {"need"} \in SUBSET Fields
  BY <1>1 DEF Fields
<1>4. CASE k = "case"
  <2>1. Draft(k, f) = Only(f, owned)
    BY <1>4 DEF Draft, CaseDraft
  <2>2. QED BY <1>1, <1>2, <1>3, <1>4, <2>1
<1>5. CASE k = "plan"
  <2>1. Draft(k, f) = Only(f, owned)
    BY <1>5 DEF Draft, PlanDraft
  <2>2. QED BY <1>1, <1>2, <1>3, <1>5, <2>1
<1>6. CASE k = "set"
  <2>1. Draft(k, f) = [Only(f, owned) EXCEPT !.own = Empty]
    BY <1>6 DEF Draft, SetDraft
  <2>2. /\ DOMAIN Draft(k, f) = owned
        /\ \A n \in owned : Draft(k, f)[n] = IF n = "own" THEN Empty ELSE f[n]
    BY <1>2, <1>3, <2>1
  <2>3. QED BY <1>1, <1>3, <1>6, <2>2 DEF Empty
<1>7. CASE k = "pre"
  <2>1. Draft(k, f) = Only(f, given)
    BY <1>7 DEF Draft, PreDraft
  <2>2. QED BY <1>1, <1>2, <1>3, <1>7, <2>1
<1>8. CASE k = "exec"
  <2>1. Draft(k, f) = Only(f, {"need"})
    BY <1>8 DEF Draft, ExecDraft
  <2>2. QED BY <1>2, <1>3, <1>8, <2>1
<1>9. QED BY <1>4, <1>5, <1>6, <1>7, <1>8 DEF Kinds

-----------------------------------------------------------------------------
(* A page is mounted: the calls that are kept are those of earlier ones. *)
LEMMA Mounted ==
    ASSUME HubInv, NEW v \in Views, NEW pending \in SUBSET calls, Mount(v, pending), view' = v,
           v.at = "form" => AppShown',
           hub' \in HubStates, ResolverOK',
           store' \in [Ids -> {NoRecord} \cup Records], process' \in BOOLEAN, session' = session,
           tally' \in HubHistory,
           process' \/ tally'.limited \/ ~(process \/ tally.limited),
           \A m \in 1..MaxMounts : /\ tally'.made[m] <= 1 + tally'.lost[m]
                                   /\ m > mount => MayCreate(m)',
           \A c \in pending : c.op = "create" => MayCreate(c.mount)',
           tally'.dropped + Cardinality(Submits(pending)) <= tally'.walked
    PROVE  HubInv'
<1> DEFINE call(op) == [mount |-> mount + 1, op |-> op, kind |-> v.kind, id |-> v.id,
                        sent |-> << >>, excused |-> TRUE]
           new == IF v.at = "form" /\ v.id # NoId THEN {call("read")}
                  ELSE IF v = List("plan") THEN {call("list")} ELSE {}
<1>1. /\ mount' = mount + 1 /\ versions' = NoVersions /\ calls' = pending \cup new
      /\ form' = IF v.at = "form" THEN NewForm(v.kind, v.id) ELSE NoForm
      /\ mount \in Nat
  BY DEF Mount, HubInv, HubTypeOK
<1>2. /\ new \in {{}, {call("read")}, {call("list")}}
      /\ \A c \in new : /\ c.mount = mount + 1 /\ c.op \in {"read", "list"}
                        /\ c.kind = v.kind
                        /\ c.op = "read" => c.id \in Ids
  BY DEF Views
<1>3. IsFiniteSet(calls')
  <2>1. IsFiniteSet(new)
    BY <1>2, FS_EmptySet, FS_Singleton
  <2>2. IsFiniteSet(pending)
    BY FS_Subset DEF HubInv, HubTypeOK
  <2>3. QED BY <1>1, <2>1, <2>2, FS_Union
<1> HIDE DEF new, call
<1>4. \/ form' = NoForm
      \/ /\ form' \in FormState /\ form'.phase \in {"loading", "editing"}
         /\ form'.loaded = FALSE
  <2>1. Blank \in [Fields -> Nat]
    BY DEF Blank, Empty
  <2>2. QED BY <1>1, <2>1 DEF NewForm, FormState
<1>5. form'.phase # "saving"
  BY <1>4 DEF NoForm
<1>6. HubTypeOK'
  BY <1>1, <1>3, <1>4 DEF HubInv, HubTypeOK, NoVersions
<1>7. ASSUME NEW c \in calls' PROVE CallOK(c)'
  <2>1. CASE c \in new
    BY <1>1, <1>2, <2>1 DEF CallOK
  <2>2. CASE c \in pending
    <3>1. CallOK(c) /\ c.mount \in Nat /\ c.mount <= mount
      BY <2>2 DEF HubInv, CallOK
    <3>2. c.mount # mount' /\ c.mount <= mount'
      BY <1>1, <3>1
    <3>3. c.op = "create" => MayCreate(c.mount)' /\ (process' \/ tally'.limited)
      BY <2>2, <3>1 DEF CallOK
    <3>4. QED BY <3>1, <3>2, <3>3 DEF CallOK, SentOK
  <2>3. QED BY <1>1, <2>1, <2>2
<1>8. FormOK'
  <2>1. v.at = "list" \/ ~AppShown' => form' = NoForm
    BY <1>1 DEF Views
  <2>2. MayCreate(mount)'
    BY <1>1 DEF MayCreate
  <2>3. form' # NoForm => form'.loaded = FALSE
    BY <1>4
  <2>4. QED BY <2>1, <2>2, <2>3 DEF FormOK, OwnedKept
<1>9. Submits(calls)' = Submits(pending) /\ Orphans' = Submits(pending)
  BY <1>1, <1>2, <1>5 DEF Submits, Orphans
<1>10. Accounted'
  <2>1. \A m \in 1..MaxMounts : m > mount' => MayCreate(m)'
    BY <1>1
  <2>2. \A c, d \in Submits(pending) : c.mount = d.mount => c = d
    BY DEF HubInv, Accounted, Submits
  <2>3. QED BY <1>9, <2>1, <2>2 DEF Accounted
<1>11. VersionsAreOfTheCaseAskedFor'
  BY <1>1 DEF VersionsAreOfTheCaseAskedFor, NoVersions
<1>12. QED BY <1>6, <1>7, <1>8, <1>10, <1>11 DEF HubInv

(* The page stays mounted and no submit starts or ends. *)
LEMMA Quiet ==
    ASSUME HubInv, mount' = mount, view' = view, session' = session,
           hub' \in HubStates, AppShown => AppShown', ResolverOK',
           \/ form = NoForm /\ form' = NoForm
           \/ /\ form \in FormState /\ form' \in FormState
              /\ form.phase = "saving" <=> form'.phase = "saving"
              /\ form'.phase = "loading" => form.phase = "loading"
              /\ OwnedKept',
           store' \in [Ids -> {NoRecord} \cup Records], process' \in BOOLEAN,
           process' \/ tally'.limited \/ ~(process \/ tally.limited),
           tally' \in HubHistory, tally'.made = tally.made, tally'.lost = tally.lost,
           tally'.walked = tally.walked, tally'.dropped = tally.dropped,
           IsFiniteSet(calls'), Submits(calls)' = Submits(calls),
           \A c \in calls' \ calls : c.mount = mount /\ c.op # "read",
           DOMAIN versions' = DOMAIN versions, VersionsAreOfTheCaseAskedFor'
    PROVE  HubInv'
<1>1. HubTypeOK'
  BY DEF HubInv, HubTypeOK
<1>2. /\ form = NoForm <=> form' = NoForm
      /\ form.phase = "saving" <=> form'.phase = "saving"
      /\ form.phase = "none" <=> form'.phase = "none"
  BY DEF NoForm, FormState
<1>3. /\ form' # NoForm => form \in FormState /\ form' \in FormState
                           /\ (form'.phase = "loading" => form.phase = "loading") /\ OwnedKept'
  BY DEF NoForm, FormState
<1>4. \A m : MayCreate(m)' <=> MayCreate(m)
  BY DEF MayCreate
<1>5. ASSUME NEW c \in calls' PROVE CallOK(c)'
  <2>1. CASE c \in Submits(calls)
    <3>1. CallOK(c) /\ c.op \in {"create", "update"}
      BY <2>1 DEF HubInv, Submits
    <3>2. c.mount = mount' => form'.phase \in {"saving", "none"}
      BY <1>2, <3>1 DEF CallOK
    <3>3. QED BY <1>4, <3>1, <3>2 DEF CallOK, SentOK
  <2>2. CASE c \notin Submits(calls)
    <3>1. c.op \notin {"create", "update"}
      BY <2>2 DEF Submits
    <3>2. CASE c \in calls
      <4>1. CallOK(c)
        BY <3>2 DEF HubInv
      <4>2. form'.phase = "loading" => form.phase = "loading"
        BY <1>3 DEF NoForm
      <4>3. QED BY <3>1, <4>1, <4>2 DEF CallOK
    <3>3. CASE c \notin calls
      BY <3>1, <3>3 DEF CallOK, HubInv, HubTypeOK
    <3>4. QED BY <3>2, <3>3
  <2>3. QED BY <2>1, <2>2
<1>6. FormOK'
  <2>1. OwnedKept'
    BY <1>3 DEF OwnedKept
  <2>2. form' # NoForm => MayCreate(mount)'
    BY <1>2, <1>4 DEF HubInv, FormOK
  <2>3. view'.at = "list" \/ ~AppShown' => form' = NoForm
    BY <1>2 DEF HubInv, FormOK
  <2>4. QED BY <2>1, <2>2, <2>3 DEF FormOK
<1>7. Accounted'
  <2>1. Orphans' = Orphans
    BY <1>2 DEF Orphans
  <2>2. \A m \in 1..MaxMounts : m > mount' => MayCreate(m)'
    BY <1>4 DEF HubInv, Accounted
  <2>3. QED BY <2>1, <2>2 DEF HubInv, Accounted
<1>8. QED BY <1>1, <1>5, <1>6, <1>7 DEF HubInv

(* The versions that are shown stay, and so does a fetch of other ones. *)
LEMMA VersionsStay ==
    ASSUME VersionsAreOfTheCaseAskedFor, mount' = mount, versions' = versions,
           \A c \in calls : c.op = "versions" => c \in calls'
    PROVE  VersionsAreOfTheCaseAskedFor'
BY DEF VersionsAreOfTheCaseAskedFor

(* The answer of a call that is no submit: the other calls stay. *)
LEMMA AnsweredCall ==
    ASSUME HubInv, NEW c \in calls, c.op \notin {"create", "update"}, calls' = calls \ {c}
    PROVE  /\ IsFiniteSet(calls') /\ Submits(calls)' = Submits(calls)
           /\ \A d \in calls' \ calls : d.mount = mount /\ d.op # "read"
<1>1. IsFiniteSet(calls')
  BY FS_RemoveElement DEF HubInv, HubTypeOK
<1>2. QED BY <1>1 DEF Submits

(* A call of the mounted page that is no submit and no read. *)
LEMMA AskedCall ==
    ASSUME HubInv, NEW c, c.mount = mount, c.op \notin {"create", "update", "read"},
           calls' = calls \cup {c}
    PROVE  /\ IsFiniteSet(calls') /\ Submits(calls)' = Submits(calls)
           /\ \A d \in calls' \ calls : d.mount = mount /\ d.op # "read"
<1>1. IsFiniteSet(calls')
  BY FS_AddElement DEF HubInv, HubTypeOK
<1>2. QED BY <1>1 DEF Submits

(* What is left in flight as the user leaves a form is counted. *)
LEMMA Left ==
    ASSUME HubInv, WalksAway \/ (tally' = tally /\ form.phase # "saving")
    PROVE  /\ tally' \in HubHistory /\ tally'.made = tally.made /\ tally'.lost = tally.lost
           /\ tally'.dropped = tally.dropped /\ tally'.limited = tally.limited
           /\ tally'.dropped + Cardinality(Submits(calls)) <= tally'.walked
<1>1. tally \in HubHistory /\ tally.walked \in Nat /\ tally.dropped \in Nat
  BY DEF HubInv, HubTypeOK, HubHistory
<1>2. tally.dropped + Cardinality(Orphans) <= tally.walked
  BY DEF HubInv, Accounted
<1>3. CASE WalksAway /\ form.phase = "saving"
  <2>1. tally' = [tally EXCEPT !.walked = tally.walked + 1] /\ tally.walked + 1 \in Nat
    BY <1>1, <1>3 DEF WalksAway
  <2>2. /\ tally' \in HubHistory /\ tally'.made = tally.made /\ tally'.lost = tally.lost
        /\ tally'.dropped = tally.dropped /\ tally'.limited = tally.limited
        /\ tally'.walked = tally.walked + 1
    BY <1>1, <2>1 DEF HubHistory
  <2>3. QED BY <1>1, <1>2, <2>2, CountOrphans
<1>4. CASE form.phase # "saving"
  <2>1. tally' = tally
    BY <1>1, <1>4 DEF WalksAway, HubHistory
  <2>2. QED BY <1>1, <1>2, <1>4, <2>1, CountOrphans
<1>5. QED BY <1>3, <1>4

(* The user goes to another page, or the page comes back. *)
LEMMA Moved ==
    ASSUME HubInv, NEW v \in Views, Mount(v, calls), view' = v, v.at = "form" => AppShown',
           hub' \in HubStates, ResolverOK', UNCHANGED << session, store, process, types >>,
           WalksAway \/ (tally' = tally /\ form.phase # "saving")
    PROVE  HubInv'
<1>1. /\ tally' \in HubHistory /\ tally'.made = tally.made /\ tally'.lost = tally.lost
      /\ tally'.dropped = tally.dropped /\ tally'.limited = tally.limited
      /\ tally'.dropped + Cardinality(Submits(calls)) <= tally'.walked
  BY Left
<1>2. \A m : MayCreate(m)' <=> MayCreate(m)
  BY <1>1 DEF MayCreate
<1>3. \A c \in calls : c.op = "create" => MayCreate(c.mount)'
  BY <1>2 DEF HubInv, CallOK
<1>4. \A m \in 1..MaxMounts : /\ tally'.made[m] <= 1 + tally'.lost[m]
                              /\ m > mount => MayCreate(m)'
  BY <1>1, <1>2 DEF HubInv, Accounted
<1>5. store' \in [Ids -> {NoRecord} \cup Records] /\ process' \in BOOLEAN
  BY DEF HubInv, HubTypeOK
<1>6. process' \/ tally'.limited \/ ~(process \/ tally.limited)
  BY <1>1
<1> HIDE DEF Mount
<1>7. QED BY <1>1, <1>3, <1>4, <1>5, <1>6, Mounted

(* What the hub knows of the types changes. *)
LEMMA SettleStep ==
    ASSUME HubInv, NEW h \in HubStates, h.installed = "yes" => process, Settle(h)
    PROVE  HubInv'
<1>1. /\ hub' = h /\ view \in Views
      /\ UNCHANGED << session, view, store, process, types >>
  BY DEF Settle, HubInv, HubTypeOK
<1>2. tally'.limited = tally.limited => ResolverOK'
  BY <1>1 DEF HubInv, ResolverOK
<1>3. AppShown' <=> Shown(h)
  BY <1>1 DEF AppShown
<1>4. CASE Shown(h) /\ ~Shown(hub) /\ Mount(view, calls) /\ UNCHANGED tally
  <2>1. form.phase # "saving"
    BY <1>4 DEF HubInv, FormOK, AppShown, NoForm
  <2>2. QED BY <1>1, <1>2, <1>3, <1>4, <2>1, Moved
<1>5. CASE Shown(hub) /\ ~Shown(h) /\ form' = NoForm /\ WalksAway
             /\ UNCHANGED << mount, rows, versions, calls >>
  <2>1. /\ tally' \in HubHistory /\ tally'.made = tally.made /\ tally'.lost = tally.lost
        /\ tally'.dropped = tally.dropped /\ tally'.limited = tally.limited
        /\ tally'.dropped + Cardinality(Submits(calls)) <= tally'.walked
    BY <1>5, Left
  <2>2. HubTypeOK'
    BY <1>1, <1>5, <2>1 DEF HubInv, HubTypeOK
  <2>3. \A m : MayCreate(m)' <=> MayCreate(m)
    BY <2>1 DEF MayCreate
  <2>4. ASSUME NEW c \in calls' PROVE CallOK(c)'
    <3>1. CallOK(c) /\ form'.phase = "none"
      BY <1>5, <2>4 DEF HubInv, NoForm
    <3>2. QED BY <1>1, <1>5, <2>1, <2>3, <3>1 DEF CallOK, SentOK
  <2>5. FormOK'
    BY <1>5 DEF FormOK, OwnedKept
  <2>6. Orphans' = Submits(calls) /\ Submits(calls)' = Submits(calls)
    BY <1>5 DEF Orphans, Submits, NoForm
  <2>7. Accounted'
    <3>1. \A m \in 1..MaxMounts : m > mount' => MayCreate(m)'
      BY <1>5, <2>3 DEF HubInv, Accounted
    <3>2. QED BY <2>1, <2>6, <3>1 DEF HubInv, Accounted
  <2>8. VersionsAreOfTheCaseAskedFor'
    BY <1>5, VersionsStay DEF HubInv
  <2>9. QED BY <1>2, <2>1, <2>2, <2>4, <2>5, <2>7, <2>8 DEF HubInv
<1>6. CASE (Shown(hub) <=> Shown(h)) /\ UNCHANGED << mount, form, rows, versions, calls, tally >>
  <2>1. \/ form = NoForm /\ form' = NoForm
        \/ form \in FormState /\ form' \in FormState /\ form' = form /\ OwnedKept'
    BY <1>1, <1>6 DEF HubInv, HubTypeOK, FormOK, OwnedKept
  <2>2. /\ IsFiniteSet(calls') /\ Submits(calls)' = Submits(calls) /\ calls' \ calls = {}
        /\ tally' \in HubHistory /\ store' \in [Ids -> {NoRecord} \cup Records]
        /\ process' \in BOOLEAN
    BY <1>1, <1>6 DEF HubInv, HubTypeOK, Submits
  <2>3. VersionsAreOfTheCaseAskedFor'
    BY <1>6, VersionsStay DEF HubInv
  <2>4. AppShown => AppShown'
    BY <1>3, <1>6 DEF AppShown
  <2>5. QED BY <1>1, <1>2, <1>6, <2>1, <2>2, <2>3, <2>4, Quiet
<1>7. QED BY <1>4, <1>5, <1>6 DEF Settle

-----------------------------------------------------------------------------
(* Detection, the wizard and the limited mode. *)

(* The answer of the detection, true to the process or too early after an install. *)
LEMMA DetectedStep ==
    ASSUME HubInv, NEW h \in HubStates, Detected(h)
    PROVE  HubInv'
<1>1. PICK known \in {process} \cup (IF session.flaky THEN {FALSE} ELSE {}) :
         Settle([h EXCEPT !.installed = IF known THEN "yes" ELSE "no"])
  BY DEF Detected
<1> DEFINE to == [h EXCEPT !.installed = IF known THEN "yes" ELSE "no"]
<1>2. to \in HubStates /\ (to.installed = "yes" => process)
  BY <1>1 DEF HubStates, HubInv, HubTypeOK
<1> HIDE DEF to
<1>3. Settle(to)
  BY <1>1 DEF to
<1>4. QED BY <1>2, <1>3, SettleStep

(* The steps of the hub around the detection. *)
LEMMA HubSteps ==
    ASSUME HubInv,
           \/ DetectAnswer \/ SkippedAnswer \/ handleSkip \/ handleRefreshDetection
           \/ RefreshAnswer \/ InstallNow
    PROVE  HubInv'
<1>1. hub \in HubStates /\ (hub.installed = "yes" => process)
  BY DEF HubInv, HubTypeOK, ResolverOK
<1>2. CASE DetectAnswer
  BY <1>1, <1>2, DetectedStep DEF DetectAnswer
<1>3. CASE SkippedAnswer
  <2> DEFINE to == [hub EXCEPT !.skipped = TRUE, !.remembered = FALSE]
  <2>1. to \in HubStates /\ to.installed = hub.installed
    BY <1>1 DEF HubStates
  <2> HIDE DEF to
  <2>2. Settle(to)
    BY <1>3 DEF SkippedAnswer, to
  <2>3. QED BY <1>1, <2>1, <2>2, SettleStep
<1>4. CASE handleSkip
  <2> DEFINE to == [Leaving(hub) EXCEPT !.skipped = TRUE]
  <2>1. Leaving(hub) \in HubStates /\ Leaving(hub).installed = hub.installed
    BY <1>1 DEF HubStates, Leaving
  <2>2. to \in HubStates /\ to.installed = hub.installed
    BY <2>1 DEF HubStates
  <2> HIDE DEF to
  <2>3. Settle(to)
    BY <1>4 DEF handleSkip, to
  <2>4. QED BY <1>1, <2>2, <2>3, SettleStep
<1>5. CASE handleRefreshDetection
  <2> DEFINE to == [hub EXCEPT !.refresh = @ \cup {"here"}]
  <2>1. to \in HubStates /\ to.installed = hub.installed
    BY <1>1 DEF HubStates
  <2> HIDE DEF to
  <2>2. Settle(to)
    BY <1>5 DEF handleRefreshDetection, to
  <2>3. QED BY <1>1, <2>1, <2>2, SettleStep
<1>6. CASE RefreshAnswer
  <2>1. PICK r \in hub.refresh : Detected([hub EXCEPT !.refresh = @ \ {r}])
    BY <1>6 DEF RefreshAnswer
  <2> DEFINE to == [hub EXCEPT !.refresh = @ \ {r}]
  <2>2. to \in HubStates
    BY <1>1 DEF HubStates
  <2> HIDE DEF to
  <2>3. Detected(to)
    BY <2>1 DEF to
  <2>4. QED BY <2>2, <2>3, DetectedStep
<1>7. CASE InstallNow
  <2> DEFINE to == [hub EXCEPT !.skipped = FALSE]
  <2>1. to \in HubStates /\ to.installed = hub.installed
    BY <1>1 DEF HubStates
  <2> HIDE DEF to
  <2>2. Settle(to)
    BY <1>7 DEF InstallNow, to
  <2>3. QED BY <1>1, <2>1, <2>2, SettleStep
<1>8. QED BY <1>2, <1>3, <1>4, <1>5, <1>6, <1>7

(* The page stays as it is, whatever else happens. *)
LEMMA PageStays ==
    ASSUME HubInv, UNCHANGED << session, hub, view, mount, form, versions >>,
           IsFiniteSet(calls'), Submits(calls)' = Submits(calls),
           \A c \in calls' \ calls : c.mount = mount /\ c.op # "read",
           \A c \in calls : c.op = "versions" => c \in calls',
           store' \in [Ids -> {NoRecord} \cup Records], process' \in BOOLEAN,
           process => process', types' = "without" => types = "without" \/ tally.limited,
           tally' \in HubHistory, tally'.made = tally.made, tally'.lost = tally.lost,
           tally'.walked = tally.walked, tally'.dropped = tally.dropped,
           tally'.limited = tally.limited
    PROVE  HubInv'
<1>1. \/ form = NoForm /\ form' = NoForm
      \/ form \in FormState /\ form' \in FormState /\ form' = form /\ OwnedKept'
  BY DEF HubInv, HubTypeOK, FormOK, OwnedKept
<1>2. ResolverOK' /\ hub' \in HubStates
  BY DEF HubInv, HubTypeOK, ResolverOK
<1>3. VersionsAreOfTheCaseAskedFor'
  BY VersionsStay DEF HubInv
<1>4. AppShown => AppShown'
  BY DEF AppShown
<1>5. process' \/ tally'.limited \/ ~(process \/ tally.limited)
  OBVIOUS
<1>6. QED BY <1>1, <1>2, <1>3, <1>4, <1>5, Quiet

(* An administrator installs the types behind the page. *)
LEMMA InstallStep == ASSUME HubInv, InstallTypes PROVE HubInv'
<1>1. IsFiniteSet(calls') /\ Submits(calls)' = Submits(calls) /\ calls' = calls
  BY DEF InstallTypes, HubInv, HubTypeOK, Submits
<1>2. store' \in [Ids -> {NoRecord} \cup Records] /\ tally' \in HubHistory
  BY DEF InstallTypes, HubInv, HubTypeOK
<1>3. QED BY <1>1, <1>2, PageStays DEF InstallTypes

-----------------------------------------------------------------------------
(* The router. *)

(* A page that is opened takes the place of the shown one and of its form. *)
LEMMA Routed ==
    ASSUME HubInv, NEW v \in Views, setView(v), AppShown,
           UNCHANGED << session, hub, store, process, types >>,
           WalksAway \/ (tally' = tally /\ form.phase # "saving")
    PROVE  HubInv'
<1>1. Mount(v, calls) /\ view' = v
  BY DEF setView
<1>2. AppShown' /\ hub' \in HubStates
  BY DEF AppShown, HubInv, HubTypeOK
<1>3. ResolverOK'
  <2>1. tally'.limited = tally.limited
    BY Left
  <2>2. QED BY <2>1 DEF HubInv, ResolverOK
<1> HIDE DEF Mount
<1>4. QED BY <1>1, <1>2, <1>3, Moved

(* The steps of the router. *)
LEMMA RouterSteps ==
    ASSUME HubInv,
           \/ \E k \in Kinds \cup {"versions"} : goToTab(k)
           \/ \E k \in Kinds : onCreateNew(k)
           \/ \E i \in Ids : onEditPlan(i)
           \/ onCancel \/ goToRunTestForCase \/ handleReRun
    PROVE  HubInv'
<1>1. \A k \in Kinds \cup {"versions"} : List(k) \in Views
  BY DEF List, Views
<1>2. \A k \in Kinds, i \in Ids \cup {NoId} : Form(k, i) \in Views
  BY DEF Form, Views
<1>3. view \in Views /\ view.kind \in Kinds \cup {"versions"}
  BY DEF HubInv, HubTypeOK, Views
<1>4. view.at = "list" => form.phase # "saving"
  BY DEF HubInv, FormOK, NoForm
<1>5. ASSUME NEW k \in Kinds \cup {"versions"}, goToTab(k) PROVE HubInv'
  BY <1>1, <1>5, Routed DEF goToTab
<1>6. ASSUME NEW k \in Kinds, onCreateNew(k) PROVE HubInv'
  <2>1. view.at = "list" /\ Form(k, NoId) \in Views
    BY <1>2, <1>6 DEF onCreateNew, List
  <2>2. QED BY <1>4, <1>6, <2>1, Routed DEF onCreateNew
<1>7. ASSUME NEW i \in Ids, onEditPlan(i) PROVE HubInv'
  <2>1. view.at = "list" /\ Form(view.kind, i) \in Views
    BY <1>2, <1>7, HubAssumption DEF onEditPlan, Kinds
  <2>2. QED BY <1>4, <1>7, <2>1, Routed DEF onEditPlan
<1>8. CASE onCancel
  BY <1>1, <1>3, <1>8, Routed DEF onCancel
<1>9. CASE goToRunTestForCase
  <2>1. Form("exec", NoId) \in Views
    BY <1>2 DEF Kinds
  <2>2. QED BY <1>9, <2>1, Routed DEF goToRunTestForCase
<1>10. CASE handleReRun
  <2>1. List("exec") \in Views
    BY <1>1 DEF Kinds
  <2>2. QED BY <1>10, <2>1, Routed DEF handleReRun
<1>11. QED BY <1>5, <1>6, <1>7, <1>8, <1>9, <1>10

-----------------------------------------------------------------------------
(* The lists. *)

(* A list is shown as it was read. *)
LEMMA RefetchStep == ASSUME HubInv, NEW c \in calls, refetch(c) PROVE HubInv'
<1>1. /\ c.op = "list" /\ calls' = calls \ {c}
      /\ UNCHANGED << session, hub, view, mount, form, versions, store, process, types, tally >>
  BY DEF refetch
<1>2. /\ IsFiniteSet(calls') /\ Submits(calls)' = Submits(calls)
      /\ \A d \in calls' \ calls : d.mount = mount /\ d.op # "read"
  BY <1>1, AnsweredCall
<1>3. /\ store' \in [Ids -> {NoRecord} \cup Records] /\ tally' \in HubHistory
      /\ process' \in BOOLEAN
  BY <1>1 DEF HubInv, HubTypeOK
<1>4. QED BY <1>1, <1>2, <1>3, PageStays

(* The types a creation remembers are those of the process, or it is one of the limited mode. *)
LEMMA EnsureCacheStep == ASSUME HubInv, NEW c \in calls, ensureCache(c) PROVE HubInv'
<1>1. /\ c.op = "create" /\ types' = IF process THEN "with" ELSE "without"
      /\ UNCHANGED << session, hub, view, mount, form, versions, calls, store, process, tally >>
  BY DEF ensureCache
<1>2. process \/ tally.limited
  BY <1>1 DEF HubInv, CallOK
<1>3. IsFiniteSet(calls') /\ Submits(calls)' = Submits(calls) /\ calls' \ calls = {}
  BY <1>1 DEF HubInv, HubTypeOK, Submits
<1>4. /\ store' \in [Ids -> {NoRecord} \cup Records] /\ tally' \in HubHistory
      /\ process' \in BOOLEAN
  BY <1>1 DEF HubInv, HubTypeOK
<1>5. QED BY <1>1, <1>2, <1>3, <1>4, PageStays

(* What a page that stays mounted needs besides its versions. *)
LEMMA ListStays ==
    ASSUME HubInv,
           UNCHANGED << session, hub, view, mount, form, store, process, types, tally >>,
           IsFiniteSet(calls'), Submits(calls)' = Submits(calls),
           \A d \in calls' \ calls : d.mount = mount /\ d.op # "read",
           DOMAIN versions' = DOMAIN versions, VersionsAreOfTheCaseAskedFor'
    PROVE  HubInv'
<1>1. \/ form = NoForm /\ form' = NoForm
      \/ form \in FormState /\ form' \in FormState /\ form' = form /\ OwnedKept'
  BY DEF HubInv, HubTypeOK, FormOK, OwnedKept
<1>2. /\ hub' \in HubStates /\ ResolverOK' /\ store' \in [Ids -> {NoRecord} \cup Records]
      /\ process' \in BOOLEAN /\ tally' \in HubHistory
  BY DEF HubInv, HubTypeOK, ResolverOK
<1>3. (AppShown => AppShown') /\ (process' \/ tally'.limited \/ ~(process \/ tally.limited))
  BY DEF AppShown
<1>4. QED BY <1>1, <1>2, <1>3, Quiet

(* A search asks for the versions of a case. *)
LEMMA SearchStep == ASSUME HubInv, NEW i \in Ids, handleSearch(i) PROVE HubInv'
<1> DEFINE c == Call("versions", i)
<1>1. c.mount = mount /\ c.op = "versions"
  BY DEF Call
<1> HIDE DEF c
<1>2. /\ calls' = calls \cup {c} /\ mount' = mount
      /\ UNCHANGED << session, hub, view, mount, form, store, process, types, tally >>
  BY DEF handleSearch, c
<1>3. /\ IsFiniteSet(calls') /\ Submits(calls)' = Submits(calls)
      /\ \A d \in calls' \ calls : d.mount = mount /\ d.op # "read"
  BY <1>1, <1>2, AskedCall
<1>4. VersionsAreOfTheCaseAskedFor'
  BY <1>1, <1>2 DEF VersionsAreOfTheCaseAskedFor
<1>5. DOMAIN versions' = DOMAIN versions
  BY DEF handleSearch
<1>6. QED BY <1>2, <1>3, <1>4, <1>5, ListStays

(* Only the answer for the case asked for last is shown. *)
LEMMA SnapshotsStep == ASSUME HubInv, NEW c \in calls, listSnapshots(c) PROVE HubInv'
<1>1. /\ c.op = "versions" /\ calls' = calls \ {c} /\ mount' = mount
      /\ UNCHANGED << session, hub, view, mount, form, store, process, types, tally >>
  BY DEF listSnapshots
<1>2. /\ IsFiniteSet(calls') /\ Submits(calls)' = Submits(calls)
      /\ \A d \in calls' \ calls : d.mount = mount /\ d.op # "read"
  BY <1>1, AnsweredCall
<1>3. VersionsAreOfTheCaseAskedFor'
  <2>1. CASE c.mount # mount
    <3>1. versions' = versions
      BY <2>1 DEF listSnapshots
    <3>2. QED BY <1>1, <2>1, <3>1 DEF HubInv, VersionsAreOfTheCaseAskedFor
  <2>2. CASE c.mount = mount
    <3>1. PICK late \in BOOLEAN : late <=> c.id # versions.asked
      OBVIOUS
    <3>2. \/ versions' = [versions EXCEPT !.shown = c.id, !.overtaken = c.id # versions.asked]
          \/ versions' = [versions EXCEPT !.failed = TRUE]
      BY <2>2 DEF listSnapshots
    <3>3. DOMAIN versions = {"asked", "shown", "failed", "overtaken"}
      BY DEF HubInv, HubTypeOK
    <3>4. QED BY <3>2, <3>3 DEF VersionsAreOfTheCaseAskedFor
  <2>3. QED BY <2>1, <2>2
<1>4. DOMAIN versions' = DOMAIN versions
  BY DEF listSnapshots
<1>5. QED BY <1>1, <1>2, <1>3, <1>4, ListStays

-----------------------------------------------------------------------------
(* The forms. *)

(* The shown form changes, and neither a submit nor the list of versions. *)
LEMMA FormStays ==
    ASSUME HubInv, UNCHANGED << session, hub, view, mount, versions, process, types >>,
           \/ form' = form
           \/ /\ form \in FormState /\ form' \in FormState
              /\ form.phase = "saving" <=> form'.phase = "saving"
              /\ form'.phase = "loading" => form.phase = "loading"
              /\ OwnedKept',
           IsFiniteSet(calls'), Submits(calls)' = Submits(calls),
           \A c \in calls' \ calls : c.mount = mount /\ c.op # "read",
           \A c \in calls : c.op = "versions" => c \in calls',
           store' \in [Ids -> {NoRecord} \cup Records],
           tally' \in HubHistory, tally'.made = tally.made, tally'.lost = tally.lost,
           tally'.walked = tally.walked, tally'.dropped = tally.dropped,
           tally'.limited = tally.limited
    PROVE  HubInv'
<1>1. \/ form = NoForm /\ form' = NoForm
      \/ /\ form \in FormState /\ form' \in FormState
         /\ form.phase = "saving" <=> form'.phase = "saving"
         /\ form'.phase = "loading" => form.phase = "loading"
         /\ OwnedKept'
  BY DEF HubInv, HubTypeOK, FormOK, OwnedKept
<1>2. ResolverOK' /\ hub' \in HubStates /\ process' \in BOOLEAN /\ (AppShown => AppShown')
  BY DEF HubInv, HubTypeOK, ResolverOK, AppShown
<1>3. VersionsAreOfTheCaseAskedFor' /\ DOMAIN versions' = DOMAIN versions
  BY VersionsStay DEF HubInv
<1>4. process' \/ tally'.limited \/ ~(process \/ tally.limited)
  OBVIOUS
<1>5. QED BY <1>1, <1>2, <1>3, <1>4, Quiet

(* The record read fills the form it was read for, or an error is shown. *)
LEMMA ReadStepOfForm == ASSUME HubInv, NEW c \in calls, ReadAnswer(c) PROVE HubInv'
<1>1. /\ c.op = "read" /\ calls' = calls \ {c}
      /\ UNCHANGED << session, hub, view, mount, rows, versions, store, process, types, tally >>
  BY DEF ReadAnswer
<1>2. /\ IsFiniteSet(calls') /\ Submits(calls)' = Submits(calls)
      /\ \A d \in calls' \ calls : d.mount = mount /\ d.op # "read"
      /\ \A d \in calls : d.op = "versions" => d \in calls'
  BY <1>1, AnsweredCall
<1>3. store' \in [Ids -> {NoRecord} \cup Records] /\ tally' \in HubHistory
  BY <1>1 DEF HubInv, HubTypeOK
<1>4. CASE form' = form
  BY <1>1, <1>2, <1>3, <1>4, FormStays
<1>5. CASE c.mount = mount /\ form.phase = "loading" /\ form' # form
  <2>1. form \in FormState /\ c.kind = view.kind /\ c.id \in Ids
    BY <1>1, <1>5, FormPhase DEF HubInv, CallOK
  <2> DEFINE seen == [f \in Fields |->
                         IF f \in Loads(c.kind) THEN store[c.id].has[f] ELSE Empty]
  <2>2. CASE /\ Stored(c.id)
             /\ form' = [form EXCEPT !.phase = "editing", !.loaded = TRUE, !.shown = seen,
                            !.base = store[c.id].has, !.state = store[c.id].state]
    <3>1. store[c.id] \in Records
      BY <2>1, <2>2 DEF HubInv, HubTypeOK, Stored, NoRecord
    <3>2. /\ store[c.id].has \in [Fields -> Nat] /\ store[c.id].state \in {"Draft", "Locked"}
      BY <3>1 DEF Records
    <3>3. seen \in [Fields -> Nat]
      BY <3>2 DEF Empty
    <3>4. view.kind \in {"case", "plan"} => seen["own"] = store[c.id].has["own"]
      BY <2>1 DEF Loads, CaseLoads, PlanLoads, Fields
    <3> HIDE DEF seen
    <3>5. /\ form' \in FormState /\ form'.phase = "editing" /\ form'.shown = seen
          /\ form'.base = store[c.id].has
      BY <2>1, <2>2, <3>2, <3>3 DEF FormState
    <3>6. OwnedKept'
      BY <1>1, <3>4, <3>5 DEF OwnedKept
    <3>7. QED BY <1>1, <1>2, <1>3, <1>5, <2>1, <3>5, <3>6, FormStays
  <2>3. CASE form' = [form EXCEPT !.phase = LoadFailure(c.kind)]
    <3>1. LoadFailure(c.kind) \in {"editing", "failed"}
      BY DEF LoadFailure
    <3>2. /\ form' \in FormState /\ form'.phase \in {"editing", "failed"}
          /\ form'.shown = form.shown /\ form'.base = form.base
          /\ form'.loaded = form.loaded /\ form'.emptied = form.emptied
      BY <2>1, <2>3, <3>1 DEF FormState
    <3>3. OwnedKept'
      BY <1>1, <1>5, <3>2 DEF HubInv, FormOK, OwnedKept, NoForm
    <3>4. QED BY <1>1, <1>2, <1>3, <1>5, <2>1, <3>2, <3>3, FormStays
  <2>4. QED BY <1>5, <2>2, <2>3 DEF ReadAnswer
<1>6. QED BY <1>4, <1>5 DEF ReadAnswer

(* An edit of the form marks the field as the user's. *)
LEMMA EditStepOfForm ==
    ASSUME HubInv, NEW f \in Fields, NEW value \in {Empty, Typed}, Edit(f, value)
    PROVE  HubInv'
<1>1. /\ form.phase = "editing" /\ form \in FormState
      /\ UNCHANGED << session, hub, view, mount, rows, versions, calls, store, process, types >>
  BY FormPhase DEF Edit, HubInv
<1>2. PICK b \in BOOLEAN : /\ b <=> value = Empty
                           /\ form' = [form EXCEPT !.shown[f] = value, !.dirty = TRUE,
                                           !.emptied = IF f = "own" THEN b ELSE @]
  <2>1. (value = Empty) \in BOOLEAN
    OBVIOUS
  <2>2. QED BY <2>1 DEF Edit
<1> DEFINE sh == [form.shown EXCEPT ![f] = value]
           em == IF f = "own" THEN b ELSE form.emptied
<1>3. /\ sh \in [Fields -> Nat] /\ sh["own"] = (IF f = "own" THEN value ELSE form.shown["own"])
      /\ em \in BOOLEAN
  BY <1>1 DEF FormState, Empty, Typed, Fields
<1>4. form' = [form EXCEPT !.shown = sh, !.dirty = TRUE, !.emptied = em]
  BY <1>1, <1>2 DEF FormState
<1> HIDE DEF sh
<1>5. /\ form' \in FormState /\ form'.shown = sh /\ form'.emptied = em
      /\ form'.phase = form.phase /\ form'.base = form.base /\ form'.loaded = form.loaded
  BY <1>1, <1>3, <1>4 DEF FormState
<1>6. OwnedKept'
  <2>1. form # NoForm
    BY <1>1 DEF NoForm
  <2>2. QED BY <1>1, <1>2, <1>3, <1>5, <2>1 DEF HubInv, FormOK, OwnedKept
<1>7. /\ tally' \in HubHistory /\ tally'.made = tally.made /\ tally'.lost = tally.lost
      /\ tally'.walked = tally.walked /\ tally'.dropped = tally.dropped
      /\ tally'.limited = tally.limited
  <2>1. tally \in HubHistory /\ tally' = [tally EXCEPT !.edits = tally.edits + 1]
    BY DEF HubInv, HubTypeOK, Edit
  <2>2. tally.edits + 1 \in Nat
    BY <2>1 DEF HubHistory
  <2>3. QED BY <2>1, <2>2 DEF HubHistory
<1>8. /\ IsFiniteSet(calls') /\ Submits(calls)' = Submits(calls) /\ calls' = calls
      /\ store' \in [Ids -> {NoRecord} \cup Records]
  BY <1>1 DEF HubInv, HubTypeOK, Submits
<1>9. QED BY <1>1, <1>5, <1>6, <1>7, <1>8, FormStays

(* The lock of a snapshot is asked for. *)
LEMMA LockStepOfForm ==
    ASSUME HubInv, NEW op \in {"lock", "unlock"}, handleLock(op)
    PROVE  HubInv'
<1>1. /\ form.phase = "editing" /\ form \in FormState /\ form' = [form EXCEPT !.moving = TRUE]
      /\ UNCHANGED << session, hub, view, mount, rows, versions, store, process, types, tally >>
  BY FormPhase DEF handleLock, HubInv
<1> DEFINE c == Call(op, view.id)
<1>2. c.mount = mount /\ c.op = op
  BY DEF Call
<1> HIDE DEF c
<1>3. calls' = calls \cup {c}
  BY DEF handleLock, c
<1>4. /\ IsFiniteSet(calls') /\ Submits(calls)' = Submits(calls)
      /\ \A d \in calls' \ calls : d.mount = mount /\ d.op # "read"
  BY <1>2, <1>3, AskedCall
<1>5. /\ form' \in FormState /\ form'.phase = form.phase /\ form'.shown = form.shown
      /\ form'.base = form.base /\ form'.loaded = form.loaded /\ form'.emptied = form.emptied
  BY <1>1 DEF FormState
<1>6. OwnedKept'
  BY <1>1, <1>5 DEF HubInv, FormOK, OwnedKept, NoForm
<1>7. store' \in [Ids -> {NoRecord} \cup Records] /\ tally' \in HubHistory
  BY <1>1 DEF HubInv, HubTypeOK
<1>8. QED BY <1>1, <1>3, <1>4, <1>5, <1>6, <1>7, FormStays

(* A locked record is not a draft any more; the form stays. *)
LEMMA LockAnswered == ASSUME HubInv, NEW c \in calls, LockAnswer(c) PROVE HubInv'
<1> DEFINE to == IF c.op = "lock" THEN "Locked" ELSE "Draft"
<1>1. /\ c.op \in {"lock", "unlock"} /\ calls' = calls \ {c}
      /\ UNCHANGED << session, hub, view, mount, rows, versions, process, types, tally >>
      /\ store \in [Ids -> {NoRecord} \cup Records] /\ to \in {"Draft", "Locked"}
  BY DEF LockAnswer, HubInv, HubTypeOK
<1> HIDE DEF to
<1>2. /\ IsFiniteSet(calls') /\ Submits(calls)' = Submits(calls)
      /\ \A d \in calls' \ calls : d.mount = mount /\ d.op # "read"
      /\ \A d \in calls : d.op = "versions" => d \in calls'
  BY <1>1, AnsweredCall
<1>3. store' \in [Ids -> {NoRecord} \cup Records]
  <2>1. store' = [store EXCEPT ![c.id].state = to] \/ store' = store
    BY DEF LockAnswer, to
  <2>2. \A r \in {NoRecord} \cup Records : [r EXCEPT !.state = to] \in {NoRecord} \cup Records
    <3>1. [NoRecord EXCEPT !.state = to] = NoRecord
      BY DEF NoRecord
    <3>2. ASSUME NEW r \in Records PROVE [r EXCEPT !.state = to] \in Records
      BY <1>1 DEF Records
    <3>3. QED BY <3>1, <3>2
  <2>3. store' = [i \in Ids |-> IF i = c.id THEN [store[i] EXCEPT !.state = to] ELSE store[i]]
           \/ store' = store
    BY <1>1, <2>1
  <2>4. QED BY <1>1, <2>2, <2>3
<1>4. form' = form \/ (form \in FormState /\ form' \in FormState /\ form'.phase = form.phase
                         /\ OwnedKept')
  <2>1. CASE c.mount = mount /\ form.phase # "none"
    <3>1. form \in FormState
      BY <2>1, FormPhase DEF HubInv
    <3>2. \/ form' = [form EXCEPT !.state = to, !.moving = FALSE]
          \/ form' = [form EXCEPT !.moving = FALSE]
      BY <2>1 DEF LockAnswer, to
    <3>3. /\ form' \in FormState /\ form'.phase = form.phase /\ form'.shown = form.shown
          /\ form'.base = form.base /\ form'.loaded = form.loaded
          /\ form'.emptied = form.emptied
      BY <1>1, <3>1, <3>2 DEF FormState
    <3>4. OwnedKept'
      BY <1>1, <2>1, <3>3 DEF HubInv, FormOK, OwnedKept, NoForm
    <3>5. QED BY <3>1, <3>3, <3>4
  <2>2. CASE ~(c.mount = mount /\ form.phase # "none")
    BY <2>2 DEF LockAnswer
  <2>3. QED BY <2>1, <2>2
<1>5. tally' \in HubHistory
  BY <1>1 DEF HubInv, HubTypeOK
<1>6. QED BY <1>1, <1>2, <1>3, <1>4, <1>5, FormStays

(* Another session writes the record, and the form knows nothing of it. *)
LEMMA OtherStep == ASSUME HubInv, NEW i \in Ids, OtherSession(i) PROVE HubInv'
<1>1. /\ Stored(i) /\ store \in [Ids -> {NoRecord} \cup Records]
      /\ UNCHANGED << session, hub, view, mount, form, rows, versions, calls, process, types >>
  BY DEF OtherSession, HubInv, HubTypeOK
<1>2. store[i] \in Records
  BY <1>1 DEF Stored, NoRecord
<1>3. store' \in [Ids -> {NoRecord} \cup Records]
  <2>1. CASE \E f \in Fields : store' = [store EXCEPT ![i].has[f] = Old]
    <3>1. PICK f \in Fields : store' = [store EXCEPT ![i].has[f] = Old]
      BY <2>1
    <3> DEFINE has == [store[i].has EXCEPT ![f] = Old]
    <3>2. store[i].has \in [Fields -> Nat]
      BY <1>2 DEF Records
    <3>3. has \in [Fields -> Nat]
      BY <3>2 DEF Old
    <3>4. store' = [store EXCEPT ![i] = [store[i] EXCEPT !.has = has]]
      BY <1>1, <1>2, <3>1 DEF Records
    <3> HIDE DEF has
    <3>5. [store[i] EXCEPT !.has = has] \in Records
      BY <1>2, <3>3 DEF Records
    <3>6. QED BY <1>1, <3>4, <3>5
  <2>2. CASE store' = [store EXCEPT ![i].state = IF @ = "Draft" THEN "Locked" ELSE "Draft"]
    <3> DEFINE to == IF store[i].state = "Draft" THEN "Locked" ELSE "Draft"
    <3>1. to \in {"Draft", "Locked"} /\ store' = [store EXCEPT ![i].state = to]
      BY <1>1, <2>2
    <3> HIDE DEF to
    <3>2. [store[i] EXCEPT !.state = to] \in Records
      BY <1>2, <3>1 DEF Records
    <3>3. QED BY <1>1, <3>1, <3>2
  <2>3. QED BY <2>1, <2>2 DEF OtherSession
<1>4. /\ tally' \in HubHistory /\ tally'.made = tally.made /\ tally'.lost = tally.lost
      /\ tally'.walked = tally.walked /\ tally'.dropped = tally.dropped
      /\ tally'.limited = tally.limited
  <2>1. tally \in HubHistory /\ tally' = [tally EXCEPT !.foreign = tally.foreign + 1]
    BY DEF HubInv, HubTypeOK, OtherSession
  <2>2. tally.foreign + 1 \in Nat
    BY <2>1 DEF HubHistory
  <2>3. QED BY <2>1, <2>2 DEF HubHistory
<1>5. IsFiniteSet(calls') /\ Submits(calls)' = Submits(calls) /\ calls' = calls
  BY <1>1 DEF HubInv, HubTypeOK, Submits
<1>6. QED BY <1>1, <1>3, <1>4, <1>5, FormStays

(* What a click on save sends. *)
LEMMA Sends ==
    ASSUME HubInv, AppShown, form.phase = "editing", isValid,
           NEW op \in {"create", "update"}, NEW excused \in BOOLEAN,
           excused <=> \/ form.emptied \/ ~form.loaded \/ view.kind = "set"
                       \/ form.base.own = Empty,
           NEW c, c = [Call(op, view.id) EXCEPT !.sent = Draft(view.kind, form.shown),
                                                !.excused = excused]
    PROVE  c.mount = mount /\ c.op = op /\ c.kind = view.kind /\ c.kind \in Kinds /\ SentOK(c)
<1>1. form \in FormState /\ view \in Views /\ view.at # "list"
  BY FormPhase DEF HubInv, HubTypeOK, FormOK, NoForm
<1>2. view.kind \in Kinds
  BY <1>1 DEF Views
<1>3. form.shown \in [Fields -> Nat] /\ form.shown["need"] # Empty /\ "own" \in Fields
  BY <1>1 DEF FormState, isValid, Fields
<1> DEFINE d == Draft(view.kind, form.shown)
<1>4. /\ c.mount = mount /\ c.op = op /\ c.kind = view.kind /\ c.sent = d
      /\ c.excused = excused
  BY DEF Call
<1>5. /\ DOMAIN d \subseteq {"need", "opt", "own"}
      /\ \A n \in DOMAIN d :
            /\ d[n] \in Nat
            /\ d[n] = Empty =>
                  /\ n = "own" /\ view.kind \in {"case", "plan", "set"}
                  /\ view.kind # "set" => form.shown["own"] = Empty
  BY <1>2, <1>3, Drafts
<1> HIDE DEF d
<1>6. ~excused => view.kind # "set" /\ (view.kind \in {"case", "plan"} => form.shown["own"] # Empty)
  BY <1>1 DEF HubInv, FormOK, OwnedKept, NoForm
<1>7. SentOK(c)
  BY <1>4, <1>5, <1>6 DEF SentOK
<1>8. QED BY <1>2, <1>4, <1>7

(* A submit leaves the form saving, with one call of its own under way. *)
LEMMA SubmitStep == ASSUME HubInv, handleSubmit PROVE HubInv'
<1>1. /\ AppShown /\ form.phase = "editing" /\ isValid /\ form \in FormState
      /\ form' = [form EXCEPT !.phase = "saving"]
      /\ UNCHANGED << session, hub, view, mount, rows, versions, store, process, types >>
  BY FormPhase DEF handleSubmit, HubInv
<1>2. PICK excused \in BOOLEAN :
         /\ excused <=> \/ form.emptied \/ ~form.loaded \/ view.kind = "set"
                        \/ form.base.own = Empty
         /\ calls' = calls \cup
              {[Call(IF view.id = NoId THEN "create" ELSE "update", view.id) EXCEPT
                   !.sent = Draft(view.kind, form.shown), !.excused = excused]}
  <2>1. (form.emptied \/ ~form.loaded \/ view.kind = "set" \/ form.base.own = Empty) \in BOOLEAN
    OBVIOUS
  <2>2. QED BY <2>1 DEF handleSubmit
<1> DEFINE op == IF view.id = NoId THEN "create" ELSE "update"
           c == [Call(op, view.id) EXCEPT !.sent = Draft(view.kind, form.shown),
                                          !.excused = excused]
<1>3. op \in {"create", "update"} /\ calls' = calls \cup {c}
  BY <1>2
<1> HIDE DEF op
<1>4. c.mount = mount /\ c.op = op /\ c.kind = view.kind /\ c.kind \in Kinds /\ SentOK(c)
  BY <1>1, <1>2, <1>3, Sends
<1> HIDE DEF c
<1>5. /\ form' \in FormState /\ form'.phase = "saving" /\ form'.shown = form.shown
      /\ form'.base = form.base /\ form'.loaded = form.loaded /\ form'.emptied = form.emptied
      /\ form # NoForm /\ form' # NoForm
  BY <1>1 DEF FormState, NoForm
<1>6. /\ tally' \in HubHistory /\ tally'.made = tally.made /\ tally'.lost = tally.lost
      /\ tally'.walked = tally.walked /\ tally'.dropped = tally.dropped
      /\ tally.limited => tally'.limited
      /\ hub.installed # "yes" => tally'.limited
  <2>1. PICK b \in BOOLEAN : /\ b <=> tally.limited \/ hub.installed # "yes"
                             /\ tally' = [tally EXCEPT !.limited = b]
    <3>1. (tally.limited \/ hub.installed # "yes") \in BOOLEAN
      OBVIOUS
    <3>2. QED BY <3>1 DEF handleSubmit
  <2>2. QED BY <2>1 DEF HubInv, HubTypeOK, HubHistory
<1>7. HubTypeOK'
  <2>1. IsFiniteSet(calls')
    BY <1>3, FS_AddElement DEF HubInv, HubTypeOK
  <2>2. QED BY <1>1, <1>5, <1>6, <2>1 DEF HubInv, HubTypeOK
<1>8. \A m : MayCreate(m)' <=> MayCreate(m)
  BY <1>6 DEF MayCreate
<1>9. \A d \in Submits(calls) : d.mount # mount
  BY <1>1 DEF HubInv, CallOK, Submits
<1>10. ASSUME NEW d \in calls' PROVE CallOK(d)'
  <2>1. CASE d = c
    <3>1. MayCreate(mount)
      BY <1>5 DEF HubInv, FormOK
    <3>2. MayCreate(d.mount)'
      BY <1>4, <1>6, <2>1, <3>1 DEF MayCreate
    <3>3. process' \/ tally'.limited
      BY <1>1, <1>6 DEF HubInv, ResolverOK
    <3>4. SentOK(d)' /\ mount \in Nat
      BY <1>4, <2>1 DEF SentOK, HubInv, HubTypeOK
    <3>5. d.mount = mount' /\ d.op # "read" /\ d.kind \in Kinds /\ mount' \in Nat /\ mount' <= mount'
      BY <1>1, <1>3, <1>4, <2>1, <3>4
    <3>6. QED BY <1>5, <3>2, <3>3, <3>4, <3>5 DEF CallOK
  <2>2. CASE d \in calls
    <3>1. CallOK(d)
      BY <2>2 DEF HubInv
    <3>2. QED BY <1>1, <1>5, <1>6, <1>8, <3>1 DEF CallOK, SentOK
  <2>3. QED BY <1>3, <2>1, <2>2
<1>11. FormOK'
  <2>1. OwnedKept'
    BY <1>1, <1>5 DEF HubInv, FormOK, OwnedKept
  <2>2. MayCreate(mount)' /\ ~(view'.at = "list") /\ AppShown'
    BY <1>1, <1>5, <1>8 DEF HubInv, FormOK, AppShown
  <2>3. QED BY <2>1, <2>2 DEF FormOK
<1>12. Accounted'
  <2>1. Submits(calls)' = Submits(calls) \cup {c}
    BY <1>3, <1>4 DEF Submits
  <2>2. Orphans' = Submits(calls) /\ Orphans = Submits(calls)
    BY <1>1, <1>4, <1>5, <1>9, <2>1 DEF Orphans
  <2>3. \A m \in 1..MaxMounts : m > mount' => MayCreate(m)'
    BY <1>1, <1>8 DEF HubInv, Accounted
  <2>4. QED BY <1>4, <1>6, <1>9, <2>1, <2>2, <2>3 DEF HubInv, Accounted
<1>13. ResolverOK'
  BY <1>1, <1>6 DEF HubInv, ResolverOK
<1>14. VersionsAreOfTheCaseAskedFor'
  BY <1>1, <1>3, VersionsStay DEF HubInv
<1>15. QED BY <1>7, <1>10, <1>11, <1>12, <1>13, <1>14 DEF HubInv

(* A submit is over and the page stays: its form, if it is still there, is
   free, and no other submit is of that form. *)
LEMMA SubmitOver ==
    ASSUME HubInv, NEW c \in Submits(calls), calls' = calls \ {c}, SubmitEnds(c),
           UNCHANGED << session, hub, mount, versions, process, types >>,
           view' = view \/ (view' \in Views /\ form = NoForm),
           store' \in [Ids -> {NoRecord} \cup Records],
           tally' \in HubHistory, tally'.walked = tally.walked,
           tally'.dropped = tally.dropped, tally'.limited = tally.limited,
           \A m \in 1..MaxMounts :
              /\ tally'.made[m] <= 1 + tally'.lost[m]
              /\ MayCreate(m) => MayCreate(m)' \/ (m = c.mount /\ form = NoForm)
    PROVE  HubInv'
<1>1. c \in calls /\ CallOK(c) /\ c.mount \in Nat /\ c.mount <= mount
  BY DEF HubInv, Submits, CallOK
<1>2. \A d \in Submits(calls) : d.mount = c.mount => d = c
  BY DEF HubInv, Accounted
<1>3. /\ form' = NoForm <=> form = NoForm
      /\ form # NoForm => /\ form \in FormState /\ form' \in FormState
                          /\ form'.phase = form.phase
                               \/ (c.mount = mount /\ form'.phase = "editing")
                          /\ form'.phase = "saving" => form.phase = "saving" /\ c.mount # mount
                          /\ form'.shown = form.shown /\ form'.base = form.base
                          /\ form'.loaded = form.loaded /\ form'.emptied = form.emptied
      /\ form = NoForm => form' = NoForm
  <2>1. CASE form = NoForm
    BY <2>1 DEF SubmitEnds, NoForm
  <2>2. CASE form # NoForm
    <3>1. form \in FormState
      BY <2>2 DEF HubInv, HubTypeOK
    <3>2. CASE c.mount = mount /\ form.phase = "saving"
      <4>1. form' = [form EXCEPT !.phase = "editing"]
        BY <3>2 DEF SubmitEnds
      <4>2. /\ form' \in FormState /\ form'.phase = "editing"
            /\ form'.shown = form.shown /\ form'.base = form.base
            /\ form'.loaded = form.loaded /\ form'.emptied = form.emptied
        BY <3>1, <4>1 DEF FormState
      <4>3. form' # NoForm
        BY <4>2 DEF NoForm
      <4>4. QED BY <2>2, <3>1, <3>2, <4>2, <4>3
    <3>3. CASE ~(c.mount = mount /\ form.phase = "saving")
      <4>1. form' = form
        BY <3>3 DEF SubmitEnds
      <4>2. QED BY <2>2, <3>1, <3>3, <4>1
    <3>4. QED BY <3>2, <3>3
  <2>3. QED BY <2>1, <2>2
<1>4. HubTypeOK'
  <2>1. IsFiniteSet(calls')
    BY FS_RemoveElement DEF HubInv, HubTypeOK
  <2>2. view' \in Views /\ form' \in {NoForm} \cup FormState
    BY <1>3 DEF HubInv, HubTypeOK
  <2>3. QED BY <2>1, <2>2 DEF HubInv, HubTypeOK
<1>5. ASSUME NEW d \in calls', d.op = "create" PROVE MayCreate(d.mount)'
  <2>1. d \in Submits(calls) /\ d # c /\ CallOK(d) /\ d.mount # c.mount
    BY <1>2, <1>5 DEF Submits, HubInv
  <2>2. MayCreate(d.mount)
    BY <1>5, <2>1 DEF CallOK
  <2>3. QED BY <2>1, <2>2 DEF MayCreate
<1>6. ASSUME NEW d \in calls' PROVE CallOK(d)'
  <2>1. d # c /\ CallOK(d)
    BY DEF HubInv
  <2>2. CASE d \in Submits(calls)
    <3>1. d.mount # c.mount /\ d.op \in {"create", "update"}
      BY <1>2, <2>1, <2>2 DEF Submits
    <3>2. d.mount = mount => form'.phase \in {"saving", "none"}
      BY <1>3, <2>1, <3>1 DEF CallOK, NoForm
    <3>3. QED BY <1>5, <2>1, <3>1, <3>2 DEF CallOK, SentOK
  <2>3. CASE d \notin Submits(calls)
    <3>1. d.op \notin {"create", "update"}
      BY <2>3 DEF Submits
    <3>2. form'.phase = "loading" => form.phase = "loading" /\ view' = view
      BY <1>3 DEF NoForm
    <3>3. QED BY <2>1, <3>1, <3>2 DEF CallOK
  <2>4. QED BY <2>2, <2>3
<1>7. FormOK'
  <2>1. view'.at = "list" \/ ~AppShown' => form' = NoForm
    BY <1>3 DEF HubInv, FormOK, AppShown
  <2>2. form' # NoForm => MayCreate(mount)'
    BY <1>3 DEF HubInv, FormOK, MayCreate
  <2>3. OwnedKept'
    BY <1>3 DEF HubInv, FormOK, OwnedKept
  <2>4. QED BY <2>1, <2>2, <2>3 DEF FormOK
<1>8. Accounted'
  <2>1. Submits(calls)' = Submits(calls) \ {c}
    BY DEF Submits
  <2>2. Orphans' \subseteq Orphans
    <3> SUFFICES ASSUME NEW d \in Orphans' PROVE d \in Orphans
      OBVIOUS
    <3>1. d \in Submits(calls) /\ d # c /\ ~(d.mount = mount /\ form'.phase = "saving")
      BY <2>1 DEF Orphans
    <3>2. d.mount = mount => form.phase # "saving"
      BY <1>1, <1>2, <1>3, <3>1 DEF NoForm
    <3>3. QED BY <3>1, <3>2 DEF Orphans
  <2>3. Cardinality(Orphans') <= Cardinality(Orphans) /\ Cardinality(Orphans') \in Nat
    BY <2>2, CountOrphans, FS_Subset, FS_CardinalityType
  <2>4. tally'.dropped + Cardinality(Orphans') <= tally'.walked
    BY <2>3, CountOrphans DEF HubInv, Accounted, HubTypeOK, HubHistory
  <2>5. \A m \in 1..MaxMounts : m > mount' => MayCreate(m)'
    BY <1>1 DEF HubInv, Accounted, HubTypeOK
  <2>6. QED BY <2>1, <2>4, <2>5 DEF HubInv, Accounted
<1>9. ResolverOK'
  BY DEF HubInv, ResolverOK
<1>10. VersionsAreOfTheCaseAskedFor'
  BY VersionsStay DEF HubInv, Submits
<1>11. QED BY <1>4, <1>6, <1>7, <1>8, <1>9, <1>10 DEF HubInv

(* A refused submit gives the form back to the user. *)
LEMMA RefusedStepOfForm == ASSUME HubInv, NEW c \in calls, SubmitRefused(c) PROVE HubInv'
<1>1. c \in Submits(calls) /\ calls' = calls \ {c} /\ SubmitEnds(c)
  BY DEF SubmitRefused, Submits
<1>2. /\ UNCHANGED << session, hub, view, mount, versions, store, process, types, tally >>
      /\ store' \in [Ids -> {NoRecord} \cup Records] /\ tally' \in HubHistory
  BY DEF SubmitRefused, HubInv, HubTypeOK
<1>3. \A m \in 1..MaxMounts : /\ tally'.made[m] <= 1 + tally'.lost[m]
                              /\ MayCreate(m) => MayCreate(m)'
  BY <1>2 DEF HubInv, Accounted, MayCreate
<1>4. QED BY <1>1, <1>2, <1>3, SubmitOver

-----------------------------------------------------------------------------
(* What ADO stores. *)

(* A creation takes the place of no record, an update writes what was sent. *)
LEMMA GrantedStore ==
    ASSUME HubInv, NEW c \in calls, Grant(c)
    PROVE  /\ c \in Submits(calls)
           /\ store' \in [Ids -> {NoRecord} \cup Records]
           /\ \A i \in Ids, f \in Fields :
                 Stored(i) /\ store[i].has[f] # Empty /\ store'[i].has[f] = Empty
                     => f = "own" /\ c.id = i /\ c.excused
<1>1. /\ c \in Submits(calls) /\ SentOK(c) /\ c.kind \in Kinds
      /\ store \in [Ids -> {NoRecord} \cup Records]
  BY DEF HubInv, HubTypeOK, Grant, Submits, CallOK
<1>2. CASE c.op = "create"
  <2> DEFINE has == [f \in Fields |-> IF f \in DOMAIN c.sent THEN c.sent[f] ELSE Empty]
             r == [kind |-> c.kind, state |-> "Draft", has |-> has]
  <2>1. has \in [Fields -> Nat]
    BY <1>1 DEF SentOK, Empty
  <2> HIDE DEF has
  <2>2. r \in Records
    BY <1>1, <2>1 DEF Records
  <2> HIDE DEF r
  <2>3. Free # {} /\ store' = [store EXCEPT ![NextId] = r]
    BY <1>2 DEF Grant, has, r
  <2>4. NextId \in Free
    <3>1. Free \in SUBSET Nat
      BY DEF Free, Ids
    <3>2. \E i \in Free : \A j \in Free : i <= j
      BY <2>3, <3>1, Smallest
    <3>3. QED BY <3>2 DEF NextId
  <2>5. NextId \in Ids /\ ~Stored(NextId)
    BY <2>4 DEF Free
  <2>6. store' \in [Ids -> {NoRecord} \cup Records]
    BY <1>1, <2>2, <2>3
  <2>7. \A i \in Ids : Stored(i) => store'[i] = store[i]
    BY <1>1, <2>3, <2>5
  <2>8. QED BY <1>1, <2>6, <2>7
<1>3. CASE c.op = "update"
  <2>1. Stored(c.id) /\ Write(c.id, c.sent)
    BY <1>3 DEF Grant
  <2>2. CASE c.id \notin Ids
    BY <1>1, <2>1, <2>2 DEF Write
  <2>3. CASE c.id \in Ids
    <3>1. store[c.id] \in Records
      BY <1>1, <2>1, <2>3 DEF Stored, NoRecord
    <3> DEFINE old == store[c.id].has
               has == [f \in Fields |-> IF f \in DOMAIN c.sent THEN c.sent[f] ELSE old[f]]
    <3>2. old \in [Fields -> Nat]
      BY <3>1 DEF Records
    <3>3. has \in [Fields -> Nat]
      BY <1>1, <3>2 DEF SentOK
    <3>4. \A f \in Fields : has[f] = Empty => old[f] = Empty \/ (f = "own" /\ c.excused)
      BY <1>1 DEF SentOK
    <3>5. store' = [store EXCEPT ![c.id] = [store[c.id] EXCEPT !.has = has]]
      BY <1>1, <2>1, <2>3, <3>1 DEF Write, Records
    <3> HIDE DEF has
    <3>6. [store[c.id] EXCEPT !.has = has] \in Records /\ [store[c.id] EXCEPT !.has = has].has = has
      BY <3>1, <3>3 DEF Records
    <3>7. store' \in [Ids -> {NoRecord} \cup Records]
      BY <1>1, <3>5, <3>6
    <3>8. store'[c.id].has = has /\ \A i \in Ids : i # c.id => store'[i] = store[i]
      BY <1>1, <2>3, <3>5, <3>6
    <3>9. QED BY <1>1, <3>4, <3>7, <3>8
  <2>4. QED BY <2>2, <2>3
<1>4. QED BY <1>2, <1>3 DEF Grant

(* One more for one mount. *)
LEMMA CountedOnce ==
    ASSUME NEW n \in [1..MaxMounts -> Nat], NEW k
    PROVE  /\ [n EXCEPT ![k] = @ + 1] \in [1..MaxMounts -> Nat]
           /\ \A m \in 1..MaxMounts :
                 [n EXCEPT ![k] = @ + 1][m] = IF m = k THEN n[m] + 1 ELSE n[m]
<1>1. CASE k \in 1..MaxMounts
  <2>1. n[k] + 1 \in Nat
    BY <1>1
  <2>2. QED BY <1>1, <2>1
<1>2. CASE k \notin 1..MaxMounts
  BY <1>2
<1>3. QED BY <1>1, <1>2

(* The record of what ADO granted. *)
LEMMA GrantedTally ==
    ASSUME HubInv, NEW c \in calls
    PROVE  /\ Granted(tally, c) \in HubHistory
           /\ \A n \in {"lost", "lostInAll", "walked", "dropped", "limited"} :
                 Granted(tally, c)[n] = tally[n]
           /\ \A m \in 1..MaxMounts :
                 Granted(tally, c).made[m] =
                    IF c.op = "create" /\ m = c.mount THEN tally.made[m] + 1 ELSE tally.made[m]
<1>1. tally \in HubHistory
  BY DEF HubInv, HubTypeOK
<1> DEFINE made == IF c.op = "create" THEN [tally.made EXCEPT ![c.mount] = @ + 1] ELSE tally.made
<1>2. /\ tally.made \in [1..MaxMounts -> Nat]
      /\ made \in [1..MaxMounts -> Nat]
      /\ \A m \in 1..MaxMounts :
            made[m] = IF c.op = "create" /\ m = c.mount THEN tally.made[m] + 1 ELSE tally.made[m]
  <2>1. tally.made \in [1..MaxMounts -> Nat]
    BY <1>1 DEF HubHistory
  <2>2. CASE c.op = "create"
    BY <2>1, <2>2, CountedOnce
  <2>3. CASE c.op # "create"
    BY <2>1, <2>3
  <2>4. QED BY <2>1, <2>2, <2>3
<1>3. Granted(tally, c) = [tally EXCEPT !.made = made]
  BY DEF Granted
<1> HIDE DEF made
<1>4. QED BY <1>1, <1>2, <1>3 DEF HubHistory

(* ADO granted a submit and the page hears of a failure. *)
LEMMA LostStep == ASSUME HubInv, NEW c \in calls, SubmitAnswerLost(c) PROVE HubInv'
<1>1. /\ calls' = calls \ {c} /\ SubmitEnds(c)
      /\ UNCHANGED << session, hub, view, mount, versions, process, types >>
  BY DEF SubmitAnswerLost
<1>2. c \in Submits(calls) /\ store' \in [Ids -> {NoRecord} \cup Records]
  BY GrantedStore DEF SubmitAnswerLost
<1> DEFINE g == Granted(tally, c)
<1>3. /\ g \in HubHistory
      /\ g.lost = tally.lost /\ g.walked = tally.walked /\ g.dropped = tally.dropped
      /\ g.limited = tally.limited
      /\ \A m \in 1..MaxMounts :
            g.made[m] = IF c.op = "create" /\ m = c.mount THEN tally.made[m] + 1 ELSE tally.made[m]
  BY GrantedTally
<1>4. tally' = [g EXCEPT !.lost[c.mount] = @ + 1, !.lostInAll = @ + 1]
  BY DEF SubmitAnswerLost
<1> HIDE DEF g
<1> DEFINE lost == [tally.lost EXCEPT ![c.mount] = @ + 1]
<1>5. /\ lost \in [1..MaxMounts -> Nat] /\ tally.lost \in [1..MaxMounts -> Nat]
      /\ tally.made \in [1..MaxMounts -> Nat]
      /\ \A m \in 1..MaxMounts :
            lost[m] = IF m = c.mount THEN tally.lost[m] + 1 ELSE tally.lost[m]
  <2>1. tally.lost \in [1..MaxMounts -> Nat] /\ tally.made \in [1..MaxMounts -> Nat]
    BY DEF HubInv, HubTypeOK, HubHistory
  <2>2. QED BY <2>1, CountedOnce
<1>6. tally' = [g EXCEPT !.lost = lost, !.lostInAll = g.lostInAll + 1] /\ g.lostInAll + 1 \in Nat
  BY <1>3, <1>4 DEF HubHistory
<1> HIDE DEF lost
<1>7. /\ tally' \in HubHistory /\ tally'.made = g.made /\ tally'.lost = lost
      /\ tally'.walked = tally.walked /\ tally'.dropped = tally.dropped
      /\ tally'.limited = tally.limited
  BY <1>3, <1>5, <1>6 DEF HubHistory
<1>8. ASSUME NEW m \in 1..MaxMounts
      PROVE  tally'.made[m] <= 1 + tally'.lost[m] /\ (MayCreate(m) => MayCreate(m)')
  <2>1. tally.made[m] \in Nat /\ tally.lost[m] \in Nat /\ tally.made[m] <= 1 + tally.lost[m]
    BY <1>5 DEF HubInv, Accounted
  <2>2. tally'.made[m] <= tally.made[m] + (IF m = c.mount THEN 1 ELSE 0)
    BY <1>3, <1>7, <2>1
  <2>3. tally'.lost[m] = tally.lost[m] + (IF m = c.mount THEN 1 ELSE 0)
    BY <1>5, <1>7, <2>1
  <2>4. tally'.made[m] \in Nat
    BY <1>7 DEF HubHistory
  <2>5. QED BY <2>1, <2>2, <2>3, <2>4 DEF MayCreate
<1>9. QED BY <1>1, <1>2, <1>7, <1>8, SubmitOver

(* ADO granted a submit and the router opens the list of its kind. *)
LEMMA GrantedStep == ASSUME HubInv, NEW c \in calls, SubmitGranted(c) PROVE HubInv'
<1>1. /\ c \in Submits(calls) /\ store' \in [Ids -> {NoRecord} \cup Records]
      /\ view' = List(c.kind) /\ CallOK(c) /\ c.kind \in Kinds
      /\ UNCHANGED << session, hub, process, types >>
  BY GrantedStore DEF SubmitGranted, HubInv, CallOK, Submits
<1>2. List(c.kind) \in Views /\ List(c.kind).at = "list"
  BY <1>1 DEF List, Views
<1> DEFINE g == Granted(tally, c)
           another == c.mount # mount
           walked == IF another /\ form.phase = "saving" THEN g.walked + 1 ELSE g.walked
           dropped == IF another /\ form.phase # "none" /\ form.dirty
                      THEN g.dropped + 1 ELSE g.dropped
<1>3. /\ g \in HubHistory
      /\ g.lost = tally.lost /\ g.walked = tally.walked /\ g.dropped = tally.dropped
      /\ g.limited = tally.limited
      /\ \A m \in 1..MaxMounts :
            g.made[m] = IF c.op = "create" /\ m = c.mount THEN tally.made[m] + 1 ELSE tally.made[m]
  BY GrantedTally
<1>4. tally' = [g EXCEPT !.walked = walked, !.dropped = dropped]
  BY DEF SubmitGranted
<1>5. walked \in Nat /\ dropped \in Nat /\ tally.walked \in Nat /\ tally.dropped \in Nat
  BY <1>3 DEF HubHistory
<1> HIDE DEF g
<1>6. /\ walked = tally.walked + (IF another /\ form.phase = "saving" THEN 1 ELSE 0)
      /\ dropped <= tally.dropped + (IF another /\ form.phase # "none" THEN 1 ELSE 0)
      /\ ~another \/ form.phase = "none" => dropped = tally.dropped
  BY <1>3, <1>5
<1> HIDE DEF walked, dropped
<1>7. /\ tally' \in HubHistory /\ tally'.made = g.made /\ tally'.lost = tally.lost
      /\ tally'.walked = walked /\ tally'.dropped = dropped /\ tally'.limited = tally.limited
  BY <1>3, <1>4, <1>5 DEF HubHistory
<1>8. ASSUME NEW m \in 1..MaxMounts
      PROVE  /\ tally'.made[m] <= 1 + tally'.lost[m]
             /\ m # c.mount => (MayCreate(m) <=> MayCreate(m)')
  <2>1. /\ tally.made[m] \in Nat /\ tally.lost[m] \in Nat /\ tally.made[m] <= 1 + tally.lost[m]
        /\ tally'.lost[m] = tally.lost[m]
        /\ tally'.made[m] = IF c.op = "create" /\ m = c.mount
                            THEN tally.made[m] + 1 ELSE tally.made[m]
    BY <1>3, <1>7 DEF HubInv, HubTypeOK, HubHistory, Accounted
  <2>2. c.op = "create" /\ m = c.mount => tally.made[m] <= tally.lost[m]
    BY <1>1 DEF CallOK, MayCreate
  <2>3. QED BY <2>1, <2>2 DEF MayCreate
<1>9. CASE AppShown
  <2> DEFINE pending == calls \ {c}
  <2>1. Mount(List(c.kind), pending) /\ pending \in SUBSET calls
    BY <1>9 DEF SubmitGranted
  <2>2. ASSUME NEW d \in pending, d.op = "create" PROVE MayCreate(d.mount)'
    <3>1. d \in Submits(calls) /\ d # c /\ CallOK(d)
      BY <2>2 DEF Submits, HubInv
    <3>2. d.mount # c.mount /\ MayCreate(d.mount)
      BY <1>1, <2>2, <3>1 DEF HubInv, Accounted, CallOK
    <3>3. QED BY <1>8, <3>2 DEF MayCreate
  <2>3. \A m \in 1..MaxMounts : m > mount => MayCreate(m)'
    BY <1>1, <1>8 DEF HubInv, Accounted, CallOK, HubTypeOK
  <2>4. Submits(pending) = Submits(calls) \ {c}
    BY DEF Submits
  <2>5. Cardinality(Submits(pending)) = Cardinality(Submits(calls)) - 1
    BY <1>1, <2>4, CountOrphans, FS_RemoveElement
  <2>6. dropped + Cardinality(Submits(pending)) <= walked
    <3>1. tally.dropped + Cardinality(Orphans) <= tally.walked
      BY DEF HubInv, Accounted
    <3>2. Cardinality(Submits(calls)) \in Nat /\ Cardinality(Orphans) \in Nat
      BY CountOrphans
    <3>3. CASE ~another
      BY <1>5, <1>6, <2>5, <3>1, <3>2, <3>3, CountOrphans
    <3>4. CASE another /\ form.phase = "saving"
      BY <1>5, <1>6, <2>5, <3>1, <3>2, <3>4, CountOrphans
    <3>5. CASE another /\ form.phase # "saving"
      BY <1>5, <1>6, <2>5, <3>1, <3>2, <3>5, CountOrphans
    <3>6. QED BY <3>3, <3>4, <3>5
  <2>7. ResolverOK' /\ hub' \in HubStates /\ process' \in BOOLEAN
    BY <1>1, <1>7 DEF HubInv, HubTypeOK, ResolverOK
  <2>8. process' \/ tally'.limited \/ ~(process \/ tally.limited)
    BY <1>1, <1>7
  <2> HIDE DEF pending, Mount
  <2>9. QED BY <1>1, <1>2, <1>7, <1>8, <2>1, <2>2, <2>3, <2>6, <2>7, <2>8, Mounted
<1>10. CASE ~AppShown
  <2>1. form = NoForm /\ form.phase = "none"
    BY <1>10 DEF HubInv, FormOK, NoForm
  <2>2. calls' = calls \ {c} /\ form' = form /\ UNCHANGED << mount, versions >>
    BY <1>10 DEF SubmitGranted
  <2>3. SubmitEnds(c)
    BY <2>1, <2>2 DEF SubmitEnds
  <2>4. tally'.walked = tally.walked /\ tally'.dropped = tally.dropped
    BY <1>5, <1>6, <1>7, <2>1
  <2>5. QED BY <1>1, <1>2, <1>7, <1>8, <2>1, <2>2, <2>3, <2>4, SubmitOver
<1>11. QED BY <1>9, <1>10

-----------------------------------------------------------------------------
(* Every step of the hub, its user, its answers and the other sessions. *)
THEOREM HubStep == HubInv /\ [HubNext]_hubVars => HubInv'
<1> SUFFICES ASSUME HubInv, [HubNext]_hubVars PROVE HubInv'
  OBVIOUS
<1>1. CASE UNCHANGED hubVars
  BY <1>1 DEF hubVars, HubInv, HubTypeOK, CallOK, FormOK, OwnedKept, Accounted, ResolverOK,
              MayCreate, SentOK, AppShown, Orphans, Submits, VersionsAreOfTheCaseAskedFor
<1>2. CASE HubNext
  <2>1. ASSUME NEW c \in calls,
               \/ refetch(c) \/ listSnapshots(c) \/ ReadAnswer(c)
               \/ ensureCache(c) \/ AnswerSubmit(c) \/ LockAnswer(c)
        PROVE  HubInv'
    BY <2>1, RefetchStep, SnapshotsStep, ReadStepOfForm, EnsureCacheStep, RefusedStepOfForm,
       GrantedStep, LostStep, LockAnswered DEF AnswerSubmit
  <2>2. QED BY <1>2, <2>1, HubSteps, InstallStep, RouterSteps, SearchStep, OtherStep,
               EditStepOfForm, SubmitStep, LockStepOfForm DEF HubNext
<1>3. QED BY <1>1, <1>2

(* SubmitsAreAccountedFor, for any number of pages, forms, records and lost
   answers: a form of useArgosCreate creates once, and once more for every
   creation whose answer was lost, and only a submit the user walked away from
   closes a form with unsaved input. *)
THEOREM SubmitsAccounted == HubSpec => []SubmitsAreAccountedFor
<1>1. HubInv => SubmitsAreAccountedFor
  <2> SUFFICES ASSUME HubInv PROVE SubmitsAreAccountedFor
    OBVIOUS
  <2>1. Cardinality(Orphans) \in Nat /\ tally.dropped \in Nat /\ tally.walked \in Nat
    BY CountOrphans DEF HubInv, HubTypeOK, HubHistory
  <2>2. QED BY <2>1 DEF HubInv, Accounted, SubmitsAreAccountedFor
<1>2. QED BY <1>1, InitHub, HubStep, PTL DEF HubSpec

(* ResolverStaleOnlyAfterLimitedCreate, for every session: resolveAdoWitRefName
   remembers a project without the types only after a creation of the limited
   mode. *)
THEOREM ResolverIsFresh == HubSpec => []ResolverStaleOnlyAfterLimitedCreate
<1>1. HubInv => ResolverStaleOnlyAfterLimitedCreate
  BY DEF HubInv, ResolverOK, ResolverStaleOnlyAfterLimitedCreate
<1>2. QED BY <1>1, InitHub, HubStep, PTL DEF HubSpec

(* VersionsAreOfTheCaseAskedFor, for any number of searches that overlap. *)
THEOREM VersionsAreRight == HubSpec => []VersionsAreOfTheCaseAskedFor
<1>1. HubInv => VersionsAreOfTheCaseAskedFor
  BY DEF HubInv
<1>2. QED BY <1>1, InitHub, HubStep, PTL DEF HubSpec

(* What each step does to the stored fields. *)
LEMMA OnlyEmptiedIsErased ==
    ASSUME HubInv, [HubNext]_hubVars, NEW i \in Ids, NEW f \in Fields,
           Stored(i), store[i].has[f] # Empty, store'[i].has[f] = Empty
    PROVE  f = "own" /\ \E c \in calls \ calls' : c.id = i /\ c.excused
<1>1. store' # store
  OBVIOUS
<1>2. PICK c \in calls \cup {NoId} :
         \/ c \in calls /\ (SubmitGranted(c) \/ SubmitAnswerLost(c) \/ LockAnswer(c))
         \/ \E j \in Ids : OtherSession(j)
  <2>1. HubNext
    BY <1>1 DEF hubVars
  <2>2. CASE \/ DetectAnswer \/ SkippedAnswer \/ handleSkip
             \/ handleRefreshDetection \/ RefreshAnswer \/ InstallNow \/ InstallTypes
    BY <1>1, <2>2 DEF DetectAnswer, SkippedAnswer, handleSkip, handleRefreshDetection,
          RefreshAnswer, InstallNow, InstallTypes, Detected, Settle
  <2>3. CASE \/ \E k \in Kinds \cup {"versions"} : goToTab(k)
             \/ \E k \in Kinds : onCreateNew(k)
             \/ \E j \in Ids : onEditPlan(j) \/ handleSearch(j)
             \/ onCancel \/ goToRunTestForCase \/ handleReRun
    BY <1>1, <2>3 DEF goToTab, onCreateNew, onEditPlan, handleSearch, onCancel,
          goToRunTestForCase, handleReRun
  <2>4. CASE \/ \E g \in Fields, value \in {Empty, Typed} : Edit(g, value)
             \/ handleSubmit \/ \E op \in {"lock", "unlock"} : handleLock(op)
    BY <1>1, <2>4 DEF Edit, handleSubmit, handleLock
  <2>5. CASE \E c \in calls : refetch(c) \/ listSnapshots(c) \/ ReadAnswer(c)
                                \/ ensureCache(c) \/ SubmitRefused(c)
    BY <1>1, <2>5 DEF refetch, listSnapshots, ReadAnswer, ensureCache, SubmitRefused
  <2>6. CASE \E c \in calls : SubmitGranted(c) \/ SubmitAnswerLost(c) \/ LockAnswer(c)
    BY <2>6
  <2>7. CASE \E j \in Ids : OtherSession(j)
    BY <2>7
  <2>8. QED BY <2>1, <2>2, <2>3, <2>4, <2>5, <2>6, <2>7 DEF HubNext, AnswerSubmit
<1>3. store \in [Ids -> {NoRecord} \cup Records]
  BY DEF HubInv, HubTypeOK
<1>4. CASE c \in calls /\ (SubmitGranted(c) \/ SubmitAnswerLost(c))
  <2>1. /\ c \in Submits(calls) /\ f = "own" /\ c.id = i /\ c.excused
    BY <1>4, GrantedStore DEF SubmitGranted, SubmitAnswerLost
  <2>2. c \notin calls'
    <3>1. CASE calls' = calls \ {c}
      BY <3>1
    <3>2. CASE Mount(List(c.kind), calls \ {c})
      BY <2>1, <3>2 DEF Mount, List, Submits
    <3>3. QED BY <1>4, <3>1, <3>2 DEF SubmitGranted, SubmitAnswerLost
  <2>3. QED BY <1>4, <2>1, <2>2
<1>5. CASE c \in calls /\ LockAnswer(c)
  <2>1. \E to : store' = [store EXCEPT ![c.id].state = to]
    BY <1>1, <1>5 DEF LockAnswer
  <2>2. store[i] \in Records
    BY <1>3 DEF Stored, NoRecord
  <2>3. store'[i].has = store[i].has
    BY <1>3, <2>1, <2>2 DEF Records
  <2>4. QED BY <2>3
<1>6. CASE \E j \in Ids : OtherSession(j)
  <2>1. PICK j \in Ids : OtherSession(j)
    BY <1>6
  <2>2. store[i] \in Records
    BY <1>3 DEF Stored, NoRecord
  <2>3. \/ \E g \in Fields : store' = [store EXCEPT ![j].has[g] = Old]
        \/ \E to : store' = [store EXCEPT ![j].state = to]
    BY <2>1 DEF OtherSession
  <2>4. store'[i].has[f] \in {store[i].has[f], Old}
    BY <1>3, <2>2, <2>3 DEF Records
  <2>5. QED BY <2>4 DEF Old, Empty
<1>7. QED BY <1>2, <1>4, <1>5, <1>6

(* SavesEraseOnlyWhatWasEmptied, for any records and sessions: the drafts of the
   five forms send no empty field but those the user emptied or the form never
   loaded. *)
THEOREM SavesEraseNothingElse == HubSpec => SavesEraseOnlyWhatWasEmptied
<1>1. HubInv /\ [HubNext]_hubVars =>
        [\A i \in Ids : \A f \in Fields :
            (Stored(i) /\ store[i].has[f] # Empty /\ store'[i].has[f] = Empty)
                => /\ f = "own"
                   /\ \E c \in calls \ calls' : c.id = i /\ c.excused]_hubVars
  BY OnlyEmptiedIsErased
<1>2. QED BY <1>1, InitHub, HubStep, PTL DEF HubSpec, SavesEraseOnlyWhatWasEmptied

-----------------------------------------------------------------------------
(* The run screen.  A handler that is suspended carries the marks of its click,
   and the run it started holds those of the steps it is past. *)

Values == Marks \cup {Unmarked}
Forced == Overrides \cup {NoOverride}
MarkedSteps == [Steps -> Values]
Clicked == [mark : MarkedSteps, override : Forced]

UiState == [mark : MarkedSteps, comment : SUBSET Steps, env : BOOLEAN, override : Forced,
            files : Nat, active : RunIds \cup {NoRun}, aborted : RunIds \cup {NoRun},
            aborting : RunIds \cup {NoRun}, saved : RunIds \cup {NoRun},
            bugForm : {"closed", "open", "error", "create", "fetch", "relate", "link"}]

SaveState == [at : {"start", "upload", "step", "finalize"}, run : RunIds \cup {NoRun},
              next : Nat, mark : MarkedSteps, files : Nat, override : Forced]

ExecState == [state : {"Absent", "InProgress", "Aborted", "Completed"},
              results : Seq(Values), evidence : Nat, status : Forced \cup GlobalStatuses,
              bugs : SUBSET Nat]

BugState == [related : BOOLEAN]

PastState == [failures : Nat, saves : Nat, bugForms : Nat, edits : Nat,
              asked : [RunIds -> Clicked]]

RunTypeOK ==
    /\ ui \in UiState
    /\ save \in {NotSaving} \cup SaveState
    /\ execs \in [RunIds -> ExecState]
    /\ bugs \in Seq(BugState)
    /\ past \in PastState

(* The steps a handler is past. *)
Behind(s) == CASE s.at = "upload" -> 0
               [] s.at = "step" -> s.next - 1
               [] s.at = "finalize" -> NumSteps

Ready(s, results) ==
    /\ s \in SaveState /\ s.at \in {"upload", "step", "finalize"}
    /\ HoldsMarks(results, s.mark, Behind(s))
    /\ s.at = "step" => s.next \in Steps /\ s.mark[s.next] # Unmarked

(* The run of a handler that has started one. *)
SavingOK ==
    /\ save.at = "start" => save.run = NoRun
    /\ save.at \in {"upload", "step", "finalize"} =>
          /\ save.run \in RunIds
          /\ execs[save.run].state \in {"InProgress", "Aborted"}
          /\ past.asked[save.run] = [mark |-> save.mark, override |-> save.override]
          /\ Ready(save, execs[save.run].results)

(* The runs in progress that no handler is working on. *)
Working(e) == save # NotSaving /\ save.run = e
LeftOver == {e \in RunIds : isOpen(e) /\ ~Working(e)}

Listed == UNION {execs[e].bugs : e \in RunIds}
BugRunning == ui.bugForm \in {"fetch", "relate", "link"}

BugsOK ==
    /\ ui.bugForm # "closed" => ui.saved \in RunIds
    /\ Listed \subseteq 1..Len(bugs)
    /\ \A b \in Listed : bugs[b].related = TRUE
    /\ BugRunning => Len(bugs) > 0 /\ Len(bugs) \notin Listed
    /\ ui.bugForm = "link" => bugs[Len(bugs)].related = TRUE
    /\ Len(bugs) - Cardinality(Listed) <= past.bugForms + (IF BugRunning THEN 1 ELSE 0)

(* One run that is completed. *)
CompletedOK(e) ==
    execs[e].state = "Completed" =>
        /\ HoldsMarks(execs[e].results, past.asked[e].mark, NumSteps)
        /\ execs[e].status = IF past.asked[e].override # NoOverride
                             THEN past.asked[e].override
                             ELSE computeGlobalStatus(execs[e].results)

RunInv ==
    /\ RunTypeOK /\ SavingOK
    /\ \A e \in RunIds : CompletedOK(e)
    /\ Cardinality(LeftOver) <= past.saves
    /\ BugsOK

-----------------------------------------------------------------------------
(* The results of a run *)

(* The marked steps below a place are finitely many. *)
LEMMA MarkedBelow ==
    ASSUME NEW n \in Nat, NEW mark
    PROVE  LET marked == {i \in 1..n : mark[i] # Unmarked}
           IN  /\ IsFiniteSet(marked) /\ Cardinality(marked) \in Nat
               /\ \A i \in marked : /\ IsFiniteSet({j \in marked : j <= i})
                                    /\ Cardinality({j \in marked : j <= i}) \in 1..Cardinality(marked)
<1> DEFINE marked == {i \in 1..n : mark[i] # Unmarked}
<1>1. IsFiniteSet(1..n) /\ marked \in SUBSET (1..n)
  BY FS_Interval
<1>2. IsFiniteSet(marked) /\ Cardinality(marked) \in Nat
  BY <1>1, FS_Subset, FS_CardinalityType
<1>3. ASSUME NEW i \in marked
      PROVE  /\ IsFiniteSet({j \in marked : j <= i})
             /\ Cardinality({j \in marked : j <= i}) \in 1..Cardinality(marked)
  <2> DEFINE below == {j \in marked : j <= i}
  <2>1. below \in SUBSET marked /\ i \in below
    BY <1>1
  <2>2. IsFiniteSet(below) /\ Cardinality(below) <= Cardinality(marked) /\ Cardinality(below) \in Nat
    BY <1>2, <2>1, FS_Subset, FS_CardinalityType
  <2>3. Cardinality(below) # 0
    BY <2>1, <2>2, FS_EmptySet
  <2>4. QED BY <1>2, <2>2, <2>3
<1>4. QED BY <1>2, <1>3

(* No results hold no marks. *)
LEMMA HoldsNone == ASSUME NEW mark PROVE HoldsMarks(<< >>, mark, 0)
BY FS_EmptySet DEF HoldsMarks

(* Steps without a mark have no result. *)
LEMMA HoldsSkipped ==
    ASSUME NEW results, NEW mark, NEW n \in Nat, NEW m \in Nat, n <= m,
           \A i \in (n + 1)..m : mark[i] = Unmarked, HoldsMarks(results, mark, n)
    PROVE  HoldsMarks(results, mark, m)
<1>1. {i \in 1..m : mark[i] # Unmarked} = {i \in 1..n : mark[i] # Unmarked}
  OBVIOUS
<1>2. QED BY <1>1 DEF HoldsMarks

(* The result of the next marked step comes last. *)
LEMMA HoldsNext ==
    ASSUME NEW results \in Seq(Values), NEW mark, NEW n \in Nat, n >= 1,
           mark[n] # Unmarked, mark[n] \in Values, HoldsMarks(results, mark, n - 1)
    PROVE  HoldsMarks(Append(results, mark[n]), mark, n)
<1> DEFINE before == {i \in 1..(n - 1) : mark[i] # Unmarked}
           marked == {i \in 1..n : mark[i] # Unmarked}
           longer == Append(results, mark[n])
<1>1. marked = before \cup {n} /\ n \notin before
  OBVIOUS
<1>2. /\ IsFiniteSet(before) /\ Cardinality(before) \in Nat
      /\ \A i \in before : Cardinality({j \in before : j <= i}) \in 1..Cardinality(before)
  <2>1. n - 1 \in Nat
    OBVIOUS
  <2>2. QED BY <2>1, MarkedBelow
<1>3. Cardinality(marked) = Cardinality(before) + 1
  BY <1>1, <1>2, FS_AddElement
<1>4. Len(results) = Cardinality(before)
      /\ \A i \in before : results[Cardinality({j \in before : j <= i})] = mark[i]
  BY DEF HoldsMarks
<1>5. /\ Len(longer) = Len(results) + 1 /\ longer[Len(results) + 1] = mark[n]
      /\ \A k \in 1..Len(results) : longer[k] = results[k]
  OBVIOUS
<1>6. \A i \in before : {j \in marked : j <= i} = {j \in before : j <= i}
  BY <1>1
<1>7. {j \in marked : j <= n} = marked
  BY <1>1
<1>8. ASSUME NEW i \in marked PROVE longer[Cardinality({j \in marked : j <= i})] = mark[i]
  <2>1. CASE i = n
    BY <1>3, <1>4, <1>5, <1>7, <2>1
  <2>2. CASE i \in before
    <3>1. Cardinality({j \in before : j <= i}) \in 1..Len(results)
      BY <1>2, <1>4, <2>2
    <3> HIDE DEF longer
    <3>2. QED BY <1>4, <1>5, <1>6, <2>2, <3>1
  <2>3. QED BY <1>1, <2>1, <2>2
<1>9. QED BY <1>3, <1>4, <1>5, <1>8 DEF HoldsMarks

(* Where the handler goes next: to the next step that has a mark. *)
LEMMA NextIsMarked ==
    ASSUME NEW s \in SaveState, NEW i \in 0..NumSteps
    PROVE  /\ NextMarked(s, i) \in (i + 1)..(NumSteps + 1)
           /\ NextMarked(s, i) <= NumSteps => s.mark[NextMarked(s, i)] # Unmarked
           /\ \A k \in (i + 1)..(NextMarked(s, i) - 1) : s.mark[k] = Unmarked
<1> DEFINE left == {j \in Steps : j > i /\ s.mark[j] # Unmarked}
<1>1. NumSteps \in Nat /\ Steps = 1..NumSteps
  BY RunAssumption DEF Steps
<1>2. CASE left = {}
  <2>1. NextMarked(s, i) = NumSteps + 1
    BY <1>2 DEF NextMarked
  <2>2. QED BY <1>1, <1>2, <2>1
<1>3. CASE left # {}
  <2>1. left \in SUBSET Nat
    BY <1>1
  <2>2. NextMarked(s, i) = CHOOSE j \in left : \A k \in left : j <= k
    BY <1>3 DEF NextMarked
  <2> HIDE DEF left
  <2>3. NextMarked(s, i) \in left /\ \A k \in left : NextMarked(s, i) <= k
    BY <1>3, <2>1, <2>2, Smallest
  <2>4. QED BY <1>1, <2>3 DEF left
<1>4. QED BY <1>2, <1>3

(* What a save does next, after the result of a step. *)
LEMMA AfterStepReady ==
    ASSUME NEW s \in SaveState, NEW i \in 0..NumSteps, NEW results, HoldsMarks(results, s.mark, i)
    PROVE  /\ Ready(AfterStep(s, i), results)
           /\ AfterStep(s, i).run = s.run /\ AfterStep(s, i).mark = s.mark
           /\ AfterStep(s, i).override = s.override
<1> DEFINE j == NextMarked(s, i)
           to == IF j > NumSteps THEN "finalize" ELSE "step"
<1>1. /\ j \in (i + 1)..(NumSteps + 1) /\ NumSteps \in Nat
      /\ j <= NumSteps => s.mark[j] # Unmarked
      /\ \A k \in (i + 1)..(j - 1) : s.mark[k] = Unmarked
  BY NextIsMarked, RunAssumption
<1>2. HoldsMarks(results, s.mark, j - 1)
  BY <1>1, HoldsSkipped
<1>3. AfterStep(s, i) = [s EXCEPT !.at = to, !.next = j]
  BY DEF AfterStep
<1>4. j \in Nat /\ to \in {"step", "finalize"}
  BY <1>1, RunAssumption
<1> HIDE DEF j
<1>5. to = (IF j > NumSteps THEN "finalize" ELSE "step")
  OBVIOUS
<1> HIDE DEF to
<1>6. /\ AfterStep(s, i) \in SaveState /\ AfterStep(s, i).at = to /\ AfterStep(s, i).next = j
      /\ AfterStep(s, i).run = s.run /\ AfterStep(s, i).mark = s.mark
      /\ AfterStep(s, i).override = s.override
  BY <1>3, <1>4 DEF SaveState
<1>7. QED BY <1>1, <1>2, <1>5, <1>6 DEF Ready, Behind, Steps

(* What a save does next, after an upload. *)
LEMMA AfterUploadReady ==
    ASSUME NEW s \in SaveState, NEW n \in Nat, NEW results, HoldsMarks(results, s.mark, 0)
    PROVE  /\ Ready(AfterUpload(s, n), results)
           /\ AfterUpload(s, n).run = s.run /\ AfterUpload(s, n).mark = s.mark
           /\ AfterUpload(s, n).override = s.override
<1>1. CASE n < s.files
  <2>1. AfterUpload(s, n) = [s EXCEPT !.at = "upload", !.next = n + 1] /\ n + 1 \in Nat
    BY <1>1 DEF AfterUpload
  <2>2. /\ AfterUpload(s, n) \in SaveState /\ AfterUpload(s, n).at = "upload"
        /\ AfterUpload(s, n).run = s.run /\ AfterUpload(s, n).mark = s.mark
        /\ AfterUpload(s, n).override = s.override
    BY <2>1 DEF SaveState
  <2>3. QED BY <2>2 DEF Ready, Behind
<1>2. CASE ~(n < s.files)
  <2>1. AfterUpload(s, n) = AfterStep(s, 0)
    BY <1>2 DEF AfterUpload, AfterStep
  <2>2. QED BY <2>1, AfterStepReady, RunAssumption
<1>3. QED BY <1>1, <1>2

-----------------------------------------------------------------------------
(* What a step leaves as it was *)

(* A screen that was not opened has saved nothing. *)
LEMMA InitRun == RunInit => RunInv
<1> SUFFICES ASSUME RunInit PROVE RunInv
  OBVIOUS
<1>1. /\ NoRun \in RunIds \cup {NoRun} /\ NoOverride \in Forced
      /\ [i \in Steps |-> Unmarked] \in MarkedSteps
  BY DEF Forced, MarkedSteps, Values
<1>2. ui \in UiState
  BY <1>1 DEF RunInit, UiState
<1>3. NoExec \in ExecState
  BY DEF NoExec, ExecState, Forced, GlobalStatuses
<1>4. past \in PastState
  <2>1. [mark |-> [i \in Steps |-> Unmarked], override |-> NoOverride] \in Clicked
    BY <1>1 DEF Clicked
  <2>2. QED BY <2>1 DEF RunInit, PastState
<1>5. RunTypeOK
  BY <1>2, <1>3, <1>4 DEF RunInit, RunTypeOK
<1>6. \A e \in RunIds : execs[e] = NoExec
  BY DEF RunInit
<1>7. SavingOK
  BY DEF RunInit, SavingOK, NotSaving
<1>8. \A e \in RunIds : CompletedOK(e)
  BY <1>6 DEF CompletedOK, NoExec
<1>9. LeftOver = {} /\ Listed = {}
  BY <1>6 DEF LeftOver, Listed, isOpen, NoExec
<1>10. Cardinality({}) = 0
  BY FS_EmptySet
<1>11. Cardinality(LeftOver) <= past.saves
  BY <1>9, <1>10 DEF RunInit
<1>12. BugsOK
  <2>1. bugs = << >> /\ Len(bugs) = 0 /\ ui.bugForm = "closed" /\ past.bugForms = 0
    BY DEF RunInit
  <2>2. QED BY <1>9, <1>10, <2>1 DEF BugsOK, BugRunning
<1>13. QED BY <1>5, <1>7, <1>8, <1>11, <1>12 DEF RunInv

(* The runs left behind are finitely many. *)
LEMMA LeftOverFinite ==
    IsFiniteSet(LeftOver) /\ Cardinality(LeftOver) \in Nat
<1>1. IsFiniteSet(RunIds)
  BY RunAssumption, FS_Interval DEF RunIds
<1>2. LeftOver \in SUBSET RunIds
  BY DEF LeftOver
<1>3. QED BY <1>1, <1>2, FS_Subset, FS_CardinalityType

(* No run is left behind, or one is and a save has failed. *)
LEMMA NoneLeftBehind ==
    ASSUME RunInv, LeftOver' \subseteq LeftOver, past'.saves = past.saves
    PROVE  Cardinality(LeftOver') <= past'.saves
<1>1. Cardinality(LeftOver') <= Cardinality(LeftOver) /\ Cardinality(LeftOver') \in Nat
  BY LeftOverFinite, FS_Subset, FS_CardinalityType
<1>2. Cardinality(LeftOver) <= past.saves /\ past.saves \in Nat /\ Cardinality(LeftOver) \in Nat
  BY LeftOverFinite DEF RunInv, RunTypeOK, PastState
<1>3. QED BY <1>1, <1>2

(* A failing save leaves one run more at most. *)
LEMMA OneLeftBehind ==
    ASSUME RunInv, NEW e, LeftOver' \subseteq LeftOver \cup {e}, past'.saves = past.saves + 1
    PROVE  Cardinality(LeftOver') <= past'.saves
<1>1. /\ IsFiniteSet(LeftOver \cup {e})
      /\ Cardinality(LeftOver \cup {e}) \in {Cardinality(LeftOver), Cardinality(LeftOver) + 1}
  BY LeftOverFinite, FS_AddElement
<1>2. Cardinality(LeftOver') <= Cardinality(LeftOver \cup {e}) /\ Cardinality(LeftOver') \in Nat
  BY <1>1, FS_Subset, FS_CardinalityType
<1>3. Cardinality(LeftOver) <= past.saves /\ past.saves \in Nat /\ Cardinality(LeftOver) \in Nat
  BY LeftOverFinite DEF RunInv, RunTypeOK, PastState
<1>4. QED BY <1>1, <1>2, <1>3

(* The form of a bug is closed until a run is saved, and the lists of bugs
   are not touched by the run itself. *)
LEMMA BugsKept ==
    ASSUME BugsOK, UNCHANGED bugs, past'.bugForms = past.bugForms, ui'.bugForm = ui.bugForm,
           ui.saved \in RunIds => ui'.saved \in RunIds,
           \A e \in RunIds : execs'[e].bugs = execs[e].bugs
    PROVE  BugsOK'
<1>1. Listed' = Listed /\ (BugRunning' <=> BugRunning)
  BY DEF Listed, BugRunning
<1>2. QED BY <1>1 DEF BugsOK

(* A step that is only about the forms. *)
LEMMA FormStep ==
    ASSUME RunInv, ui' \in UiState, past' \in PastState,
           UNCHANGED << save, execs, bugs, past.saves, past.bugForms, past.asked >>,
           ui'.bugForm # "closed" => ui'.saved \in RunIds,
           BugRunning' <=> BugRunning, ui'.bugForm = "link" => ui.bugForm = "link"
    PROVE  RunInv'
<1>1. RunTypeOK'
  BY DEF RunInv, RunTypeOK
<1>2. SavingOK'
  BY DEF RunInv, SavingOK, Ready, Behind
<1>3. \A e \in RunIds : CompletedOK(e)'
  BY DEF RunInv, CompletedOK
<1>4. LeftOver' = LeftOver /\ Listed' = Listed
  BY DEF LeftOver, Listed, isOpen, Working
<1>5. Cardinality(LeftOver') <= past'.saves
  BY <1>4 DEF RunInv
<1>6. BugsOK'
  BY <1>4 DEF RunInv, BugsOK
<1>7. QED BY <1>1, <1>2, <1>3, <1>5, <1>6 DEF RunInv

(* A form changed by the user, within its bound or without. *)
LEMMA ChangeStep ==
    ASSUME RunInv, NEW u \in UiState, Change(u) \/ Edited(u),
           u.bugForm # "closed" => u.saved \in RunIds,
           u.bugForm \in {"fetch", "relate", "link"} <=> BugRunning,
           u.bugForm = "link" => ui.bugForm = "link"
    PROVE  RunInv'
<1>1. past \in PastState /\ past.edits + 1 \in Nat
  BY DEF RunInv, RunTypeOK, PastState
<1>2. /\ ui' = u /\ UNCHANGED << save, execs, bugs >>
      /\ past' \in PastState /\ UNCHANGED << past.saves, past.bugForms, past.asked >>
  BY <1>1 DEF Change, Edited, PastState
<1>3. BugRunning' <=> BugRunning
  BY <1>2 DEF BugRunning
<1>4. QED BY <1>2, <1>3, FormStep

(* The user's marks, files and edits do not reach the marks a save carries. *)
LEMMA FormSteps ==
    ASSUME RunInv,
           \/ \E i \in Steps : setStepComment(i) \/ \E m \in Marks : setStepStatus(i, m)
           \/ setEnvironment \/ handleFileSelected \/ backFromAborted
           \/ \E o \in Overrides : setOverride(o)
           \/ handleAbort \/ openBugForm \/ cancelBugForm \/ handleSubmitBug
    PROVE  RunInv'
<1>1. /\ ui \in UiState
      /\ ui.bugForm # "closed" => ui.saved \in RunIds
  BY DEF RunInv, RunTypeOK, BugsOK
<1>2. ASSUME NEW i \in Steps, setStepComment(i) PROVE RunInv'
  <2>1. ui.comment \cup {i} \in SUBSET Steps
    BY <1>1 DEF UiState
  <2> DEFINE u == [ui EXCEPT !.comment = ui.comment \cup {i}]
  <2>2. Edited(u)
    BY <1>2 DEF setStepComment
  <2>3. u \in UiState /\ u.bugForm = ui.bugForm /\ u.saved = ui.saved
    BY <1>1, <2>1 DEF UiState
  <2> HIDE DEF u
  <2>4. QED BY <1>1, <2>2, <2>3, ChangeStep DEF BugRunning
<1>3. ASSUME NEW i \in Steps, NEW m \in Marks, setStepStatus(i, m) PROVE RunInv'
  <2> DEFINE u == [ui EXCEPT !.mark = [ui.mark EXCEPT ![i] = m]]
  <2>1. [ui.mark EXCEPT ![i] = m] \in MarkedSteps
    BY <1>1 DEF UiState, MarkedSteps, Values
  <2>2. Edited(u)
    BY <1>3 DEF setStepStatus
  <2>3. u \in UiState /\ u.bugForm = ui.bugForm /\ u.saved = ui.saved
    BY <1>1, <2>1 DEF UiState
  <2> HIDE DEF u
  <2>4. QED BY <1>1, <2>2, <2>3, ChangeStep DEF BugRunning
<1>4. CASE setEnvironment
  <2> DEFINE u == [ui EXCEPT !.env = TRUE]
  <2>2. Edited(u)
    BY <1>4 DEF setEnvironment
  <2>3. u \in UiState /\ u.bugForm = ui.bugForm /\ u.saved = ui.saved
    BY <1>1 DEF UiState
  <2> HIDE DEF u
  <2>4. QED BY <1>1, <2>2, <2>3, ChangeStep DEF BugRunning
<1>5. CASE handleFileSelected
  <2> DEFINE u == [ui EXCEPT !.files = ui.files + 1]
  <2>1. ui.files + 1 \in Nat
    BY <1>1 DEF UiState
  <2>2. Edited(u)
    BY <1>5 DEF handleFileSelected
  <2>3. u \in UiState /\ u.bugForm = ui.bugForm /\ u.saved = ui.saved
    BY <1>1, <2>1 DEF UiState
  <2> HIDE DEF u
  <2>4. QED BY <1>1, <2>2, <2>3, ChangeStep DEF BugRunning
<1>6. CASE backFromAborted
  <2> DEFINE u == [ui EXCEPT !.aborted = NoRun]
  <2>2. Change(u)
    BY <1>6 DEF backFromAborted
  <2>3. u \in UiState /\ u.bugForm = ui.bugForm /\ u.saved = ui.saved
    BY <1>1 DEF UiState
  <2> HIDE DEF u
  <2>4. QED BY <1>1, <2>2, <2>3, ChangeStep DEF BugRunning
<1>7. ASSUME NEW o \in Overrides, setOverride(o) PROVE RunInv'
  <2> DEFINE u == [ui EXCEPT !.override = o]
  <2>2. Edited(u)
    BY <1>7 DEF setOverride
  <2>3. u \in UiState /\ u.bugForm = ui.bugForm /\ u.saved = ui.saved
    BY <1>1 DEF UiState, Forced
  <2> HIDE DEF u
  <2>4. QED BY <1>1, <2>2, <2>3, ChangeStep DEF BugRunning
<1>8. CASE handleAbort
  <2> DEFINE u == [ui EXCEPT !.aborting = ui.active]
  <2>2. Change(u)
    BY <1>8 DEF handleAbort
  <2>3. u \in UiState /\ u.bugForm = ui.bugForm /\ u.saved = ui.saved
    BY <1>1 DEF UiState
  <2> HIDE DEF u
  <2>4. QED BY <1>1, <2>2, <2>3, ChangeStep DEF BugRunning
<1>9. CASE openBugForm
  <2> DEFINE u == [ui EXCEPT !.bugForm = "open"]
  <2>2. Change(u) /\ ui.saved # NoRun /\ ui.bugForm = "closed"
    BY <1>9 DEF openBugForm
  <2>3. u \in UiState /\ u.bugForm = "open" /\ u.saved = ui.saved /\ ui.saved \in RunIds
    BY <1>1, <2>2 DEF UiState
  <2> HIDE DEF u
  <2>4. QED BY <1>1, <2>2, <2>3, ChangeStep DEF BugRunning
<1>10. CASE cancelBugForm
  <2> DEFINE u == [ui EXCEPT !.bugForm = "closed"]
  <2>2. Change(u) /\ ui.bugForm \in {"open", "error"}
    BY <1>10 DEF cancelBugForm
  <2>3. u \in UiState /\ u.bugForm = "closed"
    BY <1>1 DEF UiState
  <2> HIDE DEF u
  <2>4. QED BY <1>1, <2>2, <2>3, ChangeStep DEF BugRunning
<1>11. CASE handleSubmitBug
  <2> DEFINE u == [ui EXCEPT !.bugForm = "create"]
  <2>2. Change(u) /\ ui.bugForm \in {"open", "error"}
    BY <1>11 DEF handleSubmitBug
  <2>3. u \in UiState /\ u.bugForm = "create" /\ u.saved = ui.saved
    BY <1>1 DEF UiState
  <2> HIDE DEF u
  <2>4. QED BY <1>1, <2>2, <2>3, ChangeStep DEF BugRunning
<1>12. QED BY <1>2, <1>3, <1>4, <1>5, <1>6, <1>7, <1>8, <1>9, <1>10, <1>11

-----------------------------------------------------------------------------
(* The save *)

(* A click on save takes the marks, the files and the verdict with it. *)
LEMMA handleSaveStep ==
    ASSUME RunInv, handleSave
    PROVE  RunInv'
<1> DEFINE s == [at |-> "start", run |-> NoRun, next |-> 0, mark |-> ui.mark,
                 files |-> ui.files, override |-> ui.override]
<1>1. save' = s /\ save = NotSaving /\ UNCHANGED << ui, execs, bugs, past >>
  BY DEF handleSave
<1>2. s \in SaveState
  BY DEF SaveState, RunInv, RunTypeOK, UiState
<1>3. RunTypeOK'
  BY <1>1, <1>2 DEF RunInv, RunTypeOK
<1>4. SavingOK'
  BY <1>1 DEF SavingOK
<1>5. \A e \in RunIds : CompletedOK(e)'
  BY <1>1 DEF RunInv, CompletedOK
<1>6. LeftOver' \subseteq LeftOver
  BY <1>1 DEF LeftOver, Working, isOpen
<1>7. Cardinality(LeftOver') <= past'.saves
  BY <1>1, <1>6, NoneLeftBehind
<1>8. BugsOK'
  BY <1>1, BugsKept DEF RunInv
<1>9. QED BY <1>3, <1>4, <1>5, <1>7, <1>8 DEF RunInv

(* A save that fails leaves the run it was working on behind. *)
LEMMA FailedSave ==
    ASSUME RunInv, SaveFails, UNCHANGED << ui, bugs >>,
           execs' \in [RunIds -> ExecState],
           \A e \in RunIds : execs'[e].bugs = execs[e].bugs,
           \A e \in RunIds : CompletedOK(e)',
           NEW r, \A e \in RunIds : execs'[e].state = "InProgress" =>
                      e = r \/ (isOpen(e) /\ ~Working(e))
    PROVE  RunInv'
<1>1. past \in PastState /\ past.failures + 1 \in Nat /\ past.saves + 1 \in Nat
  BY DEF RunInv, RunTypeOK, PastState
<1>2. /\ save' = NotSaving /\ past' \in PastState /\ past'.saves = past.saves + 1
      /\ past'.bugForms = past.bugForms /\ past'.asked = past.asked
  BY <1>1 DEF SaveFails, PastState
<1>3. RunTypeOK'
  BY <1>2 DEF RunInv, RunTypeOK
<1>4. SavingOK'
  BY <1>2 DEF SavingOK, NotSaving
<1>5. LeftOver' \subseteq LeftOver \cup {r}
  BY DEF LeftOver, isOpen
<1>6. Cardinality(LeftOver') <= past'.saves
  BY <1>2, <1>5, OneLeftBehind
<1>7. BugsOK'
  BY <1>2, BugsKept DEF RunInv
<1>8. QED BY <1>3, <1>4, <1>6, <1>7 DEF RunInv

(* The verdict computed from results is one of the verdicts. *)
LEMMA StatusOfResults == ASSUME NEW results PROVE computeGlobalStatus(results) \in GlobalStatuses
BY DEF computeGlobalStatus, GlobalStatuses

(* A handler suspended after its start has a run. *)
LEMMA HandlerHasRun ==
    ASSUME RunInv, save.at \in {"start", "upload", "step", "finalize"}
    PROVE  /\ save \in SaveState /\ save # NotSaving
           /\ save.at # "start" =>
                 /\ save.run \in RunIds /\ execs[save.run] \in ExecState
                 /\ execs[save.run].state \in {"InProgress", "Aborted"}
                 /\ past.asked[save.run] = [mark |-> save.mark, override |-> save.override]
                 /\ Ready(save, execs[save.run].results)
<1>1. save # NotSaving
  BY DEF NotSaving
<1>2. QED BY <1>1 DEF RunInv, RunTypeOK, SavingOK

(* The handler goes on to its next request. *)
LEMMA HandlerGoesOn ==
    ASSUME RunInv, save.at \in {"upload", "step", "finalize"}, UNCHANGED << ui, bugs >>,
           Ready(save', execs'[save.run].results), save'.run = save.run,
           save'.mark = save.mark, save'.override = save.override,
           past' \in PastState, UNCHANGED << past.saves, past.bugForms, past.asked >>,
           execs' \in [RunIds -> ExecState],
           \A e \in RunIds : execs'[e].state = execs[e].state /\ execs'[e].bugs = execs[e].bugs,
           \A e \in RunIds : e = save.run \/ execs'[e] = execs[e]
    PROVE  RunInv'
<1>1. /\ save.run \in RunIds /\ save # NotSaving
      /\ execs[save.run].state \in {"InProgress", "Aborted"}
      /\ past.asked[save.run] = [mark |-> save.mark, override |-> save.override]
  BY HandlerHasRun
<1>2. save' \in SaveState /\ save'.at \in {"upload", "step", "finalize"}
  BY DEF Ready
<1>3. RunTypeOK'
  BY <1>2 DEF RunInv, RunTypeOK
<1>4. SavingOK'
  <2>1. Ready(save, execs[save.run].results)'
    BY DEF Ready, Behind, HoldsMarks
  <2>2. QED BY <1>1, <1>2, <2>1 DEF SavingOK
<1>5. ASSUME NEW e \in RunIds PROVE CompletedOK(e)'
  <2>1. CASE e = save.run
    BY <1>1, <2>1 DEF CompletedOK
  <2>2. CASE e # save.run
    BY <2>2 DEF RunInv, CompletedOK
  <2>3. QED BY <2>1, <2>2
<1>6. save' # NotSaving
  BY <1>2 DEF NotSaving
<1>7. LeftOver' \subseteq LeftOver
  BY <1>1, <1>6 DEF LeftOver, Working, isOpen
<1>8. Cardinality(LeftOver') <= past'.saves
  BY <1>7, NoneLeftBehind
<1>9. BugsOK'
  BY BugsKept DEF RunInv
<1>10. QED BY <1>3, <1>4, <1>5, <1>8, <1>9 DEF RunInv

(* The run is created, and no result is recorded yet. *)
LEMMA StartAnswerStep ==
    ASSUME RunInv, StartAnswer
    PROVE  RunInv'
<1>1. save.at = "start" /\ UNCHANGED bugs
  BY DEF StartAnswer
<1>2. save \in SaveState /\ save # NotSaving /\ save.run = NoRun
  BY <1>1, HandlerHasRun DEF RunInv, SavingOK
<1>3. /\ execs \in [RunIds -> ExecState] /\ ui \in UiState /\ past \in PastState
      /\ \A e \in RunIds : CompletedOK(e)
  BY DEF RunInv, RunTypeOK
<1>4. \A e \in RunIds : ~Working(e)
  BY <1>2, RunAssumption DEF Working, RunIds, NoRun
<1>5. CASE SaveFails /\ UNCHANGED << ui, execs >>
  <2>1. \A e \in RunIds : CompletedOK(e)'
    BY <1>3, <1>5 DEF CompletedOK, SaveFails
  <2>2. \A e \in RunIds : execs'[e].state = "InProgress" =>
            e = NoRun \/ (isOpen(e) /\ ~Working(e))
    BY <1>4, <1>5 DEF isOpen
  <2>3. QED BY <1>1, <1>3, <1>5, <2>1, <2>2, FailedSave
<1>6. ASSUME NEW e \in RunIds, execs[e] = NoExec,
             execs' = [execs EXCEPT ![e].state = "InProgress"]
      PROVE  /\ execs' \in [RunIds -> ExecState]
             /\ execs'[e].results = << >> /\ execs'[e].state = "InProgress"
             /\ \A d \in RunIds : execs'[d].bugs = execs[d].bugs
             /\ \A d \in RunIds : d = e \/ execs'[d] = execs[d]
  <2>1. [execs[e] EXCEPT !.state = "InProgress"] \in ExecState
    BY <1>3 DEF ExecState
  <2>2. execs' = [execs EXCEPT ![e] = [execs[e] EXCEPT !.state = "InProgress"]]
    BY <1>6
  <2>3. execs'[e] = [execs[e] EXCEPT !.state = "InProgress"]
    BY <1>3, <2>2
  <2>4. execs[e] \in ExecState
    BY <1>3
  <2>5. /\ execs'[e].state = "InProgress" /\ execs'[e].bugs = execs[e].bugs
        /\ execs'[e].results = execs[e].results
    BY <2>3, <2>4 DEF ExecState
  <2>6. execs[e].results = << >>
    BY <1>6 DEF NoExec
  <2>7. \A d \in RunIds : d = e \/ execs'[d] = execs[d]
    BY <1>3, <2>2
  <2>8. execs' \in [RunIds -> ExecState]
    BY <1>3, <2>1, <2>2
  <2>9. QED BY <2>5, <2>6, <2>7, <2>8
<1>7. ASSUME NEW e \in RunIds, execs[e] = NoExec,
             execs' = [execs EXCEPT ![e].state = "InProgress"], SaveFails, UNCHANGED ui
      PROVE  RunInv'
  <2>1. /\ execs' \in [RunIds -> ExecState] /\ execs'[e].state = "InProgress"
        /\ \A d \in RunIds : execs'[d].bugs = execs[d].bugs
        /\ \A d \in RunIds : d = e \/ execs'[d] = execs[d]
    BY <1>6, <1>7
  <2>2. past'.asked = past.asked
    BY <1>3, <1>7 DEF SaveFails, PastState
  <2>3. \A d \in RunIds : CompletedOK(d)'
    BY <1>3, <2>1, <2>2 DEF CompletedOK
  <2>4. \A d \in RunIds : execs'[d].state = "InProgress" =>
            d = e \/ (isOpen(d) /\ ~Working(d))
    BY <1>4, <2>1 DEF isOpen
  <2>5. QED BY <1>1, <1>7, <2>1, <2>3, <2>4, FailedSave
<1>8. ASSUME NEW e \in RunIds, execs[e] = NoExec,
             execs' = [execs EXCEPT ![e].state = "InProgress"],
             ui' = [ui EXCEPT !.active = e],
             save' = AfterUpload([save EXCEPT !.run = e], 0),
             past' = [past EXCEPT !.asked[e] = [mark |-> save.mark, override |-> save.override]]
      PROVE  RunInv'
  <2> DEFINE s == [save EXCEPT !.run = e]
             click == [mark |-> save.mark, override |-> save.override]
  <2>1. s \in SaveState /\ s.run = e /\ s.mark = save.mark /\ s.override = save.override
    BY <1>2 DEF SaveState
  <2>2. click \in Clicked
    BY <1>2 DEF SaveState, Clicked
  <2>3. /\ execs' \in [RunIds -> ExecState] /\ execs'[e].state = "InProgress"
        /\ execs'[e].results = << >>
        /\ \A d \in RunIds : execs'[d].bugs = execs[d].bugs
        /\ \A d \in RunIds : d = e \/ execs'[d] = execs[d]
    BY <1>6, <1>8
  <2>4. /\ ui' \in UiState /\ ui'.bugForm = ui.bugForm /\ ui'.saved = ui.saved
    BY <1>3, <1>8 DEF UiState
  <2>5. /\ past' \in PastState /\ past'.asked[e] = click
        /\ past'.saves = past.saves /\ past'.bugForms = past.bugForms
        /\ \A d \in RunIds : d = e \/ past'.asked[d] = past.asked[d]
    <3> HIDE DEF click
    <3>1. [past.asked EXCEPT ![e] = click] \in [RunIds -> Clicked]
      BY <1>3, <2>2 DEF PastState
    <3>2. past' = [past EXCEPT !.asked = [past.asked EXCEPT ![e] = click]]
      BY <1>8 DEF click
    <3>3. past'.asked = [past.asked EXCEPT ![e] = click]
      BY <1>3, <3>2 DEF PastState
    <3>4. past' \in PastState /\ past'.saves = past.saves /\ past'.bugForms = past.bugForms
      BY <1>3, <3>1, <3>2 DEF PastState
    <3>5. past.asked \in [RunIds -> Clicked]
      BY <1>3 DEF PastState
    <3>6. QED BY <3>3, <3>4, <3>5
  <2>6. /\ Ready(save', << >>) /\ save'.run = e
        /\ save'.mark = save.mark /\ save'.override = save.override
    <3> HIDE DEF s
    <3>1. save' = AfterUpload(s, 0)
      BY <1>8 DEF s
    <3>2. QED BY <2>1, <3>1, HoldsNone, AfterUploadReady
  <2>7. /\ save' \in SaveState /\ save'.at \in {"upload", "step", "finalize"}
        /\ save' # NotSaving
    BY <2>6 DEF Ready, NotSaving
  <2>8. RunTypeOK'
    BY <1>1, <2>3, <2>4, <2>5, <2>7 DEF RunInv, RunTypeOK
  <2>9. SavingOK'
    <3>1. Ready(save, execs[save.run].results)'
      BY <2>3, <2>6 DEF Ready, Behind, HoldsMarks
    <3>2. QED BY <2>3, <2>5, <2>6, <2>7, <3>1 DEF SavingOK
  <2>10. \A d \in RunIds : CompletedOK(d)'
    BY <1>3, <2>3, <2>5 DEF CompletedOK
  <2>11. LeftOver' \subseteq LeftOver
    BY <1>4, <2>3, <2>6, <2>7 DEF LeftOver, Working, isOpen
  <2>12. Cardinality(LeftOver') <= past'.saves
    BY <2>5, <2>11, NoneLeftBehind
  <2>13. BugsOK'
    BY <1>1, <2>3, <2>4, <2>5, BugsKept DEF RunInv
  <2>14. QED BY <2>8, <2>9, <2>10, <2>12, <2>13 DEF RunInv
<1>9. QED BY <1>5, <1>7, <1>8 DEF StartAnswer

(* A file is uploaded, or left out. *)
LEMMA UploadAnswerStep ==
    ASSUME RunInv, UploadAnswer
    PROVE  RunInv'
<1>1. save.at = "upload" /\ UNCHANGED << ui, bugs >>
  BY DEF UploadAnswer
<1>2. /\ save \in SaveState /\ save.run \in RunIds /\ execs[save.run] \in ExecState
      /\ HoldsMarks(execs[save.run].results, save.mark, 0)
  BY <1>1, HandlerHasRun DEF Ready, Behind
<1>3. execs \in [RunIds -> ExecState] /\ past \in PastState
  BY DEF RunInv, RunTypeOK
<1>4. CASE /\ isOpen(save.run)
           /\ execs' = [execs EXCEPT ![save.run].evidence = @ + 1]
           /\ save' = AfterUpload(save, save.next)
           /\ UNCHANGED past
  <2>1. execs[save.run].evidence + 1 \in Nat /\ save.next \in Nat
    BY <1>2 DEF ExecState, SaveState
  <2> DEFINE x == [execs[save.run] EXCEPT !.evidence = execs[save.run].evidence + 1]
  <2>2. /\ x \in ExecState /\ x.state = execs[save.run].state
        /\ x.results = execs[save.run].results /\ x.bugs = execs[save.run].bugs
    BY <1>2, <2>1 DEF ExecState
  <2>3. execs' = [execs EXCEPT ![save.run] = x]
    BY <1>4
  <2> HIDE DEF x
  <2>4. /\ execs' \in [RunIds -> ExecState] /\ execs'[save.run] = x
        /\ \A e \in RunIds : e = save.run \/ execs'[e] = execs[e]
    BY <1>2, <1>3, <2>2, <2>3
  <2>5. \A e \in RunIds : execs'[e].state = execs[e].state /\ execs'[e].bugs = execs[e].bugs
    BY <2>2, <2>4
  <2>6. /\ Ready(save', execs'[save.run].results) /\ save'.run = save.run
        /\ save'.mark = save.mark /\ save'.override = save.override
    BY <1>2, <1>4, <2>1, <2>2, <2>4, AfterUploadReady
  <2>7. QED BY <1>1, <1>3, <1>4, <2>4, <2>5, <2>6, HandlerGoesOn
<1>5. CASE /\ save' = AfterUpload(save, save.files)
           /\ past' = [past EXCEPT !.failures = IF @ < MaxFailures THEN @ + 1 ELSE @]
           /\ UNCHANGED execs
  <2>1. save.files \in Nat /\ past.failures + 1 \in Nat /\ past.failures \in Nat
    BY <1>2, <1>3 DEF PastState, SaveState
  <2>2. PICK n \in Nat : past' = [past EXCEPT !.failures = n]
    BY <1>5, <2>1
  <2>3. /\ past' \in PastState /\ past'.saves = past.saves
        /\ past'.bugForms = past.bugForms /\ past'.asked = past.asked
    BY <1>3, <2>2 DEF PastState
  <2>4. /\ Ready(save', execs'[save.run].results) /\ save'.run = save.run
        /\ save'.mark = save.mark /\ save'.override = save.override
    BY <1>2, <1>5, <2>1, AfterUploadReady
  <2>5. QED BY <1>1, <1>3, <1>5, <2>3, <2>4, HandlerGoesOn
<1>6. QED BY <1>4, <1>5 DEF UploadAnswer

(* The result of one marked step is recorded. *)
LEMMA StepAnswerStep ==
    ASSUME RunInv, StepAnswer
    PROVE  RunInv'
<1>1. save.at = "step" /\ UNCHANGED << ui, bugs >>
  BY DEF StepAnswer
<1>2. /\ save \in SaveState /\ save.run \in RunIds /\ execs[save.run] \in ExecState
      /\ execs[save.run].state \in {"InProgress", "Aborted"}
      /\ HoldsMarks(execs[save.run].results, save.mark, save.next - 1)
      /\ save.next \in Steps /\ save.mark[save.next] # Unmarked
  BY <1>1, HandlerHasRun DEF Ready, Behind
<1>3. /\ execs \in [RunIds -> ExecState] /\ past \in PastState
      /\ \A e \in RunIds : CompletedOK(e)
  BY DEF RunInv, RunTypeOK
<1>4. /\ save.next \in Nat /\ save.next >= 1 /\ save.next \in 0..NumSteps
      /\ save.mark[save.next] \in Values
      /\ execs[save.run].results \in Seq(Values)
  <2>1. save.mark \in [Steps -> Values] /\ execs[save.run].results \in Seq(Values)
    BY <1>2 DEF SaveState, ExecState, MarkedSteps
  <2>2. QED BY <1>2, <2>1, RunAssumption DEF Steps
<1>5. ASSUME execs' = [execs EXCEPT ![save.run].results = Append(@, save.mark[save.next])]
      PROVE  /\ execs' \in [RunIds -> ExecState]
             /\ HoldsMarks(execs'[save.run].results, save.mark, save.next)
             /\ \A e \in RunIds : execs'[e].state = execs[e].state /\ execs'[e].bugs = execs[e].bugs
             /\ \A e \in RunIds : e = save.run \/ execs'[e] = execs[e]
  <2> DEFINE longer == Append(execs[save.run].results, save.mark[save.next])
             x == [execs[save.run] EXCEPT !.results = longer]
  <2>1. longer \in Seq(Values)
    BY <1>4
  <2>2. HoldsMarks(longer, save.mark, save.next)
    BY <1>2, <1>4, HoldsNext
  <2>3. execs' = [execs EXCEPT ![save.run] = x]
    BY <1>5
  <2> HIDE DEF longer
  <2>4. /\ x \in ExecState /\ x.state = execs[save.run].state
        /\ x.results = longer /\ x.bugs = execs[save.run].bugs
    BY <1>2, <2>1 DEF ExecState
  <2> HIDE DEF x
  <2>5. /\ execs' \in [RunIds -> ExecState] /\ execs'[save.run] = x
        /\ \A e \in RunIds : e = save.run \/ execs'[e] = execs[e]
    BY <1>2, <1>3, <2>3, <2>4
  <2>6. QED BY <2>2, <2>4, <2>5
<1>6. ASSUME SaveFails,
             \/ execs' = [execs EXCEPT ![save.run].results = Append(@, save.mark[save.next])]
             \/ UNCHANGED execs
      PROVE  RunInv'
  <2>1. /\ execs' \in [RunIds -> ExecState]
        /\ \A e \in RunIds : execs'[e].state = execs[e].state /\ execs'[e].bugs = execs[e].bugs
        /\ \A e \in RunIds : e = save.run \/ execs'[e] = execs[e]
    <3>1. CASE execs' = [execs EXCEPT ![save.run].results = Append(@, save.mark[save.next])]
      BY <1>5, <3>1
    <3>2. CASE UNCHANGED execs
      BY <1>3, <3>2
    <3>3. QED BY <1>6, <3>1, <3>2
  <2>2. past'.asked = past.asked
    BY <1>3, <1>6 DEF SaveFails, PastState
  <2>3. ASSUME NEW e \in RunIds PROVE CompletedOK(e)'
    <3>1. CASE e = save.run
      BY <1>2, <2>1, <3>1 DEF CompletedOK
    <3>2. CASE e # save.run
      BY <1>3, <2>1, <2>2, <3>2 DEF CompletedOK
    <3>3. QED BY <3>1, <3>2
  <2>4. \A e \in RunIds : execs'[e].state = "InProgress" =>
            e = save.run \/ (isOpen(e) /\ ~Working(e))
    BY <2>1 DEF isOpen, Working
  <2>5. QED BY <1>1, <1>6, <2>1, <2>3, <2>4, FailedSave
<1>7. CASE /\ execs' = [execs EXCEPT ![save.run].results = Append(@, save.mark[save.next])]
           /\ save' = AfterStep(save, save.next) /\ UNCHANGED past
  <2>1. /\ execs' \in [RunIds -> ExecState]
        /\ HoldsMarks(execs'[save.run].results, save.mark, save.next)
        /\ \A e \in RunIds : execs'[e].state = execs[e].state /\ execs'[e].bugs = execs[e].bugs
        /\ \A e \in RunIds : e = save.run \/ execs'[e] = execs[e]
    BY <1>5, <1>7
  <2>2. /\ Ready(save', execs'[save.run].results) /\ save'.run = save.run
        /\ save'.mark = save.mark /\ save'.override = save.override
    BY <1>2, <1>4, <1>7, <2>1, AfterStepReady
  <2>3. QED BY <1>1, <1>3, <1>7, <2>1, <2>2, HandlerGoesOn
<1>8. QED BY <1>6, <1>7 DEF StepAnswer

(* The run is closed with the verdict of the click. *)
LEMMA FinalizeAnswerStep ==
    ASSUME RunInv, FinalizeAnswer
    PROVE  RunInv'
<1> DEFINE r == save.run
           verdict == IF save.override # NoOverride THEN save.override
                      ELSE computeGlobalStatus(execs[r].results)
           x == [execs[r] EXCEPT !.state = "Completed", !.status = verdict]
<1>1. save.at = "finalize" /\ UNCHANGED bugs
  BY DEF FinalizeAnswer
<1>2. /\ save \in SaveState /\ r \in RunIds /\ execs[r] \in ExecState
      /\ execs[r].state \in {"InProgress", "Aborted"} /\ save # NotSaving
      /\ past.asked[r] = [mark |-> save.mark, override |-> save.override]
      /\ HoldsMarks(execs[r].results, save.mark, NumSteps)
  BY <1>1, HandlerHasRun DEF Ready, Behind
<1>3. /\ execs \in [RunIds -> ExecState] /\ past \in PastState /\ ui \in UiState
      /\ \A e \in RunIds : CompletedOK(e)
  BY DEF RunInv, RunTypeOK
<1>4. verdict \in Forced \cup GlobalStatuses
  BY <1>2, StatusOfResults DEF SaveState
<1>5. ASSUME isOpen(r),
             execs' = [execs EXCEPT
                ![save.run].state = "Completed",
                ![save.run].status = IF save.override # NoOverride THEN save.override
                                     ELSE computeGlobalStatus(execs[save.run].results)]
      PROVE  /\ execs' \in [RunIds -> ExecState] /\ execs'[r].state = "Completed"
             /\ execs'[r].results = execs[r].results /\ execs'[r].status = verdict
             /\ \A e \in RunIds : execs'[e].bugs = execs[e].bugs
             /\ \A e \in RunIds : e = r \/ execs'[e] = execs[e]
  <2>1. execs' = [execs EXCEPT ![r] = x]
    BY <1>2, <1>3, <1>5
  <2> HIDE DEF verdict, r
  <2>2. /\ x \in ExecState /\ x.state = "Completed" /\ x.results = execs[r].results
        /\ x.status = verdict /\ x.bugs = execs[r].bugs
    BY <1>2, <1>4 DEF ExecState
  <2> HIDE DEF x
  <2>3. /\ execs' \in [RunIds -> ExecState] /\ execs'[r] = x
        /\ \A e \in RunIds : e = r \/ execs'[e] = execs[e]
    BY <1>2, <1>3, <2>1, <2>2
  <2>4. QED BY <2>2, <2>3
<1>6. ASSUME past'.asked = past.asked, isOpen(r),
             execs' = [execs EXCEPT
                ![save.run].state = "Completed",
                ![save.run].status = IF save.override # NoOverride THEN save.override
                                     ELSE computeGlobalStatus(execs[save.run].results)],
             NEW e \in RunIds
      PROVE  CompletedOK(e)'
  <2>1. CASE e = r
    <3>1. /\ past'.asked[e].mark = save.mark /\ past'.asked[e].override = save.override
      BY <1>2, <1>6, <2>1
    <3>2. execs'[e].results = execs[r].results /\ execs'[e].status = verdict
      BY <1>5, <1>6, <2>1
    <3>3. QED BY <1>2, <3>1, <3>2 DEF CompletedOK
  <2>2. CASE e # r
    <3>1. execs'[e] = execs[e]
      BY <1>5, <1>6, <2>2
    <3>2. QED BY <1>3, <1>6, <3>1 DEF CompletedOK
  <2>3. QED BY <2>1, <2>2
<1>7. ASSUME SaveFails, UNCHANGED ui, isOpen(r),
             execs' = [execs EXCEPT
                ![save.run].state = "Completed",
                ![save.run].status = IF save.override # NoOverride THEN save.override
                                     ELSE computeGlobalStatus(execs[save.run].results)]
      PROVE  RunInv'
  <2>1. past'.asked = past.asked
    BY <1>3, <1>7 DEF SaveFails, PastState
  <2>2. \A e \in RunIds : CompletedOK(e)'
    BY <1>6, <1>7, <2>1
  <2>3. /\ execs' \in [RunIds -> ExecState] /\ \A e \in RunIds : execs'[e].bugs = execs[e].bugs
        /\ \A e \in RunIds : e = r \/ execs'[e] = execs[e]
    BY <1>5, <1>7
  <2>4. \A e \in RunIds : execs'[e].state = "InProgress" => e = r \/ (isOpen(e) /\ ~Working(e))
    BY <2>3 DEF isOpen, Working
  <2> HIDE DEF r
  <2>5. QED BY <1>1, <1>7, <2>2, <2>3, <2>4, FailedSave
<1>8. ASSUME SaveFails, UNCHANGED << execs, ui >> PROVE RunInv'
  <2>1. past'.asked = past.asked
    BY <1>3, <1>8 DEF SaveFails, PastState
  <2>2. \A e \in RunIds : CompletedOK(e)'
    BY <1>3, <1>8, <2>1 DEF CompletedOK
  <2>3. \A e \in RunIds : execs'[e].state = "InProgress" => e = r \/ (isOpen(e) /\ ~Working(e))
    BY <1>8 DEF isOpen, Working
  <2> HIDE DEF r
  <2>4. QED BY <1>1, <1>3, <1>8, <2>2, <2>3, FailedSave
<1>9. ASSUME isOpen(r), save' = NotSaving,
             execs' = [execs EXCEPT
                ![save.run].state = "Completed",
                ![save.run].status = IF save.override # NoOverride THEN save.override
                                     ELSE computeGlobalStatus(execs[save.run].results)],
             ui' = [ui EXCEPT !.active = NoRun, !.saved = save.run],
             UNCHANGED past
      PROVE  RunInv'
  <2>1. /\ execs' \in [RunIds -> ExecState] /\ \A e \in RunIds : execs'[e].bugs = execs[e].bugs
        /\ \A e \in RunIds : e = r \/ execs'[e] = execs[e]
        /\ execs'[r].state = "Completed"
    BY <1>5, <1>9
  <2>2. \A e \in RunIds : CompletedOK(e)'
    BY <1>6, <1>9
  <2>3. ui' \in UiState /\ ui'.bugForm = ui.bugForm /\ ui'.saved \in RunIds
    BY <1>2, <1>3, <1>9 DEF UiState
  <2>4. RunTypeOK'
    BY <1>1, <1>9, <2>1, <2>3 DEF RunInv, RunTypeOK
  <2>5. SavingOK'
    BY <1>9 DEF SavingOK, NotSaving
  <2>6. LeftOver' \subseteq LeftOver
    <3>1. ASSUME NEW e \in RunIds, execs'[e].state = "InProgress"
          PROVE  execs[e].state = "InProgress" /\ ~(save # NotSaving /\ save.run = e)
      BY <2>1, <3>1
    <3>2. QED BY <3>1 DEF LeftOver, Working, isOpen
  <2>7. Cardinality(LeftOver') <= past'.saves
    BY <1>9, <2>6, NoneLeftBehind
  <2>8. BugsOK'
    BY <1>1, <1>9, <2>1, <2>3, BugsKept DEF RunInv
  <2>9. QED BY <2>2, <2>4, <2>5, <2>7, <2>8 DEF RunInv
<1>10. QED BY <1>7, <1>8, <1>9 DEF FinalizeAnswer

(* The abort of a run is answered: the run is aborted, or stays as it was. *)
LEMMA AbortAnswerStep ==
    ASSUME RunInv, AbortAnswer
    PROVE  RunInv'
<1> DEFINE r == ui.aborting
           x == [execs[r] EXCEPT !.state = "Aborted"]
<1>1. r # NoRun /\ UNCHANGED << save, bugs, past >>
  BY DEF AbortAnswer
<1>2. /\ execs \in [RunIds -> ExecState] /\ ui \in UiState /\ save \in {NotSaving} \cup SaveState
      /\ \A e \in RunIds : CompletedOK(e)
  BY DEF RunInv, RunTypeOK
<1>3. r \in RunIds /\ execs[r] \in ExecState
  BY <1>1, <1>2 DEF UiState
<1>4. ui' \in UiState /\ ui'.bugForm = ui.bugForm /\ ui'.saved = ui.saved
  <2>1. CASE ui' = [ui EXCEPT !.aborting = NoRun]
    BY <1>2, <2>1 DEF UiState
  <2>2. CASE ui' = [ui EXCEPT !.aborting = NoRun, !.aborted = ui.aborting, !.active = NoRun]
    BY <1>2, <2>2 DEF UiState
  <2>3. QED BY <2>1, <2>2 DEF AbortAnswer
<1>5. /\ execs' \in [RunIds -> ExecState]
      /\ \A e \in RunIds : /\ execs'[e].bugs = execs[e].bugs
                           /\ execs'[e].results = execs[e].results
                           /\ execs'[e].status = execs[e].status
      /\ \A e \in RunIds : \/ execs'[e].state = execs[e].state
                           \/ isOpen(e) /\ execs'[e].state = "Aborted"
  <2>1. CASE UNCHANGED execs
    BY <1>2, <2>1
  <2>2. CASE isOpen(r) /\ execs' = [execs EXCEPT ![ui.aborting].state = "Aborted"]
    <3>1. execs' = [execs EXCEPT ![r] = x]
      BY <2>2
    <3> HIDE DEF r
    <3>2. /\ x \in ExecState /\ x.state = "Aborted" /\ x.results = execs[r].results
          /\ x.status = execs[r].status /\ x.bugs = execs[r].bugs
      BY <1>3 DEF ExecState
    <3> HIDE DEF x
    <3>3. /\ execs' \in [RunIds -> ExecState] /\ execs'[r] = x
          /\ \A e \in RunIds : e = r \/ execs'[e] = execs[e]
      BY <1>2, <1>3, <3>1, <3>2
    <3>4. QED BY <2>2, <3>2, <3>3
  <2>3. QED BY <2>1, <2>2 DEF AbortAnswer
<1>6. RunTypeOK'
  BY <1>1, <1>4, <1>5 DEF RunInv, RunTypeOK
<1>7. SavingOK'
  <2>1. CASE save.at \notin {"upload", "step", "finalize"}
    BY <1>1, <2>1 DEF RunInv, SavingOK
  <2>2. CASE save.at \in {"upload", "step", "finalize"}
    <3>1. /\ save.run \in RunIds /\ execs[save.run].state \in {"InProgress", "Aborted"}
          /\ past.asked[save.run] = [mark |-> save.mark, override |-> save.override]
          /\ Ready(save, execs[save.run].results)
      BY <2>2, HandlerHasRun
    <3>2. execs'[save.run].state \in {"InProgress", "Aborted"}
      BY <1>5, <3>1
    <3>3. Ready(save, execs[save.run].results)'
      <4>1. save' = save /\ execs'[save.run].results = execs[save.run].results
        BY <1>1, <1>5, <3>1
      <4>2. Ready(save', execs'[save'.run].results)
        BY <3>1, <4>1
      <4>3. QED BY <4>2 DEF Ready, Behind, HoldsMarks
    <3>4. QED BY <1>1, <2>2, <3>1, <3>2, <3>3 DEF SavingOK
  <2>3. QED BY <2>1, <2>2
<1>8. \A e \in RunIds : CompletedOK(e)'
  BY <1>1, <1>2, <1>5 DEF CompletedOK
<1>9. LeftOver' \subseteq LeftOver
  BY <1>1, <1>5 DEF LeftOver, Working, isOpen
<1>10. Cardinality(LeftOver') <= past'.saves
  BY <1>1, <1>9, NoneLeftBehind
<1>11. BugsOK'
  BY <1>1, <1>4, <1>5, BugsKept DEF RunInv
<1>12. QED BY <1>6, <1>7, <1>8, <1>10, <1>11 DEF RunInv

-----------------------------------------------------------------------------
(* The bugs of a saved run *)

(* A request of the form about a bug: the runs and the lists are untouched. *)
LEMMA BugStep ==
    ASSUME RunInv, ui' \in UiState, past' \in PastState, bugs' \in Seq(BugState),
           UNCHANGED << save, past.saves, past.asked >>,
           execs' \in [RunIds -> ExecState],
           \A e \in RunIds : /\ execs'[e].state = execs[e].state
                             /\ execs'[e].results = execs[e].results
                             /\ execs'[e].status = execs[e].status,
           BugsOK'
    PROVE  RunInv'
<1>1. RunTypeOK'
  BY DEF RunInv, RunTypeOK
<1>2. SavingOK'
  <2>1. CASE save.at \notin {"upload", "step", "finalize"}
    BY <2>1 DEF RunInv, SavingOK
  <2>2. CASE save.at \in {"upload", "step", "finalize"}
    <3>1. /\ save.run \in RunIds /\ execs[save.run].state \in {"InProgress", "Aborted"}
          /\ past.asked[save.run] = [mark |-> save.mark, override |-> save.override]
          /\ Ready(save, execs[save.run].results)
      BY <2>2, HandlerHasRun
    <3>2. /\ save' = save /\ execs'[save.run].results = execs[save.run].results
          /\ execs'[save.run].state = execs[save.run].state
      BY <3>1
    <3>3. Ready(save, execs[save.run].results)'
      <4>1. Ready(save', execs'[save'.run].results)
        BY <3>1, <3>2
      <4>2. QED BY <4>1 DEF Ready, Behind, HoldsMarks
    <3>4. QED BY <2>2, <3>1, <3>2, <3>3 DEF SavingOK
  <2>3. QED BY <2>1, <2>2
<1>3. \A e \in RunIds : CompletedOK(e)'
  BY DEF RunInv, CompletedOK
<1>4. LeftOver' \subseteq LeftOver
  BY DEF LeftOver, Working, isOpen
<1>5. Cardinality(LeftOver') <= past'.saves
  BY <1>4, NoneLeftBehind
<1>6. QED BY <1>1, <1>2, <1>3, <1>5 DEF RunInv

(* The bugs listed on the screen are finitely many. *)
LEMMA ListedFinite ==
    ASSUME RunInv
    PROVE  IsFiniteSet(Listed) /\ Cardinality(Listed) \in Nat /\ Len(bugs) \in Nat
<1>1. Len(bugs) \in Nat
  BY DEF RunInv, RunTypeOK
<1>2. IsFiniteSet(1..Len(bugs))
  BY <1>1, FS_Interval
<1>3. Listed \in SUBSET (1..Len(bugs))
  BY DEF RunInv, BugsOK
<1>4. QED BY <1>1, <1>2, <1>3, FS_Subset, FS_CardinalityType

(* The form reports a failure: the bug it was creating is accounted for. *)
LEMMA BugFailsKeeps ==
    ASSUME RunInv, BugFails
    PROVE  /\ ui' \in UiState /\ past' \in PastState
           /\ UNCHANGED << past.saves, past.asked, ui.saved >>
           /\ past'.bugForms = past.bugForms + 1 /\ ui'.bugForm = "error" /\ ~BugRunning'
<1>1. ui \in UiState /\ past \in PastState
  BY DEF RunInv, RunTypeOK
<1>2. past.failures + 1 \in Nat /\ past.bugForms + 1 \in Nat
  BY <1>1 DEF PastState
<1>3. ui' \in UiState /\ ui'.bugForm = "error" /\ ui'.saved = ui.saved
  BY <1>1 DEF BugFails, UiState
<1>4. /\ past' \in PastState /\ past'.saves = past.saves /\ past'.asked = past.asked
      /\ past'.bugForms = past.bugForms + 1
  BY <1>1, <1>2 DEF BugFails, PastState
<1>5. QED BY <1>3, <1>4 DEF BugRunning

(* A request that goes through: the form is at the next one. *)
LEMMA FormAt ==
    ASSUME RunInv, NEW f \in {"closed", "fetch", "relate", "link"}, ui' = [ui EXCEPT !.bugForm = f]
    PROVE  ui' \in UiState /\ ui'.bugForm = f /\ ui'.saved = ui.saved
BY DEF RunInv, RunTypeOK, UiState

(* A bug is created by the form that asks for it. *)
LEMMA createBugStep ==
    ASSUME RunInv, createBug
    PROVE  RunInv'
<1> DEFINE new == [related |-> FALSE]
<1>1. ui.bugForm = "create" /\ UNCHANGED << save, execs >>
  BY DEF createBug
<1>2. /\ ui.saved \in RunIds /\ Listed \subseteq 1..Len(bugs)
      /\ \A b \in Listed : bugs[b].related = TRUE
      /\ Len(bugs) - Cardinality(Listed) <= past.bugForms
      /\ past.bugForms \in Nat /\ Len(bugs) \in Nat /\ Cardinality(Listed) \in Nat
      /\ past \in PastState /\ bugs \in Seq(BugState)
      /\ execs \in [RunIds -> ExecState]
  <2>1. /\ past.bugForms \in Nat /\ Len(bugs) \in Nat /\ Cardinality(Listed) \in Nat
        /\ past \in PastState /\ bugs \in Seq(BugState)
        /\ execs \in [RunIds -> ExecState]
    BY ListedFinite DEF RunInv, RunTypeOK, PastState
  <2>2. BugsOK /\ ~BugRunning
    BY <1>1 DEF RunInv, BugRunning
  <2>3. ui.saved \in RunIds /\ Listed \subseteq 1..Len(bugs)
    BY <1>1, <2>2 DEF BugsOK
  <2>4. \A b \in Listed : bugs[b].related = TRUE
    BY <2>2 DEF BugsOK
  <2>5. Len(bugs) - Cardinality(Listed) <= past.bugForms
    BY <2>1, <2>2 DEF BugsOK
  <2>6. QED BY <2>1, <2>3, <2>4, <2>5
<1>3. Listed' = Listed
  BY <1>1 DEF Listed
<1>4. ASSUME bugs' = Append(bugs, new)
      PROVE  /\ bugs' \in Seq(BugState) /\ Len(bugs') = Len(bugs) + 1
             /\ \A b \in Listed : bugs'[b].related = TRUE
             /\ Listed \subseteq 1..Len(bugs') /\ Len(bugs') \notin Listed
  <2>1. new \in BugState
    BY DEF BugState
  <2> HIDE DEF new
  <2>2. /\ Append(bugs, new) \in Seq(BugState)
        /\ Len(Append(bugs, new)) = Len(bugs) + 1
        /\ \A b \in 1..Len(bugs) : Append(bugs, new)[b] = bugs[b]
    BY <1>2, <2>1
  <2>3. QED BY <1>2, <1>4, <2>2
<1>5. ASSUME bugs' = Append(bugs, new), ui' = [ui EXCEPT !.bugForm = "fetch"], UNCHANGED past
      PROVE  RunInv'
  <2>1. ui' \in UiState /\ ui'.bugForm = "fetch" /\ ui'.saved = ui.saved
    BY <1>5, FormAt
  <2>2. BugRunning' /\ Len(bugs') > 0
    BY <1>2, <1>4, <1>5, <2>1 DEF BugRunning
  <2>3. Len(bugs') - Cardinality(Listed) <= past'.bugForms + 1
    BY <1>2, <1>4, <1>5
  <2>4. BugsOK'
    BY <1>2, <1>3, <1>4, <1>5, <2>1, <2>2, <2>3 DEF BugsOK
  <2>5. QED BY <1>1, <1>2, <1>4, <1>5, <2>1, <2>4, BugStep
<1>6. ASSUME bugs' = Append(bugs, new), BugFails PROVE RunInv'
  <2>1. /\ ui' \in UiState /\ past' \in PastState
        /\ past'.saves = past.saves /\ past'.asked = past.asked /\ ui'.saved = ui.saved
        /\ past'.bugForms = past.bugForms + 1 /\ ui'.bugForm = "error" /\ ~BugRunning'
    BY <1>6, BugFailsKeeps
  <2>2. Len(bugs') - Cardinality(Listed) <= past'.bugForms
    BY <1>2, <1>4, <1>6, <2>1
  <2>3. BugsOK'
    BY <1>2, <1>3, <1>4, <1>6, <2>1, <2>2 DEF BugsOK
  <2>4. QED BY <1>1, <1>2, <1>4, <1>6, <2>1, <2>3, BugStep
<1>7. ASSUME UNCHANGED bugs, BugFails PROVE RunInv'
  <2>1. /\ ui' \in UiState /\ past' \in PastState
        /\ past'.saves = past.saves /\ past'.asked = past.asked /\ ui'.saved = ui.saved
        /\ past'.bugForms = past.bugForms + 1 /\ ui'.bugForm = "error" /\ ~BugRunning'
    BY <1>7, BugFailsKeeps
  <2>2. Len(bugs') - Cardinality(Listed) <= past'.bugForms
    BY <1>2, <1>7, <2>1
  <2>3. BugsOK'
    BY <1>2, <1>3, <1>7, <2>1, <2>2 DEF BugsOK
  <2>4. QED BY <1>1, <1>2, <1>7, <2>1, <2>3, BugStep
<1>8. QED BY <1>5, <1>6, <1>7 DEF createBug

(* While the form is creating a bug, that one may be in no list yet. *)
LEMMA OneMoreRunning ==
    ASSUME RunInv, BugRunning
    PROVE  Len(bugs) - Cardinality(Listed) <= past.bugForms + 1
BY DEF RunInv, BugsOK

(* The run of a bug is read before the link. *)
LEMMA fetchExecutionStep ==
    ASSUME RunInv, fetchExecution
    PROVE  RunInv'
<1>1. ui.bugForm = "fetch" /\ UNCHANGED << save, execs, bugs >>
  BY DEF fetchExecution
<1>2. /\ BugsOK /\ BugRunning /\ past \in PastState /\ bugs \in Seq(BugState)
      /\ past.bugForms \in Nat /\ Len(bugs) \in Nat /\ Cardinality(Listed) \in Nat
      /\ execs \in [RunIds -> ExecState]
  BY <1>1, ListedFinite DEF RunInv, RunTypeOK, PastState, BugRunning
<1>3. Listed' = Listed
  BY <1>1 DEF Listed
<1>4. ASSUME ui' = [ui EXCEPT !.bugForm = "relate"], UNCHANGED past PROVE RunInv'
  <2>1. ui' \in UiState /\ ui'.bugForm = "relate" /\ ui'.saved = ui.saved
    BY <1>4, FormAt
  <2>2. BugRunning'
    BY <2>1 DEF BugRunning
  <2>3. BugsOK'
    BY <1>1, <1>2, <1>3, <1>4, <2>1, <2>2 DEF BugsOK
  <2>4. QED BY <1>1, <1>2, <1>4, <2>1, <2>3, BugStep
<1>5. ASSUME BugFails PROVE RunInv'
  <2>1. /\ ui' \in UiState /\ past' \in PastState
        /\ past'.saves = past.saves /\ past'.asked = past.asked /\ ui'.saved = ui.saved
        /\ past'.bugForms = past.bugForms + 1 /\ ui'.bugForm = "error" /\ ~BugRunning'
    BY <1>5, BugFailsKeeps
  <2>2. BugsOK'
    BY <1>1, <1>2, <1>3, <2>1 DEF BugsOK
  <2>3. QED BY <1>1, <1>2, <2>1, <2>2, BugStep
<1>6. QED BY <1>4, <1>5 DEF fetchExecution

(* The relation of the bug to the run is added. *)
LEMMA addRelationStep ==
    ASSUME RunInv, addRelation
    PROVE  RunInv'
<1>1. ui.bugForm = "relate" /\ UNCHANGED << save, execs >>
  BY DEF addRelation
<1>2. /\ BugsOK /\ BugRunning /\ past \in PastState /\ bugs \in Seq(BugState)
      /\ past.bugForms \in Nat /\ Len(bugs) \in Nat /\ Cardinality(Listed) \in Nat
      /\ execs \in [RunIds -> ExecState]
  BY <1>1, ListedFinite DEF RunInv, RunTypeOK, PastState, BugRunning
<1>3. Listed' = Listed
  BY <1>1 DEF Listed
<1>4. Len(bugs) \in 1..Len(bugs) /\ Len(bugs) \notin Listed
  BY <1>2 DEF BugsOK
<1>5. ASSUME bugs' = [bugs EXCEPT ![Len(bugs)].related = TRUE]
      PROVE  /\ bugs' \in Seq(BugState) /\ Len(bugs') = Len(bugs)
             /\ bugs'[Len(bugs)].related = TRUE
             /\ \A b \in Listed : bugs'[b].related = TRUE
  <2> DEFINE x == [bugs[Len(bugs)] EXCEPT !.related = TRUE]
  <2>1. bugs[Len(bugs)] \in BugState
    BY <1>2, <1>4
  <2>2. x \in BugState /\ x.related = TRUE
    BY <2>1 DEF BugState
  <2>3. bugs' = [bugs EXCEPT ![Len(bugs)] = x]
    BY <1>5
  <2> HIDE DEF x
  <2>4. /\ bugs' \in Seq(BugState) /\ Len(bugs') = Len(bugs)
        /\ bugs'[Len(bugs)] = x
        /\ \A b \in 1..Len(bugs) : b # Len(bugs) => bugs'[b] = bugs[b]
    BY <1>2, <1>4, <2>2, <2>3
  <2>5. QED BY <1>2, <1>4, <2>2, <2>4 DEF BugsOK
<1>6. ASSUME bugs' = [bugs EXCEPT ![Len(bugs)].related = TRUE],
             ui' = [ui EXCEPT !.bugForm = "link"], UNCHANGED past
      PROVE  RunInv'
  <2>1. ui' \in UiState /\ ui'.bugForm = "link" /\ ui'.saved = ui.saved
    BY <1>6, FormAt
  <2>2. BugRunning'
    BY <2>1 DEF BugRunning
  <2>3. Len(bugs') - Cardinality(Listed) <= past'.bugForms + 1
    BY <1>2, <1>5, <1>6, OneMoreRunning
  <2>4. /\ ui'.saved \in RunIds /\ Listed \subseteq 1..Len(bugs')
        /\ Len(bugs') > 0 /\ Len(bugs') \notin Listed
        /\ bugs'[Len(bugs')].related = TRUE
    BY <1>1, <1>2, <1>5, <1>6, <2>1 DEF BugsOK
  <2>5. \A b \in Listed : bugs'[b].related = TRUE
    BY <1>5, <1>6
  <2>6. BugsOK'
    BY <1>2, <1>3, <2>1, <2>2, <2>3, <2>4, <2>5 DEF BugsOK
  <2>7. QED BY <1>1, <1>2, <1>5, <1>6, <2>1, <2>6, BugStep
<1>7. ASSUME bugs' = [bugs EXCEPT ![Len(bugs)].related = TRUE] \/ UNCHANGED bugs, BugFails
      PROVE  RunInv'
  <2>1. /\ ui' \in UiState /\ past' \in PastState
        /\ past'.saves = past.saves /\ past'.asked = past.asked /\ ui'.saved = ui.saved
        /\ past'.bugForms = past.bugForms + 1 /\ ui'.bugForm = "error" /\ ~BugRunning'
    BY <1>7, BugFailsKeeps
  <2>2. /\ bugs' \in Seq(BugState) /\ Len(bugs') = Len(bugs)
        /\ \A b \in Listed : bugs'[b].related = TRUE
    BY <1>2, <1>5, <1>7 DEF BugsOK
  <2>3. Len(bugs') - Cardinality(Listed) <= past'.bugForms
    BY <1>2, <2>1, <2>2, OneMoreRunning
  <2>4. ui'.saved \in RunIds /\ Listed \subseteq 1..Len(bugs')
    BY <1>1, <1>2, <2>1, <2>2 DEF BugsOK
  <2>5. BugsOK'
    BY <1>2, <1>3, <2>1, <2>2, <2>3, <2>4 DEF BugsOK
  <2>6. QED BY <1>1, <1>2, <2>1, <2>2, <2>5, BugStep
<1>8. QED BY <1>6, <1>7 DEF addRelation

(* The link of the bug is answered, and the bug is listed. *)
LEMMA linkBugStep ==
    ASSUME RunInv, linkBug
    PROVE  RunInv'
<1> DEFINE r == ui.saved
           b == Len(bugs)
<1>1. ui.bugForm = "link" /\ UNCHANGED << save, bugs >>
  BY DEF linkBug
<1>2. /\ BugsOK /\ BugRunning /\ past \in PastState /\ bugs \in Seq(BugState)
      /\ past.bugForms \in Nat /\ b \in Nat /\ Cardinality(Listed) \in Nat
      /\ IsFiniteSet(Listed) /\ execs \in [RunIds -> ExecState]
  BY <1>1, ListedFinite DEF RunInv, RunTypeOK, PastState, BugRunning
<1>3. /\ r \in RunIds /\ b > 0 /\ b \notin Listed /\ bugs[b].related = TRUE
      /\ Listed \subseteq 1..b
  BY <1>1, <1>2 DEF BugsOK
<1>4. ASSUME execs' = [execs EXCEPT ![ui.saved].bugs = @ \cup {Len(bugs)}]
      PROVE  /\ execs' \in [RunIds -> ExecState]
             /\ \A e \in RunIds : /\ execs'[e].state = execs[e].state
                                  /\ execs'[e].results = execs[e].results
                                  /\ execs'[e].status = execs[e].status
             /\ Listed' = Listed \cup {b}
  <2> DEFINE more == execs[r].bugs \cup {b}
             x == [execs[r] EXCEPT !.bugs = more]
  <2>1. execs[r] \in ExecState
    BY <1>2, <1>3
  <2>2. more \in SUBSET Nat
    BY <1>2, <2>1 DEF ExecState
  <2>3. execs' = [execs EXCEPT ![r] = x]
    BY <1>4
  <2> HIDE DEF more, r, b
  <2>4. /\ x \in ExecState /\ x.state = execs[r].state /\ x.results = execs[r].results
        /\ x.status = execs[r].status /\ x.bugs = more
    BY <2>1, <2>2 DEF ExecState
  <2> HIDE DEF x
  <2>5. /\ execs' \in [RunIds -> ExecState] /\ execs'[r] = x
        /\ \A e \in RunIds : e = r \/ execs'[e] = execs[e]
    BY <1>2, <1>3, <2>3, <2>4
  <2>6. Listed' = Listed \cup {b}
    BY <1>3, <2>4, <2>5 DEF Listed, more
  <2>7. QED BY <2>4, <2>5, <2>6
<1>5. /\ IsFiniteSet(Listed \cup {b}) /\ Cardinality(Listed \cup {b}) = Cardinality(Listed) + 1
  BY <1>2, <1>3, FS_AddElement
<1>6. ASSUME execs' = [execs EXCEPT ![ui.saved].bugs = @ \cup {Len(bugs)}],
             ui' = [ui EXCEPT !.bugForm = "closed"], UNCHANGED past
      PROVE  RunInv'
  <2>1. ui' \in UiState /\ ui'.bugForm = "closed" /\ ui'.saved = ui.saved
    BY <1>6, FormAt
  <2>2. ~BugRunning'
    BY <2>1 DEF BugRunning
  <2>3. Listed' = Listed \cup {b}
    BY <1>4, <1>6
  <2>4. BugsOK'
    BY <1>1, <1>2, <1>3, <1>5, <1>6, <2>1, <2>2, <2>3 DEF BugsOK
  <2>5. QED BY <1>1, <1>2, <1>4, <1>6, <2>1, <2>4, BugStep
<1>7. ASSUME execs' = [execs EXCEPT ![ui.saved].bugs = @ \cup {Len(bugs)}], BugFails
      PROVE  RunInv'
  <2>1. /\ ui' \in UiState /\ past' \in PastState
        /\ past'.saves = past.saves /\ past'.asked = past.asked /\ ui'.saved = ui.saved
        /\ past'.bugForms = past.bugForms + 1 /\ ui'.bugForm = "error" /\ ~BugRunning'
    BY <1>7, BugFailsKeeps
  <2>2. Listed' = Listed \cup {b}
    BY <1>4, <1>7
  <2>3. Len(bugs') - Cardinality(Listed') <= past'.bugForms
    BY <1>1, <1>2, <1>5, <2>1, <2>2, OneMoreRunning
  <2>4. ui'.saved \in RunIds /\ Listed' \subseteq 1..Len(bugs')
    <3>1. Len(bugs') = b /\ b \in 1..b
      BY <1>1, <1>2, <1>3
    <3>2. ui'.saved = r
      BY <2>1
    <3> HIDE DEF b, r
    <3>3. QED BY <1>3, <2>2, <3>1, <3>2
  <2>5. \A e \in Listed' : bugs'[e].related = TRUE
    BY <1>1, <1>2, <1>3, <2>2 DEF BugsOK
  <2>6. BugsOK'
    BY <1>2, <2>1, <2>3, <2>4, <2>5 DEF BugsOK
  <2>7. QED BY <1>1, <1>2, <1>4, <1>7, <2>1, <2>6, BugStep
<1>8. ASSUME UNCHANGED execs, BugFails PROVE RunInv'
  <2>1. /\ ui' \in UiState /\ past' \in PastState
        /\ past'.saves = past.saves /\ past'.asked = past.asked /\ ui'.saved = ui.saved
        /\ past'.bugForms = past.bugForms + 1 /\ ui'.bugForm = "error" /\ ~BugRunning'
    BY <1>8, BugFailsKeeps
  <2>2. Listed' = Listed
    BY <1>8 DEF Listed
  <2>3. BugsOK'
    BY <1>1, <1>2, <2>1, <2>2 DEF BugsOK
  <2>4. QED BY <1>1, <1>2, <1>8, <2>1, <2>3, BugStep
<1>9. QED BY <1>6, <1>7, <1>8 DEF linkBug

-----------------------------------------------------------------------------
(* Every step of the screen, its saves and its bug forms keeps the invariant. *)
LEMMA RunStep ==
    ASSUME RunInv, [RunNext]_runVars
    PROVE  RunInv'
<1>1. CASE UNCHANGED runVars
  <2>1. UNCHANGED << ui, save, execs, bugs, past >>
    BY <1>1 DEF runVars
  <2>2. /\ ui' \in UiState /\ past' \in PastState /\ (BugRunning' <=> BugRunning)
        /\ ui'.bugForm # "closed" => ui'.saved \in RunIds
    BY <2>1 DEF RunInv, RunTypeOK, BugsOK, BugRunning
  <2>3. QED BY <2>1, <2>2, FormStep
<1>2. CASE RunNext
  BY <1>2, FormSteps, handleSaveStep, StartAnswerStep, UploadAnswerStep, StepAnswerStep,
     FinalizeAnswerStep, AbortAnswerStep, createBugStep, fetchExecutionStep, addRelationStep,
     linkBugStep DEF RunNext, SaveStep
<1>3. QED BY <1>1, <1>2

(* A completed run holds what the form showed when the save was clicked: the
   handler carries that with it, one result for each marked step it is past,
   and nothing the user does meanwhile reaches it (handleSave of
   RunInterface.tsx, startRun, saveStepResult and finalizeRun of the SDK). *)
THEOREM RunsAreWhatWasSaved == RunSpec => []CompletedRunIsWhatWasSaved
<1>1. RunInv => CompletedRunIsWhatWasSaved
  BY DEF RunInv, CompletedOK, CompletedRunIsWhatWasSaved
<1>2. QED BY <1>1, InitRun, RunStep, PTL DEF RunSpec

(* What a failing save or a failing bug form leaves behind is counted by the
   failures the user saw: one run in progress by a save, one bug by a form. *)
THEOREM LeftoversAreCounted == RunSpec => []LeftoversComeFromFailures
<1>1. ASSUME RunInv PROVE LeftoversComeFromFailures
  <2> DEFINE open == {e \in RunIds : isOpen(e)}
             held == {ui.active} \cup (IF save = NotSaving THEN {} ELSE {save.run})
  <2>1. open \ held \in SUBSET LeftOver
    BY DEF LeftOver, Working
  <2>2. Cardinality(open \ held) <= Cardinality(LeftOver) /\ Cardinality(open \ held) \in Nat
    BY <2>1, LeftOverFinite, FS_Subset, FS_CardinalityType
  <2>3. Cardinality(LeftOver) <= past.saves /\ past.saves \in Nat
    BY <1>1 DEF RunInv, RunTypeOK, PastState
  <2>4. Cardinality(open \ held) <= past.saves
    BY <2>2, <2>3, LeftOverFinite
  <2> HIDE DEF open, held
  <2>5. /\ \A b \in Listed : bugs[b].related = TRUE
        /\ Len(bugs) - Cardinality(Listed) <= past.bugForms + (IF BugRunning THEN 1 ELSE 0)
    BY <1>1 DEF RunInv, BugsOK
  <2>6. QED BY <2>4, <2>5 DEF LeftoversComeFromFailures, Listed, BugRunning, open, held
<1>2. QED BY <1>1, InitRun, RunStep, PTL DEF RunSpec

-----------------------------------------------------------------------------
(* The suggestions of test cases.  The acceptances of a batch are counted by
   what they use: the cases they created and those they have still to create. *)

DrawerState == [open : BOOLEAN, loading : BOOLEAN, batch : Nat, busy : BOOLEAN]
AskedState == [calls : Nat, answered : Nat, batches : Nat]
Acceptance == [at : {"create", "link"}, batch : Nat, todo : SUBSET Nat, created : SUBSET Nat]
CaseState == [batch : Nat, item : Nat, linked : BOOLEAN]
MissedState == [requests : Nat, accepts : Nat, cases : SUBSET Nat]

SuggestTypeOK ==
    /\ drawer \in DrawerState
    /\ asked \in AskedState
    /\ accepting \in [Acceptances -> {Resting} \cup Acceptance]
    /\ cases \in Seq(CaseState)
    /\ missed \in MissedState

CaseIds == 1..Len(cases)
Accepted(b) == b \in 1..asked.batches

(* Where a running acceptance is. *)
RunningOK(a) ==
    accepting[a] # Resting =>
        /\ Accepted(accepting[a].batch) /\ accepting[a].todo # {}
        /\ accepting[a].created \subseteq CaseIds
        /\ accepting[a].at = "create" => accepting[a].todo \subseteq Items
        /\ accepting[a].at = "link" =>
              /\ accepting[a].todo \subseteq accepting[a].created
              /\ \A c \in accepting[a].created \ accepting[a].todo :
                    cases[c].linked = TRUE \/ c \in missed.cases

(* A case without its link is counted, or in the hands of an acceptance. *)
CaseOK(c) ==
    /\ Accepted(cases[c].batch)
    /\ \/ cases[c].linked = TRUE
       \/ c \in missed.cases
       \/ \E a \in Acceptances : accepting[a] # Resting /\ c \in accepting[a].created

Copies(b, i) == {c \in CaseIds : cases[c].batch = b /\ cases[c].item = i}
Claims(b, i) == {a \in Acceptances : /\ accepting[a] # Resting /\ accepting[a].at = "create"
                                     /\ accepting[a].batch = b /\ i \in accepting[a].todo}
Used(b, i) == Cardinality(Copies(b, i)) + Cardinality(Claims(b, i))

(* Every acceptance after the first needs a failure: the buttons of a batch
   that is shown are free only before the first one and after a failure. *)
UsesOK ==
    /\ \A b, i \in Nat : Used(b, i) <= 1 + missed.accepts
    /\ \A b, i \in Nat : b = drawer.batch /\ b # NoBatch /\ drawer.busy = FALSE =>
          Used(b, i) <= missed.accepts

SuggestInv ==
    /\ SuggestTypeOK
    /\ drawer.batch <= asked.batches /\ (drawer.open = FALSE => drawer.busy = FALSE)
    /\ \A a \in Acceptances : RunningOK(a)
    /\ \A c \in CaseIds : CaseOK(c)
    /\ UsesOK

(* A drawer that was not opened has asked for nothing. *)
LEMMA InitSuggest == SuggestInit => SuggestInv
<1> SUFFICES ASSUME SuggestInit PROVE SuggestInv
  OBVIOUS
<1>1. SuggestTypeOK
  BY DEF SuggestInit, SuggestTypeOK, DrawerState, AskedState, MissedState, Shut, NoBatch
<1>2. CaseIds = {} /\ \A a \in Acceptances : accepting[a] = Resting
  BY DEF SuggestInit, CaseIds
<1>3. \A b, i \in Nat : Copies(b, i) = {} /\ Claims(b, i) = {}
  BY <1>2 DEF Copies, Claims
<1>4. \A b, i \in Nat : Used(b, i) = 0
  BY <1>3, FS_EmptySet DEF Used
<1>5. UsesOK
  BY <1>4 DEF SuggestInit, UsesOK, Shut, NoBatch
<1>6. QED BY <1>1, <1>2, <1>5 DEF SuggestInit, SuggestInv, RunningOK, Shut, NoBatch

(* What the handlers count with *)

(* The uses of an item are counted by a number. *)
LEMMA UsedIsNumber ==
    ASSUME SuggestTypeOK, NEW b, NEW i
    PROVE  /\ IsFiniteSet(Copies(b, i)) /\ Cardinality(Copies(b, i)) \in Nat
           /\ IsFiniteSet(Claims(b, i)) /\ Cardinality(Claims(b, i)) \in Nat
           /\ Used(b, i) \in Nat
<1>1. IsFiniteSet(CaseIds)
  BY FS_Interval DEF SuggestTypeOK, CaseIds
<1>2. Copies(b, i) \in SUBSET CaseIds /\ Claims(b, i) \in SUBSET Acceptances
  BY DEF Copies, Claims
<1>3. /\ IsFiniteSet(Copies(b, i)) /\ Cardinality(Copies(b, i)) \in Nat
      /\ IsFiniteSet(Claims(b, i)) /\ Cardinality(Claims(b, i)) \in Nat
  BY <1>1, <1>2, FS_Subset, FS_CardinalityType, SuggestAssumption
<1>4. QED BY <1>3 DEF Used

(* A step that is only about the drawer: what is used stays, and the drawer
   shows a batch it showed before, a new one, or none. *)
LEMMA DrawerStep ==
    ASSUME SuggestInv, UNCHANGED << accepting, cases, missed >>,
           drawer' \in DrawerState, asked' \in AskedState,
           asked.batches <= asked'.batches, drawer'.batch <= asked'.batches,
           drawer'.open = FALSE => drawer'.busy = FALSE,
           \/ drawer'.batch = NoBatch
           \/ drawer'.batch > asked.batches
           \/ drawer'.batch = drawer.batch /\ drawer'.busy = drawer.busy
    PROVE  SuggestInv'
<1>1. /\ SuggestTypeOK /\ asked.batches \in Nat /\ asked'.batches \in Nat /\ drawer'.batch \in Nat
      /\ missed.accepts \in Nat
  BY DEF SuggestInv, SuggestTypeOK, AskedState, DrawerState, MissedState
<1>2. SuggestTypeOK'
  BY DEF SuggestInv, SuggestTypeOK
<1>3. \A b : Accepted(b) => Accepted(b)'
  BY <1>1 DEF Accepted
<1>4. CaseIds' = CaseIds
  BY DEF CaseIds
<1>5. ASSUME NEW a \in Acceptances PROVE RunningOK(a)'
  <2>1. RunningOK(a)
    BY DEF SuggestInv
  <2>2. Accepted(accepting[a].batch) => Accepted(accepting[a].batch)'
    BY <1>1 DEF Accepted
  <2>3. QED BY <1>4, <2>1, <2>2 DEF RunningOK
<1>6. ASSUME NEW c \in CaseIds PROVE CaseOK(c)'
  <2>1. CaseOK(c)
    BY DEF SuggestInv
  <2>2. Accepted(cases[c].batch) => Accepted(cases[c].batch)'
    BY <1>1 DEF Accepted
  <2>3. QED BY <2>1, <2>2 DEF CaseOK
<1>7. \A b, i \in Nat : Used(b, i)' = Used(b, i)
  BY <1>4 DEF Used, Copies, Claims
<1>8. ASSUME NEW b \in Nat, b > asked.batches, NEW i \in Nat PROVE Used(b, i) = 0
  <2>1. Copies(b, i) = {}
    BY <1>1, <1>8 DEF SuggestInv, Copies, CaseOK, Accepted
  <2>2. Claims(b, i) = {}
    BY <1>1, <1>8 DEF SuggestInv, Claims, RunningOK, Accepted
  <2>3. QED BY <2>1, <2>2, FS_EmptySet DEF Used
<1>9. UsesOK'
  <2>1. \A b, i \in Nat : Used(b, i)' <= 1 + missed'.accepts
    BY <1>7 DEF SuggestInv, UsesOK
  <2>2. ASSUME NEW b \in Nat, NEW i \in Nat, b = drawer'.batch, b # NoBatch, drawer'.busy = FALSE
        PROVE  Used(b, i)' <= missed'.accepts
    <3>1. Used(b, i) <= missed.accepts
      BY <1>1, <1>8, <2>2 DEF SuggestInv, UsesOK
    <3>2. QED BY <1>7, <3>1
  <2>3. QED BY <2>1, <2>2 DEF UsesOK
<1>10. QED BY <1>2, <1>4, <1>5, <1>6, <1>9 DEF SuggestInv

(* Opening, asking, dismissing and the answers of the model leave the cases alone. *)
LEMMA DrawerSteps ==
    ASSUME SuggestInv, openDrawer \/ onDismiss \/ handleGenerate \/ generate
    PROVE  SuggestInv'
<1>1. /\ drawer \in DrawerState /\ asked \in AskedState /\ drawer.batch <= asked.batches
      /\ drawer.open = FALSE => drawer.busy = FALSE
      /\ drawer.batch \in Nat /\ asked.batches \in Nat
  BY DEF SuggestInv, SuggestTypeOK, DrawerState, AskedState
<1>2. Shut \in DrawerState /\ Shut.batch = NoBatch /\ Shut.busy = FALSE /\ NoBatch = 0
  BY DEF Shut, DrawerState, NoBatch
<1>3. CASE openDrawer
  <2>1. /\ drawer' \in DrawerState /\ drawer'.batch = drawer.batch
        /\ drawer'.busy = drawer.busy /\ drawer'.open = TRUE
    BY <1>1, <1>3 DEF openDrawer, DrawerState
  <2>2. UNCHANGED << accepting, cases, missed, asked >>
    BY <1>3 DEF openDrawer
  <2>3. /\ accepting' = accepting /\ cases' = cases /\ missed' = missed
        /\ drawer' \in DrawerState /\ asked' \in AskedState
        /\ asked.batches <= asked'.batches /\ drawer'.batch <= asked'.batches
        /\ drawer'.open = FALSE => drawer'.busy = FALSE
        /\ drawer'.batch = drawer.batch /\ drawer'.busy = drawer.busy
    BY <1>1, <2>1, <2>2
  <2>4. QED BY <2>3, DrawerStep
<1>4. CASE onDismiss
  <2>1. drawer' = Shut /\ UNCHANGED << accepting, cases, missed, asked >>
    BY <1>4 DEF onDismiss, Dismissed
  <2>2. /\ accepting' = accepting /\ cases' = cases /\ missed' = missed
        /\ drawer' \in DrawerState /\ asked' \in AskedState
        /\ asked.batches <= asked'.batches /\ drawer'.batch <= asked'.batches
        /\ drawer'.open = FALSE => drawer'.busy = FALSE
        /\ drawer'.batch = NoBatch
    BY <1>1, <1>2, <2>1
  <2>3. QED BY <2>2, DrawerStep
<1>5. CASE handleGenerate
  <2>1. /\ drawer' \in DrawerState /\ drawer'.batch = drawer.batch
        /\ drawer'.busy = drawer.busy /\ drawer'.open = drawer.open
    BY <1>1, <1>5 DEF handleGenerate, DrawerState
  <2>2. asked' \in AskedState /\ asked'.batches = asked.batches
    BY <1>1, <1>5 DEF handleGenerate, AskedState
  <2>3. UNCHANGED << accepting, cases, missed >>
    BY <1>5 DEF handleGenerate
  <2>4. /\ accepting' = accepting /\ cases' = cases /\ missed' = missed
        /\ drawer' \in DrawerState /\ asked' \in AskedState
        /\ asked.batches <= asked'.batches /\ drawer'.batch <= asked'.batches
        /\ drawer'.open = FALSE => drawer'.busy = FALSE
        /\ drawer'.batch = drawer.batch /\ drawer'.busy = drawer.busy
    BY <1>1, <2>1, <2>2, <2>3
  <2>5. QED BY <2>4, DrawerStep
<1>6. CASE generate
  <2>1. UNCHANGED << accepting, cases, missed >> /\ asked.answered + 1 \in Nat
    BY <1>1, <1>6 DEF generate, AskedState
  <2>2. CASE /\ drawer' = Showing(drawer, asked.batches + 1)
             /\ asked' = [asked EXCEPT !.answered = @ + 1, !.batches = @ + 1]
    <3>1. asked.batches + 1 \in Nat /\ drawer.batch # asked.batches + 1
      BY <1>1
    <3>2. asked' \in AskedState /\ asked'.batches = asked.batches + 1
      BY <1>1, <2>1, <2>2, <3>1 DEF AskedState
    <3>3. drawer' = [drawer EXCEPT !.batch = asked.batches + 1, !.loading = FALSE, !.busy = FALSE]
      BY <1>1, <2>2, <3>1 DEF Showing
    <3>4. /\ drawer' \in DrawerState /\ drawer'.batch = asked.batches + 1
          /\ drawer'.busy = FALSE
      BY <1>1, <3>1, <3>3 DEF DrawerState
    <3>5. /\ accepting' = accepting /\ cases' = cases /\ missed' = missed
          /\ drawer' \in DrawerState /\ asked' \in AskedState
          /\ asked.batches <= asked'.batches /\ drawer'.batch <= asked'.batches
          /\ drawer'.open = FALSE => drawer'.busy = FALSE
          /\ drawer'.batch > asked.batches
      BY <1>1, <2>1, <3>2, <3>4
    <3>6. QED BY <3>5, DrawerStep
  <2>3. CASE /\ drawer' = [drawer EXCEPT !.loading = FALSE]
             /\ asked' = [asked EXCEPT !.answered = @ + 1]
    <3>1. /\ drawer' \in DrawerState /\ drawer'.batch = drawer.batch
          /\ drawer'.busy = drawer.busy /\ drawer'.open = drawer.open
      BY <1>1, <2>3 DEF DrawerState
    <3>2. asked' \in AskedState /\ asked'.batches = asked.batches
      BY <1>1, <2>1, <2>3 DEF AskedState
    <3>3. /\ accepting' = accepting /\ cases' = cases /\ missed' = missed
          /\ drawer' \in DrawerState /\ asked' \in AskedState
          /\ asked.batches <= asked'.batches /\ drawer'.batch <= asked'.batches
          /\ drawer'.open = FALSE => drawer'.busy = FALSE
          /\ drawer'.batch = drawer.batch /\ drawer'.busy = drawer.busy
      BY <1>1, <2>1, <3>1, <3>2
    <3>4. QED BY <3>3, DrawerStep
  <2>4. QED BY <1>6, <2>2, <2>3 DEF generate
<1>7. QED BY <1>3, <1>4, <1>5, <1>6

(* An acceptance claims each of the chosen suggestions once. *)
LEMMA acceptStep ==
    ASSUME SuggestInv, NEW a \in Acceptances, NEW chosen \in SUBSET Items, accept(a, chosen)
    PROVE  SuggestInv'
<1> DEFINE acc == [at |-> "create", batch |-> drawer.batch, todo |-> chosen, created |-> {}]
<1>1. /\ drawer \in DrawerState /\ asked \in AskedState /\ drawer.batch <= asked.batches
      /\ drawer.batch \in Nat /\ asked.batches \in Nat /\ NoBatch = 0 /\ Items \in SUBSET Nat
      /\ accepting \in [Acceptances -> {Resting} \cup Acceptance] /\ SuggestTypeOK
      /\ missed.accepts \in Nat
  BY DEF SuggestInv, SuggestTypeOK, DrawerState, AskedState, MissedState, NoBatch, Items
<1>2. /\ drawer.batch # NoBatch /\ drawer.busy = FALSE /\ chosen # {} /\ drawer.open = TRUE
      /\ accepting[a] = Resting /\ UNCHANGED << asked, cases, missed >>
      /\ accepting' = [accepting EXCEPT ![a] = acc]
      /\ drawer' = [drawer EXCEPT !.busy = TRUE]
  BY <1>1 DEF accept, DrawerState
<1>3. acc \in Acceptance /\ acc # Resting
  BY <1>1 DEF Acceptance, Resting
<1>4. /\ drawer' \in DrawerState /\ drawer'.batch = drawer.batch /\ drawer'.busy = TRUE
      /\ drawer'.open = TRUE
  BY <1>1, <1>2 DEF DrawerState
<1>5. /\ acc.at = "create" /\ acc.batch = drawer.batch /\ acc.todo = chosen /\ acc.created = {}
  OBVIOUS
<1> HIDE DEF acc
<1>6. /\ accepting' \in [Acceptances -> {Resting} \cup Acceptance] /\ accepting'[a] = acc
      /\ \A d \in Acceptances : d = a \/ accepting'[d] = accepting[d]
  BY <1>1, <1>2, <1>3
<1>7. SuggestTypeOK'
  BY <1>1, <1>2, <1>4, <1>6 DEF SuggestTypeOK
<1>8. CaseIds' = CaseIds /\ \A b : Accepted(b)' <=> Accepted(b)
  BY <1>2 DEF CaseIds, Accepted
<1>9. ASSUME NEW d \in Acceptances PROVE RunningOK(d)'
  <2>1. CASE d = a
    BY <1>1, <1>2, <1>5, <1>6, <2>1 DEF RunningOK, Accepted
  <2>2. CASE d # a
    <3>1. RunningOK(d) /\ accepting'[d] = accepting[d]
      BY <1>6, <2>2 DEF SuggestInv
    <3>2. QED BY <1>2, <1>8, <3>1 DEF RunningOK, Accepted
  <2>3. QED BY <2>1, <2>2
<1>10. ASSUME NEW c \in CaseIds PROVE CaseOK(c)'
  <2>1. CaseOK(c)
    BY DEF SuggestInv
  <2>2. \A d \in Acceptances : accepting[d] # Resting =>
            accepting'[d] # Resting /\ accepting'[d] = accepting[d]
    BY <1>2, <1>6
  <2>3. QED BY <1>2, <2>1, <2>2 DEF CaseOK, Accepted
<1>11. ASSUME NEW b \in Nat, NEW i \in Nat
       PROVE  /\ Used(b, i)' \in Nat
              /\ \/ Used(b, i)' = Used(b, i)
                 \/ b = drawer.batch /\ Used(b, i)' = Used(b, i) + 1
  <2>1. /\ IsFiniteSet(Claims(b, i)) /\ Cardinality(Copies(b, i)) \in Nat
        /\ Cardinality(Claims(b, i)) \in Nat
    BY <1>1, UsedIsNumber
  <2>2. Copies(b, i)' = Copies(b, i)
    BY <1>2 DEF Copies, CaseIds
  <2>3. a \notin Claims(b, i)
    BY <1>2 DEF Claims
  <2>4. CASE b = drawer.batch /\ i \in chosen
    <3>1. Claims(b, i)' = Claims(b, i) \cup {a}
      BY <1>3, <1>5, <1>6, <2>4 DEF Claims
    <3>2. Cardinality(Claims(b, i)') = Cardinality(Claims(b, i)) + 1
      BY <2>1, <2>3, <3>1, FS_AddElement
    <3>3. QED BY <2>1, <2>2, <2>4, <3>2 DEF Used
  <2>5. CASE ~(b = drawer.batch /\ i \in chosen)
    <3>1. Claims(b, i)' = Claims(b, i)
      BY <1>2, <1>3, <1>5, <1>6, <2>5 DEF Claims
    <3>2. QED BY <2>1, <2>2, <3>1 DEF Used
  <2>6. QED BY <2>4, <2>5
<1>12. UsesOK'
  <2>1. ASSUME NEW b \in Nat, NEW i \in Nat PROVE Used(b, i)' <= 1 + missed'.accepts
    <3>1. /\ Used(b, i) <= 1 + missed.accepts
          /\ b = drawer.batch => Used(b, i) <= missed.accepts
      BY <1>2 DEF SuggestInv, UsesOK
    <3>2. Used(b, i) \in Nat
      BY <1>1, UsedIsNumber
    <3>3. QED BY <1>1, <1>2, <1>11, <3>1, <3>2
  <2>2. QED BY <1>4, <2>1 DEF UsesOK
<1>13. drawer'.batch <= asked'.batches /\ (drawer'.open = FALSE => drawer'.busy = FALSE)
  BY <1>1, <1>2, <1>4
<1>14. QED BY <1>7, <1>8, <1>9, <1>10, <1>12, <1>13 DEF SuggestInv

(* What an answer to an acceptance leaves as it was *)

(* The least of a set of numbers is one of them. *)
LEMMA FirstIsThere == ASSUME NEW S \in SUBSET Nat, S # {} PROVE First(S) \in S
<1>1. \E i \in S : \A j \in S : i <= j
  BY Smallest
<1>2. QED BY <1>1 DEF First

(* What one acceptance does leaves the claims and cases of the others as they were. *)
LEMMA AcceptanceMoves ==
    ASSUME SuggestInv, NEW a \in Acceptances, SuggestTypeOK', asked' = asked,
           drawer'.batch <= asked.batches, drawer'.open = FALSE => drawer'.busy = FALSE,
           CaseIds \subseteq CaseIds', missed.cases \subseteq missed'.cases,
           \A c \in CaseIds : /\ cases'[c].batch = cases[c].batch
                              /\ cases[c].linked = TRUE => cases'[c].linked = TRUE,
           \A d \in Acceptances : d = a \/ accepting'[d] = accepting[d],
           accepting[a] # Resting,
           \A c \in accepting[a].created :
              \/ cases'[c].linked = TRUE \/ c \in missed'.cases
              \/ accepting'[a] # Resting /\ c \in accepting'[a].created,
           RunningOK(a)', \A c \in CaseIds' \ CaseIds : CaseOK(c)', UsesOK'
    PROVE  SuggestInv'
<1>1. ASSUME NEW d \in Acceptances PROVE RunningOK(d)'
  <2>1. CASE d = a
    BY <2>1
  <2>2. CASE d # a
    <3>1. RunningOK(d) /\ accepting'[d] = accepting[d]
      BY <2>2 DEF SuggestInv
    <3>2. ASSUME accepting[d] # Resting
          PROVE  /\ Accepted(accepting[d].batch) /\ accepting[d].todo # {}
                 /\ accepting[d].created \subseteq CaseIds'
                 /\ accepting[d].at = "create" => accepting[d].todo \subseteq Items
                 /\ accepting[d].at = "link" =>
                       /\ accepting[d].todo \subseteq accepting[d].created
                       /\ \A c \in accepting[d].created \ accepting[d].todo :
                             cases'[c].linked = TRUE \/ c \in missed'.cases
      BY <3>1, <3>2 DEF RunningOK
    <3>3. QED BY <3>1, <3>2 DEF RunningOK, Accepted
  <2>3. QED BY <2>1, <2>2
<1>2. ASSUME NEW c \in CaseIds PROVE CaseOK(c)'
  <2>1. CaseOK(c) /\ cases'[c].batch = cases[c].batch
    BY DEF SuggestInv
  <2>2. \/ cases'[c].linked = TRUE
        \/ c \in missed'.cases
        \/ \E d \in Acceptances : accepting'[d] # Resting /\ c \in accepting'[d].created
    <3>1. CASE cases[c].linked = TRUE \/ c \in missed.cases
      BY <3>1
    <3>2. ASSUME NEW d \in Acceptances, accepting[d] # Resting, c \in accepting[d].created
          PROVE  <2>2!1 \/ <2>2!2 \/ <2>2!3
      <4>1. CASE d = a
        BY <3>2, <4>1
      <4>2. CASE d # a
        BY <3>2, <4>2
      <4>3. QED BY <4>1, <4>2
    <3>3. QED BY <2>1, <3>1, <3>2 DEF CaseOK
  <2>3. QED BY <2>1, <2>2 DEF CaseOK, Accepted
<1>3. \A c \in CaseIds' : CaseOK(c)'
  BY <1>2
<1>4. drawer'.batch <= asked'.batches
  OBVIOUS
<1>5. QED BY <1>1, <1>3, <1>4 DEF SuggestInv

NoMoreUsed == \A b, i \in Nat : Used(b, i)' \in Nat /\ Used(b, i)' <= Used(b, i)

(* An item is used no more than before when neither its cases nor its claims grow. *)
LEMMA UsesKept ==
    ASSUME SuggestInv, SuggestTypeOK', NoMoreUsed,
           \/ /\ missed'.accepts = missed.accepts
              /\ \/ drawer'.batch = NoBatch
                 \/ drawer'.batch = drawer.batch /\ drawer'.busy = drawer.busy
           \/ missed'.accepts = missed.accepts + 1
    PROVE  UsesOK'
<1>1. SuggestTypeOK /\ missed.accepts \in Nat /\ missed'.accepts \in Nat
  BY DEF SuggestInv, SuggestTypeOK, MissedState
<1>2. ASSUME NEW b \in Nat, NEW i \in Nat
      PROVE  /\ Used(b, i)' <= 1 + missed'.accepts
             /\ b = drawer'.batch /\ b # NoBatch /\ drawer'.busy = FALSE =>
                   Used(b, i)' <= missed'.accepts
  <2>1. Used(b, i) \in Nat /\ Used(b, i)' \in Nat /\ Used(b, i)' <= Used(b, i)
    BY <1>1, UsedIsNumber DEF NoMoreUsed
  <2>2. /\ Used(b, i) <= 1 + missed.accepts
        /\ b = drawer.batch /\ b # NoBatch /\ drawer.busy = FALSE => Used(b, i) <= missed.accepts
    BY DEF SuggestInv, UsesOK
  <2>3. Used(b, i)' <= 1 + missed.accepts
    BY <1>1, <2>1, <2>2
  <2>4. CASE missed'.accepts = missed.accepts + 1
    <3>1. Used(b, i)' <= missed'.accepts
      BY <2>3, <2>4, <1>1
    <3>2. QED BY <1>1, <2>1, <3>1
  <2>5. CASE /\ missed'.accepts = missed.accepts
             /\ drawer'.batch = NoBatch \/ (drawer'.batch = drawer.batch /\ drawer'.busy = drawer.busy)
    <3>1. ASSUME b = drawer'.batch, b # NoBatch, drawer'.busy = FALSE
          PROVE  Used(b, i)' <= missed'.accepts
      <4>1. Used(b, i) <= missed.accepts
        BY <2>2, <2>5, <3>1
      <4>2. QED BY <1>1, <2>1, <2>5, <4>1
    <3>2. QED BY <2>3, <2>5, <3>1
  <2>6. QED BY <2>4, <2>5
<1>3. QED BY <1>2 DEF UsesOK

(* A suggestion that becomes a case is claimed no longer. *)
LEMMA ClaimBecomesCopy ==
    ASSUME SuggestInv, NEW a \in Acceptances, NEW b \in Nat, NEW i \in Nat,
           Claims(b, i)' \subseteq Claims(b, i),
           \/ cases' = cases
           \/ /\ a \in Claims(b, i) /\ a \notin Claims(b, i)'
              /\ \E id : Copies(b, i)' \subseteq Copies(b, i) \cup {id}
           \/ Copies(b, i)' = Copies(b, i)
    PROVE  Used(b, i)' \in Nat /\ Used(b, i)' <= Used(b, i)
<1>1. /\ IsFiniteSet(Copies(b, i)) /\ Cardinality(Copies(b, i)) \in Nat
      /\ IsFiniteSet(Claims(b, i)) /\ Cardinality(Claims(b, i)) \in Nat
  BY UsedIsNumber DEF SuggestInv
<1>2. /\ Cardinality(Claims(b, i)') <= Cardinality(Claims(b, i))
      /\ Cardinality(Claims(b, i)') \in Nat
  BY <1>1, FS_Subset, FS_CardinalityType
<1>3. CASE Copies(b, i)' = Copies(b, i)
  BY <1>1, <1>2, <1>3 DEF Used
<1>4. CASE cases' = cases
  <2>1. Copies(b, i)' = Copies(b, i)
    BY <1>4 DEF Copies, CaseIds
  <2>2. QED BY <1>3, <2>1
<1>5. CASE /\ a \in Claims(b, i) /\ a \notin Claims(b, i)'
           /\ \E id : Copies(b, i)' \subseteq Copies(b, i) \cup {id}
  <2>1. PICK id : Copies(b, i)' \subseteq Copies(b, i) \cup {id}
    BY <1>5
  <2>2. /\ IsFiniteSet(Copies(b, i) \cup {id})
        /\ Cardinality(Copies(b, i) \cup {id})
              \in {Cardinality(Copies(b, i)), Cardinality(Copies(b, i)) + 1}
    BY <1>1, FS_AddElement
  <2>3. /\ Cardinality(Copies(b, i)') <= Cardinality(Copies(b, i) \cup {id})
        /\ Cardinality(Copies(b, i)') \in Nat
    BY <2>1, <2>2, FS_Subset, FS_CardinalityType
  <2>4. /\ IsFiniteSet(Claims(b, i) \ {a})
        /\ Cardinality(Claims(b, i) \ {a}) = Cardinality(Claims(b, i)) - 1
    BY <1>1, <1>5, FS_RemoveElement
  <2>5. Claims(b, i)' \in SUBSET (Claims(b, i) \ {a})
    BY <1>5
  <2>6. Cardinality(Claims(b, i)') <= Cardinality(Claims(b, i) \ {a})
    BY <2>4, <2>5, FS_Subset
  <2>7. QED BY <1>1, <1>2, <2>2, <2>3, <2>4, <2>6 DEF Used
<1>6. QED BY <1>3, <1>4, <1>5

(* An acceptance that fails gives up: its cases are counted. *)
LEMMA AcceptanceEnds ==
    ASSUME SuggestInv, NEW a \in Acceptances, NEW left \in SUBSET Nat, AcceptFails(a, left)
    PROVE  /\ drawer' \in DrawerState /\ drawer'.batch = drawer.batch /\ drawer'.busy = FALSE
           /\ missed' \in MissedState /\ missed'.accepts = missed.accepts + 1
           /\ missed'.cases = missed.cases \cup left
           /\ accepting' \in [Acceptances -> {Resting} \cup Acceptance] /\ accepting'[a] = Resting
           /\ \A d \in Acceptances : d = a \/ accepting'[d] = accepting[d]
<1>1. /\ drawer \in DrawerState /\ missed \in MissedState
      /\ accepting \in [Acceptances -> {Resting} \cup Acceptance]
  BY DEF SuggestInv, SuggestTypeOK
<1>2. drawer' \in DrawerState /\ drawer'.batch = drawer.batch /\ drawer'.busy = FALSE
  BY <1>1 DEF AcceptFails, DrawerState
<1>3. /\ accepting' \in [Acceptances -> {Resting} \cup Acceptance] /\ accepting'[a] = Resting
      /\ \A d \in Acceptances : d = a \/ accepting'[d] = accepting[d]
  BY <1>1 DEF AcceptFails
<1>4. /\ missed.requests + 1 \in Nat /\ missed.accepts + 1 \in Nat
      /\ missed.cases \cup left \in SUBSET Nat
  <2>1. missed.requests \in Nat /\ missed.accepts \in Nat /\ missed.cases \in SUBSET Nat
    BY <1>1 DEF MissedState
  <2>2. missed.requests + 1 \in Nat /\ missed.accepts + 1 \in Nat
    BY <2>1
  <2>3. missed.cases \cup left \in SUBSET Nat
    BY <2>1, Zenon
  <2>4. QED BY <2>2, <2>3
<1>5. /\ missed' \in MissedState /\ missed'.accepts = missed.accepts + 1
      /\ missed'.cases = missed.cases \cup left
  BY <1>1, <1>4 DEF AcceptFails, MissedState
<1>6. QED BY <1>2, <1>3, <1>5

(* A case is created from the first item left, which is its use from now on. *)
LEMMA CreateAnswerStep ==
    ASSUME SuggestInv, NEW a \in Acceptances, CreateAnswer(a)
    PROVE  SuggestInv'
<1> DEFINE acc == accepting[a]
           item == First(acc.todo)
           id == Len(cases) + 1
           left == acc.todo \ {item}
           new == Case(acc.batch, item)
           later == IF left # {} THEN left ELSE acc.created \cup {id}
           where == IF left # {} THEN "create" ELSE "link"
           made == acc.created \cup {id}
           next == [acc EXCEPT !.todo = later, !.created = made, !.at = where]
<1>1. /\ drawer \in DrawerState /\ asked \in AskedState /\ missed \in MissedState
      /\ drawer.batch <= asked.batches /\ (drawer.open = FALSE => drawer.busy = FALSE)
      /\ accepting \in [Acceptances -> {Resting} \cup Acceptance] /\ SuggestTypeOK
      /\ cases \in Seq(CaseState) /\ Len(cases) \in Nat /\ Items \in SUBSET Nat
  BY DEF SuggestInv, SuggestTypeOK, Items
<1>2. acc # Resting /\ acc.at = "create" /\ asked' = asked
  <2>1. acc.at = "create" /\ asked' = asked
    BY DEF CreateAnswer
  <2>2. Resting.at = "idle"
    BY DEF Resting
  <2> HIDE DEF acc
  <2>3. QED BY <2>1, <2>2
<1>3. /\ acc \in Acceptance /\ Accepted(acc.batch) /\ acc.todo # {} /\ acc.created \subseteq CaseIds
      /\ acc.todo \subseteq Items
  BY <1>1, <1>2 DEF SuggestInv, RunningOK
<1>4. item \in acc.todo /\ item \in Items
  <2>1. acc.todo \in SUBSET Nat /\ acc.todo # {}
    BY <1>1, <1>3
  <2> HIDE DEF acc
  <2>2. QED BY <1>3, <2>1, FirstIsThere
<1>5. new \in CaseState /\ new.batch = acc.batch /\ new.item = item
  <2>1. acc.batch \in Nat /\ item \in Nat
    BY <1>1, <1>3, <1>4 DEF Acceptance
  <2> HIDE DEF acc, item
  <2>2. QED BY <2>1 DEF Case, CaseState
<1>6. ASSUME cases' = Append(cases, new)
      PROVE  /\ cases' \in Seq(CaseState) /\ CaseIds' = CaseIds \cup {id} /\ id \notin CaseIds
             /\ \A c \in CaseIds : cases'[c] = cases[c]
             /\ cases'[id] = new
  <2> HIDE DEF new
  <2>1. /\ cases' \in Seq(CaseState) /\ Len(cases') = Len(cases) + 1
        /\ \A c \in 1..Len(cases) : cases'[c] = cases[c]
        /\ cases'[Len(cases) + 1] = new
    BY <1>1, <1>5, <1>6
  <2>2. QED BY <1>1, <2>1 DEF CaseIds
<1>7. ASSUME cases' = Append(cases, new) \/ cases' = cases
      PROVE  /\ cases' \in Seq(CaseState) /\ CaseIds \subseteq CaseIds' /\ CaseIds' \subseteq CaseIds \cup {id}
             /\ \A c \in CaseIds : cases'[c] = cases[c]
  BY <1>1, <1>6, <1>7 DEF CaseIds
<1>9. acc.created \cup {id} \in SUBSET Nat
  BY <1>1, <1>3 DEF Acceptance
<1>71. next \in Acceptance /\ next # Resting /\ next.batch = acc.batch /\ next.at = where
       /\ next.todo = later /\ next.created = acc.created \cup {id}
  <2>1. acc.batch \in Nat /\ acc.todo \in SUBSET Nat
    BY <1>3 DEF Acceptance
  <2>2. later \in SUBSET Nat /\ where \in {"create", "link"} /\ made \in SUBSET Nat
    BY <1>9, <2>1
  <2> HIDE DEF acc, later, where, made
  <2>3. QED BY <1>3, <2>2 DEF Acceptance, Resting, made
<1>8. ASSUME cases' = Append(cases, new) \/ cases' = cases,
             accepting'[a] = Resting \/ accepting'[a] = next,
             cases' = cases => accepting'[a] = Resting,
             \A d \in Acceptances : d = a \/ accepting'[d] = accepting[d],
             NEW b \in Nat, NEW i \in Nat
      PROVE  Used(b, i)' \in Nat /\ Used(b, i)' <= Used(b, i)
  <2>1. Claims(b, i)' \subseteq Claims(b, i)
    <3>1. a \in Claims(b, i)' => a \in Claims(b, i)
      <4>1. ASSUME accepting'[a] = next, next.at = "create" PROVE next.todo \subseteq acc.todo
        BY <1>71, <4>1
      <4> HIDE DEF next, acc
      <4>2. QED BY <1>2, <1>71, <1>8, <4>1 DEF Claims, acc
    <3>2. QED BY <1>8, <3>1 DEF Claims
  <2>2. CASE cases' = cases
    BY <2>1, <2>2, ClaimBecomesCopy
  <2>3. CASE cases' = Append(cases, new) /\ b = acc.batch /\ i = item
    <3>1. a \in Claims(b, i)
      BY <1>2, <1>4, <2>3 DEF Claims
    <3>2. a \notin Claims(b, i)'
      <4>1. next.at = "create" => i \notin next.todo
        BY <1>71, <2>3
      <4> HIDE DEF next
      <4>2. QED BY <1>8, <4>1 DEF Claims
    <3>3. Copies(b, i)' \subseteq Copies(b, i) \cup {id}
      BY <1>6, <2>3 DEF Copies
    <3>4. QED BY <2>1, <3>1, <3>2, <3>3, ClaimBecomesCopy
  <2>4. CASE cases' = Append(cases, new) /\ ~(b = acc.batch /\ i = item)
    <3>1. Copies(b, i)' = Copies(b, i)
      BY <1>5, <1>6, <2>4 DEF Copies
    <3>2. QED BY <2>1, <3>1, ClaimBecomesCopy
  <2>5. QED BY <1>8, <2>2, <2>3, <2>4
<1>10. ASSUME cases' = Append(cases, new) \/ cases' = cases, NEW gone \in SUBSET Nat,
              acc.created \subseteq gone, cases' # cases => id \in gone,
              AcceptFails(a, gone)
       PROVE  SuggestInv'
  <2>1. /\ drawer' \in DrawerState /\ drawer'.batch = drawer.batch /\ drawer'.busy = FALSE
        /\ missed' \in MissedState /\ missed'.accepts = missed.accepts + 1
        /\ missed'.cases = missed.cases \cup gone
        /\ accepting' \in [Acceptances -> {Resting} \cup Acceptance] /\ accepting'[a] = Resting
        /\ \A d \in Acceptances : d = a \/ accepting'[d] = accepting[d]
    BY <1>10, AcceptanceEnds
  <2>2. /\ cases' \in Seq(CaseState) /\ CaseIds \subseteq CaseIds' /\ CaseIds' \subseteq CaseIds \cup {id}
        /\ \A c \in CaseIds : cases'[c] = cases[c]
    BY <1>7, <1>10
  <2>3. SuggestTypeOK'
    BY <1>1, <1>2, <2>1, <2>2 DEF SuggestTypeOK
  <2>4. RunningOK(a)'
    BY <2>1 DEF RunningOK
  <2>5. \A c \in CaseIds' \ CaseIds : CaseOK(c)'
    <3>1. ASSUME NEW c \in CaseIds' \ CaseIds PROVE CaseOK(c)'
      <4>1. cases' = Append(cases, new) /\ c = id /\ cases'[c] = new
        BY <1>6, <1>10, <2>2, <3>1 DEF CaseIds
      <4>2. cases' # cases
        BY <4>1, <3>1 DEF CaseIds
      <4>3. c \in missed'.cases
        BY <1>10, <2>1, <4>1, <4>2
      <4>4. QED BY <1>2, <1>3, <1>5, <4>1, <4>3 DEF CaseOK, Accepted
    <3>2. QED BY <3>1
  <2>6. NoMoreUsed
    BY <1>8, <1>10, <2>1 DEF NoMoreUsed
  <2>7. UsesOK'
    BY <2>1, <2>3, <2>6, UsesKept
  <2>8. /\ \A c \in CaseIds : /\ cases'[c].batch = cases[c].batch
                              /\ cases[c].linked = TRUE => cases'[c].linked = TRUE
        /\ \A c \in acc.created : c \in missed'.cases
        /\ missed.cases \subseteq missed'.cases
    BY <1>10, <2>1, <2>2
  <2>9. drawer'.batch <= asked.batches
    BY <1>1, <2>1
  <2>10. QED BY <1>2, <2>1, <2>2, <2>3, <2>4, <2>5, <2>7, <2>8, <2>9, AcceptanceMoves
<1>11. ASSUME cases' = Append(cases, new), accepting' = [accepting EXCEPT ![a] = next],
              UNCHANGED << drawer, missed >>
       PROVE  SuggestInv'
  <2>1. next \in Acceptance /\ next # Resting /\ next.batch = acc.batch /\ next.at = where
        /\ next.todo = later /\ next.created = acc.created \cup {id}
    BY <1>71
  <2>2. /\ later # {} /\ (where = "create" => later \subseteq Items)
        /\ (where = "link" => later = acc.created \cup {id})
    BY <1>3
  <2>3. /\ accepting' \in [Acceptances -> {Resting} \cup Acceptance] /\ accepting'[a] = next
        /\ \A d \in Acceptances : d = a \/ accepting'[d] = accepting[d]
    <3> HIDE DEF next
    <3>1. QED BY <1>1, <1>11, <2>1
  <2>4. /\ cases' \in Seq(CaseState) /\ CaseIds' = CaseIds \cup {id} /\ id \notin CaseIds
        /\ \A c \in CaseIds : cases'[c] = cases[c]
        /\ cases'[id] = new
    BY <1>6, <1>11
  <2>5. SuggestTypeOK'
    BY <1>1, <1>2, <1>11, <2>3, <2>4 DEF SuggestTypeOK
  <2>6. NoMoreUsed
    <3>1. cases' # cases
      BY <2>4 DEF CaseIds
    <3>2. QED BY <1>8, <1>11, <2>3, <3>1 DEF NoMoreUsed
  <2>7. UsesOK'
    <3>1. missed'.accepts = missed.accepts /\ drawer'.batch = drawer.batch /\ drawer'.busy = drawer.busy
      BY <1>11
    <3>2. QED BY <2>5, <2>6, <3>1, UsesKept
  <2> HIDE DEF later, where, next
  <2>8. RunningOK(a)'
    <3>1. acc.created \cup {id} \subseteq CaseIds'
      BY <1>3, <2>4
    <3>2. acc.batch \in 1..asked'.batches
      BY <1>2, <1>3 DEF Accepted
    <3>3. QED BY <2>1, <2>2, <2>3, <3>1, <3>2 DEF RunningOK, Accepted
  <2>9. \A c \in CaseIds' \ CaseIds : CaseOK(c)'
    <3>1. ASSUME NEW c \in CaseIds' \ CaseIds PROVE CaseOK(c)'
      <4>1. c = id /\ cases'[c].batch = acc.batch
        BY <1>5, <2>4, <3>1
      <4>2. accepting'[a] # Resting /\ c \in accepting'[a].created
        BY <2>1, <2>3, <4>1
      <4>3. QED BY <1>2, <1>3, <4>1, <4>2 DEF CaseOK, Accepted
    <3>2. QED BY <3>1
  <2>10. /\ \A c \in CaseIds : /\ cases'[c].batch = cases[c].batch
                               /\ cases[c].linked = TRUE => cases'[c].linked = TRUE
         /\ \A c \in acc.created : accepting'[a] # Resting /\ c \in accepting'[a].created
         /\ missed.cases \subseteq missed'.cases
         /\ drawer'.batch <= asked.batches /\ (drawer'.open = FALSE => drawer'.busy = FALSE)
         /\ CaseIds \subseteq CaseIds'
    BY <1>1, <1>11, <2>1, <2>3, <2>4
  <2>11. QED BY <1>2, <2>3, <2>5, <2>7, <2>8, <2>9, <2>10, AcceptanceMoves
<1>12. CASE /\ cases' = Append(cases, new)
            /\ accepting' = [accepting EXCEPT ![a].todo = IF left # {} THEN left
                                                          ELSE acc.created \cup {id},
                                              ![a].created = @ \cup {id},
                                              ![a].at = IF left # {} THEN @ ELSE "link"]
            /\ UNCHANGED << drawer, missed >>
  <2>1. accepting' = [accepting EXCEPT ![a] = next]
    BY <1>1, <1>2, <1>12
  <2>2. QED BY <1>11, <1>12, <2>1
<1>13. acc.created \in SUBSET Nat
  BY <1>3 DEF Acceptance
<1>14. CASE cases' = Append(cases, new) /\ AcceptFails(a, acc.created \cup {id})
  BY <1>9, <1>10, <1>14
<1>15. CASE UNCHANGED cases /\ AcceptFails(a, acc.created)
  BY <1>10, <1>13, <1>15
<1>16. QED BY <1>12, <1>14, <1>15 DEF CreateAnswer

(* The link of a created case is answered, or counted as missed. *)
LEMMA LinkAnsweredStep ==
    ASSUME SuggestInv, NEW a \in Acceptances, LinkAnswered(a)
    PROVE  SuggestInv'
<1> DEFINE acc == accepting[a]
           id == First(acc.todo)
           left == acc.todo \ {id}
           next == [acc EXCEPT !.todo = left]
<1>1. /\ drawer \in DrawerState /\ asked \in AskedState /\ missed \in MissedState
      /\ drawer.batch <= asked.batches /\ (drawer.open = FALSE => drawer.busy = FALSE)
      /\ accepting \in [Acceptances -> {Resting} \cup Acceptance] /\ SuggestTypeOK
      /\ cases \in Seq(CaseState) /\ asked.batches \in Nat /\ NoBatch = 0
  BY DEF SuggestInv, SuggestTypeOK, AskedState, NoBatch
<1>2. acc # Resting /\ acc.at = "link" /\ asked' = asked
  <2>1. acc.at = "link" /\ asked' = asked
    BY DEF LinkAnswered
  <2>2. Resting.at = "idle"
    BY DEF Resting
  <2> HIDE DEF acc
  <2>3. QED BY <2>1, <2>2
<1>3. /\ acc \in Acceptance /\ Accepted(acc.batch) /\ acc.todo # {} /\ acc.created \subseteq CaseIds
      /\ acc.todo \subseteq acc.created
      /\ \A c \in acc.created \ acc.todo : cases[c].linked = TRUE \/ c \in missed.cases
  BY <1>1, <1>2 DEF SuggestInv, RunningOK
<1>4. id \in acc.todo /\ id \in CaseIds /\ id \in Nat
  <2>1. acc.todo \in SUBSET Nat /\ acc.todo # {}
    BY <1>3 DEF Acceptance
  <2> HIDE DEF acc
  <2>2. QED BY <1>3, <2>1, FirstIsThere
<1>5. /\ cases' \in Seq(CaseState) /\ CaseIds' = CaseIds /\ missed' \in MissedState
      /\ missed.cases \subseteq missed'.cases /\ missed'.accepts = missed.accepts
      /\ \A c \in CaseIds : /\ cases'[c].batch = cases[c].batch /\ cases'[c].item = cases[c].item
                            /\ cases[c].linked = TRUE => cases'[c].linked = TRUE
      /\ cases'[id].linked = TRUE \/ id \in missed'.cases
  <2>1. CASE cases' = [cases EXCEPT ![id].linked = TRUE] /\ UNCHANGED missed
    <3> DEFINE x == [cases[id] EXCEPT !.linked = TRUE]
    <3>1. cases[id] \in CaseState
      BY <1>1, <1>4 DEF CaseIds
    <3>2. x \in CaseState /\ x.linked = TRUE /\ x.batch = cases[id].batch /\ x.item = cases[id].item
      BY <3>1 DEF CaseState
    <3>3. cases' = [cases EXCEPT ![id] = x]
      BY <2>1
    <3> HIDE DEF x, id
    <3>4. /\ cases' \in Seq(CaseState) /\ Len(cases') = Len(cases) /\ cases'[id] = x
          /\ \A c \in 1..Len(cases) : c # id => cases'[c] = cases[c]
      BY <1>1, <1>4, <3>2, <3>3 DEF CaseIds
    <3>5. QED BY <1>1, <2>1, <3>2, <3>4 DEF CaseIds
  <2>2. CASE /\ missed' = [missed EXCEPT !.requests = @ + 1, !.cases = @ \cup {id}]
             /\ UNCHANGED cases
    <3>1. missed.requests \in Nat /\ missed.cases \in SUBSET Nat
      BY <1>1 DEF MissedState
    <3>2. missed.requests + 1 \in Nat /\ missed.cases \cup {id} \in SUBSET Nat
      BY <1>4, <3>1
    <3> HIDE DEF id
    <3>3. /\ missed' \in MissedState /\ missed'.cases = missed.cases \cup {id}
          /\ missed'.accepts = missed.accepts
      BY <1>1, <2>2, <3>2 DEF MissedState
    <3>4. QED BY <1>1, <2>2, <3>3 DEF CaseIds
  <2>3. QED BY <2>1, <2>2 DEF LinkAnswered
<1>6. ASSUME NEW c \in acc.created \ left
      PROVE  cases'[c].linked = TRUE \/ c \in missed'.cases
  <2>1. CASE c = id
    BY <1>5, <2>1
  <2>2. CASE c # id
    BY <1>3, <1>5, <1>6, <2>2
  <2>3. QED BY <2>1, <2>2
<1>7. ASSUME accepting'[a] = Resting \/ accepting'[a] = next,
             \A d \in Acceptances : d = a \/ accepting'[d] = accepting[d]
      PROVE  NoMoreUsed
  <2>1. accepting'[a] = Resting \/ accepting'[a].at = "link"
    BY <1>2, <1>3, <1>7 DEF Acceptance
  <2>2. ASSUME NEW b \in Nat, NEW i \in Nat PROVE Used(b, i)' \in Nat /\ Used(b, i)' <= Used(b, i)
    <3>1. a \notin Claims(b, i)'
      BY <2>1 DEF Claims
    <3>2. Claims(b, i)' \subseteq Claims(b, i)
      BY <1>7, <3>1 DEF Claims
    <3>3. Copies(b, i)' = Copies(b, i)
      BY <1>5 DEF Copies
    <3>4. QED BY <3>2, <3>3, ClaimBecomesCopy
  <2>3. QED BY <2>2 DEF NoMoreUsed
<1>8. CASE left # {} /\ accepting' = [accepting EXCEPT ![a].todo = left] /\ UNCHANGED drawer
  <2>1. left \in SUBSET Nat
    BY <1>3 DEF Acceptance
  <2>2. /\ next \in Acceptance /\ next.at = "link" /\ next.batch = acc.batch
        /\ next.todo = left /\ next.created = acc.created
    <3> HIDE DEF acc, left
    <3>1. QED BY <1>2, <1>3, <2>1 DEF Acceptance
  <2>3. next # Resting
    BY <2>2 DEF Resting
  <2>4. accepting' = [accepting EXCEPT ![a] = next]
    BY <1>8
  <2>5. /\ accepting' \in [Acceptances -> {Resting} \cup Acceptance] /\ accepting'[a] = next
        /\ \A d \in Acceptances : d = a \/ accepting'[d] = accepting[d]
    <3> HIDE DEF next
    <3>1. QED BY <1>1, <2>2, <2>4
  <2> HIDE DEF next
  <2>6. SuggestTypeOK'
    BY <1>1, <1>2, <1>5, <1>8, <2>5 DEF SuggestTypeOK
  <2>7. UsesOK'
    <3>1. NoMoreUsed
      BY <1>7, <2>5
    <3>2. drawer'.batch = drawer.batch /\ drawer'.busy = drawer.busy
      BY <1>8
    <3>3. QED BY <1>5, <2>6, <3>1, <3>2, UsesKept
  <2>8. RunningOK(a)'
    <3>1. acc.batch \in 1..asked'.batches /\ acc.created \subseteq CaseIds' /\ left \subseteq acc.created
      BY <1>2, <1>3, <1>5 DEF Accepted
    <3> HIDE DEF left
    <3>2. QED BY <1>6, <1>8, <2>2, <2>5, <3>1 DEF RunningOK, Accepted
  <2>9. /\ \A c \in acc.created : accepting'[a] # Resting /\ c \in accepting'[a].created
        /\ drawer'.batch <= asked.batches /\ (drawer'.open = FALSE => drawer'.busy = FALSE)
        /\ \A c \in CaseIds' \ CaseIds : CaseOK(c)'
        /\ CaseIds \subseteq CaseIds'
    BY <1>1, <1>5, <1>8, <2>2, <2>3, <2>5
  <2>10. QED BY <1>2, <1>5, <2>5, <2>6, <2>7, <2>8, <2>9, AcceptanceMoves
<1>9. CASE /\ left = {} /\ accepting' = [accepting EXCEPT ![a] = Resting]
           /\ drawer' = [Dismissed(drawer) EXCEPT !.busy = FALSE]
  <2>1. /\ accepting' \in [Acceptances -> {Resting} \cup Acceptance] /\ accepting'[a] = Resting
        /\ \A d \in Acceptances : d = a \/ accepting'[d] = accepting[d]
    BY <1>1, <1>9
  <2>2. /\ drawer' \in DrawerState /\ drawer'.busy = FALSE
        /\ \/ drawer'.batch = NoBatch
           \/ drawer'.batch = drawer.batch /\ drawer'.busy = drawer.busy
        /\ drawer'.batch <= asked.batches
    <3>1. CASE drawer.open
      <4>1. drawer' = [Shut EXCEPT !.busy = FALSE]
        BY <1>9, <3>1 DEF Dismissed
      <4>2. Shut \in DrawerState /\ Shut.batch = NoBatch
        BY <1>1 DEF Shut, DrawerState
      <4>3. drawer' \in DrawerState /\ drawer'.busy = FALSE /\ drawer'.batch = NoBatch
        BY <4>1, <4>2 DEF DrawerState
      <4>4. QED BY <1>1, <4>3
    <3>2. CASE ~drawer.open
      <4>1. drawer' = [drawer EXCEPT !.busy = FALSE]
        BY <1>9, <3>2 DEF Dismissed
      <4>2. drawer.open = FALSE
        BY <1>1, <3>2 DEF DrawerState
      <4>3. drawer' \in DrawerState /\ drawer'.busy = FALSE /\ drawer'.batch = drawer.batch
        BY <1>1, <4>1 DEF DrawerState
      <4>4. QED BY <1>1, <4>2, <4>3
    <3>3. QED BY <3>1, <3>2
  <2>3. SuggestTypeOK'
    BY <1>1, <1>2, <1>5, <2>1, <2>2 DEF SuggestTypeOK
  <2>4. UsesOK'
    <3>1. NoMoreUsed
      BY <1>7, <2>1
    <3>2. QED BY <1>5, <2>2, <2>3, <3>1, UsesKept
  <2>5. RunningOK(a)'
    BY <2>1 DEF RunningOK
  <2>6. \A c \in acc.created : cases'[c].linked = TRUE \/ c \in missed'.cases
    BY <1>6, <1>9
  <2>7. (\A c \in CaseIds' \ CaseIds : CaseOK(c)') /\ CaseIds \subseteq CaseIds'
    BY <1>5
  <2>8. QED BY <1>2, <1>5, <2>1, <2>2, <2>3, <2>4, <2>5, <2>6, <2>7, AcceptanceMoves
<1>10. QED BY <1>8, <1>9 DEF LinkAnswered

(* Every step of the drawer and of its acceptances keeps the invariant. *)
LEMMA SuggestStep ==
    ASSUME SuggestInv, [SuggestNext]_suggestVars
    PROVE  SuggestInv'
<1>1. CASE UNCHANGED suggestVars
  <2>1. /\ accepting' = accepting /\ cases' = cases /\ missed' = missed
        /\ drawer' = drawer /\ asked' = asked
    BY <1>1 DEF suggestVars
  <2>2. /\ drawer' \in DrawerState /\ asked' \in AskedState
        /\ asked.batches <= asked'.batches /\ drawer'.batch <= asked'.batches
        /\ drawer'.open = FALSE => drawer'.busy = FALSE
        /\ drawer'.batch = drawer.batch /\ drawer'.busy = drawer.busy
    BY <2>1 DEF SuggestInv, SuggestTypeOK, AskedState
  <2>3. QED BY <2>1, <2>2, DrawerStep
<1>2. CASE SuggestNext
  BY <1>2, DrawerSteps, acceptStep, CreateAnswerStep, LinkAnsweredStep DEF SuggestNext
<1>3. QED BY <1>1, <1>2

(* A suggestion becomes a second test case only after an acceptance that was
   reported as failed, and a case without its link is one the failures account
   for or a running acceptance still holds, whatever is dismissed, generated
   and accepted meanwhile (handleAccept of CoveragePanel.tsx and
   SuggestTestsDrawer.tsx). *)
THEOREM SuggestionsAreCounted == SuggestSpec => []SuggestedCasesAreAccountedFor
<1>1. ASSUME SuggestInv PROVE SuggestedCasesAreAccountedFor
  <2> DEFINE copies(b, i) == {c \in DOMAIN cases : cases[c].batch = b /\ cases[c].item = i}
             running == UNION {accepting[a].created :
                                  a \in {d \in Acceptances : accepting[d] # Resting}}
  <2>1. /\ SuggestTypeOK /\ DOMAIN cases = CaseIds /\ missed.accepts \in Nat
        /\ asked.batches \in Nat /\ Items \in SUBSET Nat
    BY <1>1 DEF SuggestInv, SuggestTypeOK, CaseIds, MissedState, AskedState, Items
  <2>2. ASSUME NEW b \in 1..asked.batches, NEW i \in Items
        PROVE  Cardinality(copies(b, i)) <= 1 + missed.accepts
    <3>1. b \in Nat /\ i \in Nat
      BY <2>1
    <3>2. copies(b, i) = Copies(b, i)
      BY <2>1 DEF Copies
    <3>3. /\ Cardinality(Copies(b, i)) \in Nat /\ Cardinality(Claims(b, i)) \in Nat
          /\ Used(b, i) = Cardinality(Copies(b, i)) + Cardinality(Claims(b, i))
      BY <2>1, UsedIsNumber DEF Used
    <3>4. Used(b, i) <= 1 + missed.accepts
      BY <1>1, <3>1 DEF SuggestInv, UsesOK
    <3>5. Cardinality(Copies(b, i)) <= 1 + missed.accepts
      BY <2>1, <3>3, <3>4
    <3>6. QED BY <3>2, <3>5
  <2>3. ASSUME NEW c \in DOMAIN cases PROVE cases[c].linked \/ c \in missed.cases \cup running
    <3>1. CaseOK(c)
      BY <1>1, <2>1 DEF SuggestInv
    <3>2. QED BY <3>1 DEF CaseOK
  <2>4. QED BY <2>2, <2>3 DEF SuggestedCasesAreAccountedFor
<1>2. QED BY <1>1, InitSuggest, SuggestStep, PTL DEF SuggestSpec

=============================================================================
