----------------------------- MODULE LinkPanel -----------------------------
(***************************************************************************)
(* The work item links of a test case: WorkItemLinkPanel.tsx over          *)
(* packages/argos-sdk/src/work-item-link-service.ts.                       *)
(*                                                                         *)
(* A link is a relation of the work item, tagged with its type; a removal  *)
(* names the relation by the index it had when it was fetched.  No button  *)
(* waits for another: handlers of one panel overlap, and other sessions    *)
(* edit the same relations.  Requests are separate steps.                  *)
(***************************************************************************)
EXTENDS Naturals, Sequences, SequencesExt

CONSTANTS
    Targets,      \* work items that may be linked
    LinkTypes,    \* the custom types; "TestedBy" is one
    Handlers,     \* bound: handlers of the panel in progress at once
    MaxRelations, \* bound: relations of the test case
    MaxClicks     \* bound: clicks in the panel, edits of another session

VARIABLES
    relations, \* the relations of the test case, in the order ADO keeps
    links,     \* the links the panel shows
    handler,   \* each handler: idle, or where it is suspended
    clicks     \* bound

linkVars == << relations, links, handler, clicks >>

Idle == [at |-> "idle"]
Relation(t, tag) == [target |-> t, tag |-> tag]
Native == "native"  \* a native tested-by relation, without a custom type
Tags == LinkTypes \cup {Native, "other"}

(* listLinks: one link for a target, that of its last custom relation if it
   has one; a native relation is shown as tested-by. *)
listLinks(rels) ==
    LET of(t) == SelectSeq(rels, LAMBDA r : r.target = t /\ r.tag \in LinkTypes)
    IN  {[target |-> t, type |-> IF of(t) # << >> THEN Last(of(t)).tag ELSE "TestedBy"] :
            t \in {r.target : r \in {q \in ToSet(rels) : q.tag # "other"}}}

(* Mutant: the relation is looked up by its target alone. *)
FindIndexByTarget(rels, link) ==
    LET at == {i \in DOMAIN rels : rels[i].target = link.target}
    IN  IF at = {} THEN 0 ELSE CHOOSE i \in at : \A j \in at : i <= j

(* findIndex of removeLink: 0 when there is none. *)
FindIndex(rels, link) ==
    LET at == {i \in DOMAIN rels : rels[i] = Relation(link.target, link.type)}
    IN  IF at = {} THEN 0 ELSE CHOOSE i \in at : \A j \in at : i <= j

LinkInit ==
    /\ \E r1, r2 \in {Relation(t, tag) : t \in Targets, tag \in Tags} :
          relations = << r1, r2 >>
    /\ links = listLinks(relations)
    /\ handler = [h \in Handlers |-> Idle]
    /\ clicks = 0

Click == clicks < MaxClicks /\ clicks' = clicks + 1
HandlerGoes(h, to) == handler' = [handler EXCEPT ![h] = to]

handleAdd(h, t, type) ==
    /\ Click /\ handler[h] = Idle
    /\ HandlerGoes(h, [at |-> "add", target |-> t, type |-> type])
    /\ UNCHANGED << relations, links >>

(* ADO appends the relation, or refuses: the rejection has no handler and the
   panel is not reloaded. *)
AddAnswer(h) ==
    /\ handler[h].at = "add"
    /\ \/ /\ Len(relations) < MaxRelations
          /\ relations' = Append(relations, Relation(handler[h].target, handler[h].type))
          /\ HandlerGoes(h, [at |-> "reload"])
       \/ HandlerGoes(h, Idle) /\ UNCHANGED relations
    /\ UNCHANGED << links, clicks >>

handleRemove(h, link) ==
    /\ Click /\ handler[h] = Idle /\ link \in links
    /\ HandlerGoes(h, [at |-> "fetch", link |-> link])
    /\ UNCHANGED << relations, links >>

(* A link that is not found, such as a native one, is left without a word. *)
FetchAnswer(h) ==
    /\ handler[h].at = "fetch"
    /\ LET i == FindIndex(relations, handler[h].link)
       IN  HandlerGoes(h, IF i = 0 THEN [at |-> "reload"]
                   ELSE [at |-> "remove", link |-> handler[h].link, index |-> i,
                         shifted |-> FALSE])
    /\ UNCHANGED << relations, links, clicks >>

(* A relation goes: the index a suspended handler holds no longer names the
   same relation if it was that one or one before it. *)
Removed(i, after) ==
    /\ relations' = RemoveAt(relations, i)
    /\ handler' = [g \in Handlers |->
           IF after[g].at = "remove" /\ i <= after[g].index
           THEN [after[g] EXCEPT !.shifted = TRUE] ELSE after[g]]

RemoveAnswer(h) ==
    /\ handler[h].at = "remove"
    /\ \/ /\ handler[h].index \in DOMAIN relations
          /\ Removed(handler[h].index, [handler EXCEPT ![h] = [at |-> "reload"]])
       \/ HandlerGoes(h, Idle) /\ UNCHANGED relations
    /\ UNCHANGED << links, clicks >>

(* reload: the list as ADO read it, shown when its answer arrives. *)
reload(h) ==
    /\ handler[h].at = "reload"
    /\ HandlerGoes(h, [at |-> "show", list |-> listLinks(relations)])
    /\ UNCHANGED << relations, links, clicks >>
setLinks(h) ==
    /\ handler[h].at = "show"
    /\ links' = handler[h].list
    /\ HandlerGoes(h, Idle)
    /\ UNCHANGED << relations, clicks >>

(* Another session edits the relations. *)
OtherSessionRemoves(i) ==
    Click /\ i \in DOMAIN relations /\ Removed(i, handler) /\ UNCHANGED links

LinkNext ==
    \/ \E h \in Handlers :
          \/ \E t \in Targets, type \in LinkTypes : handleAdd(h, t, type)
          \/ \E link \in links : handleRemove(h, link)
          \/ AddAnswer(h) \/ FetchAnswer(h) \/ RemoveAnswer(h)
          \/ reload(h) \/ setLinks(h)
    \/ \E i \in 1..MaxRelations : OtherSessionRemoves(i)

LinkSpec == LinkInit /\ [][LinkNext]_linkVars

-----------------------------------------------------------------------------
(* A removal takes the relation of the link that was clicked, its target and
   its type, whatever was added meanwhile: it takes another one only when that
   relation, or one before it, was removed between its fetch and its patch. *)
RemovalTakesTheLinkClicked ==
    [][\A h \in Handlers :
          (handler[h].at = "remove" /\ handler'[h].at = "reload")
              => \/ handler[h].shifted
                 \/ relations[handler[h].index] =
                        Relation(handler[h].link.target, handler[h].link.type)]_linkVars
=============================================================================
