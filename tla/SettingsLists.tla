---------------------------- MODULE SettingsLists ----------------------------
(***************************************************************************)
(* The lists of the settings page: LlmProviderSettings and                 *)
(* RepoMappingSettings over their services, the settings store adapter and *)
(* the extension data document that holds the whole collection.            *)
(*                                                                         *)
(* The adapter adds or removes one entry by reading the collection and     *)
(* writing it back; the document has no version to check.  An add waits    *)
(* for the previous add of its tab, a removal for nothing, and the tabs of *)
(* one user share the document.                                            *)
(***************************************************************************)
EXTENDS Naturals, FiniteSets

CONSTANTS
    Tabs,       \* settings pages open
    Removers,   \* bound: removals in progress at once in a tab
    MaxEntries, \* bound: entries, the one there at the start included
    MaxRefused  \* bound: requests that are refused or lose their answer

ASSUME RemoversAssumption == "add" \notin Removers

VARIABLES
    stored, \* the collection in the document
    shown,  \* the list a tab shows, NotLoaded before its first answer
    op,     \* each operation of a tab: idle, or where it is suspended
    told    \* history: what was asked and acknowledged, and what two
            \* operations that overlapped may have undone

listVars == << stored, shown, op, told >>

Slots == {"add"} \cup Removers
Entries == 1..MaxEntries
NotLoaded == {0}
Quiet == [at |-> "idle"]

ListInit ==
    /\ stored = {1}
    /\ shown = [t \in Tabs |-> NotLoaded]
    /\ op = [t \in Tabs |-> [s \in Slots |-> Quiet]]
    /\ told = [next |-> 2, added |-> {}, removed |-> {}, asked |-> {}, overlapped |-> {},
               refused |-> 0]

OpGoes(t, s, to) == op' = [op EXCEPT ![t][s] = to]

(* The effect at mount; a rejection has no handler and leaves "Loading". *)
listEntries(t) ==
    /\ shown[t] = NotLoaded
    /\ shown' = [shown EXCEPT ![t] = stored]
    /\ UNCHANGED << stored, op, told >>

addEntry(t) ==
    /\ shown[t] # NotLoaded /\ op[t]["add"] = Quiet
    /\ told.next <= MaxEntries
    /\ OpGoes(t, "add", [at |-> "read", entry |-> told.next])
    /\ told' = [told EXCEPT !.next = @ + 1]
    /\ UNCHANGED << stored, shown >>

(* The entry leaves the screen before the request, and stays off it. *)
removeEntry(t, s, e) ==
    /\ shown[t] # NotLoaded /\ e \in shown[t] /\ op[t][s] = Quiet
    /\ shown' = [shown EXCEPT ![t] = @ \ {e}]
    /\ OpGoes(t, s, [at |-> "read", entry |-> e])
    /\ told' = [told EXCEPT !.asked = @ \cup {e}]
    /\ UNCHANGED stored

(* A rejection has no handler: an add keeps its form, for the user to retry. *)
Refused(t, s) ==
    /\ told.refused < MaxRefused
    /\ OpGoes(t, s, Quiet)
    /\ told' = [told EXCEPT !.refused = @ + 1]

readCollection(t, s) ==
    /\ op[t][s].at = "read"
    /\ \/ OpGoes(t, s, [at |-> "write", entry |-> op[t][s].entry, read |-> stored])
          /\ UNCHANGED told
       \/ Refused(t, s)
    /\ UNCHANGED << stored, shown >>

(* Mutant: the list on the screen is written back. *)
UpdatedFromScreen(t, s) ==
    IF s = "add" THEN shown[t] \cup {op[t][s].entry} ELSE shown[t] \ {op[t][s].entry}

(* set appends the entry to what was read, delete filters it out. *)
Updated(t, s) ==
    IF s = "add" THEN op[t][s].read \cup {op[t][s].entry} ELSE op[t][s].read \ {op[t][s].entry}

(* The write of this operation lands while others hold what they read before. *)
Overlapping(t, s) ==
    \E u \in Tabs, r \in Slots : << u, r >> # << t, s >> /\ op[u][r].at = "write"
AtRisk(t, s, h) ==
    IF Overlapping(t, s) THEN [h EXCEPT !.overlapped = @ \cup {op[t][s].entry}] ELSE h

writeCollection(t, s) ==
    LET e == op[t][s].entry
    IN  /\ op[t][s].at = "write"
        /\ \/ /\ stored' = Updated(t, s)
              /\ OpGoes(t, s, Quiet)
              /\ \/ /\ told' = AtRisk(t, s, IF s = "add" THEN [told EXCEPT !.added = @ \cup {e}]
                                            ELSE [told EXCEPT !.removed = @ \cup {e}])
                    /\ shown' = IF s = "add" THEN [shown EXCEPT ![t] = @ \cup {e}] ELSE shown
                 \/ /\ told.refused < MaxRefused
                    /\ told' = AtRisk(t, s, [told EXCEPT !.refused = @ + 1])
                    /\ UNCHANGED shown
           \/ Refused(t, s) /\ UNCHANGED << stored, shown >>

ListNext ==
    \E t \in Tabs :
        \/ listEntries(t) \/ addEntry(t)
        \/ \E s \in Removers, e \in Entries : removeEntry(t, s, e)
        \/ \E s \in Slots : readCollection(t, s) \/ writeCollection(t, s)

ListSpec == ListInit /\ [][ListNext]_listVars

-----------------------------------------------------------------------------
(* An edit that was acknowledged is in the document whatever other tabs did
   before and after, even where their pages are stale or their requests fail:
   it can be undone only by an operation that had read the collection before
   this one wrote it and wrote it back after. *)
AcknowledgedEditsAreStored ==
    /\ told.added \ told.asked \subseteq stored \cup told.overlapped
    /\ told.removed \cap stored \subseteq told.overlapped
=============================================================================
