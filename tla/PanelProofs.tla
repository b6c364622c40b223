---------------------------- MODULE PanelProofs -----------------------------
(***************************************************************************)
(* The panels of the hub for any number of tabs, requests and documents:   *)
(* the lists and forms of the settings (SettingsLists, SettingsDocuments), *)
(* the pages of the execution history (ExecutionReports), the suggestions  *)
(* of the steps editor (StepSuggestions), and the comparison of two        *)
(* versions of a test case (SnapshotDiff).                                 *)
(***************************************************************************)
EXTENDS SettingsLists, SettingsDocuments, ExecutionReports, StepSuggestions,
        SnapshotDiff, SubsequenceLemmas

-----------------------------------------------------------------------------
(* Lists.  The invariant carries the property over to what suspended         *)
(* operations hold: a collection that was read misses no acknowledged edit   *)
(* but those that were written while it was held.                            *)

History == [next : Nat, added : SUBSET Nat, removed : SUBSET Nat, asked : SUBSET Nat,
            overlapped : SUBSET Nat, refused : Nat]

Below == {x \in Nat : x < told.next}
Live(t, s) == op[t][s].at \in {"read", "write"}
Writing(t, s) == op[t][s].at = "write"

(* Nobody knows yet of the entry an add is about to store. *)
Fresh(t) ==
    LET e == op[t]["add"].entry
    IN  /\ e \in Below
        /\ e \notin stored /\ e \notin told.asked
        /\ \A u \in Tabs : /\ e \notin shown[u]
                           /\ Live(u, "add") /\ u # t => op[u]["add"].entry # e
                           /\ \A s \in Slots : Writing(u, s) => e \notin op[u][s].read

(* A collection is missing no acknowledged edit but those that overlapped. *)
UpToDate(collection) ==
    /\ told.added \ told.asked \subseteq collection \cup told.overlapped
    /\ told.removed \cap collection \subseteq told.overlapped

(* The inductive invariant. *)
ListTypeOK ==
    /\ told \in History
    /\ op = [t \in Tabs |-> [s \in Slots |-> op[t][s]]]
    /\ shown = [t \in Tabs |-> shown[t]]
    /\ stored \subseteq Below /\ told.asked \subseteq Below
    /\ told.removed \subseteq told.asked
    /\ \A t \in Tabs : shown[t] \subseteq Below

OpInv(t, s) ==
    /\ Writing(t, s) => op[t][s].read \subseteq Below /\ UpToDate(op[t][s].read)
    /\ s # "add" /\ Live(t, s) => op[t][s].entry \in told.asked

ListInv ==
    /\ ListTypeOK
    /\ UpToDate(stored)
    /\ \A t \in Tabs : /\ Live(t, "add") => Fresh(t)
                       /\ \A s \in Slots : OpInv(t, s)

-----------------------------------------------------------------------------
(* At the start the document holds the first entry and no edit is pending. *)
THEOREM InitLists == ListInit => ListInv
<1> SUFFICES ASSUME ListInit PROVE ListInv
  OBVIOUS
<1>1. told \in History /\ told.next = 2 /\ told.added = {} /\ told.removed = {} /\ told.asked = {}
  BY DEF ListInit, History
<1>2. op = [t \in Tabs |-> [s \in Slots |-> Quiet]]
  BY DEF ListInit
<1>3. \A t \in Tabs, s \in Slots : ~Live(t, s) /\ ~Writing(t, s)
  BY <1>2 DEF Live, Writing, Quiet
<1>4. ListTypeOK
  BY <1>1, <1>2 DEF ListInit, ListTypeOK, Below, NotLoaded
<1>5. UpToDate(stored)
  BY <1>1 DEF UpToDate
<1>6. QED BY <1>3, <1>4, <1>5 DEF ListInv, OpInv, Slots

(* Where the operations stand after one of them went on. *)
LEMMA OpAfter ==
    ASSUME ListTypeOK, NEW t \in Tabs, NEW s \in Slots, NEW to, OpGoes(t, s, to)
    PROVE  /\ op' = [u \in Tabs |-> [r \in Slots |-> op'[u][r]]]
           /\ \A u \in Tabs, r \in Slots :
                 op'[u][r] = IF u = t /\ r = s THEN to ELSE op[u][r]
BY DEF OpGoes, ListTypeOK

(* An operation ends without a write, its request having been refused. *)
LEMMA RefusedStep ==
    ASSUME ListInv, NEW t \in Tabs, NEW s \in Slots, Refused(t, s), UNCHANGED << stored, shown >>
    PROVE  ListInv'
<1>1. /\ told' \in History /\ told'.next = told.next /\ told'.added = told.added
      /\ told'.removed = told.removed /\ told'.asked = told.asked
      /\ told'.overlapped = told.overlapped
  BY DEF Refused, ListInv, ListTypeOK, History
<1>2. /\ op' = [u \in Tabs |-> [r \in Slots |-> op'[u][r]]]
      /\ \A u \in Tabs, r \in Slots :
            op'[u][r] = IF u = t /\ r = s THEN Quiet ELSE op[u][r]
  BY OpAfter DEF Refused, ListInv
<1>3. ListTypeOK' /\ UpToDate(stored)'
  BY <1>1, <1>2 DEF ListInv, ListTypeOK, UpToDate, Below
<1>4. "add" \in Slots
  BY DEF Slots
<1>5. \A u \in Tabs, r \in Slots :
         /\ Live(u, r)' => Live(u, r) /\ op'[u][r] = op[u][r]
         /\ Writing(u, r)' => Writing(u, r) /\ op'[u][r] = op[u][r]
  BY <1>2 DEF Live, Writing, Quiet
<1>6. ASSUME NEW u \in Tabs, Live(u, "add")' PROVE Fresh(u)'
  <2>1. Fresh(u) /\ op'[u]["add"] = op[u]["add"]
    BY <1>4, <1>5, <1>6 DEF ListInv
  <2>2. QED BY <1>1, <1>4, <1>5, <2>1 DEF Fresh, Below
<1>7. ASSUME NEW u \in Tabs, NEW r \in Slots PROVE OpInv(u, r)'
  BY <1>1, <1>5 DEF ListInv, OpInv, UpToDate, Below
<1>8. QED BY <1>3, <1>6, <1>7 DEF ListInv

(* Showing the stored list changes no edit. *)
LEMMA ListStep ==
    ASSUME ListInv, NEW t \in Tabs, listEntries(t)
    PROVE  ListInv'
<1>1. /\ told' = told /\ stored' = stored /\ op' = op
      /\ shown' = [u \in Tabs |-> IF u = t THEN stored ELSE shown[u]]
  BY DEF listEntries, ListInv, ListTypeOK
<1>2. ListTypeOK'
  BY <1>1 DEF ListInv, ListTypeOK, Below
<1>3. ASSUME NEW u \in Tabs, Live(u, "add")' PROVE Fresh(u)'
  BY <1>1, <1>3 DEF ListInv, Fresh, Live, Below, Writing
<1>4. QED BY <1>1, <1>2, <1>3 DEF ListInv, OpInv, UpToDate, Below, Live, Writing

(* An entry added in the form gets a new name, which no edit carries yet. *)
LEMMA AddStep ==
    ASSUME ListInv, NEW t \in Tabs, addEntry(t)
    PROVE  ListInv'
<1> DEFINE e == told.next
<1>1. /\ told' \in History /\ told'.next = e + 1 /\ told'.added = told.added
      /\ told'.removed = told.removed /\ told'.asked = told.asked
      /\ told'.overlapped = told.overlapped /\ e \in Nat
  <2>1. told \in History /\ told' = [told EXCEPT !.next = told.next + 1]
    BY DEF addEntry, ListInv, ListTypeOK
  <2>2. told.next + 1 \in Nat
    BY <2>1 DEF History
  <2>3. QED BY <2>1, <2>2 DEF History
<1>2. stored' = stored /\ shown' = shown /\ "add" \in Slots
  BY DEF addEntry, Slots
<1>3. /\ op' = [u \in Tabs |-> [r \in Slots |-> op'[u][r]]]
      /\ \A u \in Tabs, r \in Slots :
            op'[u][r] = IF u = t /\ r = "add" THEN [at |-> "read", entry |-> e] ELSE op[u][r]
  BY <1>2, OpAfter DEF addEntry, ListInv
<1>4. Below \subseteq Below' /\ e \in Below' /\ e \notin Below
  BY <1>1 DEF Below
<1>5. ListTypeOK'
  BY <1>1, <1>2, <1>3, <1>4 DEF ListInv, ListTypeOK
<1>6. \A u \in Tabs, r \in Slots : ~(u = t /\ r = "add") =>
         /\ op'[u][r] = op[u][r]
         /\ Live(u, r)' = Live(u, r) /\ Writing(u, r)' = Writing(u, r)
  BY <1>3 DEF Live, Writing
<1>7. op'[t]["add"].entry = e /\ ~Writing(t, "add")'
  BY <1>2, <1>3 DEF Writing
<1>8. Fresh(t)'
  <2>1. \A u \in Tabs : Live(u, "add") => op[u]["add"].entry # e
    BY <1>4 DEF ListInv, Fresh
  <2>2. \A u \in Tabs, r \in Slots : Writing(u, r)' => e \notin op'[u][r].read
    BY <1>4, <1>6, <1>7 DEF ListInv, OpInv
  <2>3. \A u \in Tabs : u # t /\ Live(u, "add")' => op'[u]["add"].entry # e
    BY <2>1, <1>2, <1>6
  <2>4. e \notin stored' /\ e \notin told'.asked /\ \A u \in Tabs : e \notin shown'[u]
    BY <1>1, <1>2, <1>4 DEF ListInv, ListTypeOK
  <2>5. QED BY <1>4, <1>7, <2>2, <2>3, <2>4 DEF Fresh
<1>9. ASSUME NEW u \in Tabs, u # t, Live(u, "add")' PROVE Fresh(u)'
  <2>1. Fresh(u) /\ op'[u]["add"] = op[u]["add"]
    BY <1>2, <1>6, <1>9 DEF ListInv
  <2>2. op[u]["add"].entry # e /\ op[u]["add"].entry \in Below'
    BY <2>1, <1>4 DEF Fresh
  <2>3. \A v \in Tabs, r \in Slots : Writing(v, r)' => op[u]["add"].entry \notin op'[v][r].read
    BY <2>1, <1>6, <1>7 DEF Fresh
  <2>4. \A v \in Tabs : v # u /\ Live(v, "add")' => op'[v]["add"].entry # op[u]["add"].entry
    BY <2>1, <2>2, <1>2, <1>6, <1>7 DEF Fresh
  <2>5. QED BY <1>1, <1>2, <2>1, <2>2, <2>3, <2>4 DEF Fresh
<1>10. ASSUME NEW u \in Tabs, NEW r \in Slots PROVE OpInv(u, r)'
  BY <1>1, <1>4, <1>6, <1>7 DEF ListInv, OpInv, UpToDate
<1>11. UpToDate(stored)'
  BY <1>1, <1>2 DEF ListInv, UpToDate
<1>12. QED BY <1>5, <1>8, <1>9, <1>10, <1>11 DEF ListInv

(* A removal asked for is of an entry that was shown, hence added before. *)
LEMMA RemoveStep ==
    ASSUME ListInv, NEW t \in Tabs, NEW s \in Removers, NEW e \in Entries, removeEntry(t, s, e)
    PROVE  ListInv'
<1>1. e \in shown[t] /\ e \in Below
  BY DEF removeEntry, ListInv, ListTypeOK
<1>2. /\ told' \in History /\ told'.next = told.next /\ told'.added = told.added
      /\ told'.removed = told.removed /\ told'.asked = told.asked \cup {e}
      /\ told'.overlapped = told.overlapped
  BY <1>1 DEF removeEntry, ListInv, ListTypeOK, History, Below
<1>3. /\ stored' = stored
      /\ shown' = [u \in Tabs |-> IF u = t THEN shown[u] \ {e} ELSE shown[u]]
      /\ "add" \in Slots /\ s \in Slots /\ s # "add"
  BY RemoversAssumption DEF removeEntry, Slots, ListInv, ListTypeOK
<1>4. /\ op' = [u \in Tabs |-> [r \in Slots |-> op'[u][r]]]
      /\ \A u \in Tabs, r \in Slots :
            op'[u][r] = IF u = t /\ r = s THEN [at |-> "read", entry |-> e] ELSE op[u][r]
  BY <1>3, OpAfter DEF removeEntry, ListInv
<1>5. Below' = Below
  BY <1>2 DEF Below
<1>6. ListTypeOK'
  BY <1>1, <1>2, <1>3, <1>4, <1>5 DEF ListInv, ListTypeOK
<1>7. \A u \in Tabs, r \in Slots : ~(u = t /\ r = s) =>
         /\ op'[u][r] = op[u][r]
         /\ Live(u, r)' = Live(u, r) /\ Writing(u, r)' = Writing(u, r)
  BY <1>4 DEF Live, Writing
<1>8. op'[t][s].entry = e /\ ~Writing(t, s)'
  BY <1>3, <1>4 DEF Writing
<1>9. ASSUME NEW u \in Tabs, Live(u, "add")' PROVE Fresh(u)'
  <2>1. Fresh(u) /\ op'[u]["add"] = op[u]["add"]
    BY <1>3, <1>7, <1>9 DEF ListInv
  <2>2. op[u]["add"].entry # e
    BY <2>1, <1>1 DEF Fresh
  <2>3. \A v \in Tabs, r \in Slots : Writing(v, r)' => op[u]["add"].entry \notin op'[v][r].read
    BY <2>1, <1>7, <1>8 DEF Fresh
  <2>4. \A v \in Tabs : v # u /\ Live(v, "add")' => op'[v]["add"].entry # op[u]["add"].entry
    BY <2>1, <1>3, <1>7 DEF Fresh
  <2>5. QED BY <1>2, <1>3, <1>5, <2>1, <2>2, <2>3, <2>4 DEF Fresh
<1>10. ASSUME NEW u \in Tabs, NEW r \in Slots PROVE OpInv(u, r)'
  BY <1>2, <1>5, <1>7, <1>8 DEF ListInv, OpInv, UpToDate
<1>11. UpToDate(stored)'
  BY <1>2, <1>3 DEF ListInv, UpToDate
<1>12. QED BY <1>6, <1>9, <1>10, <1>11 DEF ListInv

(* An operation reads the document: what it holds is current. *)
LEMMA ReadStep ==
    ASSUME ListInv, NEW t \in Tabs, NEW s \in Slots, readCollection(t, s)
    PROVE  ListInv'
<1> DEFINE to == [at |-> "write", entry |-> op[t][s].entry, read |-> stored]
<1>1. CASE Refused(t, s)
  BY <1>1, RefusedStep DEF readCollection
<1>2. CASE OpGoes(t, s, to) /\ UNCHANGED told
  <2>1. stored' = stored /\ shown' = shown /\ told' = told /\ "add" \in Slots /\ Live(t, s)
    BY <1>2 DEF readCollection, Slots, Live
  <2>2. /\ op' = [u \in Tabs |-> [r \in Slots |-> op'[u][r]]]
        /\ \A u \in Tabs, r \in Slots :
              op'[u][r] = IF u = t /\ r = s THEN to ELSE op[u][r]
    BY <1>2, OpAfter DEF ListInv
  <2>3. Below' = Below
    BY <2>1 DEF Below
  <2>4. ListTypeOK' /\ UpToDate(stored)'
    BY <2>1, <2>2, <2>3 DEF ListInv, ListTypeOK, UpToDate
  <2>5. \A u \in Tabs, r \in Slots :
           /\ Live(u, r)' => Live(u, r) /\ op'[u][r].entry = op[u][r].entry
           /\ Writing(u, r)' => \/ op'[u][r].read = stored
                                \/ Writing(u, r) /\ op'[u][r].read = op[u][r].read
    BY <2>1, <2>2 DEF Live, Writing
  <2>6. ASSUME NEW u \in Tabs, Live(u, "add")' PROVE Fresh(u)'
    <3>1. Fresh(u) /\ op'[u]["add"].entry = op[u]["add"].entry
      BY <2>1, <2>5, <2>6 DEF ListInv
    <3>2. QED BY <2>1, <2>3, <2>5, <3>1 DEF Fresh
  <2>7. ASSUME NEW u \in Tabs, NEW r \in Slots PROVE OpInv(u, r)'
    BY <2>1, <2>3, <2>5 DEF ListInv, ListTypeOK, OpInv, UpToDate
  <2>8. QED BY <2>4, <2>6, <2>7 DEF ListInv
<1>3. QED BY <1>1, <1>2 DEF readCollection

(* A write that lands: the operation is over, its entry counts as overlapped
   if another one holds what it read before, and no other edit is lost. *)
LEMMA LandedStep ==
    ASSUME ListInv, NEW t \in Tabs, NEW s \in Slots, Writing(t, s),
           OpGoes(t, s, Quiet), stored' = Updated(t, s),
           told' \in History, told'.next = told.next, told'.asked = told.asked,
           \/ told'.added = told.added /\ told'.removed = told.removed
           \/ s = "add" /\ told'.added = told.added \cup {op[t][s].entry}
                /\ told'.removed = told.removed
           \/ s # "add" /\ told'.removed = told.removed \cup {op[t][s].entry}
                /\ told'.added = told.added,
           told'.overlapped = told.overlapped \cup
               (IF Overlapping(t, s) THEN {op[t][s].entry} ELSE {}),
           \/ shown' = [shown EXCEPT ![t] = @ \cup {op[t][s].entry}] /\ s = "add"
           \/ shown' = shown
    PROVE  ListInv'
<1> DEFINE e == op[t][s].entry
           read == op[t][s].read
<1>1. Live(t, s) /\ "add" \in Slots /\ Below' = Below
  BY DEF Live, Writing, Slots, Below
<1>2. /\ op' = [u \in Tabs |-> [r \in Slots |-> op'[u][r]]]
      /\ \A u \in Tabs, r \in Slots :
            op'[u][r] = IF u = t /\ r = s THEN Quiet ELSE op[u][r]
  BY OpAfter DEF ListInv
<1>3. /\ ~Live(t, s)' /\ ~Writing(t, s)'
      /\ \A u \in Tabs, r \in Slots : ~(u = t /\ r = s) =>
            /\ op'[u][r] = op[u][r]
            /\ Live(u, r)' = Live(u, r) /\ Writing(u, r)' = Writing(u, r)
  BY <1>2 DEF Live, Writing, Quiet
<1>4. read \subseteq Below /\ UpToDate(read)
  BY DEF ListInv, OpInv
<1>5. IF s = "add" THEN Fresh(t) /\ stored' = read \cup {e}
                   ELSE e \in told.asked /\ stored' = read \ {e}
  BY <1>1 DEF ListInv, OpInv, Updated
<1>6. e \in Below
  BY <1>1, <1>5 DEF Fresh, ListInv, ListTypeOK
<1>7. \A u \in Tabs : shown'[u] \subseteq shown[u] \cup (IF u = t /\ s = "add" THEN {e} ELSE {})
  BY DEF ListInv, ListTypeOK
<1>8. ListTypeOK'
  <2>1. told'.removed \subseteq told'.asked
    BY <1>5 DEF ListInv, ListTypeOK
  <2>2. stored' \subseteq Below
    BY <1>4, <1>5, <1>6
  <2>3. shown' = [u \in Tabs |-> shown'[u]]
    BY DEF ListInv, ListTypeOK
  <2>4. \A u \in Tabs : shown'[u] \subseteq Below
    BY <1>6, <1>7 DEF ListInv, ListTypeOK
  <2>5. QED BY <1>1, <1>2, <2>1, <2>2, <2>3, <2>4 DEF ListInv, ListTypeOK
<1>9. UpToDate(stored)'
  <2>1. CASE s = "add"
    <3>1. e \notin told.asked /\ e \notin told.removed
      BY <1>5, <2>1 DEF Fresh, ListInv, ListTypeOK
    <3>2. QED BY <1>4, <1>5, <2>1, <3>1 DEF UpToDate
  <2>2. CASE s # "add"
    BY <1>4, <1>5, <2>2 DEF UpToDate
  <2>3. QED BY <2>1, <2>2
<1>10. ASSUME NEW u \in Tabs, Live(u, "add")' PROVE Fresh(u)'
  <2> DEFINE f == op[u]["add"].entry
  <2>1. ~(u = t /\ s = "add") /\ Fresh(u) /\ op'[u]["add"] = op[u]["add"]
    BY <1>1, <1>3, <1>10 DEF ListInv
  <2>2. s = "add" => f # e
    BY <1>1, <2>1 DEF Fresh
  <2>3. f \notin read
    BY <2>1 DEF Fresh
  <2>4. f \notin stored'
    BY <1>5, <2>2, <2>3
  <2>5. \A v \in Tabs : f \notin shown'[v]
    BY <1>7, <2>1, <2>2 DEF Fresh
  <2>6. \A v \in Tabs, r \in Slots : Writing(v, r)' => f \notin op'[v][r].read
    BY <1>3, <2>1 DEF Fresh
  <2>7. \A v \in Tabs : v # u /\ Live(v, "add")' => op'[v]["add"].entry # f
    BY <1>1, <1>3, <2>1 DEF Fresh
  <2>8. f \in Below /\ f \notin told.asked
    BY <2>1 DEF Fresh
  <2> HIDE DEF f
  <2>9. op'[u]["add"].entry = f
    BY <2>1 DEF f
  <2>10. QED BY <1>1, <2>4, <2>5, <2>6, <2>7, <2>8, <2>9 DEF Fresh
<1>11. ASSUME NEW u \in Tabs, NEW r \in Slots PROVE OpInv(u, r)'
  <2>1. CASE u = t /\ r = s
    BY <1>3, <2>1 DEF OpInv
  <2>2. CASE ~(u = t /\ r = s)
    <3>1. op'[u][r] = op[u][r] /\ Live(u, r)' = Live(u, r) /\ Writing(u, r)' = Writing(u, r)
      BY <1>3, <2>2
    <3>2. Writing(u, r) => e \in told'.overlapped
      BY <2>2 DEF Overlapping, Writing
    <3>3. Writing(u, r) => UpToDate(op[u][r].read)'
      <4> SUFFICES ASSUME Writing(u, r) PROVE UpToDate(op[u][r].read)'
        OBVIOUS
      <4>1. UpToDate(op[u][r].read)
        BY DEF ListInv, OpInv
      <4>2. told'.added \subseteq told.added \cup {e} /\ told'.removed \subseteq told.removed \cup {e}
        OBVIOUS
      <4>3. told.overlapped \subseteq told'.overlapped
        OBVIOUS
      <4>4. QED BY <3>1, <3>2, <4>1, <4>2, <4>3 DEF UpToDate
    <3>4. QED BY <1>1, <3>1, <3>3 DEF ListInv, OpInv
  <2>3. QED BY <2>1, <2>2
<1>12. QED BY <1>8, <1>9, <1>10, <1>11 DEF ListInv

(* A write lands, with or without its answer. *)
LEMMA WriteStep ==
    ASSUME ListInv, NEW t \in Tabs, NEW s \in Slots, writeCollection(t, s)
    PROVE  ListInv'
<1> DEFINE e == op[t][s].entry
           h == IF s = "add" THEN [told EXCEPT !.added = @ \cup {e}]
                ELSE [told EXCEPT !.removed = @ \cup {e}]
<1>1. Writing(t, s) /\ told \in History /\ e \in Nat
  <2>1. Writing(t, s) /\ Live(t, s) /\ "add" \in Slots
    BY DEF writeCollection, Writing, Live, Slots
  <2>2. told \in History /\ told.asked \in SUBSET Nat
    BY DEF ListInv, ListTypeOK, History
  <2>3. s = "add" => Fresh(t)
    BY <2>1 DEF ListInv
  <2>4. s # "add" => e \in told.asked
    BY <2>1 DEF ListInv, OpInv
  <2>5. QED BY <2>1, <2>2, <2>3, <2>4 DEF Fresh, Below
<1>2. CASE Refused(t, s) /\ UNCHANGED << stored, shown >>
  BY <1>2, RefusedStep
<1>3. CASE /\ stored' = Updated(t, s) /\ OpGoes(t, s, Quiet)
           /\ told' = AtRisk(t, s, h)
           /\ shown' = IF s = "add" THEN [shown EXCEPT ![t] = @ \cup {e}] ELSE shown
  <2>1. /\ h \in History /\ h.next = told.next /\ h.asked = told.asked
        /\ h.overlapped = told.overlapped
        /\ s = "add" => h.added = told.added \cup {e} /\ h.removed = told.removed
        /\ s # "add" => h.removed = told.removed \cup {e} /\ h.added = told.added
    BY <1>1 DEF History
  <2> HIDE DEF h
  <2>2. /\ told' \in History /\ told'.next = h.next /\ told'.asked = h.asked
        /\ told'.added = h.added /\ told'.removed = h.removed
        /\ told'.overlapped = h.overlapped \cup (IF Overlapping(t, s) THEN {e} ELSE {})
    BY <1>1, <1>3, <2>1 DEF AtRisk, History
  <2>3. QED BY <1>1, <1>3, <2>1, <2>2, LandedStep
<1>4. CASE /\ stored' = Updated(t, s) /\ OpGoes(t, s, Quiet)
           /\ told' = AtRisk(t, s, [told EXCEPT !.refused = @ + 1])
           /\ UNCHANGED shown
  <2> DEFINE g == [told EXCEPT !.refused = @ + 1]
  <2>1. told.refused + 1 \in Nat
    BY <1>1 DEF History
  <2>2. /\ g \in History /\ g.next = told.next /\ g.asked = told.asked
        /\ g.overlapped = told.overlapped /\ g.added = told.added /\ g.removed = told.removed
    BY <1>1, <2>1 DEF History
  <2> HIDE DEF g
  <2>3. told' = AtRisk(t, s, g)
    BY <1>4 DEF g
  <2>4. /\ told' \in History /\ told'.next = g.next /\ told'.asked = g.asked
        /\ told'.added = g.added /\ told'.removed = g.removed
        /\ told'.overlapped = g.overlapped \cup (IF Overlapping(t, s) THEN {e} ELSE {})
    BY <1>1, <2>2, <2>3 DEF AtRisk, History
  <2>5. QED BY <1>1, <1>4, <2>2, <2>4, LandedStep
<1>5. QED BY <1>2, <1>3, <1>4 DEF writeCollection

(* Every step of every tab keeps the confirmed edits or marks them as
   overwritten by an operation that read before. *)
THEOREM ListsStep == ListInv /\ [ListNext]_listVars => ListInv'
<1> SUFFICES ASSUME ListInv, [ListNext]_listVars PROVE ListInv'
  OBVIOUS
<1>1. CASE ListNext
  BY <1>1, ListStep, AddStep, RemoveStep, ReadStep, WriteStep DEF ListNext
<1>2. CASE UNCHANGED listVars
  BY <1>2 DEF listVars, ListInv, ListTypeOK, OpInv, UpToDate, Fresh, Below, Live, Writing
<1>3. QED BY <1>1, <1>2

(* AcknowledgedEditsAreStored, for any number of tabs and edits: set and delete
   of the settings store adapter lose an acknowledged edit only to an operation
   that held the collection from before it. *)
THEOREM EditsAreKept == ListSpec => []AcknowledgedEditsAreStored
<1>1. ListInv => AcknowledgedEditsAreStored
  BY DEF ListInv, UpToDate, AcknowledgedEditsAreStored
<1>2. QED BY <1>1, InitLists, ListsStep, PTL DEF ListSpec

-----------------------------------------------------------------------------
(* Documents *)

SavesAndClears == {NotSending} \cup [at : {"save", "clear"}, content : Nat]
EditorState == [loaded : BOOLEAN, form : Nat, saved : BOOLEAN, prefilled : BOOLEAN,
                configured : BOOLEAN, sending : SavesAndClears, touched : BOOLEAN,
                overtaken : BOOLEAN, unread : BOOLEAN]

DocTypeOK ==
    /\ document \in Nat
    /\ editor \in [Editors -> EditorState]
    /\ typed \in [last : Nat, broken : Nat]

(* A save on its way carries what the form shows, or the form was edited since;
   a clear carries nothing. *)
SendsItsForm(e) ==
    LET sending == editor[e].sending
    IN  /\ sending # NotSending \/ editor[e].configured => editor[e].loaded
        /\ sending.at = "save" => editor[e].form = sending.content \/ editor[e].touched
        /\ sending.at = "clear" => sending.content = Unset

(* The form of one editor. *)
FormIsStored(e) ==
    editor[e].loaded /\ editor[e].saved =>
        \/ editor[e].form = document
        \/ editor[e].touched \/ editor[e].overtaken \/ editor[e].unread

DocInv ==
    /\ DocTypeOK
    /\ \A e \in Editors : SendsItsForm(e) /\ FormIsStored(e)

(* Nothing is loaded at the start. *)
THEOREM InitDocuments == DocInit => DocInv
BY DEF DocInit, DocInv, DocTypeOK, EditorState, SavesAndClears, SendsItsForm, FormIsStored,
       NotSending, Unset

(* One editor goes on, and the document stays: the others see no difference. *)
LEMMA EditorStep ==
    ASSUME DocInv, DocTypeOK', NEW e \in Editors, UNCHANGED document,
           \A d \in Editors \ {e} : editor'[d] = editor[d],
           SendsItsForm(e)', FormIsStored(e)'
    PROVE  DocInv'
BY DEF DocInv, SendsItsForm, FormIsStored

(* Loading a document, or failing to. *)
LEMMA LoadStep == ASSUME DocInv, NEW e \in Editors, load(e) PROVE DocInv'
<1>1. /\ DocTypeOK /\ SendsItsForm(e) /\ ~editor[e].loaded /\ document' = document
  BY DEF DocInv, load
<1>2. editor[e].sending = NotSending
  BY <1>1 DEF SendsItsForm
<1>3. CASE editor' = [editor EXCEPT ![e] = Loaded(e)] /\ UNCHANGED typed
  <2>1. Loaded(e) \in EditorState
    BY <1>1 DEF DocTypeOK, EditorState, Loaded
  <2>2. DocTypeOK'
    BY <1>1, <1>3, <2>1 DEF DocTypeOK
  <2>3. /\ editor'[e] = Loaded(e) /\ \A d \in Editors \ {e} : editor'[d] = editor[d]
    BY <1>1, <1>3 DEF DocTypeOK
  <2>4. /\ Loaded(e).sending = NotSending /\ Loaded(e).form = document
        /\ Loaded(e).loaded = TRUE
    BY <1>1, <1>2 DEF Loaded, DocTypeOK, EditorState
  <2>5. SendsItsForm(e)' /\ FormIsStored(e)'
    BY <1>1, <2>3, <2>4 DEF SendsItsForm, FormIsStored, NotSending
  <2>6. QED BY <1>1, <2>2, <2>3, <2>5, EditorStep
<1>4. CASE /\ editor' = [editor EXCEPT ![e].loaded = TRUE, ![e].saved = TRUE, ![e].unread = TRUE]
           /\ typed' = [typed EXCEPT !.broken = @ + 1]
  <2>1. /\ editor[e] \in EditorState /\ typed.broken + 1 \in Nat
        /\ editor'[e] = [editor[e] EXCEPT !.loaded = TRUE, !.saved = TRUE, !.unread = TRUE]
        /\ \A d \in Editors \ {e} : editor'[d] = editor[d]
    BY <1>1, <1>4 DEF DocTypeOK
  <2>2. /\ editor'[e] \in EditorState /\ editor'[e].loaded = TRUE
        /\ editor'[e].unread = TRUE /\ editor'[e].sending = NotSending
    BY <1>2, <2>1 DEF EditorState
  <2>3. DocTypeOK'
    BY <1>1, <1>4, <2>1, <2>2 DEF DocTypeOK
  <2>4. SendsItsForm(e)' /\ FormIsStored(e)'
    BY <2>2 DEF SendsItsForm, FormIsStored, NotSending
  <2>5. QED BY <1>1, <2>1, <2>3, <2>4, EditorStep
<1>5. QED BY <1>3, <1>4 DEF load

(* An edit touches the form of a save that runs. *)
LEMMA EditStep == ASSUME DocInv, NEW e \in Editors, edit(e) PROVE DocInv'
<1>1. /\ DocTypeOK /\ SendsItsForm(e) /\ editor[e].loaded /\ document' = document
      /\ typed' = [typed EXCEPT !.last = @ + 1]
  BY DEF DocInv, edit
<1> DEFINE touched == editor[e].touched \/ editor[e].sending # NotSending
<1>2. PICK b \in BOOLEAN : /\ b <=> touched
                           /\ editor' = [editor EXCEPT ![e].form = typed.last + 1,
                                            ![e].saved = FALSE, ![e].touched = b]
  <2>1. (editor[e].touched \/ editor[e].sending # NotSending) \in BOOLEAN
    OBVIOUS
  <2>2. QED BY <2>1 DEF edit
<1>3. typed.last + 1 \in Nat /\ typed.last \in Nat
  BY <1>1 DEF DocTypeOK
<1>4. /\ editor'[e] = [editor[e] EXCEPT !.form = typed.last + 1, !.saved = FALSE, !.touched = b]
      /\ \A d \in Editors \ {e} : editor'[d] = editor[d]
      /\ DOMAIN editor' = Editors
      /\ editor[e] \in EditorState
  BY <1>1, <1>2 DEF DocTypeOK
<1>5. editor'[e] \in EditorState
  BY <1>3, <1>4 DEF EditorState
<1>6. DocTypeOK'
  BY <1>1, <1>2, <1>3, <1>4, <1>5 DEF DocTypeOK
<1>7. /\ editor'[e].sending = editor[e].sending /\ editor'[e].loaded = editor[e].loaded
      /\ editor'[e].saved = FALSE /\ editor'[e].touched = b
  BY <1>4 DEF EditorState
<1>8. SendsItsForm(e)' /\ FormIsStored(e)'
  <2>1. editor[e].sending.at = "save" => b
    BY <1>2 DEF NotSending
  <2>2. QED BY <1>1, <1>7, <2>1 DEF SendsItsForm, FormIsStored
<1>9. QED BY <1>1, <1>4, <1>6, <1>8, EditorStep

(* A save and a clear keep the form; the save that starts has not been touched. *)
LEMMA SendStep ==
    ASSUME DocInv, NEW e \in Editors, saveDocument(e) \/ clearDocument(e) PROVE DocInv'
<1>1. DocTypeOK /\ FormIsStored(e) /\ SendsItsForm(e) /\ document' = document /\ typed' = typed
  BY DEF DocInv, saveDocument, clearDocument
<1>2. editor[e] \in EditorState
  BY <1>1 DEF DocTypeOK
<1>3. CASE saveDocument(e)
  <2> DEFINE s == [at |-> "save", content |-> editor[e].form]
  <2>1. s \in SavesAndClears
    BY <1>2 DEF EditorState, SavesAndClears
  <2>2. s.at = "save" /\ s.content = editor[e].form
    OBVIOUS
  <2>3. editor[e].loaded /\ editor' = [editor EXCEPT ![e].sending = s, ![e].saved = FALSE,
                                                    ![e].touched = FALSE]
    BY <1>3 DEF saveDocument
  <2> HIDE DEF s
  <2>4. /\ editor'[e] = [editor[e] EXCEPT !.sending = s, !.saved = FALSE, !.touched = FALSE]
        /\ \A d \in Editors \ {e} : editor'[d] = editor[d]
        /\ DOMAIN editor' = Editors
    BY <1>1, <2>3 DEF DocTypeOK
  <2>5. editor'[e] \in EditorState /\ editor'[e].sending = s /\ editor'[e].saved = FALSE
        /\ editor'[e].form = editor[e].form /\ editor'[e].loaded = editor[e].loaded
    BY <1>2, <2>1, <2>4 DEF EditorState
  <2>6. DocTypeOK'
    BY <1>1, <2>3, <2>4, <2>5 DEF DocTypeOK
  <2>7. SendsItsForm(e)' /\ FormIsStored(e)'
    BY <2>2, <2>3, <2>5 DEF SendsItsForm, FormIsStored
  <2>8. QED BY <1>1, <2>4, <2>6, <2>7, EditorStep
<1>4. CASE clearDocument(e)
  <2> DEFINE s == [at |-> "clear", content |-> Unset]
  <2>1. s \in SavesAndClears /\ s.at = "clear" /\ s.content = Unset
    BY DEF SavesAndClears, Unset
  <2>2. editor[e].configured /\ editor' = [editor EXCEPT ![e].sending = s]
    BY <1>4 DEF clearDocument
  <2> HIDE DEF s
  <2>3. /\ editor'[e] = [editor[e] EXCEPT !.sending = s]
        /\ \A d \in Editors \ {e} : editor'[d] = editor[d]
        /\ DOMAIN editor' = Editors
    BY <1>1, <2>2 DEF DocTypeOK
  <2>4. /\ editor'[e] \in EditorState /\ editor'[e].sending = s
        /\ \A f \in {"form", "loaded", "saved", "touched", "overtaken", "unread", "configured"} :
              editor'[e][f] = editor[e][f]
    BY <1>2, <2>1, <2>3 DEF EditorState
  <2>5. DocTypeOK'
    BY <1>1, <2>2, <2>3, <2>4 DEF DocTypeOK
  <2>6. editor[e].loaded
    BY <1>1, <2>2 DEF SendsItsForm
  <2>7. SendsItsForm(e)' /\ FormIsStored(e)'
    BY <1>1, <2>1, <2>4, <2>6 DEF SendsItsForm, FormIsStored
  <2>8. QED BY <1>1, <2>3, <2>5, <2>7, EditorStep
<1>5. QED BY <1>3, <1>4

(* What an answered request leaves of the form: it shows what was sent, unless
   it was edited while the request ran. *)
LEMMA StoredForm ==
    ASSUME DocInv, NEW e \in Editors, editor[e].sending # NotSending
    PROVE  /\ Stored(e) \in EditorState /\ Stored(e).sending = NotSending
           /\ Stored(e).loaded = TRUE
           /\ Stored(e).form = editor[e].sending.content \/ Stored(e).touched = TRUE
<1>1. /\ editor[e] \in EditorState /\ SendsItsForm(e)
      /\ editor[e].sending \in [at : {"save", "clear"}, content : Nat]
  BY DEF DocInv, DocTypeOK, EditorState, SavesAndClears
<1> DEFINE content == editor[e].sending.content
<1>2. content \in Nat /\ editor[e].loaded = TRUE /\ NotSending \in SavesAndClears
  BY <1>1 DEF SendsItsForm, EditorState, SavesAndClears
<1>3. PICK c \in BOOLEAN : c <=> content # Unset
  OBVIOUS
<1> DEFINE known == [editor[e] EXCEPT !.sending = NotSending, !.saved = TRUE, !.configured = c,
                                     !.overtaken = FALSE, !.unread = FALSE]
<1>4. known = [editor[e] EXCEPT !.sending = NotSending, !.saved = TRUE,
                  !.configured = content # Unset, !.overtaken = FALSE, !.unread = FALSE]
  BY <1>3, Zenon
<1>5. /\ known \in EditorState /\ known.sending = NotSending /\ known.loaded = TRUE
      /\ known.form = editor[e].form /\ known.touched = editor[e].touched
  BY <1>1, <1>2, <1>3 DEF EditorState
<1>6. Stored(e) = IF editor[e].sending.at = "clear"
                  THEN [known EXCEPT !.form = Unset, !.prefilled = FALSE, !.touched = FALSE]
                  ELSE IF kind = "ai" /\ ~editor[e].prefilled
                       THEN [known EXCEPT !.form = content, !.prefilled = TRUE, !.touched = FALSE]
                       ELSE known
  BY <1>4 DEF Stored
<1> HIDE DEF content, known
<1>7. CASE editor[e].sending.at = "clear"
  <2>1. content = Unset
    BY <1>1, <1>7 DEF SendsItsForm, NotSending, content
  <2>2. Stored(e) = [known EXCEPT !.form = 0, !.prefilled = FALSE, !.touched = FALSE]
    BY <1>6, <1>7 DEF Unset
  <2> DEFINE own == [known EXCEPT !.form = 0, !.prefilled = FALSE, !.touched = FALSE]
  <2>3. own \in EditorState /\ own.sending = NotSending /\ own.loaded = TRUE /\ own.form = 0
    BY <1>5 DEF EditorState
  <2> HIDE DEF own
  <2>4. Stored(e) = own /\ editor[e].sending.content = 0
    BY <2>1, <2>2 DEF own, content, Unset
  <2>5. QED BY <2>3, <2>4
<1>8. CASE editor[e].sending.at = "save" /\ kind = "ai" /\ ~editor[e].prefilled
  <2>1. Stored(e) = [known EXCEPT !.form = content, !.prefilled = TRUE, !.touched = FALSE]
    BY <1>6, <1>8
  <2>2. QED BY <1>2, <1>5, <2>1 DEF EditorState, content
<1>9. CASE editor[e].sending.at = "save" /\ ~(kind = "ai" /\ ~editor[e].prefilled)
  <2>1. Stored(e) = known
    BY <1>6, <1>9
  <2>2. editor[e].form = content \/ editor[e].touched
    BY <1>1, <1>9 DEF SendsItsForm, content
  <2>3. QED BY <1>1, <1>5, <2>1, <2>2 DEF EditorState, content
<1>10. QED BY <1>1, <1>7, <1>8, <1>9

(* A request that writes the document makes every other form an older one. *)
LEMMA OvertakenOthers ==
    ASSUME DocInv, NEW e \in Editors, NEW own \in EditorState,
           editor' = Overtaken([editor EXCEPT ![e] = own], e)
    PROVE  /\ editor' \in [Editors -> EditorState] /\ editor'[e] = own
           /\ \A d \in Editors \ {e} :
                 /\ editor'[d].overtaken = TRUE
                 /\ editor'[d].loaded = editor[d].loaded
                 /\ editor'[d].configured = editor[d].configured
                 /\ editor'[d].sending = editor[d].sending
                 /\ editor'[d].form = editor[d].form /\ editor'[d].touched = editor[d].touched
<1>1. editor \in [Editors -> EditorState]
  BY DEF DocInv, DocTypeOK
<1>2. /\ editor' = [d \in Editors |-> editor'[d]] /\ editor'[e] = own
      /\ \A d \in Editors \ {e} : editor'[d] = [editor[d] EXCEPT !.overtaken = TRUE]
  BY <1>1 DEF Overtaken
<1>3. ASSUME NEW d \in Editors \ {e}
      PROVE  /\ editor'[d] \in EditorState /\ editor'[d].overtaken = TRUE
             /\ editor'[d].loaded = editor[d].loaded
             /\ editor'[d].configured = editor[d].configured
             /\ editor'[d].sending = editor[d].sending
             /\ editor'[d].form = editor[d].form /\ editor'[d].touched = editor[d].touched
  <2>1. editor'[d] = [editor[d] EXCEPT !.overtaken = TRUE] /\ editor[d] \in EditorState
    BY <1>1, <1>2
  <2>2. QED BY <2>1 DEF EditorState
<1>4. QED BY <1>2, <1>3

(* The request is over; the document may have changed. *)
LEMMA WrittenStep ==
    ASSUME DocInv, NEW e \in Editors, NEW own \in EditorState,
           document' \in Nat, typed' \in [last : Nat, broken : Nat],
           editor' = Overtaken([editor EXCEPT ![e] = own], e),
           own.sending = NotSending, own.loaded = TRUE,
           own.form = document' \/ own.touched = TRUE \/ own.overtaken = TRUE
    PROVE  DocInv'
<1>1. /\ editor' \in [Editors -> EditorState] /\ editor'[e] = own
      /\ \A d \in Editors \ {e} :
            /\ editor'[d].overtaken = TRUE
            /\ editor'[d].loaded = editor[d].loaded
            /\ editor'[d].configured = editor[d].configured
            /\ editor'[d].sending = editor[d].sending
            /\ editor'[d].form = editor[d].form /\ editor'[d].touched = editor[d].touched
  BY OvertakenOthers
<1>2. SendsItsForm(e)' /\ FormIsStored(e)'
  BY <1>1 DEF SendsItsForm, FormIsStored, NotSending
<1>3. ASSUME NEW d \in Editors \ {e} PROVE SendsItsForm(d)' /\ FormIsStored(d)'
  <2>1. SendsItsForm(d)
    BY DEF DocInv
  <2>2. QED BY <1>1, <2>1 DEF SendsItsForm, FormIsStored
<1>4. QED BY <1>1, <1>2, <1>3 DEF DocInv, DocTypeOK

(* A save or a clear is answered, loses its answer or is refused. *)
LEMMA SetStep == ASSUME DocInv, NEW e \in Editors, setValue(e) PROVE DocInv'
<1>1. /\ DocTypeOK /\ editor[e] \in EditorState /\ editor[e].loaded = TRUE
      /\ editor[e].sending # NotSending /\ editor[e].sending.content \in Nat
      /\ SendsItsForm(e) /\ FormIsStored(e)
  BY DEF DocInv, DocTypeOK, SendsItsForm, setValue, EditorState, SavesAndClears
<1>2. CASE /\ document' = editor[e].sending.content
           /\ editor' = Overtaken([editor EXCEPT ![e] = Stored(e)], e)
           /\ UNCHANGED typed
  <2>1. typed' \in [last : Nat, broken : Nat]
    BY <1>1, <1>2 DEF DocTypeOK
  <2>2. QED BY <1>1, <1>2, <2>1, StoredForm, WrittenStep
<1>3. ASSUME typed' = [typed EXCEPT !.broken = @ + 1]
      PROVE  typed' \in [last : Nat, broken : Nat]
  <2>1. typed.broken + 1 \in Nat
    BY <1>1 DEF DocTypeOK
  <2>2. QED BY <1>1, <1>3, <2>1 DEF DocTypeOK
<1>4. CASE /\ typed' = [typed EXCEPT !.broken = @ + 1]
           /\ document' = editor[e].sending.content
           /\ editor' = Overtaken([editor EXCEPT ![e].sending = NotSending,
                                                 ![e].overtaken = TRUE], e)
  <2> DEFINE own == [editor[e] EXCEPT !.sending = NotSending, !.overtaken = TRUE]
  <2>1. own \in EditorState /\ own.sending = NotSending /\ own.loaded = TRUE
        /\ own.overtaken = TRUE
    BY <1>1 DEF EditorState, SavesAndClears
  <2>2. editor' = Overtaken([editor EXCEPT ![e] = own], e)
    BY <1>1, <1>4 DEF DocTypeOK
  <2> HIDE DEF own
  <2>3. QED BY <1>1, <1>3, <1>4, <2>1, <2>2, WrittenStep
<1>5. CASE /\ typed' = [typed EXCEPT !.broken = @ + 1]
           /\ editor' = [editor EXCEPT ![e].sending = NotSending] /\ UNCHANGED document
  <2>1. /\ editor'[e] = [editor[e] EXCEPT !.sending = NotSending]
        /\ \A d \in Editors \ {e} : editor'[d] = editor[d]
        /\ DOMAIN editor' = Editors
    BY <1>1, <1>5 DEF DocTypeOK
  <2>2. /\ editor'[e] \in EditorState /\ editor'[e].sending = NotSending
        /\ \A f \in {"form", "loaded", "saved", "touched", "overtaken", "unread"} :
              editor'[e][f] = editor[e][f]
    BY <1>1, <2>1 DEF EditorState, SavesAndClears
  <2>3. DocTypeOK'
    BY <1>1, <1>3, <1>5, <2>1, <2>2 DEF DocTypeOK
  <2>4. SendsItsForm(e)' /\ FormIsStored(e)'
    BY <1>1, <1>5, <2>2 DEF SendsItsForm, FormIsStored, NotSending
  <2>5. QED BY <1>5, <2>1, <2>3, <2>4, EditorStep
<1>6. QED BY <1>2, <1>4, <1>5 DEF setValue

(* Every step of every editor keeps what its form claims. *)
THEOREM DocumentsStep == DocInv /\ [DocNext]_docVars => DocInv'
<1> SUFFICES ASSUME DocInv, [DocNext]_docVars PROVE DocInv'
  OBVIOUS
<1>1. CASE DocNext
  BY <1>1, LoadStep, EditStep, SendStep, SetStep DEF DocNext
<1>2. CASE UNCHANGED docVars
  BY <1>2 DEF docVars, DocInv, DocTypeOK, SendsItsForm, FormIsStored
<1>3. QED BY <1>1, <1>2

(* SavedFormIsTheDocument, for any number of editors, edits and failures: a
   form of EnvironmentSettings or AiConfigSection shown as saved is the stored
   document, but for the races named in the property. *)
THEOREM FormsAreStored == DocSpec => []SavedFormIsTheDocument
<1>1. DocInv => SavedFormIsTheDocument
  BY DEF DocInv, FormIsStored, SavedFormIsTheDocument
<1>2. QED BY <1>1, InitDocuments, DocumentsStep, PTL DEF DocSpec

-----------------------------------------------------------------------------
(* The history panel.  The invariant follows the request made last: the page it
   asks for is reached by the executions that match it, unless it is marked, and
   they only become more. *)

FilterValues == {f[1] : f \in Filters} \cup {f[2] : f \in Filters} \cup {All}
Queries == [env : FilterValues, status : FilterValues, page : Nat \ {0}]
Answers == [query : Queries, items : Seq(Executions), total : Nat]
Requests == [nr : Nat, query : Queries, served : BOOLEAN, answer : Answers]

ReportTypeOK ==
    /\ ledger \in Seq(Executions)
    /\ panel \in [env : FilterValues, status : FilterValues, page : Nat \ {0}, data : Answers]
    /\ asks \in Seq(Requests)
    /\ seen \in [asks : Nat, new : Nat, last : Queries, shown : Nat, skewed : BOOLEAN]

WantedOf(runs, q) == {n \in DOMAIN runs : Wanted(runs[n], q)}
Count(q) == Cardinality(WantedOf(Newest(ledger), q))

(* The page has an execution, if there are any at all. *)
Reached(q) == q.page = 1 \/ (q.page - 1) * PageSize < Count(q)
Fills(a) == a.items = << >> => a.total = 0

RequestFits(a) ==
    /\ a.nr <= seen.asks
    /\ a.served => a.answer.query = a.query /\ a.answer.total <= Count(a.query)
    /\ a.nr = seen.asks => a.query = seen.last /\ (a.served /\ ~seen.skewed => Fills(a.answer))

ReportInv ==
    /\ ReportTypeOK
    /\ seen.last.page = panel.page
    /\ seen.shown <= seen.asks
    /\ ~seen.skewed => Reached(seen.last)
    /\ panel.data.total <= Count(panel.data.query)
    /\ seen.shown = seen.asks =>
           panel.data.query = seen.last /\ (~seen.skewed => Fills(panel.data))
    /\ \A i \in DOMAIN asks : RequestFits(asks[i])

(* A page is a positive number of rows. *)
LEMMA PageSizeType == PageSize \in Nat /\ PageSize > 0
<1>1. RunLimit \in Nat
  BY ReportAssumption
<1>2. QED BY <1>1, ReportAssumption

-----------------------------------------------------------------------------
(* The runs newest first are as many, each at the mirror of its place. *)
LEMMA NewestIsMirror ==
    ASSUME NEW T, NEW s \in Seq(T)
    PROVE  /\ Newest(s) \in Seq(T) /\ Len(Newest(s)) = Len(s)
           /\ Len(s) \in Nat /\ DOMAIN Newest(s) = 1..Len(s)
           /\ \A n \in 1..Len(s) : Newest(s)[n] = s[Len(s) - n + 1]
<1>1. PICK length \in Nat : length = Len(s) /\ DOMAIN s = 1..length
  BY LenProperties
<1>2. \A n \in 1..length : s[n] \in T /\ length - n + 1 \in 1..length
  BY <1>1, ElementOfSeq
<1>3. Newest(s) = [n \in 1..length |-> s[length - n + 1]]
  BY <1>1 DEF Newest, Reverse
<1>4. Newest(s) \in Seq(T) /\ Len(Newest(s)) = length
  <2>1. \A n \in 1..length : s[length - n + 1] \in T
    BY <1>2
  <2>2. [n \in 1..length |-> s[length - n + 1]] \in Seq(T)
    BY <2>1, IsASeq
  <2>3. Len(Newest(s)) = length
    BY <1>3
  <2>4. QED BY <1>3, <2>2, <2>3
<1>5. QED BY <1>1, <1>3, <1>4

(* An execution more never makes fewer match. *)
LEMMA CountGrows ==
    ASSUME NEW s \in Seq(Executions), NEW x \in Executions, NEW q
    PROVE  Cardinality(WantedOf(Newest(s), q)) <= Cardinality(WantedOf(Newest(Append(s, x)), q))
<1> DEFINE t == Append(s, x)
           old == WantedOf(Newest(s), q)
           new == WantedOf(Newest(t), q)
           shift == [n \in old |-> n + 1]
<1>1. t \in Seq(Executions) /\ Len(t) = Len(s) + 1
      /\ \A n \in 1..Len(s) : t[n] = s[n]
  BY AppendProperties
<1>2. PICK length \in Nat : /\ length = Len(s) /\ DOMAIN Newest(s) = 1..length
                            /\ \A n \in 1..length : Newest(s)[n] = s[length - n + 1]
  BY NewestIsMirror
<1>3. /\ DOMAIN Newest(t) = 1..(length + 1)
      /\ \A n \in 1..(length + 1) : Newest(t)[n] = t[(length + 1) - n + 1]
  <2>1. Len(t) = length + 1
    BY <1>1, <1>2
  <2> HIDE DEF t
  <2>2. QED BY <1>1, <2>1, NewestIsMirror
<1>4. \A n \in 1..length : n + 1 \in DOMAIN Newest(t) /\ Newest(t)[n + 1] = Newest(s)[n]
  <2>1. SUFFICES ASSUME NEW n \in 1..length
                 PROVE  n + 1 \in DOMAIN Newest(t) /\ Newest(t)[n + 1] = Newest(s)[n]
    OBVIOUS
  <2>2. n + 1 \in 1..(length + 1) /\ (length + 1) - (n + 1) + 1 = length - n + 1
        /\ length - n + 1 \in 1..length
    OBVIOUS
  <2> HIDE DEF t
  <2>3. Newest(t)[n + 1] = t[length - n + 1]
    BY <2>2, <1>3
  <2>4. t[length - n + 1] = s[length - n + 1] /\ Newest(s)[n] = s[length - n + 1]
    BY <2>2, <1>1, <1>2
  <2>5. QED BY <2>2, <2>3, <2>4, <1>3
<1>5. \A n \in old : n \in 1..length /\ n + 1 \in new
  <2> HIDE DEF t
  <2>1. QED BY <1>2, <1>4 DEF WantedOf
<1>6. shift \in Injection(old, new)
  <2> HIDE DEF old, new
  <2>1. shift \in [old -> new]
    BY <1>5
  <2>2. \A m, n \in old : shift[m] = shift[n] => m = n
    BY <1>5
  <2>3. QED BY <2>1, <2>2 DEF Injection, IsInjective
<1>7. IsFiniteSet(new)
  <2>1. Newest(t) \in Seq(Executions)
    BY <1>1, NewestIsMirror
  <2> HIDE DEF t
  <2>2. new \in SUBSET DOMAIN Newest(t)
    BY DEF WantedOf
  <2>3. QED BY <2>1, <2>2, PlacesFinite
<1>8. QED
  <2> HIDE DEF old, new, shift
  <2>1. Cardinality(old) <= Cardinality(new)
    BY <1>6, <1>7, FS_Injection
  <2>2. QED BY <2>1 DEF old, new

(* What listExecutions answers. *)
LEMMA AnswerIsServed ==
    ASSUME ledger \in Seq(Executions), NEW q \in Queries
    PROVE  /\ listExecutions(q) \in Answers
           /\ listExecutions(q).query = q
           /\ listExecutions(q).total = Count(q) /\ Count(q) \in Nat
           /\ Reached(q) => Fills(listExecutions(q))
<1> DEFINE found == Matches(q)
<1>1. Newest(ledger) \in Seq(Executions)
  BY NewestIsMirror
<1>2. WantedOf(Newest(ledger), q) \in SUBSET DOMAIN Newest(ledger)
  BY DEF WantedOf
<1>3. /\ found = Kept(Newest(ledger), WantedOf(Newest(ledger), q))
  BY DEF Matches, WantedOf
<1>4. PICK total \in Nat : found \in Seq(Executions) /\ Len(found) = total /\ total = Count(q)
  BY <1>1, <1>2, <1>3, KeptEntries DEF Count
<1>5. PICK page \in Nat : page = q.page /\ page # 0
  BY DEF Queries
<1>6. PageSize \in Nat /\ PageSize > 0
  BY PageSizeType
<1> DEFINE first == (page - 1) * PageSize + 1
           last == IF page * PageSize < total THEN page * PageSize ELSE total
<1>7. first \in Nat /\ first >= 1 /\ last \in Nat /\ last <= total
  BY <1>5, <1>6
<1>8. PageOf(found, page) = SubSeq(found, first, last)
  BY <1>4 DEF PageOf
<1>9. PageOf(found, page) \in Seq(Executions)
      /\ Len(PageOf(found, page)) = IF first <= last THEN last - first + 1 ELSE 0
  <2> HIDE DEF found, first, last
  <2>1. \A i \in first..last : found[i] \in Executions
    BY <1>4, <1>7, ElementOfSeq
  <2>2. QED BY <1>7, <1>8, <2>1, SubSeqProperties
<1>10. ASSUME Reached(q), PageOf(found, page) = << >> PROVE total = 0
  <2>1. ~(first <= last)
    <3> HIDE DEF found, first, last
    <3>1. QED BY <1>7, <1>9, <1>10, EmptySeq
  <2>2. page = 1 \/ (page - 1) * PageSize < total
    BY <1>4, <1>5, <1>10 DEF Reached
  <2>3. page * PageSize >= (page - 1) * PageSize + 1
    BY <1>5, <1>6
  <2>4. CASE page = 1
    BY <2>1, <2>4, <1>6
  <2>5. CASE (page - 1) * PageSize < total
    BY <2>1, <2>3, <2>5, <1>5, <1>6
  <2>6. QED BY <2>2, <2>4, <2>5
<1>11. listExecutions(q) = [query |-> q, items |-> PageOf(found, page), total |-> total]
  BY <1>4, <1>5 DEF listExecutions
<1>12. QED
  <2> HIDE DEF found
  <2>1. QED BY <1>4, <1>9, <1>10, <1>11 DEF Answers, Fills

(* What is left of a list without one entry comes from the list. *)
LEMMA LeftFromList ==
    ASSUME NEW S, NEW s \in Seq(S), NEW i \in 1..Len(s)
    PROVE  /\ RemoveAt(s, i) \in Seq(S)
           /\ \A j \in DOMAIN RemoveAt(s, i) : \E k \in DOMAIN s : RemoveAt(s, i)[j] = s[k]
           /\ \A k \in DOMAIN s :
                  k = i \/ \E j \in DOMAIN RemoveAt(s, i) : RemoveAt(s, i)[j] = s[k]
<1>1. PICK length \in Nat : length = Len(s) /\ DOMAIN s = 1..length
  BY LenProperties
<1>2. \A j \in 1..length : s[j] \in S
  BY <1>1, ElementOfSeq
<1>3. i \in 1..length
  BY <1>1
<1> DEFINE front == SubSeq(s, 1, i - 1)
           back == SubSeq(s, i + 1, length)
<1>4. /\ front \in Seq(S) /\ Len(front) = i - 1
      /\ \A j \in 1..(i - 1) : front[j] = s[j]
  <2>1. \A j \in 1..(i - 1) : s[j] \in S
    BY <1>2, <1>3
  <2>2. QED BY <1>3, <2>1, SubSeqProperties
<1>5. /\ back \in Seq(S) /\ Len(back) = length - i
      /\ \A j \in 1..(length - i) : back[j] = s[i + j]
  <2>1. \A j \in (i + 1)..length : s[j] \in S
    BY <1>2, <1>3
  <2>2. QED BY <1>3, <2>1, SubSeqProperties
<1>6. RemoveAt(s, i) = front \o back
  BY <1>1 DEF RemoveAt
<1> HIDE DEF front, back
<1>7. /\ front \o back \in Seq(S) /\ Len(front \o back) = length - 1
      /\ \A j \in 1..(length - 1) :
             (front \o back)[j] = IF j <= i - 1 THEN front[j] ELSE back[j - (i - 1)]
  <2>1. (i - 1) + (length - i) = length - 1
    BY <1>3
  <2>2. front \in Seq(S) /\ back \in Seq(S) /\ Len(front) + Len(back) = length - 1
    BY <1>4, <1>5, <2>1
  <2>3. /\ front \o back \in Seq(S)
        /\ Len(front \o back) = Len(front) + Len(back)
        /\ \A j \in 1..(Len(front) + Len(back)) :
               (front \o back)[j] = IF j <= Len(front) THEN front[j] ELSE back[j - Len(front)]
    BY <2>2, ConcatProperties
  <2>4. QED BY <1>4, <2>2, <2>3
<1>8. ASSUME NEW j \in 1..(length - 1) PROVE \E k \in 1..length : (front \o back)[j] = s[k]
  <2>1. CASE j <= i - 1
    BY <1>3, <1>4, <1>7, <2>1
  <2>2. CASE ~(j <= i - 1)
    <3>1. j - (i - 1) \in 1..(length - i) /\ i + (j - (i - 1)) = j + 1 /\ j + 1 \in 1..length
      BY <1>3, <2>2
    <3>2. back[j - (i - 1)] = s[j + 1]
      BY <1>5, <3>1
    <3>3. QED BY <1>7, <2>2, <3>1, <3>2
  <2>3. QED BY <2>1, <2>2
<1>9. DOMAIN (front \o back) = 1..(length - 1)
  BY <1>7, LenProperties
<1>10. ASSUME NEW k \in 1..length, k # i
       PROVE  \E j \in 1..(length - 1) : (front \o back)[j] = s[k]
  <2>1. CASE k < i
    <3>1. k \in 1..(i - 1) /\ k \in 1..(length - 1)
      BY <1>3, <2>1
    <3>2. (front \o back)[k] = s[k]
      BY <1>4, <1>7, <3>1
    <3>3. QED BY <3>1, <3>2
  <2>2. CASE k > i
    <3>1. /\ k - 1 \in 1..(length - 1) /\ ~(k - 1 <= i - 1)
          /\ (k - 1) - (i - 1) = k - i /\ k - i \in 1..(length - i) /\ i + (k - i) = k
      BY <1>3, <2>2
    <3>2. (front \o back)[k - 1] = back[k - i] /\ back[k - i] = s[k]
      BY <1>5, <1>7, <3>1
    <3>3. QED BY <3>1, <3>2
  <2>3. k < i \/ k > i
    BY <1>3, <1>10
  <2>4. QED BY <2>1, <2>2, <2>3, Zenon
<1>11. PICK left : left = front \o back
  OBVIOUS
<1>12. left \in Seq(S) /\ DOMAIN left = 1..(length - 1)
  BY <1>7, <1>9, <1>11, Zenon
<1>13. \A j \in DOMAIN left : \E k \in DOMAIN s : left[j] = s[k]
  BY <1>1, <1>8, <1>11, <1>12, Zenon
<1>14. \A k \in DOMAIN s : k = i \/ \E j \in DOMAIN left : left[j] = s[k]
  BY <1>1, <1>10, <1>11, <1>12, Zenon
<1>15. RemoveAt(s, i) = left
  BY <1>6, <1>11, Zenon
<1>16. QED BY <1>12, <1>13, <1>14, <1>15, Zenon

-----------------------------------------------------------------------------
(* The first page is a page to ask for, and no data is an answer. *)
LEMMA FirstPageType == FirstPage \in Queries /\ NoData \in Answers
<1>1. FirstPage \in Queries
  <2>1. All \in FilterValues
    BY DEF FilterValues
  <2>2. 1 \in Nat \ {0}
    OBVIOUS
  <2>3. QED BY <2>1, <2>2, Zenon DEF FirstPage, Queries
<1>2. << >> \in Seq(Executions)
  BY EmptySeq
<1>3. QED BY <1>1, <1>2 DEF NoData, Answers

(* The panel opens with its first request on its way. *)
LEMMA ReportInitInv == ReportInit => ReportInv
<1> SUFFICES ASSUME ReportInit PROVE ReportInv
  OBVIOUS
<1> DEFINE first == [nr |-> 1, query |-> FirstPage, served |-> FALSE, answer |-> NoData]
<1>1. ledger \in Seq(Executions)
  BY ReportAssumption DEF ReportInit
<1>2. first \in Requests /\ asks = << first >>
  BY FirstPageType DEF ReportInit, Requests
<1>3. asks \in Seq(Requests) /\ DOMAIN asks = {1} /\ asks[1] = first
  <2> HIDE DEF first
  <2>1. QED BY <1>2
<1>4. ReportTypeOK
  <2>1. panel \in [env : FilterValues, status : FilterValues, page : Nat \ {0}, data : Answers]
    <3>1. All \in FilterValues /\ 1 \in Nat \ {0}
      BY DEF FilterValues
    <3>2. QED BY <3>1, FirstPageType, Zenon DEF ReportInit
  <2>2. seen \in [asks : Nat, new : Nat, last : Queries, shown : Nat, skewed : BOOLEAN]
    BY FirstPageType DEF ReportInit
  <2>3. QED BY <1>1, <1>3, <2>1, <2>2 DEF ReportTypeOK
<1>5. Count(FirstPage) \in Nat
  BY <1>1, FirstPageType, AnswerIsServed
<1>6. RequestFits(first)
  BY DEF RequestFits, ReportInit
<1>7. \A i \in DOMAIN asks : RequestFits(asks[i])
  <2> HIDE DEF first
  <2>1. QED BY <1>3, <1>6
<1>8. seen.last.page = panel.page /\ seen.shown <= seen.asks /\ seen.shown # seen.asks
      /\ Reached(seen.last)
  BY DEF ReportInit, Reached, FirstPage
<1>9. panel.data.total <= Count(panel.data.query)
  BY <1>5 DEF ReportInit, NoData
<1>10. QED BY <1>4, <1>7, <1>8, <1>9 DEF ReportInv

(* A request is made: every other becomes an earlier one. *)
LEMMA AskKeepsInv ==
    ASSUME ReportInv, NEW q \in Queries, NEW skewed \in BOOLEAN, Ask(q, skewed),
           NEW env \in FilterValues, NEW status \in FilterValues,
           panel' = [panel EXCEPT !.env = env, !.status = status, !.page = q.page],
           UNCHANGED ledger, ~skewed => Reached(q)
    PROVE  ReportInv'
<1> DEFINE new == [nr |-> seen.asks + 1, query |-> q, served |-> FALSE, answer |-> NoData]
<1>1. /\ ReportTypeOK /\ seen.asks \in Nat /\ seen.shown \in Nat
      /\ seen \in [asks : Nat, new : Nat, last : Queries, shown : Nat, skewed : BOOLEAN]
  BY DEF ReportInv, ReportTypeOK
<1>2. new \in Requests /\ asks' = Append(asks, new)
  BY <1>1, FirstPageType DEF Ask, Requests
<1>3. seen' = [seen EXCEPT !.asks = seen.asks + 1, !.last = q, !.skewed = skewed]
  BY DEF Ask
<1>4. /\ seen' \in [asks : Nat, new : Nat, last : Queries, shown : Nat, skewed : BOOLEAN]
      /\ seen'.asks = seen.asks + 1 /\ seen'.shown = seen.shown
      /\ seen'.last = q /\ seen'.skewed = skewed
  <2>1. seen.asks + 1 \in Nat
    BY <1>1
  <2>2. QED BY <1>1, <1>3, <2>1, Zenon
<1>5. /\ panel' \in [env : FilterValues, status : FilterValues, page : Nat \ {0}, data : Answers]
      /\ panel'.page = q.page /\ panel'.data = panel.data
  BY <1>1 DEF ReportTypeOK, Queries
<1>6. PICK length \in Nat : length = Len(asks) /\ DOMAIN asks = 1..length
  BY <1>1, LenProperties DEF ReportTypeOK
<1>7. /\ asks' \in Seq(Requests) /\ DOMAIN asks' = 1..(length + 1)
      /\ asks'[length + 1] = new /\ \A i \in 1..length : asks'[i] = asks[i]
  <2> HIDE DEF new
  <2>1. QED BY <1>1, <1>2, <1>6, AppendProperties, LenProperties DEF ReportTypeOK
<1>8. ReportTypeOK'
  BY <1>1, <1>4, <1>5, <1>7 DEF ReportTypeOK
<1>9. \A r : Count(r)' = Count(r) /\ Reached(r)' = Reached(r)
  BY DEF Count, Reached
<1>10. ASSUME NEW i \in DOMAIN asks' PROVE RequestFits(asks[i])'
  <2>1. CASE i = length + 1
    <3>1. asks'[i] = new
      BY <1>7, <2>1
    <3>2. new.nr = seen'.asks /\ new.query = seen'.last /\ ~new.served
      BY <1>4
    <3> HIDE DEF new
    <3>3. QED BY <1>4, <3>1, <3>2 DEF RequestFits
  <2>2. CASE i # length + 1
    <3>1. i \in DOMAIN asks /\ i \in 1..Len(asks) /\ asks'[i] = asks[i]
      BY <1>6, <1>7, <2>2
    <3>2. asks[i] \in Requests
      BY <1>1, <3>1, ElementOfSeq DEF ReportTypeOK
    <3>3. PICK a \in Requests : a = asks[i]
      BY <3>2
    <3>4. RequestFits(a)
      BY <3>1, <3>3 DEF ReportInv
    <3>5. a.nr <= seen'.asks /\ a.nr # seen'.asks
      BY <1>1, <1>4, <3>4 DEF RequestFits, Requests
    <3>6. a.served => a.answer.query = a.query /\ a.answer.total <= Count(a.query)'
      BY <1>9, <3>4 DEF RequestFits
    <3>7. RequestFits(a)'
      BY <3>5, <3>6 DEF RequestFits
    <3>8. QED BY <3>1, <3>3, <3>7 DEF RequestFits
  <2>3. QED BY <2>1, <2>2
<1>11. seen'.shown <= seen'.asks /\ seen'.shown # seen'.asks
  BY <1>1, <1>4 DEF ReportInv
<1>12. ~seen'.skewed => Reached(seen.last)'
  <2>1. ~skewed => Reached(q)'
    BY <1>9
  <2>2. QED BY <1>4, <2>1 DEF Reached, Count
<1>13. (panel.data.total <= Count(panel.data.query))'
  <2>1. PICK d : d = panel.data
    OBVIOUS
  <2>2. d.total <= Count(d.query)'
    BY <1>9, <2>1 DEF ReportInv
  <2>3. QED BY <1>5, <2>1, <2>2 DEF Count
<1>14. QED BY <1>4, <1>5, <1>8, <1>10, <1>11, <1>12, <1>13 DEF ReportInv

(* A page the data on the screen reaches is reached by what matches now. *)
LEMMA NextIsReached ==
    ASSUME NEW total \in Nat, NEW n \in Nat \ {0}, n <= (total + PageSize - 1) \div PageSize
    PROVE  (n - 1) * PageSize < total
<1>1. PICK size \in Nat : size = PageSize /\ size > 0
  BY PageSizeType
<1>2. PICK pages \in Nat : pages = (total + size - 1) \div size
  BY <1>1
<1>3. pages * size <= total + size - 1
  BY <1>1, <1>2
<1>4. n <= pages
  BY <1>1, <1>2
<1>5. n * size <= pages * size
  BY <1>1, <1>4
<1>6. (n - 1) * size = n * size - size
  BY <1>1
<1>7. n * size \in Nat /\ pages * size \in Nat
  BY <1>1
<1>8. QED BY <1>1, <1>3, <1>5, <1>6, <1>7

(* No query ever has fewer matches, so what was fitting stays so while no request
   is made. *)
LEMMA MatchesStay ==
    ASSUME ReportInv, [ReportNext]_reportVars
    PROVE  /\ ledger' \in Seq(Executions)
           /\ \A q \in Queries : /\ Count(q) \in Nat /\ Count(q)' \in Nat
                                 /\ Count(q) <= Count(q)'
<1>1. ledger \in Seq(Executions)
  BY DEF ReportInv, ReportTypeOK
<1>2. \/ UNCHANGED ledger
      \/ \E env \in Environments, status \in Verdicts :
             ledger' = Append(ledger, ExecutionOf(Here, env, status))
  <2>1. CASE UNCHANGED reportVars
    BY <2>1 DEF reportVars
  <2>2. CASE ReportNext
    BY <2>2 DEF ReportNext, setFilter, handleApplyFilters, handleNextPage, handlePrevPage,
                TurnTo, serve, setData, answerLost, execute
  <2>3. QED BY <2>1, <2>2
<1>3. CASE UNCHANGED ledger
  <2>1. \A q : Count(q)' = Count(q)
    BY <1>3 DEF Count
  <2>2. \A q \in Queries : Count(q) \in Nat
    BY <1>1, AnswerIsServed
  <2>3. QED BY <1>1, <1>3, <2>1, <2>2
<1>4. CASE \E env \in Environments, status \in Verdicts :
               ledger' = Append(ledger, ExecutionOf(Here, env, status))
  <2>1. PICK x \in Executions : ledger' = Append(ledger, x)
    BY <1>4, ReportAssumption
  <2>2. ledger' \in Seq(Executions)
    BY <1>1, <2>1, AppendProperties
  <2>3. ASSUME NEW q \in Queries PROVE Count(q) \in Nat /\ Count(q)' \in Nat
    <3>1. Count(q) \in Nat
      BY <1>1, AnswerIsServed
    <3>2. IsFiniteSet(WantedOf(Newest(ledger'), q))
      <4>1. Newest(ledger') \in Seq(Executions)
        BY <2>2, NewestIsMirror
      <4>2. WantedOf(Newest(ledger'), q) \in SUBSET DOMAIN Newest(ledger')
        BY DEF WantedOf
      <4>3. QED BY <4>1, <4>2, PlacesFinite
    <3>3. QED BY <3>1, <3>2, FS_CardinalityType DEF Count
  <2>4. ASSUME NEW q \in Queries PROVE Count(q) <= Count(q)'
    <3>1. Cardinality(WantedOf(Newest(ledger), q)) <= Cardinality(WantedOf(Newest(ledger'), q))
      BY <1>1, <2>1, CountGrows
    <3>2. QED BY <3>1 DEF Count
  <2>5. QED BY <2>2, <2>3, <2>4
<1>5. QED BY <1>2, <1>3, <1>4

(* What asks nothing new leaves the requests as good as they were: the executions
   that match only become more. *)
LEMMA FitsStay ==
    ASSUME ReportInv, [ReportNext]_reportVars,
           seen'.asks = seen.asks, seen'.last = seen.last, seen'.skewed = seen.skewed
    PROVE  /\ \A a \in Requests : RequestFits(a) => RequestFits(a)'
           /\ (~seen.skewed => Reached(seen.last))'
           /\ \A d \in Answers : d.total <= Count(d.query) => d.total <= Count(d.query)'
<1>1. \A q \in Queries : Count(q) \in Nat /\ Count(q)' \in Nat /\ Count(q) <= Count(q)'
  BY MatchesStay
<1>2. \A q \in Queries, n \in Nat : n <= Count(q) => n <= Count(q)'
  BY <1>1
<1>3. ASSUME NEW a \in Requests, RequestFits(a) PROVE RequestFits(a)'
  <2>1. a.query \in Queries /\ a.answer.total \in Nat
    BY DEF Requests, Answers
  <2>2. a.served => a.answer.query = a.query /\ a.answer.total <= Count(a.query)'
    BY <1>2, <1>3, <2>1 DEF RequestFits
  <2>3. QED BY <1>3, <2>2 DEF RequestFits, Fills
<1>4. (~seen.skewed => Reached(seen.last))'
  <2>1. PICK q \in Queries : q = seen.last
    BY DEF ReportInv, ReportTypeOK
  <2>2. PICK few \in Nat, many \in Nat : few = Count(q) /\ many = Count(q)' /\ few <= many
    BY <1>1
  <2>3. PICK page \in Nat : page = q.page
    BY DEF Queries
  <2>4. PageSize \in Nat
    BY PageSizeType
  <2>5. (page - 1) * PageSize < few => (page - 1) * PageSize < many
    BY <2>2, <2>3, <2>4
  <2>6. Reached(q) => Reached(q)'
    BY <2>2, <2>3, <2>5 DEF Reached
  <2>7. ~seen.skewed => Reached(q)
    BY <2>1 DEF ReportInv
  <2>8. QED BY <2>1, <2>6, <2>7 DEF Reached, Count
<1>5. \A d \in Answers : d.total <= Count(d.query) => d.total <= Count(d.query)'
  <2>1. SUFFICES ASSUME NEW d \in Answers, d.total <= Count(d.query)
                 PROVE  d.total <= Count(d.query)'
    OBVIOUS
  <2>2. d.total \in Nat /\ d.query \in Queries
    BY DEF Answers
  <2>3. QED BY <1>2, <2>1, <2>2
<1>6. QED BY <1>3, <1>4, <1>5

(* A step that asks nothing: the data shown, if it changes, is that of a request
   served, whose number is then the one shown. *)
LEMMA QuietKeepsInv ==
    ASSUME ReportInv, [ReportNext]_reportVars,
           seen'.asks = seen.asks, seen'.last = seen.last, seen'.skewed = seen.skewed,
           ReportTypeOK', panel'.page = panel.page,
           \/ panel'.data = panel.data /\ seen'.shown = seen.shown
           \/ \E i \in DOMAIN asks : /\ asks[i].served
                                     /\ panel'.data = asks[i].answer /\ seen'.shown = asks[i].nr,
           \A i \in DOMAIN asks' : \/ \E k \in DOMAIN asks : asks'[i] = asks[k]
                                   \/ RequestFits(asks[i])'
    PROVE  ReportInv'
<1>1. /\ \A a \in Requests : RequestFits(a) => RequestFits(a)'
      /\ (~seen.skewed => Reached(seen.last))'
      /\ \A d \in Answers : d.total <= Count(d.query) => d.total <= Count(d.query)'
  BY FitsStay
<1>2. \A k \in DOMAIN asks : asks[k] \in Requests
  <2>1. asks \in Seq(Requests)
    BY DEF ReportInv, ReportTypeOK
  <2>2. QED BY <2>1, LenProperties, ElementOfSeq
<1>3. \A i \in DOMAIN asks' : RequestFits(asks[i])'
  <2>1. SUFFICES ASSUME NEW i \in DOMAIN asks', NEW k \in DOMAIN asks, asks'[i] = asks[k]
                 PROVE  RequestFits(asks[i])'
    OBVIOUS
  <2>2. PICK a \in Requests : a = asks[k]
    BY <1>2
  <2>3. RequestFits(a)'
    BY <1>1, <2>2 DEF ReportInv
  <2>4. QED BY <2>1, <2>2, <2>3 DEF RequestFits
<1>4. PICK d \in Answers : d = panel'.data
  BY DEF ReportTypeOK
<1>5. /\ d.total <= Count(d.query)'
      /\ seen'.shown <= seen'.asks
      /\ seen'.shown = seen'.asks => d.query = seen'.last /\ (~seen'.skewed => Fills(d))
  <2>1. CASE panel'.data = panel.data /\ seen'.shown = seen.shown
    <3>1. d = panel.data
      BY <1>4, <2>1
    <3>2. d.total <= Count(d.query) /\ seen.shown <= seen.asks
          /\ (seen.shown = seen.asks => d.query = seen.last /\ (~seen.skewed => Fills(d)))
      BY <3>1 DEF ReportInv
    <3>3. QED BY <1>1, <2>1, <3>2
  <2>2. ASSUME NEW i \in DOMAIN asks, asks[i].served,
               panel'.data = asks[i].answer, seen'.shown = asks[i].nr
        PROVE  /\ d.total <= Count(d.query)'
               /\ seen'.shown <= seen'.asks
               /\ seen'.shown = seen'.asks => d.query = seen'.last /\ (~seen'.skewed => Fills(d))
    <3>1. PICK a \in Requests : a = asks[i]
      BY <1>2
    <3>2. RequestFits(a) /\ a.served /\ d = a.answer /\ seen'.shown = a.nr
      BY <1>4, <2>2, <3>1 DEF ReportInv
    <3>3. d.query = a.query /\ d.total <= Count(d.query)
      BY <3>2 DEF RequestFits
    <3>4. d.total <= Count(d.query)'
      BY <1>1, <3>3
    <3>5. a.nr <= seen.asks
          /\ (a.nr = seen.asks => a.query = seen.last /\ (~seen.skewed => Fills(d)))
      BY <3>2 DEF RequestFits
    <3>6. seen'.shown <= seen'.asks
      BY <3>2, <3>5
    <3>7. seen'.shown = seen'.asks => d.query = seen'.last /\ (~seen'.skewed => Fills(d))
      BY <3>2, <3>3, <3>5
    <3>8. QED BY <3>4, <3>6, <3>7
  <2>3. QED BY <2>1, <2>2
<1>6. (panel.data.total <= Count(panel.data.query))'
  BY <1>4, <1>5 DEF Count
<1>7. (seen.shown = seen.asks =>
           panel.data.query = seen.last /\ (~seen.skewed => Fills(panel.data)))'
  BY <1>4, <1>5 DEF Fills
<1>8. (seen.last.page = panel.page)'
  BY DEF ReportInv
<1>9. QED BY <1>1, <1>3, <1>5, <1>6, <1>7, <1>8 DEF ReportInv

(* A select changes nothing that was asked or shown. *)
LEMMA SetFilterKeepsInv ==
    ASSUME ReportInv, NEW f \in Filters, setFilter(f[1], f[2])
    PROVE  ReportInv'
<1>1. [ReportNext]_reportVars
  BY DEF ReportNext
<1>2. panel' \in [env : FilterValues, status : FilterValues, page : Nat \ {0}, data : Answers]
      /\ panel'.page = panel.page /\ panel'.data = panel.data
  <2>1. f[1] \in FilterValues /\ f[2] \in FilterValues
    BY DEF FilterValues
  <2>2. panel' = [panel EXCEPT !.env = f[1], !.status = f[2]]
    BY DEF setFilter
  <2>3. panel \in [env : FilterValues, status : FilterValues, page : Nat \ {0}, data : Answers]
    BY DEF ReportInv, ReportTypeOK
  <2>4. QED BY <2>1, <2>2, <2>3
<1>3. UNCHANGED << ledger, asks, seen >>
  BY DEF setFilter
<1>4. ReportTypeOK'
  BY <1>2, <1>3 DEF ReportInv, ReportTypeOK
<1>5. QED BY <1>1, <1>2, <1>3, <1>4, QuietKeepsInv

(* Azure DevOps answers with the page and the total of the moment. *)
LEMMA ServeKeepsInv ==
    ASSUME ReportInv, NEW i \in DOMAIN asks, serve(i)
    PROVE  ReportInv'
<1> DEFINE answer == listExecutions(asks[i].query)
<1>1. [ReportNext]_reportVars
  BY DEF ReportNext
<1>2. ReportTypeOK /\ asks \in Seq(Requests) /\ ledger \in Seq(Executions)
  BY DEF ReportInv, ReportTypeOK
<1>3. i \in 1..Len(asks)
  BY <1>2, LenProperties
<1>4. PICK a \in Requests : a = asks[i]
  BY <1>2, <1>3, ElementOfSeq
<1>5. a.query \in Queries
  BY DEF Requests
<1>6. PICK d \in Answers : /\ d = answer /\ d.query = a.query /\ d.total = Count(a.query)
                           /\ Count(a.query) \in Nat /\ (Reached(a.query) => Fills(d))
  BY <1>2, <1>4, <1>5, AnswerIsServed
<1> DEFINE b == [a EXCEPT !.served = TRUE, !.answer = d]
<1>7. b \in Requests /\ b.nr = a.nr /\ b.query = a.query /\ b.served /\ b.answer = d
  BY DEF Requests
<1>8. asks' = [asks EXCEPT ![i] = b]
  BY <1>4, <1>6 DEF serve
<1>9. /\ asks' \in Seq(Requests) /\ DOMAIN asks' = DOMAIN asks /\ asks'[i] = b
      /\ \A k \in DOMAIN asks : k # i => asks'[k] = asks[k]
  <2> HIDE DEF b
  <2>1. QED BY <1>2, <1>3, <1>7, <1>8, ExceptSeq, LenProperties
<1>10. UNCHANGED << ledger, panel, seen >>
  BY DEF serve
<1>11. ReportTypeOK'
  BY <1>2, <1>9, <1>10 DEF ReportTypeOK
<1>12. RequestFits(b)
  <2>1. RequestFits(a)
    BY <1>4 DEF ReportInv
  <2>2. a.nr = seen.asks /\ ~seen.skewed => Fills(d)
    BY <1>6, <2>1 DEF RequestFits, ReportInv
  <2>3. d.total <= Count(a.query)
    BY <1>6
  <2> HIDE DEF b
  <2>4. QED BY <1>6, <1>7, <2>1, <2>2, <2>3 DEF RequestFits
<1>13. RequestFits(b)'
  <2> HIDE DEF b
  <2>1. QED BY <1>10, <1>12 DEF RequestFits, Count
<1>14. \A k \in DOMAIN asks' : \/ \E m \in DOMAIN asks : asks'[k] = asks[m]
                               \/ RequestFits(asks[k])'
  <2> HIDE DEF b
  <2>1. RequestFits(asks[i])'
    BY <1>9, <1>13 DEF RequestFits
  <2>2. QED BY <1>9, <2>1
<1>15. QED BY <1>1, <1>10, <1>11, <1>14, QuietKeepsInv

(* An answer that is shown, or lost, is one to a request that was made. *)
LEMMA AnswerKeepsInv ==
    ASSUME ReportInv, NEW i \in DOMAIN asks, setData(i) \/ answerLost(i)
    PROVE  ReportInv'
<1>1. [ReportNext]_reportVars
  BY DEF ReportNext
<1>2. /\ ReportTypeOK /\ asks \in Seq(Requests)
      /\ panel \in [env : FilterValues, status : FilterValues, page : Nat \ {0}, data : Answers]
      /\ seen \in [asks : Nat, new : Nat, last : Queries, shown : Nat, skewed : BOOLEAN]
  BY DEF ReportInv, ReportTypeOK
<1>3. i \in 1..Len(asks)
  BY <1>2, LenProperties
<1>4. asks' = RemoveAt(asks, i) /\ UNCHANGED ledger
  BY DEF setData, answerLost
<1>5. /\ asks' \in Seq(Requests)
      /\ \A k \in DOMAIN asks' : \E m \in DOMAIN asks : asks'[k] = asks[m]
  BY <1>2, <1>3, <1>4, LeftFromList
<1>6. PICK a \in Requests : a = asks[i] /\ a.nr \in Nat /\ a.answer \in Answers
  BY <1>2, <1>3, ElementOfSeq DEF Requests
<1>7. CASE setData(i)
  <2>1. panel' = [panel EXCEPT !.data = a.answer] /\ seen' = [seen EXCEPT !.shown = a.nr]
        /\ a.served
    BY <1>6, <1>7 DEF setData
  <2>2. panel' \in [env : FilterValues, status : FilterValues, page : Nat \ {0}, data : Answers]
        /\ panel'.page = panel.page /\ panel'.data = a.answer
    BY <1>2, <1>6, <2>1
  <2>3. /\ seen' \in [asks : Nat, new : Nat, last : Queries, shown : Nat, skewed : BOOLEAN]
        /\ seen'.asks = seen.asks /\ seen'.last = seen.last /\ seen'.skewed = seen.skewed
        /\ seen'.shown = a.nr
    BY <1>2, <1>6, <2>1, Zenon
  <2>4. ReportTypeOK'
    BY <1>2, <1>4, <1>5, <2>2, <2>3 DEF ReportTypeOK
  <2>5. \E k \in DOMAIN asks :
            asks[k].served /\ panel'.data = asks[k].answer /\ seen'.shown = asks[k].nr
    BY <1>6, <2>1, <2>2, <2>3
  <2>6. QED BY <1>1, <1>5, <2>2, <2>3, <2>4, <2>5, QuietKeepsInv
<1>8. CASE answerLost(i)
  <2>1. UNCHANGED << panel, seen >>
    BY <1>8 DEF answerLost
  <2>2. ReportTypeOK'
    BY <1>2, <1>4, <1>5, <2>1 DEF ReportTypeOK
  <2>3. QED BY <1>1, <1>5, <2>1, <2>2, QuietKeepsInv
<1>9. QED BY <1>7, <1>8

(* An execution more disturbs no answer and no request. *)
LEMMA ExecuteKeepsInv ==
    ASSUME ReportInv, NEW env \in Environments, NEW status \in Verdicts, execute(env, status)
    PROVE  ReportInv'
<1>1. [ReportNext]_reportVars
  BY DEF ReportNext
<1>2. ReportTypeOK
      /\ seen \in [asks : Nat, new : Nat, last : Queries, shown : Nat, skewed : BOOLEAN]
  BY DEF ReportInv, ReportTypeOK
<1>3. UNCHANGED << panel, asks >> /\ seen' = [seen EXCEPT !.new = seen.new + 1]
  BY DEF execute
<1>4. /\ seen' \in [asks : Nat, new : Nat, last : Queries, shown : Nat, skewed : BOOLEAN]
      /\ seen'.asks = seen.asks /\ seen'.last = seen.last /\ seen'.skewed = seen.skewed
      /\ seen'.shown = seen.shown
  <2>1. seen.new + 1 \in Nat
    BY <1>2
  <2>2. QED BY <1>2, <1>3, <2>1, Zenon
<1>5. ledger' \in Seq(Executions)
  BY <1>1, MatchesStay
<1>6. ReportTypeOK'
  BY <1>2, <1>3, <1>4, <1>5 DEF ReportTypeOK
<1>7. QED BY <1>1, <1>3, <1>4, <1>6, QuietKeepsInv

(* The filters are applied from the first page; "Next" and "Previous" ask for a
   page that is reached, or mark what they ask. *)
LEMMA TurnKeepsInv ==
    ASSUME ReportInv, handleApplyFilters \/ handleNextPage \/ handlePrevPage
    PROVE  ReportInv'
<1>1. /\ panel \in [env : FilterValues, status : FilterValues, page : Nat \ {0}, data : Answers]
      /\ seen \in [asks : Nat, new : Nat, last : Queries, shown : Nat, skewed : BOOLEAN]
      /\ ledger \in Seq(Executions)
  BY DEF ReportInv, ReportTypeOK
<1>2. \A n \in Nat \ {0} : /\ Selected(n) \in Queries /\ Selected(n).page = n
                           /\ [panel EXCEPT !.page = n] =
                                  [panel EXCEPT !.env = panel.env, !.status = panel.status, !.page = Selected(n).page]
  <2>1. SUFFICES ASSUME NEW n \in Nat \ {0}
                 PROVE  /\ Selected(n) \in Queries /\ Selected(n).page = n
                        /\ [panel EXCEPT !.page = n] =
                               [panel EXCEPT !.env = panel.env, !.status = panel.status, !.page = Selected(n).page]
    OBVIOUS
  <2>2. Selected(n) \in Queries /\ Selected(n).page = n
    BY <1>1 DEF Selected, Queries
  <2>3. QED BY <1>1, <2>2
<1>3. \A q, r : q.env = r.env /\ q.status = r.status => Count(q) = Count(r)
  BY DEF Count, WantedOf, Wanted
<1>4. panel.env \in FilterValues /\ panel.status \in FilterValues
  BY <1>1
<1>5. CASE handleApplyFilters
  <2>1. 1 \in Nat \ {0}
    OBVIOUS
  <2>2. /\ panel' = [panel EXCEPT !.env = panel.env, !.status = panel.status, !.page = Selected(1).page]
        /\ Ask(Selected(1), FALSE) /\ UNCHANGED ledger
    BY <1>2, <1>5, <2>1 DEF handleApplyFilters
  <2>3. Reached(Selected(1))
    BY <1>2, <2>1 DEF Reached
  <2>4. Selected(1) \in Queries
    BY <1>2, <2>1
  <2>5. QED BY <1>4, <2>2, <2>3, <2>4, AskKeepsInv
<1>6. CASE handleNextPage
  <2> DEFINE skewed == ~SelectedAs(panel.data.query)
  <2>1. PICK n \in Nat \ {0} : n = panel.page + 1
    BY <1>1
  <2>2. /\ panel' = [panel EXCEPT !.env = panel.env, !.status = panel.status, !.page = Selected(n).page]
        /\ Ask(Selected(n), skewed) /\ UNCHANGED ledger
    BY <1>2, <1>6, <2>1 DEF handleNextPage, TurnTo
  <2>3. ASSUME ~skewed PROVE Reached(Selected(n))
    <3>1. Count(Selected(n)) = Count(panel.data.query)
      BY <1>3, <2>3 DEF SelectedAs, Selected
    <3>2. PICK total \in Nat : total = panel.data.total /\ total <= Count(Selected(n))
      BY <1>1, <3>1 DEF ReportInv, Answers
    <3>3. PICK count \in Nat : count = Count(Selected(n))
      BY <1>1, <1>2, AnswerIsServed
    <3>4. PICK pages \in Int : pages = (total + PageSize - 1) \div PageSize /\ pages = TotalPages
      BY <3>2, PageSizeType DEF TotalPages
    <3>5. n <= (total + PageSize - 1) \div PageSize
      BY <1>1, <1>6, <2>1, <3>4 DEF handleNextPage
    <3>6. (n - 1) * PageSize < total
      BY <3>5, NextIsReached
    <3>7. (n - 1) * PageSize < count
      BY <3>2, <3>3, <3>6, PageSizeType
    <3>8. QED BY <1>2, <3>3, <3>7 DEF Reached
  <2>4. Selected(n) \in Queries /\ skewed \in BOOLEAN
    BY <1>2
  <2> HIDE DEF skewed
  <2>5. QED BY <1>4, <2>2, <2>3, <2>4, AskKeepsInv
<1>7. CASE handlePrevPage
  <2> DEFINE skewed == panel.page # 2 /\ (seen.skewed \/ ~SelectedAs(seen.last))
  <2>1. PICK n \in Nat \ {0} : n = panel.page - 1
    BY <1>1, <1>7 DEF handlePrevPage
  <2>2. /\ panel' = [panel EXCEPT !.env = panel.env, !.status = panel.status, !.page = Selected(n).page]
        /\ Ask(Selected(n), skewed) /\ UNCHANGED ledger
    BY <1>2, <1>7, <2>1 DEF handlePrevPage, TurnTo
  <2>3. ASSUME ~skewed PROVE Reached(Selected(n))
    <3>1. CASE panel.page = 2
      <4>1. n = 1
        BY <2>1, <3>1
      <4>2. QED BY <1>2, <4>1 DEF Reached
    <3>2. CASE panel.page # 2
      <4>1. ~seen.skewed /\ SelectedAs(seen.last)
        BY <2>3, <3>2
      <4>2. Count(Selected(n)) = Count(seen.last)
        BY <1>3, <4>1 DEF SelectedAs, Selected
      <4>3. Reached(seen.last) /\ seen.last.page = n + 1
        BY <1>1, <2>1, <4>1 DEF ReportInv
      <4>4. PICK count \in Nat : count = Count(Selected(n))
        BY <1>1, <1>2, AnswerIsServed
      <4>5. n + 1 # 1 /\ (n + 1) - 1 = n
        OBVIOUS
      <4>6. n * PageSize < count
        <5>1. (seen.last.page - 1) * PageSize < Count(seen.last)
          BY <4>3, <4>5 DEF Reached
        <5>2. seen.last.page - 1 = n
          BY <4>3, <4>5
        <5>3. QED BY <4>2, <4>4, <5>1, <5>2
      <4>7. (n - 1) * PageSize < count
        BY <4>6, PageSizeType
      <4>8. QED BY <1>2, <4>4, <4>7 DEF Reached
    <3>3. QED BY <3>1, <3>2
  <2>4. Selected(n) \in Queries /\ skewed \in BOOLEAN
    BY <1>2
  <2> HIDE DEF skewed
  <2>5. QED BY <1>4, <2>2, <2>3, <2>4, AskKeepsInv
<1>8. QED BY <1>5, <1>6, <1>7

(* The invariant holds in every reachable state, for any ledger, page size and
   number of requests. *)
THEOREM ReportCorrect == ReportSpec => []ReportInv
<1>1. ReportInit => ReportInv
  BY ReportInitInv
<1>2. ReportInv /\ [ReportNext]_reportVars => ReportInv'
  <2>1. SUFFICES ASSUME ReportInv, [ReportNext]_reportVars PROVE ReportInv'
    OBVIOUS
  <2>2. CASE UNCHANGED reportVars
    BY <2>1, <2>2 DEF reportVars, ReportInv, ReportTypeOK, Reached, Count, RequestFits
  <2>3. CASE ReportNext
    BY <2>1, <2>3, SetFilterKeepsInv, TurnKeepsInv, ServeKeepsInv, AnswerKeepsInv, ExecuteKeepsInv
       DEF ReportNext
  <2>4. QED BY <2>1, <2>2, <2>3
<1>3. QED BY <1>1, <1>2, PTL DEF ReportSpec

(* The panel shows what was asked last once its answer is shown, and an empty page
   only of nothing, for any executions, page size and order of the answers. *)
THEOREM HistoryIsHonest == ReportSpec => []HistoryShowsWhatWasAsked
<1>1. ReportInv => HistoryShowsWhatWasAsked
  BY DEF ReportInv, HistoryShowsWhatWasAsked, Fills
<1>2. QED BY <1>1, ReportCorrect, PTL

-----------------------------------------------------------------------------
(* What the badges, the matrix and the score have in common *)

(* The runs of an environment are those kept of the list at their places. *)
LEMMA OfEnvPlaces ==
    ASSUME NEW s \in Seq(Executions), NEW env,
           NEW S, S = {n \in DOMAIN s : s[n].env = env}
    PROVE  /\ S \in SUBSET DOMAIN s
           /\ \A n \in S : n \in DOMAIN s /\ s[n].env = env
           /\ OfEnv(s, env) = Kept(s, S)
  BY DEF OfEnv

(* They are runs of the list, all of that environment. *)
LEMMA OfEnvEntries ==
    ASSUME NEW s \in Seq(Executions), NEW env
    PROVE  /\ OfEnv(s, env) \in Seq(Executions)
           /\ \A k \in 1..Len(OfEnv(s, env)) :
                  \E n \in DOMAIN s : s[n].env = env /\ OfEnv(s, env)[k] = s[n]
<1> DEFINE S == {n \in DOMAIN s : s[n].env = env}
<1>1. S \in SUBSET DOMAIN s /\ \A n \in S : n \in DOMAIN s /\ s[n].env = env
  OBVIOUS
<1>2. OfEnv(s, env) = Kept(s, S)
  BY DEF OfEnv
<1> HIDE DEF S
<1>3. /\ Kept(s, S) \in Seq(Executions) /\ Len(Kept(s, S)) = Cardinality(S)
      /\ \A k \in 1..Cardinality(S) : \E n \in S : Place(n, S) = k /\ Kept(s, S)[k] = s[n]
  BY <1>1, KeptEntries
<1>4. QED BY <1>1, <1>2, <1>3

(* The runs that count are those of the list that passed or failed. *)
LEMMA SignificantEntries ==
    ASSUME NEW s \in Seq(Executions)
    PROVE  /\ Significant(s) \in Seq(Executions) /\ Len(Significant(s)) <= Len(s)
           /\ \A n \in DOMAIN s : s[n].status \in {"Pass", "Fail"} =>
                  \E k \in 1..Len(Significant(s)) : Significant(s)[k] = s[n]
           /\ \A k \in 1..Len(Significant(s)) : \E n \in DOMAIN s :
                  s[n].status \in {"Pass", "Fail"} /\ Significant(s)[k] = s[n]
<1> DEFINE S == {n \in DOMAIN s : s[n].status \in {"Pass", "Fail"}}
<1>1. S \in SUBSET DOMAIN s
      /\ (\A n \in S : n \in DOMAIN s /\ s[n].status \in {"Pass", "Fail"})
      /\ (\A n \in DOMAIN s : s[n].status \in {"Pass", "Fail"} => n \in S)
  OBVIOUS
<1>2. Significant(s) = Kept(s, S)
  BY DEF Significant
<1> HIDE DEF S
<1>3. /\ Kept(s, S) \in Seq(Executions) /\ Len(Kept(s, S)) = Cardinality(S)
      /\ \A n \in S : Place(n, S) \in 1..Cardinality(S) /\ Kept(s, S)[Place(n, S)] = s[n]
      /\ \A k \in 1..Cardinality(S) : \E n \in S : Place(n, S) = k /\ Kept(s, S)[k] = s[n]
  BY <1>1, KeptEntries
<1>4. Cardinality(S) <= Len(s)
  BY <1>1, PlacesFinite
<1>5. QED BY <1>1, <1>2, <1>3, <1>4

(* The first runs of a list are its first entries. *)
LEMMA FirstRunsEntries ==
    ASSUME NEW s \in Seq(Executions), NEW n \in Nat
    PROVE  /\ FirstRuns(s, n) \in Seq(Executions) /\ Len(FirstRuns(s, n)) <= n
           /\ Len(FirstRuns(s, n)) = (IF n < Len(s) THEN n ELSE Len(s))
           /\ Len(FirstRuns(s, n)) \in Nat /\ Len(s) \in Nat
           /\ \A k \in 1..Len(FirstRuns(s, n)) : k \in DOMAIN s /\ FirstRuns(s, n)[k] = s[k]
<1>1. PICK length \in Nat : length = Len(s) /\ DOMAIN s = 1..length
  BY LenProperties
<1>2. PICK few \in Nat : few = (IF n < length THEN n ELSE length) /\ few <= n /\ few <= length
  BY <1>1
<1>3. few \in 0..Len(s) /\ FirstRuns(s, n) = SubSeq(s, 1, few)
  BY <1>1, <1>2 DEF FirstRuns
<1>4. /\ FirstRuns(s, n) \in Seq(Executions) /\ Len(FirstRuns(s, n)) = few
      /\ \A k \in 1..few : FirstRuns(s, n)[k] = s[k]
  BY <1>3, FrontEntries
<1>5. QED BY <1>1, <1>2, <1>4

(* Runs that never alternate from one to the next are all alike. *)
LEMMA TransitionsSeen ==
    ASSUME NEW s \in Seq(Executions)
    PROVE  /\ Transitions(s) \in Nat
           /\ (\E i, j \in 1..Len(s) : s[i].status # s[j].status) => Transitions(s) > 0
           /\ Transitions(s) > 0 =>
                  \E i, j \in 1..Len(s) : i # j /\ s[i].status # s[j].status
<1>1. PICK length \in Nat : length = Len(s)
  BY LenProperties
<1> DEFINE turns == {i \in 2..length : s[i].status # s[i - 1].status}
<1>2. IsFiniteSet(turns) /\ Cardinality(turns) \in Nat
  <2>1. IsFiniteSet(2..length) /\ turns \in SUBSET (2..length)
    BY FS_Interval
  <2>2. QED BY <2>1, FS_Subset, FS_CardinalityType
<1>3. Transitions(s) = Cardinality(turns)
  BY <1>1 DEF Transitions
<1>4. Cardinality(turns) = 0 <=> turns = {}
  <2> HIDE DEF turns
  <2>1. QED BY <1>2, FS_EmptySet
<1>5. ASSUME turns = {}, NEW i \in 1..length PROVE s[i].status = s[1].status
  <2> DEFINE odd == {n \in 1..length : s[n].status # s[1].status}
  <2>1. SUFFICES ASSUME odd # {} PROVE FALSE
    OBVIOUS
  <2>2. odd \in SUBSET Nat
    OBVIOUS
  <2>3. PICK n \in odd : \A m \in odd : n <= m
    <3> HIDE DEF odd
    <3>1. QED BY <2>1, <2>2, Smallest
  <2>4. n \in 1..length /\ n # 1 /\ s[n].status # s[1].status
    BY <2>3
  <2>5. n - 1 \in 1..length /\ n \in 2..length /\ ~(n <= n - 1)
    BY <2>4
  <2>6. s[n - 1].status = s[1].status
    BY <2>3, <2>5
  <2>7. n \in turns
    BY <2>4, <2>5, <2>6
  <2>8. QED BY <1>5, <2>7
<1>6. ASSUME NEW i \in turns
      PROVE  i \in 1..length /\ i - 1 \in 1..length /\ i # i - 1
             /\ s[i].status # s[i - 1].status
  <2>1. i \in 2..length /\ s[i].status # s[i - 1].status
    OBVIOUS
  <2>2. QED BY <2>1
<1> HIDE DEF turns
<1>7. ASSUME NEW i \in 1..length, NEW j \in 1..length, s[i].status # s[j].status
      PROVE  Transitions(s) > 0
  <2>1. turns # {}
    <3>1. SUFFICES ASSUME turns = {} PROVE FALSE
      OBVIOUS
    <3>2. s[i].status = s[1].status /\ s[j].status = s[1].status
      BY <1>5, <3>1
    <3>3. QED BY <1>7, <3>2
  <2>2. QED BY <1>2, <1>3, <1>4, <2>1
<1>8. ASSUME Transitions(s) > 0
      PROVE  \E i, j \in 1..length : i # j /\ s[i].status # s[j].status
  <2>1. turns # {}
    BY <1>2, <1>3, <1>4, <1>8
  <2>2. PICK i \in turns : TRUE
    BY <2>1
  <2>3. QED BY <1>6, <2>2
<1>9. QED BY <1>1, <1>2, <1>3, <1>7, <1>8

(* Of at most 201 runs that count, a single alternation is one percent. *)
LEMMA ScoreShowsTransitions ==
    ASSUME NEW s \in Seq(Executions), Len(s) <= 201
    PROVE  computeFlakinessScore(s) > 0 <=> Transitions(Significant(s)) > 0
<1> DEFINE x == Significant(s)
<1>1. x \in Seq(Executions) /\ Len(x) <= Len(s) /\ Len(s) \in Nat
  BY SignificantEntries, LenProperties
<1>2. PICK l \in Nat : l = Len(x) /\ l <= 201
  BY <1>1, LenProperties
<1>3. PICK t \in Nat : t = Transitions(x)
  BY <1>1, TransitionsSeen
<1>4. computeFlakinessScore(s) = IF l < 2 THEN 0 ELSE (200 * t + l - 1) \div (2 * (l - 1))
  BY <1>2, <1>3 DEF computeFlakinessScore
<1>5. CASE l < 2
  <2>1. ~(t > 0)
    <3>1. \A i, j \in 1..l : i = j
      BY <1>5
    <3> HIDE DEF x
    <3>2. QED BY <1>1, <1>2, <1>3, <3>1, TransitionsSeen
  <2>2. QED BY <1>3, <1>4, <1>5, <2>1
<1>6. CASE ~(l < 2)
  <2>1. PICK d \in Nat : d = 2 * (l - 1) /\ d > 0 /\ d <= 400
    BY <1>2, <1>6
  <2>2. PICK a \in Nat : a = 200 * t + l - 1
    BY <1>6
  <2>3. t = 0 => a < d
    BY <1>6, <2>1, <2>2
  <2>4. t > 0 => a >= d
    BY <1>2, <1>6, <2>1, <2>2
  <2>5. a < d => a \div d = 0
    BY <2>1
  <2>6. a >= d => a \div d > 0
    BY <2>1
  <2>7. computeFlakinessScore(s) = a \div d
    BY <1>4, <1>6, <2>1, <2>2
  <2>8. QED BY <1>3, <2>3, <2>4, <2>5, <2>6, <2>7
<1>7. QED BY <1>5, <1>6

-----------------------------------------------------------------------------
(* The first page shows the first of the executions of the case, as they stand
   among the newest of all. *)
LEMMA ShownRuns ==
    ASSUME ledger \in Seq(Executions), NEW S,
           S = {n \in DOMAIN Newest(ledger) : Newest(ledger)[n].case = Here}
    PROVE  /\ Newest(ledger) \in Seq(Executions) /\ S \in SUBSET DOMAIN Newest(ledger)
           /\ Matches(FirstPage) = Kept(Newest(ledger), S)
           /\ Matches(FirstPage) \in Seq(Executions)
           /\ listExecutions(FirstPage).items = FirstRuns(Matches(FirstPage), PageSize)
<1> DEFINE N == Newest(ledger)
           M == Matches(FirstPage)
<1>1. N \in Seq(Executions) /\ S \in SUBSET DOMAIN N
  BY NewestIsMirror
<1>2. {n \in DOMAIN N : Wanted(N[n], FirstPage)} = S
  BY DEF Wanted, FirstPage
<1>3. M = Kept(N, S)
  <2> HIDE DEF N
  <2>1. Matches(FirstPage) = Kept(N, {n \in DOMAIN N : Wanted(N[n], FirstPage)})
    BY DEF Matches, N
  <2>2. QED BY <1>2, <2>1
<1>4. M \in Seq(Executions)
  <2> HIDE DEF N, M
  <2>1. QED BY <1>1, <1>3, KeptEntries
<1>5. PageOf(M, 1) = FirstRuns(M, PageSize)
  <2>1. (1 - 1) * PageSize + 1 = 1 /\ 1 * PageSize = PageSize
    BY PageSizeType
  <2> HIDE DEF M
  <2>2. QED BY <2>1 DEF PageOf, FirstRuns
<1>6. QED BY <1>1, <1>3, <1>4, <1>5 DEF listExecutions, FirstPage

(* The newest run of an environment on the first page is the newest of the case
   in that environment. *)
LEMMA LatestShown ==
    ASSUME ledger \in Seq(Executions), panel.data = listExecutions(FirstPage),
           NEW env, OfEnv(panel.data.items, env) # << >>
    PROVE  \E p \in DOMAIN Newest(ledger) :
               /\ Newest(ledger)[p].case = Here /\ Newest(ledger)[p].env = env
               /\ \A n \in DOMAIN Newest(ledger) :
                      Newest(ledger)[n].case = Here /\ Newest(ledger)[n].env = env => p <= n
               /\ latestByEnv(env) = Newest(ledger)[p].status
<1> DEFINE S == {n \in DOMAIN Newest(ledger) : Newest(ledger)[n].case = Here}
           H == {n \in DOMAIN panel.data.items : panel.data.items[n].env = env}
<1>1. PICK N \in Seq(Executions), M \in Seq(Executions), page \in Seq(Executions) :
          /\ N = Newest(ledger) /\ M = Kept(N, S) /\ page = FirstRuns(M, PageSize)
          /\ page = panel.data.items /\ S \in SUBSET DOMAIN N
  <2>1. FirstRuns(Matches(FirstPage), PageSize) \in Seq(Executions)
    BY ShownRuns, FirstRunsEntries, PageSizeType
  <2>2. QED BY <2>1, ShownRuns
<1>2. PICK few \in Nat : /\ few = Len(page) /\ DOMAIN page = 1..few
                         /\ \A k \in 1..few : k \in DOMAIN M /\ page[k] = M[k]
  <2>1. PICK few \in Nat : few = Len(page) /\ DOMAIN page = 1..few
    BY LenProperties
  <2>2. \A k \in 1..Len(FirstRuns(M, PageSize)) :
            k \in DOMAIN M /\ FirstRuns(M, PageSize)[k] = M[k]
    BY FirstRunsEntries, PageSizeType
  <2>3. QED BY <1>1, <2>1, <2>2
<1>3. H \in SUBSET DOMAIN page /\ OfEnv(page, env) = Kept(page, H)
  <2>1. H = {n \in DOMAIN page : page[n].env = env}
    BY <1>1
  <2> HIDE DEF H
  <2>2. QED BY <2>1, OfEnvPlaces
<1>4. H \in SUBSET Nat /\ H # {}
  <2>1. H \in SUBSET Nat
    BY <1>2, <1>3
  <2>2. ASSUME H = {} PROVE FALSE
    <3> HIDE DEF H
    <3>1. Kept(page, H) \in Seq(Executions) /\ Len(Kept(page, H)) = 0
      BY <1>3, <2>2, KeptEntries, FS_EmptySet
    <3>2. QED BY <1>1, <1>3, <3>1, EmptySeq
  <2>3. QED BY <2>1, <2>2
<1>5. PICK j \in H : \A k \in H : j <= k
  <2> HIDE DEF H
  <2>1. QED BY <1>4, Smallest
<1>6. j \in 1..few /\ page[j].env = env /\ page[j] = M[j]
  BY <1>1, <1>2, <1>3
<1>7. latestByEnv(env) = page[j].status
  <2> HIDE DEF H
  <2>1. Place(j, H) = 1
    BY <1>4, <1>5, PlaceOfLeast
  <2>2. Kept(page, H) \in Seq(Executions) /\ Kept(page, H)[1] = page[j]
    BY <1>3, <1>5, <2>1, KeptEntries
  <2>3. Head(Kept(page, H)) = Kept(page, H)[1]
    BY <1>1, <1>3, <2>2, HeadTailProperties
  <2>4. QED BY <1>1, <1>3, <2>2, <2>3 DEF latestByEnv
<1> HIDE DEF S
<1>8. PICK p \in S : Place(p, S) = j /\ M[j] = N[p]
  <2>1. j \in DOMAIN M
    BY <1>2, <1>6
  <2>2. DOMAIN M = 1..Cardinality(S)
    BY <1>1, KeptEntries, LenProperties
  <2>3. QED BY <1>1, <2>1, <2>2, KeptEntries
<1>9. ASSUME NEW n \in S, N[n].env = env PROVE p <= n
  <2>1. S \in SUBSET Nat /\ IsFiniteSet(S) /\ n \in Nat /\ p \in Nat
    BY <1>1, PlacesFinite
  <2>2. SUFFICES ASSUME n < p PROVE FALSE
    BY <2>1
  <2>3. PICK k \in Nat : k = Place(n, S) /\ k >= 1 /\ k < j /\ M[k] = N[n]
    <3>1. Place(n, S) < Place(p, S)
      BY <2>1, <2>2, PlaceGrows
    <3>2. Place(n, S) \in 1..Cardinality(S) /\ M[Place(n, S)] = N[n] /\ Cardinality(S) \in Nat
      BY <1>1, KeptEntries
    <3>3. QED BY <1>8, <3>1, <3>2
  <2>4. k \in 1..few /\ ~(j <= k)
    BY <1>6, <2>3
  <2>5. k \in H
    BY <1>1, <1>2, <1>9, <2>3, <2>4
  <2>6. QED BY <1>5, <2>4, <2>5
<1>10. QED BY <1>1, <1>6, <1>7, <1>8, <1>9 DEF S

(* The matrix of an environment has the newest of the case in it. *)
LEMMA CellShowsNewest ==
    ASSUME ledger \in Seq(Executions), NEW env \in Environments,
           NEW l \in Links, l[2] = Here,
           NEW p \in DOMAIN Newest(ledger),
           Newest(ledger)[p].case = Here, Newest(ledger)[p].env = env,
           \A n \in DOMAIN Newest(ledger) :
               Newest(ledger)[n].case = Here /\ Newest(ledger)[n].env = env => p <= n
    PROVE  buildCoverageMatrix(env)[l[1]][Here].status = Newest(ledger)[p].status
<1> DEFINE F == {n \in DOMAIN Newest(ledger) : env \in {All, Newest(ledger)[n].env}}
           filtered == Kept(Newest(ledger), F)
           ofCase == {n \in DOMAIN filtered : filtered[n].case = Here}
           ofHere == {r \in Executions : r.case = Here}
<1>1. PICK N \in Seq(Executions) : N = Newest(ledger)
  BY NewestIsMirror
<1>2. env # All
  BY ReportAssumption
<1>3. F \in SUBSET DOMAIN N /\ p \in F /\ \A n \in F : n \in DOMAIN N /\ N[n].env = env
  BY <1>1, <1>2
<1>4. \A n \in DOMAIN N : N[n] \in Executions
  BY LenProperties, ElementOfSeq
<1>5. /\ N[p] \in ofHere
      /\ \A n \in F : N[n] \in ofHere => p <= n
  BY <1>1, <1>3, <1>4
<1> HIDE DEF F, ofHere
<1>6. PICK size \in Nat, at \in Nat :
          /\ at \in 1..size /\ size = Cardinality(F) /\ at = Place(p, F) /\ filtered[at] = N[p]
          /\ \A k \in 1..size : filtered[k] \in ofHere => at <= k
  <2>1. Cardinality(F) \in Nat
    BY <1>3, PlacesFinite
  <2>2. QED BY <1>1, <1>3, <1>5, <2>1, FirstOfKept
<1>7. filtered \in Seq(Executions) /\ DOMAIN filtered = 1..size
  BY <1>1, <1>3, <1>6, KeptEntries, LenProperties
<1>8. at \in ofCase /\ \A k \in ofCase : at <= k
  <2> HIDE DEF filtered
  <2>1. \A k \in 1..size : filtered[k] \in Executions
    BY <1>7, ElementOfSeq, LenProperties
  <2>2. \A k \in ofCase : k \in 1..size /\ filtered[k] \in ofHere
    BY <1>7, <2>1 DEF ofHere
  <2>3. at \in ofCase
    BY <1>1, <1>6, <1>7
  <2>4. QED BY <1>6, <2>2, <2>3
<1>9. Min(ofCase) = at
  <2>1. ofCase \in SUBSET Nat
    BY <1>7
  <2> HIDE DEF ofCase
  <2>2. \A x \in ofCase : (\A y \in ofCase : x <= y) => x = at
    <3>1. SUFFICES ASSUME NEW x \in ofCase, \A y \in ofCase : x <= y PROVE x = at
      OBVIOUS
    <3>2. x <= at /\ at <= x /\ x \in Nat /\ at \in Nat
      BY <1>8, <2>1, <3>1
    <3>3. QED BY <3>2
  <2>3. QED BY <1>8, <2>2 DEF Min
<1>10. << l[1], Here >> \in Links
  BY LinkAssumption
<1>11. buildCoverageMatrix(env)[l[1]][Here].status =
           IF ofCase = {} THEN NoStatus ELSE filtered[Min(ofCase)].status
  <2>1. Here \in {t \in Columns : \E k \in Links : k[2] = t}
    BY ReportAssumption
  <2>2. l[1] \in {k[1] : k \in Links}
    OBVIOUS
  <2>3. QED BY <1>10, <2>1, <2>2 DEF buildCoverageMatrix, F
<1>12. QED BY <1>1, <1>6, <1>8, <1>9, <1>11

-----------------------------------------------------------------------------
(* The runs a badge is about are runs of the list. *)
LEMMA RunsOfBadge ==
    ASSUME NEW s \in Seq(Executions), NEW env, NEW x,
           x = Significant(FirstRuns(OfEnv(s, env), Window))
    PROVE  /\ x \in Seq(Executions)
           /\ \A k \in 1..Len(x) : \E m \in DOMAIN s :
                  s[m].env = env /\ s[m].status \in {"Pass", "Fail"} /\ x[k] = s[m]
<1>1. PICK o \in Seq(Executions) : o = OfEnv(s, env)
  BY OfEnvEntries
<1>2. Window \in Nat
  BY ReportAssumption
<1>3. PICK w \in Seq(Executions) :
          w = FirstRuns(o, Window) /\ \A k \in 1..Len(w) : k \in DOMAIN o /\ w[k] = o[k]
  BY <1>2, FirstRunsEntries
<1>4. x = Significant(w)
  BY <1>1, <1>3
<1>5. ASSUME NEW k \in 1..Len(x)
      PROVE  \E m \in DOMAIN s :
                 s[m].env = env /\ s[m].status \in {"Pass", "Fail"} /\ x[k] = s[m]
  <2>1. PICK n \in DOMAIN w : w[n].status \in {"Pass", "Fail"} /\ x[k] = w[n]
    BY <1>4, <1>5, SignificantEntries
  <2>2. n \in DOMAIN o /\ w[n] = o[n]
    BY <1>3, LenProperties
  <2>3. PICK m \in DOMAIN s : s[m].env = env /\ o[n] = s[m]
    <3>1. n \in 1..Len(OfEnv(s, env))
      BY <1>1, <2>2, LenProperties
    <3>2. PICK m \in DOMAIN s : s[m].env = env /\ OfEnv(s, env)[n] = s[m]
      BY <3>1, OfEnvEntries
    <3>3. QED BY <1>1, <3>2
  <2>4. QED BY <2>1, <2>2, <2>3
<1>6. QED BY <1>4, <1>5, SignificantEntries

(* An environment with alternating runs is one of the list. *)
LEMMA BadgeMeansTurns ==
    ASSUME NEW s \in Seq(Executions), NEW env
    PROVE  env \in computeFlaky(s) <=>
               Transitions(Significant(FirstRuns(OfEnv(s, env), Window))) > 0
<1> DEFINE x == Significant(FirstRuns(OfEnv(s, env), Window))
<1>1. ASSUME Transitions(x) > 0 PROVE env \in {r.env : r \in ToSet(s)}
  <2>1. x \in Seq(Executions)
    BY RunsOfBadge
  <2> HIDE DEF x
  <2>2. PICK k \in 1..Len(x) : TRUE
    BY <1>1, <2>1, TransitionsSeen
  <2>3. PICK m \in DOMAIN s : s[m].env = env
    BY <2>2, RunsOfBadge DEF x
  <2>4. s[m] \in ToSet(s)
    BY DEF ToSet
  <2>5. QED BY <2>3, <2>4
<1>2. QED BY <1>1 DEF computeFlaky

(* What the page holds of an environment is the front of all there is of it. *)
LEMMA HeldIsFront ==
    ASSUME NEW s \in Seq(Executions), NEW n \in Nat, NEW env
    PROVE  /\ OfEnv(FirstRuns(s, n), env) \in Seq(Executions)
           /\ OfEnv(s, env) \in Seq(Executions)
           /\ Len(OfEnv(FirstRuns(s, n), env)) <= Len(OfEnv(s, env))
           /\ \A k \in 1..Len(OfEnv(FirstRuns(s, n), env)) :
                  OfEnv(FirstRuns(s, n), env)[k] = OfEnv(s, env)[k]
<1> DEFINE held == OfEnv(FirstRuns(s, n), env)
           every == OfEnv(s, env)
<1> DEFINE S == {i \in DOMAIN s : s[i].env = env}
<1>1. PICK length \in Nat : length = Len(s) /\ DOMAIN s = 1..length
  BY LenProperties
<1>2. PICK few \in Nat : few = (IF n < length THEN n ELSE length) /\ few <= length
  BY <1>1
<1>3. FirstRuns(s, n) = SubSeq(s, 1, few) /\ few \in 0..Len(s)
  BY <1>1, <1>2 DEF FirstRuns
<1> DEFINE front == SubSeq(s, 1, few)
           F == {i \in S : i <= few}
<1>4. front \in Seq(Executions) /\ DOMAIN front = 1..few /\ \A i \in 1..few : front[i] = s[i]
  BY <1>3, FrontEntries
<1>5. {i \in DOMAIN front : front[i].env = env} = F
  <2> HIDE DEF front
  <2>1. \A i \in DOMAIN s : i <= few <=> i \in 1..few
    BY <1>1
  <2>2. \A i \in 1..few : i \in DOMAIN s
    BY <1>1, <1>2
  <2>3. QED BY <1>4, <2>1, <2>2
<1>6. held = Kept(front, F) /\ every = Kept(s, S)
  <2> HIDE DEF front
  <2>1. OfEnv(front, env) = Kept(front, {i \in DOMAIN front : front[i].env = env})
    BY DEF OfEnv
  <2>2. OfEnv(s, env) = Kept(s, S)
    BY DEF OfEnv
  <2>3. QED BY <1>3, <1>5, <2>1, <2>2 DEF front
<1>7. S \in SUBSET DOMAIN s
  OBVIOUS
<1> HIDE DEF S, front, held, every
<1>8. F \in SUBSET S /\ F \in SUBSET DOMAIN front /\ \A i \in S : i \in F <=> i <= few
  <2>1. \A i \in DOMAIN s : i <= few => i \in 1..few
    BY <1>1
  <2>2. QED BY <1>4, <1>7, <2>1
<1> HIDE DEF F
<1>9. \A k \in 1..Cardinality(F) : Kept(front, F)[k] = Kept(s, S)[k]
  <2>1. Len(front) = few
    BY <1>4, LenProperties
  <2>2. QED BY <1>3, <1>4, <1>7, <1>8, <2>1, KeptOfFront
<1>10. held \in Seq(Executions) /\ Len(held) = Cardinality(F)
  BY <1>4, <1>6, <1>8, KeptEntries
<1>11. every \in Seq(Executions) /\ Len(every) = Cardinality(S)
  BY <1>6, <1>7, KeptEntries
<1>12. Cardinality(F) <= Cardinality(S)
  BY <1>7, <1>8, PlacesFinite, FS_Subset
<1>13. QED BY <1>6, <1>9, <1>10, <1>11, <1>12 DEF held, every

(* A page with enough runs of an environment holds all that its badge is about. *)
LEMMA WindowOnPage ==
    ASSUME NEW s \in Seq(Executions), NEW n \in Nat, NEW env,
           NEW held, held = OfEnv(FirstRuns(s, n), env),
           NEW every, every = OfEnv(s, env),
           held = every \/ Len(held) >= Window
    PROVE  FirstRuns(held, Window) = FirstRuns(every, Window)
<1>1. /\ held \in Seq(Executions) /\ every \in Seq(Executions)
      /\ Len(held) <= Len(every)
      /\ \A k \in 1..Len(held) : held[k] = every[k]
  BY HeldIsFront
<1>2. Window \in Nat
  BY ReportAssumption
<1>3. CASE Len(held) >= Window
  <2> DEFINE u == FirstRuns(held, Window)
             v == FirstRuns(every, Window)
  <2>1. PICK h \in Nat, e \in Nat : h = Len(held) /\ e = Len(every) /\ Window <= h /\ h <= e
    BY <1>1, <1>3, LenProperties
  <2>2. /\ u \in Seq(Executions) /\ Len(u) = Window
        /\ \A k \in 1..Window : u[k] = held[k]
    <3>1. (IF Window < h THEN Window ELSE h) = Window
      BY <1>2, <2>1
    <3>2. /\ u \in Seq(Executions) /\ Len(u) = (IF Window < Len(held) THEN Window ELSE Len(held))
          /\ \A k \in 1..Len(u) : u[k] = held[k]
      BY <1>1, <1>2, FirstRunsEntries
    <3> HIDE DEF u
    <3>3. QED BY <2>1, <3>1, <3>2
  <2>3. /\ v \in Seq(Executions) /\ Len(v) = Window
        /\ \A k \in 1..Window : v[k] = every[k]
    <3>1. (IF Window < e THEN Window ELSE e) = Window
      BY <1>2, <2>1
    <3>2. /\ v \in Seq(Executions) /\ Len(v) = (IF Window < Len(every) THEN Window ELSE Len(every))
          /\ \A k \in 1..Len(v) : v[k] = every[k]
      BY <1>1, <1>2, FirstRunsEntries
    <3> HIDE DEF v
    <3>3. QED BY <2>1, <3>1, <3>2
  <2> HIDE DEF u, v
  <2>4. \A k \in 1..Window : k \in 1..Len(held)
    BY <1>2, <2>1
  <2>5. \A k \in 1..Len(u) : u[k] = v[k]
    BY <1>1, <2>2, <2>3, <2>4
  <2>6. u = v
    BY <2>2, <2>3, <2>5, SeqEqual
  <2>7. QED BY <2>6 DEF u, v
<1>4. QED BY <1>3

(* The badge of an environment with enough runs on the page tells what a score
   of its newest runs tells. *)
LEMMA BadgeIsScore ==
    ASSUME NEW s \in Seq(Executions), NEW n \in Nat, NEW env,
           NEW held, held = OfEnv(FirstRuns(s, n), env),
           NEW every, every = OfEnv(s, env),
           held = every \/ Len(held) >= Window
    PROVE  env \in computeFlaky(FirstRuns(s, n)) <=>
               computeFlakinessScore(FirstRuns(every, Window)) > 0
<1>1. FirstRuns(s, n) \in Seq(Executions)
  BY FirstRunsEntries
<1>2. every \in Seq(Executions)
  BY OfEnvEntries
<1>3. Window \in Nat /\ Window <= 201
  BY ReportAssumption
<1>4. PICK w \in Seq(Executions) : w = FirstRuns(every, Window) /\ Len(w) <= 201
  <2>1. FirstRuns(every, Window) \in Seq(Executions)
        /\ Len(FirstRuns(every, Window)) \in Nat /\ Len(FirstRuns(every, Window)) <= Window
    BY <1>2, <1>3, FirstRunsEntries
  <2>2. Len(FirstRuns(every, Window)) <= 201
    BY <1>3, <2>1
  <2>3. QED BY <2>1, <2>2
<1>5. computeFlakinessScore(w) > 0 <=> Transitions(Significant(w)) > 0
  BY <1>4, ScoreShowsTransitions
<1>6. FirstRuns(held, Window) = w
  BY <1>4, WindowOnPage
<1>7. env \in computeFlaky(FirstRuns(s, n)) <=>
          Transitions(Significant(FirstRuns(held, Window))) > 0
  BY <1>1, BadgeMeansTurns
<1>8. QED BY <1>4, <1>5, <1>6, <1>7

(* What a page shows to alternate, the runs a score is about show as well. *)
LEMMA BadgeHasScore ==
    ASSUME NEW s \in Seq(Executions), NEW env, env \in computeFlaky(FirstRuns(s, PageSize))
    PROVE  computeFlakinessScore(FirstRuns(s, RunLimit)) > 0
<1>1. /\ PageSize \in Nat /\ RunLimit \in Nat /\ PageSize <= RunLimit /\ RunLimit <= 201
  BY ReportAssumption
<1>2. PICK page \in Seq(Executions), few \in Nat, length \in Nat :
          /\ page = FirstRuns(s, PageSize) /\ length = Len(s)
          /\ few = (IF PageSize < length THEN PageSize ELSE length) /\ DOMAIN page = 1..few
          /\ \A k \in 1..few : page[k] = s[k]
  <2>1. PICK length \in Nat : length = Len(s)
    BY LenProperties
  <2>2. PICK few \in Nat : few = (IF PageSize < length THEN PageSize ELSE length)
    BY <1>1
  <2>3. PICK page \in Seq(Executions) :
            page = FirstRuns(s, PageSize) /\ Len(page) = few
            /\ \A k \in 1..few : page[k] = s[k]
    BY <1>1, <2>1, <2>2, FirstRunsEntries
  <2>4. QED BY <2>1, <2>2, <2>3, LenProperties
<1>3. PICK runs \in Seq(Executions), more \in Nat :
          /\ runs = FirstRuns(s, RunLimit) /\ more = Len(runs) /\ DOMAIN runs = 1..more
          /\ more = (IF RunLimit < length THEN RunLimit ELSE length)
          /\ \A k \in 1..more : runs[k] = s[k]
  <2>1. PICK more \in Nat : more = (IF RunLimit < length THEN RunLimit ELSE length)
    BY <1>1
  <2>2. PICK runs \in Seq(Executions) :
            runs = FirstRuns(s, RunLimit) /\ Len(runs) = more
            /\ \A k \in 1..more : runs[k] = s[k]
    BY <1>1, <1>2, <2>1, FirstRunsEntries
  <2>3. QED BY <2>1, <2>2, LenProperties
<1>4. \A k \in DOMAIN page : k \in DOMAIN runs /\ runs[k] = page[k]
  <2>1. \A k \in 1..few : k \in 1..more
    BY <1>1, <1>2, <1>3
  <2>2. QED BY <1>2, <1>3, <2>1
<1> DEFINE x == Significant(FirstRuns(OfEnv(page, env), Window))
           y == Significant(runs)
<1>5. x \in Seq(Executions) /\ y \in Seq(Executions)
  BY RunsOfBadge, SignificantEntries
<1>6. Transitions(x) > 0
  BY <1>2, BadgeMeansTurns
<1>7. \A k \in 1..Len(x) : \E n \in 1..Len(y) : y[n] = x[k]
  <2>1. SUFFICES ASSUME NEW k \in 1..Len(x) PROVE \E n \in 1..Len(y) : y[n] = x[k]
    OBVIOUS
  <2>2. PICK m \in DOMAIN page : page[m].status \in {"Pass", "Fail"} /\ x[k] = page[m]
    BY <2>1, RunsOfBadge
  <2>3. m \in DOMAIN runs /\ runs[m] = page[m]
    BY <1>4
  <2>4. PICK n \in 1..Len(Significant(runs)) : Significant(runs)[n] = runs[m]
    BY <2>2, <2>3, SignificantEntries
  <2>5. QED BY <2>2, <2>3, <2>4
<1> HIDE DEF x, y
<1>8. PICK i \in 1..Len(x), j \in 1..Len(x) : x[i].status # x[j].status
  BY <1>5, <1>6, TransitionsSeen
<1>9. PICK m \in 1..Len(y), n \in 1..Len(y) : y[m] = x[i] /\ y[n] = x[j]
  BY <1>7
<1>10. Transitions(y) > 0
  BY <1>5, <1>8, <1>9, TransitionsSeen
<1>11. Len(runs) <= 201
  BY <1>1, <1>3
<1>12. QED BY <1>3, <1>10, <1>11, ScoreShowsTransitions DEF y

(* The panel, the matrix and the detector's report never contradict each other
   on a first page that is up to date, however many executions there are. *)
THEOREM ReportsAreConsistent == ReportSpec => []ReportsAgree
<1>1. ReportInv => ReportsAgree
  <2>1. SUFFICES ASSUME ReportInv, panel.data = listExecutions(FirstPage),
                        NEW env \in Environments
                 PROVE  LET every == OfEnv(Matches(FirstPage), env)
                            held == OfEnv(panel.data.items, env)
                        IN  /\ held # << >> =>
                                   \A l \in Links : l[2] = Here =>
                                       buildCoverageMatrix(env)[l[1]][Here].status = latestByEnv(env)
                            /\ held = every \/ Len(held) >= Window =>
                                   (env \in flakyEnvs <=>
                                        computeFlakinessScore(FirstRuns(every, Window)) > 0)
                            /\ env \in flakyEnvs =>
                                   computeFlakinessScore(FirstRuns(Matches(FirstPage), RunLimit)) > 0
    BY DEF ReportsAgree
  <2> DEFINE every == OfEnv(Matches(FirstPage), env)
             held == OfEnv(panel.data.items, env)
  <2>2. ledger \in Seq(Executions)
    BY <2>1 DEF ReportInv, ReportTypeOK
  <2>3. PICK M \in Seq(Executions) :
            M = Matches(FirstPage) /\ panel.data.items = FirstRuns(M, PageSize)
    BY <2>1, <2>2, ShownRuns
  <2>4. ASSUME held # << >>, NEW l \in Links, l[2] = Here
        PROVE  buildCoverageMatrix(env)[l[1]][Here].status = latestByEnv(env)
    BY <2>1, <2>2, <2>4, LatestShown, CellShowsNewest
  <2>5. ASSUME held = every \/ Len(held) >= Window
        PROVE  env \in flakyEnvs <=> computeFlakinessScore(FirstRuns(every, Window)) > 0
    BY <2>3, <2>5, BadgeIsScore, PageSizeType DEF flakyEnvs
  <2>6. ASSUME env \in flakyEnvs
        PROVE  computeFlakinessScore(FirstRuns(Matches(FirstPage), RunLimit)) > 0
    BY <2>3, <2>6, BadgeHasScore DEF flakyEnvs
  <2>7. QED BY <2>4, <2>5, <2>6
<1>2. QED BY <1>1, ReportCorrect, PTL

-----------------------------------------------------------------------------
(* The steps editor.  Of the suggestions among the rows the invariant says that
   they were asked for by a dialog before the open one, which is why those the
   drawer holds are none of them. *)

StepRows == {Blank} \cup ({"stored", "typed"} \X Nat) \cup ({"suggested"} \X Nat \X Nat)
Dialogs == [open : BOOLEAN, nr : Nat, phase : {"select", "generating", "preview"},
            suggestions : Seq(StepRows)]

StepTypeOK ==
    /\ rows \in Seq(StepRows)
    /\ dialog \in Dialogs
    /\ pendingSteps \in [open : BOOLEAN, steps : Seq(StepRows)]
    /\ asking \in [calls : SUBSET Nat, dialogs : Nat, generations : Nat, changes : Nat]

(* The text was asked for by this dialog, or by one of those up to it. *)
AskedBy(t, nr) == t = Blank \/ (t[1] = "suggested" /\ t[2] = nr)
AskedUpTo(t, nr) == t[1] = "suggested" => t[2] <= nr
Earlier == IF dialog.open \/ pendingSteps.open THEN asking.dialogs - 1 ELSE asking.dialogs

StepInv ==
    /\ StepTypeOK
    /\ (dialog.open \/ pendingSteps.open) => asking.dialogs > 0
    /\ dialog.open => dialog.nr = asking.dialogs /\ ~pendingSteps.open
    /\ \A t \in ToSet(rows) : AskedUpTo(t, Earlier)
    /\ \A t \in ToSet(dialog.suggestions) : AskedBy(t, dialog.nr)
    /\ \A t \in ToSet(pendingSteps.steps) : t # Blank /\ AskedBy(t, asking.dialogs)
    /\ ~pendingSteps.open => pendingSteps.steps = << >>

-----------------------------------------------------------------------------
(* What is in a list after one entry more, one changed, one less, two swapped,
   or a list more behind it. *)
LEMMA TextsOfLists ==
    ASSUME NEW s \in Seq(StepRows)
    PROVE  /\ \A x \in StepRows : /\ Append(s, x) \in Seq(StepRows)
                                 /\ ToSet(Append(s, x)) = ToSet(s) \cup {x}
           /\ \A u \in Seq(StepRows) : /\ s \o u \in Seq(StepRows)
                                      /\ ToSet(s \o u) = ToSet(s) \cup ToSet(u)
<1>1. PICK l \in Nat : l = Len(s) /\ DOMAIN s = 1..l
  BY LenProperties
<1>2. ASSUME NEW x \in StepRows
      PROVE  Append(s, x) \in Seq(StepRows) /\ ToSet(Append(s, x)) = ToSet(s) \cup {x}
  <2>1. /\ Append(s, x) \in Seq(StepRows) /\ Len(Append(s, x)) = l + 1
        /\ Append(s, x)[l + 1] = x /\ \A i \in 1..l : Append(s, x)[i] = s[i]
    BY <1>1, AppendProperties
  <2>2. DOMAIN Append(s, x) = 1..(l + 1)
    BY <2>1, LenProperties
  <2>3. \A i \in 1..(l + 1) : i \in 1..l \/ i = l + 1
    OBVIOUS
  <2>4. \A i \in 1..l : i \in 1..(l + 1)
    OBVIOUS
  <2>5. l + 1 \in 1..(l + 1)
    OBVIOUS
  <2>6. QED BY <1>1, <2>1, <2>2, <2>3, <2>4, <2>5 DEF ToSet
<1>3. ASSUME NEW u \in Seq(StepRows)
      PROVE  s \o u \in Seq(StepRows) /\ ToSet(s \o u) = ToSet(s) \cup ToSet(u)
  <2>1. PICK m \in Nat : m = Len(u) /\ DOMAIN u = 1..m
    BY LenProperties
  <2> DEFINE c == s \o u
  <2>2. /\ c \in Seq(StepRows) /\ Len(c) = l + m
        /\ \A i \in 1..(l + m) : c[i] = IF i <= l THEN s[i] ELSE u[i - l]
    BY <1>1, <2>1, ConcatProperties
  <2> HIDE DEF c
  <2>3. DOMAIN c = 1..(l + m)
    BY <2>2, LenProperties
  <2>4. ASSUME NEW i \in 1..l PROVE i \in DOMAIN c /\ c[i] = s[i]
    BY <2>2, <2>3
  <2>5. ASSUME NEW i \in 1..m PROVE l + i \in DOMAIN c /\ c[l + i] = u[i]
    <3>1. l + i \in 1..(l + m) /\ ~(l + i <= l) /\ (l + i) - l = i
      OBVIOUS
    <3>2. QED BY <2>2, <2>3, <3>1
  <2>6. ASSUME NEW i \in DOMAIN c
        PROVE  (\E k \in 1..l : c[i] = s[k]) \/ (\E k \in 1..m : c[i] = u[k])
    <3>1. CASE i <= l
      BY <2>2, <2>3, <3>1
    <3>2. CASE ~(i <= l)
      <4>1. i - l \in 1..m
        BY <2>3, <3>2
      <4>2. QED BY <2>2, <2>3, <3>2, <4>1
    <3>3. QED BY <3>1, <3>2
  <2>7. ToSet(c) \subseteq ToSet(s) \cup ToSet(u)
    BY <1>1, <2>1, <2>6 DEF ToSet
  <2>8. ToSet(c) = ToSet(s) \cup ToSet(u)
    <3>1. ToSet(s) \subseteq ToSet(c)
      BY <1>1, <2>4 DEF ToSet
    <3>2. ToSet(u) \subseteq ToSet(c)
      BY <2>1, <2>5 DEF ToSet
    <3>3. QED BY <2>7, <3>1, <3>2
  <2>9. QED BY <2>2, <2>8 DEF c
<1>4. QED BY <1>2, <1>3

(* An edit of the rows loses one text at most, and brings in one. *)
LEMMA TextsOfEdits ==
    ASSUME NEW s \in Seq(StepRows), NEW i \in DOMAIN s, NEW x \in StepRows
    PROVE  /\ [s EXCEPT ![i] = x] \in Seq(StepRows)
           /\ ToSet([s EXCEPT ![i] = x]) \subseteq ToSet(s) \cup {x}
           /\ ToSet(s) \subseteq ToSet([s EXCEPT ![i] = x]) \cup {s[i]}
           /\ RemoveAt(s, i) \in Seq(StepRows)
           /\ ToSet(RemoveAt(s, i)) \subseteq ToSet(s)
           /\ ToSet(s) \subseteq ToSet(RemoveAt(s, i)) \cup {s[i]}
<1>1. PICK l \in Nat : l = Len(s) /\ DOMAIN s = 1..l
  BY LenProperties
<1>2. [s EXCEPT ![i] = x] \in Seq(StepRows)
  BY ExceptSeq
<1>3. ToSet([s EXCEPT ![i] = x]) \subseteq ToSet(s) \cup {x}
  BY DEF ToSet
<1>4. ToSet(s) \subseteq ToSet([s EXCEPT ![i] = x]) \cup {s[i]}
  BY DEF ToSet
<1>5. /\ RemoveAt(s, i) \in Seq(StepRows)
      /\ \A j \in DOMAIN RemoveAt(s, i) : \E k \in DOMAIN s : RemoveAt(s, i)[j] = s[k]
      /\ \A k \in DOMAIN s : k = i \/ \E j \in DOMAIN RemoveAt(s, i) : RemoveAt(s, i)[j] = s[k]
  <2>1. i \in 1..Len(s)
    BY <1>1
  <2>2. QED BY <2>1, LeftFromList
<1>6. ToSet(RemoveAt(s, i)) \subseteq ToSet(s) /\ ToSet(s) \subseteq ToSet(RemoveAt(s, i)) \cup {s[i]}
  <2>1. PICK left : left = RemoveAt(s, i)
    OBVIOUS
  <2>2. /\ \A j \in DOMAIN left : \E k \in DOMAIN s : left[j] = s[k]
        /\ \A k \in DOMAIN s : k = i \/ \E j \in DOMAIN left : left[j] = s[k]
    BY <1>5, <2>1
  <2>3. ToSet(left) \subseteq ToSet(s)
    BY <2>2 DEF ToSet
  <2>4. ToSet(s) \subseteq ToSet(left) \cup {s[i]}
    BY <2>2 DEF ToSet
  <2>5. QED BY <2>1, <2>3, <2>4
<1>7. QED BY <1>2, <1>3, <1>4, <1>5, <1>6

(* Two neighbours swapped are the same rows. *)
LEMMA TextsOfSwap ==
    ASSUME NEW s \in Seq(StepRows), NEW i \in DOMAIN s, NEW j \in DOMAIN s, i # j
    PROVE  /\ [s EXCEPT ![i] = s[j], ![j] = s[i]] \in Seq(StepRows)
           /\ ToSet([s EXCEPT ![i] = s[j], ![j] = s[i]]) = ToSet(s)
<1> DEFINE u == [s EXCEPT ![i] = s[j], ![j] = s[i]]
<1>1. s[i] \in StepRows /\ s[j] \in StepRows
  BY ElementOfSeq, LenProperties
<1>2. u \in Seq(StepRows)
  <2>1. [s EXCEPT ![i] = s[j]] \in Seq(StepRows)
    BY <1>1, ExceptSeq
  <2>2. j \in DOMAIN [s EXCEPT ![i] = s[j]]
    OBVIOUS
  <2>3. QED BY <1>1, <2>1, <2>2, ExceptSeq
<1>3. ToSet(u) = ToSet(s)
  <2>1. DOMAIN u = DOMAIN s /\ u[i] = s[j] /\ u[j] = s[i]
        /\ \A k \in DOMAIN s : k # i /\ k # j => u[k] = s[k]
    OBVIOUS
  <2> HIDE DEF u
  <2>2. QED BY <2>1 DEF ToSet
<1>4. QED BY <1>2, <1>3

(* What is written in the rows, and nothing else, is left of them. *)
LEMMA WrittenTexts ==
    ASSUME NEW s \in Seq(StepRows)
    PROVE  /\ Written(s) \in Seq(StepRows) /\ ToSet(Written(s)) = Texts(s)
           /\ Texts(s) = {} => Written(s) = << >>
           /\ Written(s) = << >> => Texts(s) = {}
<1> DEFINE S == {n \in DOMAIN s : s[n] # Blank}
<1>1. S \in SUBSET DOMAIN s /\ \A n \in DOMAIN s : n \in S <=> s[n] # Blank
  OBVIOUS
<1>2. Written(s) = Kept(s, S)
  BY DEF Written
<1> HIDE DEF S
<1>3. PICK size \in Nat :
          /\ size = Cardinality(S) /\ Kept(s, S) \in Seq(StepRows) /\ DOMAIN Kept(s, S) = 1..size
          /\ Len(Kept(s, S)) = size
          /\ \A n \in S : Place(n, S) \in 1..size /\ Kept(s, S)[Place(n, S)] = s[n]
          /\ \A k \in 1..size : \E n \in S : Place(n, S) = k /\ Kept(s, S)[k] = s[n]
  <2>1. Kept(s, S) \in Seq(StepRows) /\ Len(Kept(s, S)) = Cardinality(S) /\ Cardinality(S) \in Nat
    BY <1>1, KeptEntries
  <2>2. DOMAIN Kept(s, S) = 1..Cardinality(S)
    BY <2>1, LenProperties
  <2>3. QED BY <1>1, <2>1, <2>2, KeptEntries
<1>4. ToSet(Written(s)) = Texts(s)
  BY <1>1, <1>2, <1>3 DEF ToSet, Texts
<1>5. ASSUME Texts(s) = {} PROVE Written(s) = << >>
  <2>1. \A k \in 1..size : FALSE
    BY <1>2, <1>3, <1>4, <1>5 DEF ToSet
  <2>2. size = 0
    BY <2>1
  <2>3. QED BY <1>2, <1>3, <2>2, EmptySeq
<1>6. ASSUME Written(s) = << >> PROVE Texts(s) = {}
  <2>1. ToSet(<< >>) = {}
    BY DEF ToSet
  <2>2. QED BY <1>4, <1>6, <2>1
<1>7. QED BY <1>2, <1>3, <1>4, <1>5, <1>6

(* A list is a prefix of itself with a list behind it. *)
LEMMA PrefixOfConcat ==
    ASSUME NEW s \in Seq(StepRows), NEW u \in Seq(StepRows)
    PROVE  IsPrefix(s, s \o u)
<1>1. PICK l \in Nat, m \in Nat : l = Len(s) /\ m = Len(u)
  BY LenProperties
<1> DEFINE c == s \o u
<1>2. /\ c \in Seq(StepRows) /\ Len(c) = l + m
      /\ \A i \in 1..(l + m) : c[i] = IF i <= l THEN s[i] ELSE u[i - l]
  BY <1>1, ConcatProperties
<1> HIDE DEF c
<1> DEFINE x == SubSeq(s, 1, l)
           y == SubSeq(c, 1, l)
<1>3. x \in Seq(StepRows) /\ Len(x) = l /\ \A i \in 1..l : x[i] = s[i]
  BY <1>1, FrontEntries
<1>4. y \in Seq(StepRows) /\ Len(y) = l /\ \A i \in 1..l : y[i] = c[i]
  <2>1. l \in 0..Len(c)
    BY <1>2
  <2>2. QED BY <1>2, <2>1, FrontEntries
<1> HIDE DEF x, y
<1>5. \A i \in 1..l : i \in 1..(l + m) /\ i <= l
  OBVIOUS
<1>6. x = y
  BY <1>2, <1>3, <1>4, <1>5, SeqEqual
<1>7. QED BY <1>1, <1>2, <1>6 DEF IsPrefix, x, y, c

-----------------------------------------------------------------------------
(* The form opens with stored steps and without a dialog. *)
LEMMA StepInitInv == StepInit => StepInv
<1> SUFFICES ASSUME StepInit PROVE StepInv
  OBVIOUS
<1>1. PICK n \in Nat : rows = IF n = 0 THEN << Blank >> ELSE [i \in 1..n |-> << "stored", i >>]
  BY StepAssumption DEF StepInit
<1>2. rows \in Seq(StepRows) /\ \A t \in ToSet(rows) : t[1] # "suggested"
  <2>1. CASE n = 0
    <3>1. rows = << Blank >> /\ Blank \in StepRows /\ Blank[1] # "suggested"
      BY <1>1, <2>1 DEF StepRows, Blank
    <3>2. QED BY <3>1 DEF ToSet
  <2>2. CASE n # 0
    <3>1. rows = [i \in 1..n |-> << "stored", i >>]
      BY <1>1, <2>2
    <3>2. \A i \in 1..n : << "stored", i >> \in StepRows /\ << "stored", i >>[1] # "suggested"
      BY DEF StepRows
    <3>3. rows \in Seq(StepRows)
      BY <3>1, <3>2, IsASeq
    <3>4. QED BY <3>1, <3>2, <3>3 DEF ToSet
  <2>3. QED BY <2>1, <2>2
<1>3. dialog = Closed /\ pendingSteps = DrawerShut
      /\ asking = [calls |-> {}, dialogs |-> 0, generations |-> 0, changes |-> 0]
  BY DEF StepInit
<1>4. dialog \in Dialogs /\ ~dialog.open /\ ToSet(dialog.suggestions) = {}
  BY <1>3, EmptySeq DEF Closed, Dialogs, ToSet
<1>5. /\ pendingSteps \in [open : BOOLEAN, steps : Seq(StepRows)] /\ ~pendingSteps.open
      /\ pendingSteps.steps = << >> /\ ToSet(pendingSteps.steps) = {}
  BY <1>3, EmptySeq DEF DrawerShut, ToSet
<1>6. asking \in [calls : SUBSET Nat, dialogs : Nat, generations : Nat, changes : Nat]
  BY <1>3
<1>7. QED BY <1>2, <1>4, <1>5, <1>6 DEF StepInv, StepTypeOK, AskedUpTo

(* A change of the rows by the user brings in no suggestion. *)
LEMMA RowsKeepInv ==
    ASSUME StepInv, rows' \in Seq(StepRows), UNCHANGED << dialog, pendingSteps >>,
           asking' = [asking EXCEPT !.changes = @ + 1],
           \A t \in ToSet(rows') : t \in ToSet(rows) \/ t[1] # "suggested"
    PROVE  StepInv'
<1>1. asking' \in [calls : SUBSET Nat, dialogs : Nat, generations : Nat, changes : Nat]
      /\ asking'.dialogs = asking.dialogs
  <2>1. asking \in [calls : SUBSET Nat, dialogs : Nat, generations : Nat, changes : Nat]
    BY DEF StepInv, StepTypeOK
  <2>2. asking.changes + 1 \in Nat
    BY <2>1
  <2>3. QED BY <2>1, <2>2, Zenon
<1>2. Earlier' = Earlier
  BY <1>1 DEF Earlier
<1>3. QED BY <1>1, <1>2 DEF StepInv, StepTypeOK, AskedBy, AskedUpTo

(* What loses one text at most and brings in no suggestion does what a step may. *)
LEMMA QuietKeepsWritten ==
    ASSUME StepInv, NEW x, Texts(rows) \subseteq Texts(rows') \cup {x},
           \A t \in ToSet(rows') : t \in ToSet(rows) \/ t[1] # "suggested",
           dialog.open => pendingSteps'.steps = << >>
    PROVE  StepKeepsWritten
<1>1. Lost \subseteq {x}
  BY DEF Lost
<1>2. ~(Cardinality(Lost) > 1)
  <2>1. IsFiniteSet({x}) /\ Cardinality({x}) = 1
    BY FS_Singleton
  <2>2. Cardinality(Lost) <= 1 /\ Cardinality(Lost) \in Nat
    BY <1>1, <2>1, FS_Subset, FS_CardinalityType
  <2>3. QED BY <2>2
<1>3. Added = {}
  BY DEF Added, Texts
<1>4. Handed = {}
  <2>1. dialog.open => Texts(pendingSteps'.steps) = {}
    BY DEF Texts, ToSet
  <2>2. QED BY <1>3, <2>1 DEF Handed
<1>5. QED BY <1>2, <1>3, <1>4 DEF StepKeepsWritten

(* What leaves the rows and the drawer alone does what a step may. *)
LEMMA RowsStay ==
    ASSUME StepInv, UNCHANGED << rows, pendingSteps >>
    PROVE  StepKeepsWritten
<1>1. dialog.open => pendingSteps'.steps = << >>
  BY DEF StepInv
<1>2. QED BY <1>1, QuietKeepsWritten

(* Rows are added, edited, removed and moved one by one. *)
LEMMA EditsKeep ==
    ASSUME StepInv, addStep \/ \E i \in DOMAIN rows : updateField(i) \/ removeStep(i) \/ moveDown(i)
    PROVE  StepInv' /\ StepKeepsWritten
<1>1. rows \in Seq(StepRows) /\ asking.changes \in Nat
  BY DEF StepInv, StepTypeOK
<1>2. UNCHANGED << dialog, pendingSteps >> /\ asking' = [asking EXCEPT !.changes = @ + 1]
  BY DEF addStep, updateField, removeStep, moveDown, Changes
<1>3. \E x : /\ rows' \in Seq(StepRows) /\ ToSet(rows) \subseteq ToSet(rows') \cup {x}
             /\ \A t \in ToSet(rows') : t \in ToSet(rows) \/ t[1] # "suggested"
  <2>1. CASE addStep
    <3>1. rows' = Append(rows, Blank) /\ Blank \in StepRows /\ Blank[1] # "suggested"
      BY <2>1 DEF addStep, Blank, StepRows
    <3>2. rows' \in Seq(StepRows) /\ ToSet(rows') = ToSet(rows) \cup {Blank}
      BY <1>1, <3>1, TextsOfLists
    <3>3. QED BY <3>1, <3>2
  <2>2. ASSUME NEW i \in DOMAIN rows, updateField(i)
        PROVE  \E x : /\ rows' \in Seq(StepRows) /\ ToSet(rows) \subseteq ToSet(rows') \cup {x}
                      /\ \A t \in ToSet(rows') : t \in ToSet(rows) \/ t[1] # "suggested"
    <3>1. asking'.changes \in Nat
      BY <1>1, <1>2 DEF StepInv, StepTypeOK
    <3>2. PICK text \in StepRows : rows' = [rows EXCEPT ![i] = text] /\ text[1] # "suggested"
      <4>1. PICK text \in {Blank, << "typed", asking'.changes >>} : rows' = [rows EXCEPT ![i] = text]
        BY <2>2 DEF updateField
      <4>2. Blank \in StepRows /\ Blank[1] # "suggested"
        BY DEF Blank, StepRows
      <4>3. << "typed", asking'.changes >> \in StepRows /\ << "typed", asking'.changes >>[1] # "suggested"
        BY <3>1 DEF StepRows
      <4>4. QED BY <4>1, <4>2, <4>3
    <3>3. /\ rows' \in Seq(StepRows) /\ ToSet(rows') \subseteq ToSet(rows) \cup {text}
          /\ ToSet(rows) \subseteq ToSet(rows') \cup {rows[i]}
      BY <1>1, <3>2, TextsOfEdits
    <3>4. QED BY <3>2, <3>3
  <2>3. ASSUME NEW i \in DOMAIN rows, removeStep(i)
        PROVE  \E x : /\ rows' \in Seq(StepRows) /\ ToSet(rows) \subseteq ToSet(rows') \cup {x}
                      /\ \A t \in ToSet(rows') : t \in ToSet(rows) \/ t[1] # "suggested"
    <3>1. rows' = RemoveAt(rows, i)
      BY <2>3 DEF removeStep
    <3>2. Blank \in StepRows
      BY DEF StepRows
    <3>3. /\ RemoveAt(rows, i) \in Seq(StepRows) /\ ToSet(RemoveAt(rows, i)) \subseteq ToSet(rows)
          /\ ToSet(rows) \subseteq ToSet(RemoveAt(rows, i)) \cup {rows[i]}
      BY <1>1, <3>2, TextsOfEdits
    <3>4. QED BY <3>1, <3>3
  <2>4. ASSUME NEW i \in DOMAIN rows, moveDown(i)
        PROVE  \E x : /\ rows' \in Seq(StepRows) /\ ToSet(rows) \subseteq ToSet(rows') \cup {x}
                      /\ \A t \in ToSet(rows') : t \in ToSet(rows) \/ t[1] # "suggested"
    <3>1. PICK j \in DOMAIN rows : j = i + 1 /\ rows' = [rows EXCEPT ![i] = rows[j], ![j] = rows[i]]
      BY <2>4 DEF moveDown
    <3>2. i # j
      <4>1. PICK l \in Nat : DOMAIN rows = 1..l
        BY <1>1, LenProperties
      <4>2. QED BY <3>1, <4>1
    <3>3. /\ [rows EXCEPT ![i] = rows[j], ![j] = rows[i]] \in Seq(StepRows)
          /\ ToSet([rows EXCEPT ![i] = rows[j], ![j] = rows[i]]) = ToSet(rows)
      BY <1>1, <3>2, TextsOfSwap
    <3>4. QED BY <3>1, <3>3
  <2>5. QED BY <2>1, <2>2, <2>3, <2>4
<1>4. PICK x : /\ rows' \in Seq(StepRows) /\ ToSet(rows) \subseteq ToSet(rows') \cup {x}
               /\ \A t \in ToSet(rows') : t \in ToSet(rows) \/ t[1] # "suggested"
  BY <1>3
<1>5. StepInv'
  BY <1>2, <1>4, RowsKeepInv
<1>6. Texts(rows) \subseteq Texts(rows') \cup {x}
  BY <1>4 DEF Texts
<1>7. dialog.open => pendingSteps'.steps = << >>
  BY <1>2 DEF StepInv
<1>8. QED BY <1>4, <1>5, <1>6, <1>7, QuietKeepsWritten

-----------------------------------------------------------------------------
(* A dialog that opens is the newest: what the rows have of suggestions comes
   from the ones before. *)
LEMMA OpenKeepsInv == ASSUME StepInv, openDialog PROVE StepInv'
<1>1. /\ asking \in [calls : SUBSET Nat, dialogs : Nat, generations : Nat, changes : Nat]
      /\ ~dialog.open /\ ~pendingSteps.open /\ pendingSteps.steps = << >>
      /\ UNCHANGED << rows, pendingSteps >>
  BY DEF StepInv, StepTypeOK, openDialog, FormReachable
<1>2. PICK n \in Nat : n = asking.dialogs
  BY <1>1
<1>3. asking' = [asking EXCEPT !.dialogs = n + 1]
  BY <1>1, <1>2 DEF openDialog
<1>4. asking' \in [calls : SUBSET Nat, dialogs : Nat, generations : Nat, changes : Nat]
      /\ asking'.dialogs = n + 1
  <2>1. n + 1 \in Nat
    OBVIOUS
  <2>2. QED BY <1>1, <1>3, <2>1, Zenon
<1>5. dialog' = [Closed EXCEPT !.open = TRUE, !.nr = n + 1]
  BY <1>4 DEF openDialog
<1>6. dialog' = [open |-> TRUE, nr |-> n + 1, phase |-> "select", suggestions |-> << >>]
  BY <1>5 DEF Closed
<1>7. dialog' \in Dialogs /\ dialog'.open /\ dialog'.nr = n + 1 /\ ToSet(dialog'.suggestions) = {}
  BY <1>6, EmptySeq DEF Dialogs, ToSet
<1>8. Earlier = n /\ Earlier' = n
  BY <1>1, <1>2, <1>4, <1>7 DEF Earlier
<1>9. ToSet(pendingSteps.steps) = {}
  BY <1>1 DEF ToSet
<1>10. StepTypeOK'
  BY <1>1, <1>4, <1>7 DEF StepInv, StepTypeOK
<1>11. (\A t \in ToSet(rows) : AskedUpTo(t, Earlier))'
  BY <1>1, <1>8 DEF StepInv, AskedUpTo
<1>12. QED BY <1>1, <1>2, <1>4, <1>7, <1>9, <1>10, <1>11 DEF StepInv

(* A dialog that closes, asks or shows an answer is the one it was, and shows
   what it asked for itself; a generation that is over is no longer asked for. *)
LEMMA DialogKeepsInv ==
    ASSUME StepInv, UNCHANGED << rows, pendingSteps >>,
           asking' \in [calls : SUBSET Nat, dialogs : Nat, generations : Nat, changes : Nat],
           asking'.dialogs = asking.dialogs, dialog' \in Dialogs,
           dialog'.open => dialog.open /\ dialog'.nr = dialog.nr,
           \A t \in ToSet(dialog'.suggestions) : AskedBy(t, dialog'.nr)
    PROVE  StepInv'
<1>1. StepTypeOK'
  BY DEF StepInv, StepTypeOK
<1>2. (\A t \in ToSet(rows) : AskedUpTo(t, Earlier))'
  <2>1. asking.dialogs \in Nat
    BY DEF StepInv, StepTypeOK
  <2>2. Earlier \in Int /\ Earlier' \in Int /\ Earlier <= Earlier'
    BY <2>1 DEF Earlier
  <2>3. ASSUME NEW t \in ToSet(rows), AskedUpTo(t, Earlier) PROVE AskedUpTo(t, Earlier')
    <3>1. rows \in Seq(StepRows)
      BY DEF StepInv, StepTypeOK
    <3>2. t \in StepRows
      BY <3>1, ElementOfSeq, LenProperties DEF ToSet
    <3>3. t[1] = "suggested" => t[2] \in Nat
      BY <3>2 DEF StepRows, Blank
    <3>4. QED BY <2>2, <2>3, <3>3 DEF AskedUpTo
  <2>4. \A t \in ToSet(rows) : AskedUpTo(t, Earlier')
    BY <2>3 DEF StepInv
  <2>5. QED BY <2>4
<1>3. QED BY <1>1, <1>2 DEF StepInv, AskedBy

(* Closing, generating and editing in the dialog are such steps. *)
LEMMA DialogStepsKeepInv ==
    ASSUME StepInv,
           \/ closeDialog \/ handleGenerateSteps
           \/ \E c \in 1..MaxDialogs : generateSteps(c) \/ generationFails(c)
           \/ \E i \in 1..Suggested : updateSuggestion(i)
    PROVE  StepInv' /\ UNCHANGED << rows, pendingSteps >>
<1>1. /\ asking \in [calls : SUBSET Nat, dialogs : Nat, generations : Nat, changes : Nat]
      /\ dialog \in Dialogs /\ \A t \in ToSet(dialog.suggestions) : AskedBy(t, dialog.nr)
  BY DEF StepInv, StepTypeOK
<1>2. UNCHANGED << rows, pendingSteps >>
  BY DEF closeDialog, handleGenerateSteps, generateSteps, generationFails, updateSuggestion
<1>3. /\ asking' \in [calls : SUBSET Nat, dialogs : Nat, generations : Nat, changes : Nat]
      /\ asking'.dialogs = asking.dialogs
  <2>1. CASE closeDialog
    BY <1>1, <2>1 DEF closeDialog
  <2>2. CASE handleGenerateSteps
    <3>1. asking.generations + 1 \in Nat /\ asking.calls \cup {dialog.nr} \in SUBSET Nat
      BY <1>1 DEF Dialogs
    <3>2. asking' = [asking EXCEPT !.generations = @ + 1, !.calls = @ \cup {dialog.nr}]
      BY <2>2 DEF handleGenerateSteps
    <3>3. QED BY <1>1, <3>1, <3>2, Zenon
  <2>3. ASSUME NEW c \in 1..MaxDialogs, generateSteps(c) \/ generationFails(c)
        PROVE  /\ asking' \in [calls : SUBSET Nat, dialogs : Nat, generations : Nat, changes : Nat]
               /\ asking'.dialogs = asking.dialogs
    <3>1. asking' = [asking EXCEPT !.calls = @ \ {c}] /\ asking.calls \ {c} \in SUBSET Nat
      BY <1>1, <2>3 DEF generateSteps, generationFails
    <3>2. QED BY <1>1, <3>1, Zenon
  <2>4. ASSUME NEW i \in 1..Suggested, updateSuggestion(i)
        PROVE  /\ asking' \in [calls : SUBSET Nat, dialogs : Nat, generations : Nat, changes : Nat]
               /\ asking'.dialogs = asking.dialogs
    <3>1. asking' = [asking EXCEPT !.changes = @ + 1] /\ asking.changes + 1 \in Nat
      BY <1>1, <2>4 DEF updateSuggestion, Changes
    <3>2. QED BY <1>1, <3>1, Zenon
  <2>5. QED BY <2>1, <2>2, <2>3, <2>4
<1> DEFINE Good == /\ dialog' \in Dialogs
                   /\ dialog'.open => dialog.open /\ dialog'.nr = dialog.nr
                   /\ \A t \in ToSet(dialog'.suggestions) : AskedBy(t, dialog'.nr)
<1>4. Good
  <2>0. ToSet(<< >>) = {} /\ << >> \in Seq(StepRows)
    BY EmptySeq DEF ToSet
  <2>1. CASE closeDialog
    <3>1. dialog' = Closed
      BY <2>1 DEF closeDialog
    <3>2. QED BY <2>0, <3>1 DEF Closed, Dialogs
  <2>2. CASE handleGenerateSteps
    <3>1. dialog' = [dialog EXCEPT !.phase = "generating", !.suggestions = << >>]
      BY <2>2 DEF handleGenerateSteps
    <3>2. QED BY <1>1, <2>0, <3>1 DEF Dialogs
  <2>3. ASSUME NEW c \in 1..MaxDialogs, generateSteps(c) PROVE Good
    <3> DEFINE texts == [i \in 1..Suggested |-> << "suggested", c, i >>]
    <3>1. CASE ShownBy(c)
      <4>1. dialog' = [dialog EXCEPT !.phase = "preview", !.suggestions = texts] /\ dialog.nr = c
        BY <2>3, <3>1 DEF generateSteps, ShownBy
      <4>2. \A i \in 1..Suggested : << "suggested", c, i >> \in StepRows
        BY <1>1, <4>1, StepAssumption DEF StepRows, Dialogs
      <4>3. texts \in Seq(StepRows)
        BY <4>2, StepAssumption, IsASeq
      <4>4. \A t \in ToSet(texts) : AskedBy(t, c)
        BY DEF ToSet, AskedBy
      <4> HIDE DEF texts
      <4>5. dialog' \in Dialogs /\ dialog'.suggestions = texts /\ dialog'.nr = c
            /\ dialog'.open = dialog.open
        BY <1>1, <4>1, <4>3 DEF Dialogs
      <4>6. QED BY <4>1, <4>4, <4>5
    <3>2. CASE ~ShownBy(c)
      BY <1>1, <2>3, <3>2 DEF generateSteps
    <3>3. QED BY <3>1, <3>2
  <2>4. ASSUME NEW c \in 1..MaxDialogs, generationFails(c) PROVE Good
    <3>1. dialog' = [dialog EXCEPT !.phase = "select"] \/ dialog' = dialog
      BY <2>4 DEF generationFails
    <3>2. QED BY <1>1, <3>1 DEF Dialogs
  <2>5. ASSUME NEW i \in 1..Suggested, updateSuggestion(i) PROVE Good
    <3>1. PICK s \in Seq(StepRows) : s = dialog.suggestions /\ i \in DOMAIN s
      BY <1>1, <2>5 DEF Dialogs, updateSuggestion
    <3>2. PICK u : u = [s EXCEPT ![i] = Blank]
      OBVIOUS
    <3>3. u \in Seq(StepRows) /\ ToSet(u) \subseteq ToSet(s) \cup {Blank}
      <4>1. Blank \in StepRows
        BY DEF StepRows
      <4>2. QED BY <3>1, <3>2, <4>1, TextsOfEdits
    <3>4. dialog' = [dialog EXCEPT !.suggestions = u]
      BY <2>5, <3>1, <3>2 DEF updateSuggestion
    <3>5. dialog' \in Dialogs /\ dialog'.suggestions = u /\ dialog'.nr = dialog.nr
          /\ dialog'.open = dialog.open
      BY <1>1, <3>3, <3>4 DEF Dialogs
    <3>6. QED BY <1>1, <3>1, <3>3, <3>5 DEF AskedBy
  <2> HIDE DEF Good
  <2>6. QED BY <2>1, <2>2, <2>3, <2>4, <2>5
<1>5. QED BY <1>2, <1>3, <1>4, DialogKeepsInv

(* Texts the open dialog, or the drawer, has are not among the rows. *)
LEMMA NotAmongRows ==
    ASSUME StepInv, dialog.open \/ pendingSteps.open,
           NEW t, t # Blank, AskedBy(t, asking.dialogs)
    PROVE  t \notin ToSet(rows)
<1>1. SUFFICES ASSUME t \in ToSet(rows) PROVE FALSE
  OBVIOUS
<1>2. PICK n \in Nat : n = asking.dialogs /\ Earlier = n - 1
  BY DEF StepInv, StepTypeOK, Earlier
<1>3. t[1] = "suggested" /\ t[2] = n
  BY <1>2 DEF AskedBy
<1>4. t[2] <= n - 1
  BY <1>1, <1>2, <1>3 DEF StepInv, AskedUpTo
<1>5. QED BY <1>2, <1>3, <1>4

(* Suggestions are accepted into a form without a written row, or handed to the
   drawer: nothing is lost. *)
LEMMA AcceptKeeps == ASSUME StepInv, handleAccept PROVE StepInv' /\ StepKeepsWritten
<1> DEFINE sug == dialog.suggestions
<1>1. /\ rows \in Seq(StepRows) /\ sug \in Seq(StepRows) /\ asking.dialogs \in Nat
      /\ dialog.open /\ ~pendingSteps.open /\ pendingSteps.steps = << >>
      /\ dialog.nr = asking.dialogs
      /\ \A t \in ToSet(sug) : AskedBy(t, dialog.nr)
  BY DEF StepInv, StepTypeOK, Dialogs, handleAccept
<1>2. PICK valid \in Seq(StepRows) :
          /\ valid = Written(sug) /\ ToSet(valid) = Texts(sug)
          /\ \A t \in ToSet(valid) : t # Blank /\ t \in ToSet(sug) /\ AskedBy(t, asking.dialogs)
  <2>1. Written(sug) \in Seq(StepRows) /\ ToSet(Written(sug)) = Texts(sug)
    BY <1>1, WrittenTexts
  <2>2. \A t \in Texts(sug) : t # Blank /\ t \in ToSet(sug)
    BY DEF Texts
  <2>3. QED BY <1>1, <2>1, <2>2
<1> HIDE DEF sug
<1>3. dialog' = Closed /\ asking' = asking
  BY DEF handleAccept
<1>4. /\ dialog' \in Dialogs /\ ~dialog'.open /\ ToSet(dialog'.suggestions) = {}
  BY <1>3, EmptySeq DEF Closed, Dialogs, ToSet
<1>5. asking.dialogs > 0 /\ Earlier = asking.dialogs - 1
  BY <1>1 DEF StepInv, Earlier
<1>6. CASE Written(rows) = << >>
  <2>1. rows' = (IF valid = << >> THEN rows ELSE << >> \o valid) /\ pendingSteps' = pendingSteps
    BY <1>1, <1>2, <1>6 DEF handleAccept, applySteps, sug
  <2>2. << >> \o valid = valid
    BY <1>2, ConcatEmptySeq
  <2>3. rows' = rows \/ rows' = valid
    BY <2>1, <2>2
  <2>4. rows' \in Seq(StepRows)
    BY <1>1, <1>2, <2>3
  <2>5. Texts(rows) = {}
    BY <1>1, <1>6, WrittenTexts
  <2>6. Earlier' = asking.dialogs
    BY <1>1, <1>3, <1>4, <2>1 DEF Earlier
  <2>7. \A t \in ToSet(rows) : t = Blank
    BY <2>5 DEF Texts
  <2>8. \A t \in ToSet(rows') : t = Blank \/ (t \in ToSet(valid) /\ AskedBy(t, asking.dialogs))
    BY <1>2, <2>3, <2>7
  <2>9. \A t \in ToSet(rows') : AskedUpTo(t, asking.dialogs)
    BY <1>1, <2>8 DEF AskedUpTo, AskedBy, Blank
  <2>10. StepTypeOK'
    BY <1>3, <1>4, <2>1, <2>4 DEF StepInv, StepTypeOK
  <2>11. (\A t \in ToSet(rows) : AskedUpTo(t, Earlier))'
    BY <2>6, <2>9
  <2>12. StepInv'
    BY <1>1, <1>3, <1>4, <2>1, <2>10, <2>11 DEF StepInv
  <2>13. Lost = {}
    BY <2>5 DEF Lost
  <2>14. Added \subseteq ToSet(valid)
    BY <2>8 DEF Added, Texts
  <2>15. Handed \subseteq ToSet(valid)
    BY <1>1, <2>1, <2>14 DEF Handed, Texts, ToSet
  <2>16. IsPrefix(Written(rows), rows')
    <3>1. PICK u \in Seq(StepRows) : u = rows'
      BY <2>4
    <3>2. << >> \in Seq(StepRows) /\ << >> \o u = u
      BY ConcatEmptySeq, EmptySeq
    <3>3. IsPrefix(<< >>, << >> \o u)
      BY <3>2, PrefixOfConcat
    <3>4. QED BY <1>6, <3>1, <3>2, <3>3
  <2>17. Cardinality(Lost) = 0
    BY <2>13, FS_EmptySet
  <2>18. \A t \in Handed : t[2] = dialog.nr
    BY <1>1, <1>2, <2>15 DEF AskedBy
  <2>19. Added \subseteq ToSet(sug)
    BY <1>2, <2>14
  <2>20. StepKeepsWritten
    BY <1>1, <2>13, <2>16, <2>17, <2>18, <2>19 DEF StepKeepsWritten, sug
  <2>21. QED BY <2>12, <2>20
<1>7. CASE Written(rows) # << >>
  <2>1. rows' = rows /\ pendingSteps' = [open |-> TRUE, steps |-> valid]
    BY <1>2, <1>7 DEF handleAccept, sug
  <2>2. /\ pendingSteps' \in [open : BOOLEAN, steps : Seq(StepRows)]
        /\ pendingSteps'.open /\ pendingSteps'.steps = valid
    BY <1>2, <2>1
  <2>3. Earlier' = Earlier
    BY <1>3, <1>5, <2>2 DEF Earlier
  <2>4. StepTypeOK'
    BY <1>3, <1>4, <2>1, <2>2 DEF StepInv, StepTypeOK
  <2>5. (\A t \in ToSet(rows) : AskedUpTo(t, Earlier))'
    BY <2>1, <2>3 DEF StepInv
  <2>6. StepInv'
    BY <1>2, <1>3, <1>4, <1>5, <2>2, <2>4, <2>5 DEF StepInv
  <2>7. Lost = {} /\ Added = {} /\ Cardinality(Lost) = 0
    BY <2>1, FS_EmptySet DEF Lost, Added
  <2>8. \A t \in Handed : t \in ToSet(valid) /\ t # Blank
    BY <2>2, <2>7 DEF Handed, Texts
  <2>9. \A t \in Handed : t[2] = dialog.nr
    BY <1>1, <1>2, <2>8 DEF AskedBy
  <2>10. QED BY <2>6, <2>7, <2>9 DEF StepKeepsWritten
<1>8. QED BY <1>6, <1>7

(* The drawer replaces all that is written, or adds to it. *)
LEMMA DrawerKeeps ==
    ASSUME StepInv, handleDrawerReplace \/ handleDrawerComplete \/ handleDrawerCancel
    PROVE  StepInv' /\ StepKeepsWritten
<1>1. /\ rows \in Seq(StepRows) /\ asking.dialogs \in Nat /\ asking.dialogs > 0
      /\ pendingSteps.open /\ ~dialog.open /\ Earlier = asking.dialogs - 1
      /\ \A t \in ToSet(pendingSteps.steps) : t # Blank /\ AskedBy(t, asking.dialogs)
  BY DEF StepInv, StepTypeOK, Earlier, handleDrawerReplace, handleDrawerComplete,
         handleDrawerCancel
<1>2. PICK steps \in Seq(StepRows) : steps = pendingSteps.steps
  BY DEF StepInv, StepTypeOK
<1>3. pendingSteps' = DrawerShut /\ UNCHANGED << dialog, asking >>
  BY DEF handleDrawerReplace, handleDrawerComplete, handleDrawerCancel
<1>4. /\ pendingSteps' \in [open : BOOLEAN, steps : Seq(StepRows)] /\ ~pendingSteps'.open
      /\ pendingSteps'.steps = << >> /\ ToSet(pendingSteps'.steps) = {}
  BY <1>3, EmptySeq DEF DrawerShut, ToSet
<1>5. Earlier' = asking.dialogs
  BY <1>1, <1>3, <1>4 DEF Earlier
<1>6. ASSUME rows' \in Seq(StepRows), ToSet(rows') \subseteq ToSet(rows) \cup ToSet(steps)
      PROVE  StepInv'
  <2>1. \A t \in ToSet(rows) : AskedUpTo(t, asking.dialogs)
    <3>1. ASSUME NEW t \in ToSet(rows) PROVE AskedUpTo(t, asking.dialogs)
      <4>1. t \in StepRows
        BY <1>1, ElementOfSeq, LenProperties DEF ToSet
      <4>2. t[1] = "suggested" => t[2] \in Nat
        BY <4>1 DEF StepRows, Blank
      <4>3. AskedUpTo(t, asking.dialogs - 1)
        BY <1>1 DEF StepInv
      <4>4. QED BY <1>1, <4>2, <4>3 DEF AskedUpTo
    <3>2. QED BY <3>1
  <2>2. \A t \in ToSet(steps) : AskedUpTo(t, asking.dialogs)
    BY <1>1, <1>2 DEF AskedBy, AskedUpTo
  <2>3. (\A t \in ToSet(rows) : AskedUpTo(t, Earlier))'
    BY <1>5, <1>6, <2>1, <2>2
  <2>4. StepTypeOK'
    BY <1>3, <1>4, <1>6 DEF StepInv, StepTypeOK
  <2>5. QED BY <1>1, <1>3, <1>4, <2>3, <2>4 DEF StepInv
<1>7. CASE handleDrawerReplace
  <2>1. rows' = << >> \o steps
    BY <1>2, <1>7 DEF handleDrawerReplace, applySteps
  <2>2. rows' = steps
    BY <1>2, <2>1, ConcatEmptySeq
  <2>3. Lost = Texts(rows)
    <3>1. \A t \in Texts(rows) : t \notin ToSet(steps)
      BY <1>1, <1>2, NotAmongRows DEF Texts
    <3>2. QED BY <2>2, <3>1 DEF Lost, Texts
  <2>4. Added \subseteq ToSet(steps)
    BY <2>2 DEF Added, Texts
  <2>5. Lost = {} => IsPrefix(Written(rows), rows')
    <3>1. ASSUME Lost = {} PROVE IsPrefix(Written(rows), rows')
      <4>1. Written(rows) = << >>
        BY <1>1, <2>3, <3>1, WrittenTexts
      <4>2. IsPrefix(<< >>, << >> \o steps)
        BY <1>2, EmptySeq, PrefixOfConcat
      <4>3. QED BY <2>1, <4>1, <4>2
    <3>2. QED BY <3>1
  <2>6. Handed = {}
    BY <1>1 DEF Handed
  <2>7. StepKeepsWritten
    BY <1>1, <1>2, <2>3, <2>4, <2>5, <2>6 DEF StepKeepsWritten
  <2>8. QED BY <1>2, <1>6, <2>2, <2>7
<1>8. CASE handleDrawerComplete
  <2>1. PICK written \in Seq(StepRows) : written = Written(rows) /\ ToSet(written) = Texts(rows)
    BY <1>1, WrittenTexts
  <2>2. rows' = written \o steps
    BY <1>2, <1>8, <2>1 DEF handleDrawerComplete, applySteps
  <2>3. rows' \in Seq(StepRows) /\ ToSet(rows') = ToSet(written) \cup ToSet(steps)
    BY <2>1, <1>2, <2>2, TextsOfLists
  <2>4. Lost = {} /\ Cardinality(Lost) = 0
    BY <2>1, <2>3, FS_EmptySet DEF Lost, Texts
  <2>5. Added \subseteq ToSet(steps)
    BY <2>1, <2>3 DEF Added, Texts
  <2>6. Handed = {}
    BY <1>1 DEF Handed
  <2>7. IsPrefix(Written(rows), rows')
    BY <1>2, <2>1, <2>2, PrefixOfConcat
  <2>8. StepKeepsWritten
    BY <1>1, <1>2, <2>4, <2>5, <2>6, <2>7 DEF StepKeepsWritten
  <2>9. ToSet(rows') \subseteq ToSet(rows) \cup ToSet(steps)
    BY <2>1, <2>3 DEF Texts
  <2>10. QED BY <1>6, <2>3, <2>8, <2>9
<1>9. CASE handleDrawerCancel
  <2>1. rows' = rows
    BY <1>9 DEF handleDrawerCancel
  <2>2. StepInv'
    BY <1>1, <1>6, <2>1
  <2>3. Texts(rows) \subseteq Texts(rows') \cup {Blank}
    BY <2>1
  <2>4. \A t \in ToSet(rows') : t \in ToSet(rows) \/ t[1] # "suggested"
    BY <2>1
  <2>5. QED BY <1>4, <2>2, <2>3, <2>4, QuietKeepsWritten
<1>10. QED BY <1>7, <1>8, <1>9

(* Every step keeps the invariant, and does what a step may. *)
THEOREM StepsStep ==
    StepInv /\ [StepNext]_stepVars => StepInv' /\ (stepVars' = stepVars \/ StepKeepsWritten)
<1> SUFFICES ASSUME StepInv, [StepNext]_stepVars
             PROVE  StepInv' /\ (stepVars' = stepVars \/ StepKeepsWritten)
  OBVIOUS
<1>1. CASE UNCHANGED stepVars
  BY <1>1 DEF stepVars, StepInv, StepTypeOK, AskedBy, AskedUpTo, Earlier
<1>2. CASE openDialog
  BY <1>2, OpenKeepsInv, RowsStay DEF openDialog
<1>3. CASE StepNext /\ ~openDialog
  BY <1>3, EditsKeep, DialogStepsKeepInv, RowsStay, AcceptKeeps, DrawerKeeps DEF StepNext
<1>4. QED BY <1>1, <1>2, <1>3

(* WrittenStepsAreKept, for any number of steps, dialogs and changes. *)
THEOREM WrittenStepsStay == StepSpec => WrittenStepsAreKept
<1>1. StepInv /\ StepInv' /\ [StepNext]_stepVars => [StepKeepsWritten]_stepVars
  BY StepsStep
<1>2. StepInv /\ [StepNext]_stepVars => StepInv'
  BY StepsStep
<1>3. QED BY <1>1, <1>2, StepInitInv, PTL DEF StepSpec, WrittenStepsAreKept

-----------------------------------------------------------------------------
(* The diff of two versions.  Table and script are functions defined by their
   own values: that there are such functions is shown first, by the sum of the
   two lengths. *)

Grid(left, right) == (0..Len(left)) \X (0..Len(right))

Cell(dp, left, right, p) ==
    IF p[1] = 0 \/ p[2] = 0 THEN 0
    ELSE IF stepsEqual(left[p[1]], right[p[2]]) THEN dp[<< p[1] - 1, p[2] - 1 >>] + 1
    ELSE Max({dp[<< p[1] - 1, p[2] >>], dp[<< p[1], p[2] - 1 >>]})

Walk(script, dp, left, right, p) ==
    IF p[1] = 0 /\ p[2] = 0 THEN << >>
    ELSE IF p[1] > 0 /\ p[2] > 0 /\ stepsEqual(left[p[1]], right[p[2]])
    THEN Append(script[<< p[1] - 1, p[2] - 1 >>], Entry("equal", left[p[1]], right[p[2]]))
    ELSE IF p[2] > 0 /\ (p[1] = 0 \/ dp[<< p[1], p[2] - 1 >>] >= dp[<< p[1] - 1, p[2] >>])
    THEN Append(script[<< p[1], p[2] - 1 >>], Entry("added", NoStep, right[p[2]]))
    ELSE Append(script[<< p[1] - 1, p[2] >>], Entry("removed", left[p[1]], NoStep))

(* Places of the grid up to a sum. *)
Corner(left, right, k) == {p \in Grid(left, right) : p[1] + p[2] <= k}

(* The three neighbours of a place have smaller sums. *)
LEMMA Neighbours ==
    ASSUME NEW left \in Seq(StepTexts), NEW right \in Seq(StepTexts), NEW k \in Nat,
           NEW p \in Corner(left, right, k + 1)
    PROVE  /\ p[1] \in Nat /\ p[2] \in Nat
           /\ p[1] > 0 => << p[1] - 1, p[2] >> \in Corner(left, right, k)
           /\ p[2] > 0 => << p[1], p[2] - 1 >> \in Corner(left, right, k)
           /\ p[1] > 0 /\ p[2] > 0 => << p[1] - 1, p[2] - 1 >> \in Corner(left, right, k)
<1>1. PICK m \in Nat, n \in Nat : m = Len(left) /\ n = Len(right)
  BY LenProperties
<1>2. PICK i \in 0..m, j \in 0..n : p = << i, j >> /\ i + j <= k + 1
  BY <1>1 DEF Corner, Grid
<1>3. \A a \in 0..m, b \in 0..n : a + b <= k => << a, b >> \in Corner(left, right, k)
  BY <1>1 DEF Corner, Grid
<1>4. i > 0 => i - 1 \in 0..m /\ (i - 1) + j <= k
  BY <1>2
<1>5. j > 0 => j - 1 \in 0..n /\ i + (j - 1) <= k
  BY <1>2
<1>6. i > 0 /\ j > 0 => (i - 1) + (j - 1) <= k
  BY <1>2
<1>7. i \in Nat /\ j \in Nat
  OBVIOUS
<1>8. QED BY <1>2, <1>3, <1>4, <1>5, <1>6, <1>7

(* The place of sum zero is the origin, and every place has a sum. *)
LEMMA BelowEnds ==
    ASSUME NEW left \in Seq(StepTexts), NEW right \in Seq(StepTexts)
    PROVE  /\ \A p \in Corner(left, right, 0) : p[1] = 0 /\ p[2] = 0
           /\ \E k \in Nat : Corner(left, right, k) = Grid(left, right)
<1>1. PICK m \in Nat, n \in Nat : m = Len(left) /\ n = Len(right)
  BY LenProperties
<1>2. \A p \in Grid(left, right) : p[1] \in 0..m /\ p[2] \in 0..n
  BY <1>1 DEF Grid
<1>3. \A p \in Corner(left, right, 0) : p[1] = 0 /\ p[2] = 0
  <2>1. \A p \in Corner(left, right, 0) : p[1] \in 0..m /\ p[2] \in 0..n /\ p[1] + p[2] <= 0
    BY <1>2 DEF Corner
  <2>2. QED BY <2>1
<1>4. Corner(left, right, m + n) = Grid(left, right)
  <2>1. \A p \in Grid(left, right) : p[1] + p[2] <= m + n
    BY <1>2
  <2>2. QED BY <2>1 DEF Corner
<1>5. QED BY <1>3, <1>4

(* There is a table, *)
LEMMA TableExists ==
    ASSUME NEW left \in Seq(StepTexts), NEW right \in Seq(StepTexts)
    PROVE  \E g : g = [p \in Grid(left, right) |-> Cell(g, left, right, p)]
<1> DEFINE G == {k \in Nat : \E g : g = [p \in Corner(left, right, k) |-> Cell(g, left, right, p)]}
<1>1. 0 \in G
  <2> DEFINE g == [p \in Corner(left, right, 0) |-> 0]
  <2>1. \A p \in Corner(left, right, 0) : Cell(g, left, right, p) = 0
    BY BelowEnds DEF Cell
  <2>2. g = [p \in Corner(left, right, 0) |-> Cell(g, left, right, p)]
    BY <2>1
  <2> HIDE DEF g
  <2>3. QED BY <2>2
<1>2. ASSUME NEW k \in Nat, k \in G PROVE k + 1 \in G
  <2>1. PICK g : g = [p \in Corner(left, right, k) |-> Cell(g, left, right, p)]
    BY <1>2
  <2> DEFINE h == [p \in Corner(left, right, k + 1) |-> Cell(g, left, right, p)]
  <2>2. Corner(left, right, k) \subseteq Corner(left, right, k + 1)
    <3>1. \A p \in Grid(left, right) : p[1] \in Nat /\ p[2] \in Nat
      BY DEF Grid
    <3>2. QED BY <3>1 DEF Corner
  <2>3. \A p \in Corner(left, right, k) : h[p] = g[p]
    BY <2>1, <2>2
  <2> HIDE DEF h
  <2>4. \A p \in Corner(left, right, k + 1) : Cell(h, left, right, p) = Cell(g, left, right, p)
    <3>1. SUFFICES ASSUME NEW p \in Corner(left, right, k + 1)
                   PROVE  Cell(h, left, right, p) = Cell(g, left, right, p)
      OBVIOUS
    <3>2. CASE p[1] = 0 \/ p[2] = 0
      BY <3>2 DEF Cell
    <3>3. CASE ~(p[1] = 0 \/ p[2] = 0)
      <4>1. p[1] > 0 /\ p[2] > 0
        <5>1. p[1] \in Nat /\ p[2] \in Nat
          BY Neighbours
        <5>2. QED BY <3>3, <5>1
      <4>2. /\ h[<< p[1] - 1, p[2] >>] = g[<< p[1] - 1, p[2] >>]
            /\ h[<< p[1], p[2] - 1 >>] = g[<< p[1], p[2] - 1 >>]
            /\ h[<< p[1] - 1, p[2] - 1 >>] = g[<< p[1] - 1, p[2] - 1 >>]
        BY <2>3, <4>1, Neighbours
      <4>3. QED BY <3>3, <4>2 DEF Cell
    <3>4. QED BY <3>2, <3>3
  <2>5. h = [p \in Corner(left, right, k + 1) |-> Cell(h, left, right, p)]
    BY <2>4 DEF h
  <2>6. QED BY <2>5
<1> HIDE DEF G
<1>3. \A k \in Nat : k \in G
  BY <1>1, <1>2, EveryNatural
<1>4. PICK k \in Nat : Corner(left, right, k) = Grid(left, right)
  BY BelowEnds
<1>5. k \in G
  BY <1>3
<1>6. QED BY <1>4, <1>5 DEF G

(* and a script for every place of it. *)
LEMMA ScriptsExist ==
    ASSUME NEW left \in Seq(StepTexts), NEW right \in Seq(StepTexts), NEW dp
    PROVE  \E g : g = [p \in Grid(left, right) |-> Walk(g, dp, left, right, p)]
<1> DEFINE G == {k \in Nat : \E g : g = [p \in Corner(left, right, k) |-> Walk(g, dp, left, right, p)]}
<1>1. 0 \in G
  <2> DEFINE g == [p \in Corner(left, right, 0) |-> << >>]
  <2>1. \A p \in Corner(left, right, 0) : Walk(g, dp, left, right, p) = << >>
    BY BelowEnds DEF Walk
  <2>2. g = [p \in Corner(left, right, 0) |-> Walk(g, dp, left, right, p)]
    BY <2>1
  <2> HIDE DEF g
  <2>3. QED BY <2>2
<1>2. ASSUME NEW k \in Nat, k \in G PROVE k + 1 \in G
  <2>1. PICK g : g = [p \in Corner(left, right, k) |-> Walk(g, dp, left, right, p)]
    BY <1>2
  <2> DEFINE h == [p \in Corner(left, right, k + 1) |-> Walk(g, dp, left, right, p)]
  <2>2. Corner(left, right, k) \subseteq Corner(left, right, k + 1)
    <3>1. \A p \in Grid(left, right) : p[1] \in Nat /\ p[2] \in Nat
      BY DEF Grid
    <3>2. QED BY <3>1 DEF Corner
  <2>3. \A p \in Corner(left, right, k) : h[p] = g[p]
    BY <2>1, <2>2
  <2> HIDE DEF h
  <2>4. \A p \in Corner(left, right, k + 1) : Walk(h, dp, left, right, p) = Walk(g, dp, left, right, p)
    <3>1. SUFFICES ASSUME NEW p \in Corner(left, right, k + 1)
                   PROVE  Walk(h, dp, left, right, p) = Walk(g, dp, left, right, p)
      OBVIOUS
    <3>2. /\ p[1] \in Nat /\ p[2] \in Nat
          /\ p[1] > 0 => h[<< p[1] - 1, p[2] >>] = g[<< p[1] - 1, p[2] >>]
          /\ p[2] > 0 => h[<< p[1], p[2] - 1 >>] = g[<< p[1], p[2] - 1 >>]
          /\ p[1] > 0 /\ p[2] > 0 => h[<< p[1] - 1, p[2] - 1 >>] = g[<< p[1] - 1, p[2] - 1 >>]
      BY <2>3, Neighbours
    <3>3. p[1] = 0 \/ p[1] > 0
      BY <3>2
    <3>4. p[2] = 0 \/ p[2] > 0
      BY <3>2
    <3>5. QED BY <3>2, <3>3, <3>4 DEF Walk
  <2>5. h = [p \in Corner(left, right, k + 1) |-> Walk(h, dp, left, right, p)]
    BY <2>4 DEF h
  <2>6. QED BY <2>5
<1> HIDE DEF G
<1>3. \A k \in Nat : k \in G
  BY <1>1, <1>2, EveryNatural
<1>4. PICK k \in Nat : Corner(left, right, k) = Grid(left, right)
  BY BelowEnds
<1>5. k \in G
  BY <1>3
<1>6. QED BY <1>4, <1>5 DEF G

(* So table and scripts are what their definitions say. *)
LEMMA TableIs ==
    ASSUME NEW left \in Seq(StepTexts), NEW right \in Seq(StepTexts),
           NEW dp, dp = LengthTable(left, right)
    PROVE  dp = [p \in Grid(left, right) |-> Cell(dp, left, right, p)]
<1>1. LengthTable(left, right) = CHOOSE g : g = [p \in Grid(left, right) |-> Cell(g, left, right, p)]
  BY DEF LengthTable, Cell, Grid
<1>2. QED BY <1>1, TableExists

(* The scripts are the walk back from each place. *)
LEMMA ScriptsAre ==
    ASSUME NEW left \in Seq(StepTexts), NEW right \in Seq(StepTexts),
           NEW dp, dp = LengthTable(left, right),
           NEW sc, sc = Scripts(left, right)
    PROVE  sc = [p \in Grid(left, right) |-> Walk(sc, dp, left, right, p)]
<1>1. Scripts(left, right) =
          CHOOSE g : g = [p \in Grid(left, right) |->
                              Walk(g, LengthTable(left, right), left, right, p)]
  BY DEF Scripts, Walk, Grid
<1>2. QED BY <1>1, ScriptsExist

(* Two versions are compared by both fields of a step. *)
LEMMA EqualSteps ==
    ASSUME NEW a \in StepTexts, NEW b \in StepTexts
    PROVE  stepsEqual(a, b) <=> a = b
<1>1. a = [action |-> a.action, expected |-> a.expected]
      /\ b = [action |-> b.action, expected |-> b.expected]
  BY DiffAssumption
<1>2. QED BY <1>1 DEF stepsEqual

(* The greater of two lengths. *)
LEMMA MaxOfTwo ==
    ASSUME NEW a \in Nat, NEW b \in Nat
    PROVE  Max({a, b}) = IF a >= b THEN a ELSE b
<1> DEFINE top == IF a >= b THEN a ELSE b
<1>1. top \in {a, b} /\ top >= a /\ top >= b
  OBVIOUS
<1>2. ASSUME NEW x \in {a, b}, x >= a, x >= b PROVE x = top
  BY <1>2
<1> HIDE DEF top
<1>3. Max({a, b}) = top
  BY <1>1, <1>2 DEF Max
<1>4. QED BY <1>3 DEF top

(* A length of the table, from those one step shorter. *)
LengthAt(dp, left, right, i, j) ==
    /\ dp[<< i, j >>] \in Nat
    /\ i = 0 \/ j = 0 => dp[<< i, j >>] = 0
    /\ i > 0 /\ j > 0 /\ left[i] = right[j] =>
           dp[<< i, j >>] = dp[<< i - 1, j - 1 >>] + 1
    /\ i > 0 /\ j > 0 /\ left[i] # right[j] =>
           dp[<< i, j >>] = IF dp[<< i - 1, j >>] >= dp[<< i, j - 1 >>]
                            THEN dp[<< i - 1, j >>] ELSE dp[<< i, j - 1 >>]

(* The table by its rows and columns. *)
LEMMA TableCells ==
    ASSUME NEW left \in Seq(StepTexts), NEW right \in Seq(StepTexts),
           NEW dp, dp = LengthTable(left, right)
    PROVE  \A i \in 0..Len(left), j \in 0..Len(right) :
               LengthAt(dp, left, right, i, j)
<1>1. PICK m \in Nat, n \in Nat : m = Len(left) /\ n = Len(right)
  BY LenProperties
<1>2. \A i \in 0..m, j \in 0..n : << i, j >> \in Grid(left, right)
  BY <1>1 DEF Grid
<1>3. \A p \in Grid(left, right) : dp[p] = Cell(dp, left, right, p)
  <2>1. dp = [p \in Grid(left, right) |-> Cell(dp, left, right, p)]
    BY TableIs
  <2>2. QED BY <2>1
<1>4. ASSUME NEW i \in 0..m, NEW j \in 0..n
      PROVE  /\ i = 0 \/ j = 0 => dp[<< i, j >>] = 0
             /\ i > 0 /\ j > 0 => i - 1 \in 0..m /\ j - 1 \in 0..n
             /\ i > 0 /\ j > 0 /\ left[i] = right[j] =>
                    dp[<< i, j >>] = dp[<< i - 1, j - 1 >>] + 1
             /\ i > 0 /\ j > 0 /\ left[i] # right[j] =>
                    dp[<< i, j >>] = Max({dp[<< i - 1, j >>], dp[<< i, j - 1 >>]})
  <2>1. dp[<< i, j >>] =
            IF i = 0 \/ j = 0 THEN 0
            ELSE IF stepsEqual(left[i], right[j]) THEN dp[<< i - 1, j - 1 >>] + 1
            ELSE Max({dp[<< i - 1, j >>], dp[<< i, j - 1 >>]})
    BY <1>2, <1>3 DEF Cell
  <2>2. CASE i = 0 \/ j = 0
    BY <2>1, <2>2
  <2>3. CASE i > 0 /\ j > 0
    <3>1. i \in 1..m /\ j \in 1..n
      BY <2>3
    <3>2. left[i] \in StepTexts /\ right[j] \in StepTexts
      BY <1>1, <3>1, ElementOfSeq
    <3>3. stepsEqual(left[i], right[j]) <=> left[i] = right[j]
      BY <3>2, EqualSteps
    <3>4. i - 1 \in 0..m /\ j - 1 \in 0..n
      BY <3>1
    <3>5. QED BY <2>1, <2>3, <3>3, <3>4
  <2>4. QED BY <2>2, <2>3
<1> DEFINE G == {p \in Grid(left, right) : dp[p] \in Nat}
<1>5. \A i \in 0..m, j \in 0..n : << i, j >> \in G
  <2>1. ASSUME NEW i \in 0..m, NEW j \in 0..n,
               \A a \in 0..m, b \in 0..n : a + b < i + j => << a, b >> \in G
        PROVE  << i, j >> \in G
    <3>1. CASE i = 0 \/ j = 0
      <4>1. << i, j >> \in Grid(left, right) /\ dp[<< i, j >>] = 0
        BY <1>2, <1>4, <3>1
      <4>2. QED BY <4>1
    <3>2. CASE i > 0 /\ j > 0
      <4>1. i - 1 \in 0..m /\ j - 1 \in 0..n
        BY <3>2
      <4>2. << i - 1, j >> \in G /\ << i, j - 1 >> \in G /\ << i - 1, j - 1 >> \in G
        <5>1. (i - 1) + j < i + j /\ i + (j - 1) < i + j /\ (i - 1) + (j - 1) < i + j
          OBVIOUS
        <5> HIDE DEF G
        <5>2. QED BY <2>1, <4>1, <5>1
      <4>3. PICK x \in Nat, y \in Nat, z \in Nat :
                x = dp[<< i - 1, j >>] /\ y = dp[<< i, j - 1 >>] /\ z = dp[<< i - 1, j - 1 >>]
        BY <4>2
      <4>4. dp[<< i, j >>] = z + 1 \/ dp[<< i, j >>] = Max({x, y})
        BY <1>4, <3>2, <4>3
      <4>5. Max({x, y}) \in Nat
        BY MaxOfTwo
      <4>6. QED BY <1>2, <4>4, <4>5
    <3>3. QED BY <3>1, <3>2
  <2> HIDE DEF G
  <2>2. QED BY <2>1, PairsBySum
<1>6. \A i \in 0..m, j \in 0..n : dp[<< i, j >>] \in Nat
  BY <1>5
<1>7. ASSUME NEW i \in 0..m, NEW j \in 0..n, i > 0 /\ j > 0
      PROVE  Max({dp[<< i - 1, j >>], dp[<< i, j - 1 >>]}) =
                 IF dp[<< i - 1, j >>] >= dp[<< i, j - 1 >>]
                 THEN dp[<< i - 1, j >>] ELSE dp[<< i, j - 1 >>]
  <2>1. i - 1 \in 0..m /\ j - 1 \in 0..n
    BY <1>7
  <2>2. dp[<< i - 1, j >>] \in Nat /\ dp[<< i, j - 1 >>] \in Nat
    BY <1>6, <2>1
  <2>3. QED BY <2>2, MaxOfTwo
<1>8. ASSUME NEW i \in 0..m, NEW j \in 0..n, i > 0, j > 0, left[i] # right[j]
      PROVE  dp[<< i, j >>] = IF dp[<< i - 1, j >>] >= dp[<< i, j - 1 >>]
                              THEN dp[<< i - 1, j >>] ELSE dp[<< i, j - 1 >>]
  <2>1. dp[<< i, j >>] = Max({dp[<< i - 1, j >>], dp[<< i, j - 1 >>]})
    BY <1>4, <1>8
  <2>2. Max({dp[<< i - 1, j >>], dp[<< i, j - 1 >>]}) =
            IF dp[<< i - 1, j >>] >= dp[<< i, j - 1 >>]
            THEN dp[<< i - 1, j >>] ELSE dp[<< i, j - 1 >>]
    BY <1>7, <1>8
  <2>3. QED BY <2>1, <2>2, Zenon
<1>9. ASSUME NEW i \in 0..Len(left), NEW j \in 0..Len(right)
      PROVE  i \in 0..m /\ j \in 0..n
  BY <1>1
<1>10. \A i \in 0..m, j \in 0..n : LengthAt(dp, left, right, i, j)
  BY <1>4, <1>6, <1>8, Zenon DEF LengthAt
<1>11. QED BY <1>9, <1>10, Zenon

(* A script, from those one step shorter. *)
ScriptAt(sc, dp, left, right, i, j) ==
    /\ i = 0 /\ j = 0 => sc[<< i, j >>] = << >>
    /\ i > 0 /\ j > 0 /\ left[i] = right[j] =>
           sc[<< i, j >>] = Append(sc[<< i - 1, j - 1 >>], Entry("equal", left[i], right[j]))
    /\ ~(i > 0 /\ j > 0 /\ left[i] = right[j]) =>
           \/ i = 0 /\ j = 0
           \/ /\ j > 0 /\ (i = 0 \/ dp[<< i, j - 1 >>] >= dp[<< i - 1, j >>])
              /\ sc[<< i, j >>] = Append(sc[<< i, j - 1 >>], Entry("added", NoStep, right[j]))
           \/ /\ i > 0 /\ (j = 0 \/ ~(dp[<< i, j - 1 >>] >= dp[<< i - 1, j >>]))
              /\ sc[<< i, j >>] = Append(sc[<< i - 1, j >>], Entry("removed", left[i], NoStep))

(* The scripts by the same places. *)
LEMMA ScriptCells ==
    ASSUME NEW left \in Seq(StepTexts), NEW right \in Seq(StepTexts),
           NEW dp, dp = LengthTable(left, right),
           NEW sc, sc = Scripts(left, right),
           NEW i \in 0..Len(left), NEW j \in 0..Len(right)
    PROVE  ScriptAt(sc, dp, left, right, i, j)
<1>1. PICK m \in Nat, n \in Nat : m = Len(left) /\ n = Len(right) /\ i \in 0..m /\ j \in 0..n
  BY LenProperties
<1>2. << i, j >> \in Grid(left, right)
  BY DEF Grid
<1>3. sc[<< i, j >>] = Walk(sc, dp, left, right, << i, j >>)
  <2>1. sc = [p \in Grid(left, right) |-> Walk(sc, dp, left, right, p)]
    BY ScriptsAre
  <2>2. QED BY <1>2, <2>1
<1>4. sc[<< i, j >>] =
          IF i = 0 /\ j = 0 THEN << >>
          ELSE IF i > 0 /\ j > 0 /\ stepsEqual(left[i], right[j])
          THEN Append(sc[<< i - 1, j - 1 >>], Entry("equal", left[i], right[j]))
          ELSE IF j > 0 /\ (i = 0 \/ dp[<< i, j - 1 >>] >= dp[<< i - 1, j >>])
          THEN Append(sc[<< i, j - 1 >>], Entry("added", NoStep, right[j]))
          ELSE Append(sc[<< i - 1, j >>], Entry("removed", left[i], NoStep))
  BY <1>3 DEF Walk
<1>5. i > 0 /\ j > 0 => (stepsEqual(left[i], right[j]) <=> left[i] = right[j])
  <2>1. ASSUME i > 0, j > 0 PROVE left[i] \in StepTexts /\ right[j] \in StepTexts
    <3>1. i \in 1..m /\ j \in 1..n
      BY <1>1, <2>1
    <3>2. QED BY <1>1, <3>1, ElementOfSeq
  <2>2. QED BY <2>1, EqualSteps
<1>6. (i = 0 \/ i > 0) /\ (j = 0 \/ j > 0)
  BY <1>1
<1>7. CASE i > 0 /\ j > 0 /\ left[i] = right[j]
  <2>1. ~(i = 0 /\ j = 0)
    BY <1>7
  <2>2. QED BY <1>4, <1>5, <1>7, <2>1, Zenon DEF ScriptAt
<1>8. CASE ~(i > 0 /\ j > 0 /\ left[i] = right[j])
  <2>1. CASE i = 0 /\ j = 0
    BY <1>4, <1>8, <2>1, Zenon DEF ScriptAt
  <2>2. CASE ~(i = 0 /\ j = 0) /\ j > 0 /\ (i = 0 \/ dp[<< i, j - 1 >>] >= dp[<< i - 1, j >>])
    <3>1. sc[<< i, j >>] = Append(sc[<< i, j - 1 >>], Entry("added", NoStep, right[j]))
      BY <1>4, <1>5, <1>8, <2>2, Zenon
    <3>2. QED BY <1>8, <2>2, <3>1, Zenon DEF ScriptAt
  <2>3. CASE ~(i = 0 /\ j = 0) /\ ~(j > 0 /\ (i = 0 \/ dp[<< i, j - 1 >>] >= dp[<< i - 1, j >>]))
    <3>1. sc[<< i, j >>] = Append(sc[<< i - 1, j >>], Entry("removed", left[i], NoStep))
      BY <1>4, <1>5, <1>8, <2>3, Zenon
    <3>2. i > 0 /\ (j = 0 \/ ~(dp[<< i, j - 1 >>] >= dp[<< i - 1, j >>]))
      BY <1>6, <2>3, Zenon
    <3>3. QED BY <1>8, <2>3, <3>1, <3>2, Zenon DEF ScriptAt
  <2>4. QED BY <2>1, <2>2, <2>3, Zenon
<1>9. QED BY <1>7, <1>8

-----------------------------------------------------------------------------
(* Entries of a script. *)
DiffEntries ==
    [type : {"equal", "added", "removed"},
     left : StepTexts \cup {NoStep}, right : StepTexts \cup {NoStep}]

(* An entry more is seen by who reads its kind, and by no one else. *)
LEMMA OfAppend ==
    ASSUME NEW d \in Seq(DiffEntries), NEW e \in DiffEntries, NEW types
    PROVE  /\ Append(d, e) \in Seq(DiffEntries) /\ Of(d, types) \in Seq(DiffEntries)
           /\ e.type \in types => Of(Append(d, e), types) = Append(Of(d, types), e)
           /\ e.type \notin types => Of(Append(d, e), types) = Of(d, types)
<1>1. PICK length \in Nat : length = Len(d) /\ DOMAIN d = 1..length
  BY LenProperties
<1> DEFINE r == Append(d, e)
           S == {n \in DOMAIN d : d[n].type \in types}
           U == {n \in DOMAIN r : r[n].type \in types}
<1>2. /\ r \in Seq(DiffEntries) /\ Len(r) = length + 1 /\ r[length + 1] = e
      /\ \A k \in 1..length : r[k] = d[k]
  BY <1>1, AppendProperties
<1>3. S \in SUBSET DOMAIN d
  OBVIOUS
<1>4. Of(d, types) \in Seq(DiffEntries) /\ Of(d, types) = Kept(d, S) /\ Of(r, types) = Kept(r, U)
  BY <1>3, KeptEntries DEF Of
<1>5. DOMAIN r = 1..(length + 1)
  <2> HIDE DEF r
  <2>1. QED BY <1>2, LenProperties
<1>6. /\ Kept(r, S) = Kept(d, S)
      /\ Kept(r, S \cup {length + 1}) = Append(Kept(d, S), e)
  <2> HIDE DEF r, S
  <2>1. S \in SUBSET DOMAIN r /\ Kept(r, S) = Kept(d, S)
    BY <1>1, <1>2, <1>3, KeptOfLonger
  <2>2. \A y \in S : y < length + 1
    BY <1>1, <1>3
  <2>3. length + 1 \in DOMAIN r
    BY <1>5
  <2>4. Kept(r, S \cup {length + 1}) = Append(Kept(r, S), r[length + 1])
    BY <1>2, <2>1, <2>2, <2>3, KeptWithNext
  <2>5. QED BY <1>2, <2>1, <2>4
<1>7. U = IF e.type \in types THEN S \cup {length + 1} ELSE S
  <2> HIDE DEF r
  <2>1. \A n \in 1..(length + 1) : n \in 1..length \/ n = length + 1
    OBVIOUS
  <2>2. \A n \in 1..length : n \in 1..(length + 1) /\ n # length + 1
    OBVIOUS
  <2>3. length + 1 \in 1..(length + 1)
    OBVIOUS
  <2>4. QED BY <1>1, <1>2, <1>5, <2>1, <2>2, <2>3
<1> HIDE DEF S, U
<1>8. QED BY <1>2, <1>4, <1>6, <1>7

(* What a script from the first i to the first j steps says: read without what
   was added it is the one, without what was removed the other, and it keeps
   as many steps as the table says. *)
GoodScript(d, left, right, i, j, same) ==
    /\ d \in Seq(DiffEntries)
    /\ Len(Of(d, {"equal", "removed"})) = i
    /\ \A k \in 1..i : Of(d, {"equal", "removed"})[k].left = left[k]
    /\ Len(Of(d, {"equal", "added"})) = j
    /\ \A k \in 1..j : Of(d, {"equal", "added"})[k].right = right[k]
    /\ Len(Of(d, {"equal"})) = same
    /\ \A k \in 1..same : Of(d, {"equal"})[k].left = Of(d, {"equal"})[k].right

(* A list read to one place more. *)
LEMMA ReadOneMore ==
    ASSUME NEW r \in Seq(DiffEntries), NEW e \in DiffEntries, NEW n \in Nat, Len(r) = n
    PROVE  /\ Len(Append(r, e)) = n + 1
           /\ \A k \in 1..n : Append(r, e)[k] = r[k]
           /\ Append(r, e)[n + 1] = e
           /\ \A k \in 1..(n + 1) : k \in 1..n \/ k = n + 1
BY AppendProperties

(* A script stays good with a step that both have, *)
LEMMA GoodEqual ==
    ASSUME NEW left, NEW right, NEW i \in Nat, NEW j \in Nat, NEW same \in Nat,
           NEW d, GoodScript(d, left, right, i, j, same),
           left[i + 1] \in StepTexts, left[i + 1] = right[j + 1]
    PROVE  GoodScript(Append(d, Entry("equal", left[i + 1], right[j + 1])), left, right,
                      i + 1, j + 1, same + 1)
<1> DEFINE e == Entry("equal", left[i + 1], right[j + 1])
<1>1. /\ e \in DiffEntries /\ e.type = "equal"
      /\ e.left = left[i + 1] /\ e.right = right[j + 1] /\ e.left = e.right
  BY DEF Entry, DiffEntries
<1> HIDE DEF e
<1>2. PICK old \in Seq(DiffEntries), new \in Seq(DiffEntries), both \in Seq(DiffEntries) :
          /\ old = Of(d, {"equal", "removed"}) /\ new = Of(d, {"equal", "added"})
          /\ both = Of(d, {"equal"})
  BY <1>1, OfAppend DEF GoodScript
<1>3. /\ Append(d, e) \in Seq(DiffEntries)
      /\ Of(Append(d, e), {"equal", "removed"}) = Append(old, e)
      /\ Of(Append(d, e), {"equal", "added"}) = Append(new, e)
      /\ Of(Append(d, e), {"equal"}) = Append(both, e)
  <2>1. d \in Seq(DiffEntries)
    BY DEF GoodScript
  <2>2. Append(d, e) \in Seq(DiffEntries)
    BY <1>1, <2>1, AppendProperties
  <2>3. Of(Append(d, e), {"equal", "removed"}) = Append(old, e)
    BY <1>1, <1>2, <2>1, OfAppend
  <2>4. Of(Append(d, e), {"equal", "added"}) = Append(new, e)
    BY <1>1, <1>2, <2>1, OfAppend
  <2>5. Of(Append(d, e), {"equal"}) = Append(both, e)
    BY <1>1, <1>2, <2>1, OfAppend
  <2>6. QED BY <2>2, <2>3, <2>4, <2>5
<1>4. Len(old) = i /\ Len(new) = j /\ Len(both) = same
  BY <1>2 DEF GoodScript
<1>5. Len(Append(old, e)) = i + 1 /\ \A k \in 1..(i + 1) : Append(old, e)[k].left = left[k]
  BY <1>1, <1>2, <1>4, ReadOneMore DEF GoodScript
<1>6. Len(Append(new, e)) = j + 1 /\ \A k \in 1..(j + 1) : Append(new, e)[k].right = right[k]
  BY <1>1, <1>2, <1>4, ReadOneMore DEF GoodScript
<1>7. /\ Len(Append(both, e)) = same + 1
      /\ \A k \in 1..(same + 1) : Append(both, e)[k].left = Append(both, e)[k].right
  BY <1>1, <1>2, <1>4, ReadOneMore DEF GoodScript
<1>8. GoodScript(Append(d, e), left, right, i + 1, j + 1, same + 1)
  BY <1>3, <1>5, <1>6, <1>7 DEF GoodScript
<1>9. QED BY <1>8 DEF e

(* with one that was added, *)
LEMMA GoodAdded ==
    ASSUME NEW left, NEW right, NEW i \in Nat, NEW j \in Nat, NEW same \in Nat,
           NEW d, GoodScript(d, left, right, i, j, same), right[j + 1] \in StepTexts
    PROVE  GoodScript(Append(d, Entry("added", NoStep, right[j + 1])), left, right,
                      i, j + 1, same)
<1> DEFINE e == Entry("added", NoStep, right[j + 1])
<1>1. e \in DiffEntries /\ e.type = "added" /\ e.right = right[j + 1]
  BY DEF Entry, DiffEntries
<1> HIDE DEF e
<1>2. PICK new \in Seq(DiffEntries) : new = Of(d, {"equal", "added"})
  BY <1>1, OfAppend DEF GoodScript
<1>3. /\ Append(d, e) \in Seq(DiffEntries)
      /\ Of(Append(d, e), {"equal", "removed"}) = Of(d, {"equal", "removed"})
      /\ Of(Append(d, e), {"equal", "added"}) = Append(new, e)
      /\ Of(Append(d, e), {"equal"}) = Of(d, {"equal"})
  BY <1>1, <1>2, OfAppend DEF GoodScript
<1>4. Len(Append(new, e)) = j + 1 /\ \A k \in 1..(j + 1) : Append(new, e)[k].right = right[k]
  BY <1>1, <1>2, ReadOneMore DEF GoodScript
<1>5. GoodScript(Append(d, e), left, right, i, j + 1, same)
  BY <1>3, <1>4 DEF GoodScript
<1>6. QED BY <1>5 DEF e

(* and with one that was removed. *)
LEMMA GoodRemoved ==
    ASSUME NEW left, NEW right, NEW i \in Nat, NEW j \in Nat, NEW same \in Nat,
           NEW d, GoodScript(d, left, right, i, j, same), left[i + 1] \in StepTexts
    PROVE  GoodScript(Append(d, Entry("removed", left[i + 1], NoStep)), left, right,
                      i + 1, j, same)
<1> DEFINE e == Entry("removed", left[i + 1], NoStep)
<1>1. e \in DiffEntries /\ e.type = "removed" /\ e.left = left[i + 1]
  BY DEF Entry, DiffEntries
<1> HIDE DEF e
<1>2. PICK old \in Seq(DiffEntries) : old = Of(d, {"equal", "removed"})
  BY <1>1, OfAppend DEF GoodScript
<1>3. /\ Append(d, e) \in Seq(DiffEntries)
      /\ Of(Append(d, e), {"equal", "removed"}) = Append(old, e)
      /\ Of(Append(d, e), {"equal", "added"}) = Of(d, {"equal", "added"})
      /\ Of(Append(d, e), {"equal"}) = Of(d, {"equal"})
  BY <1>1, <1>2, OfAppend DEF GoodScript
<1>4. Len(Append(old, e)) = i + 1 /\ \A k \in 1..(i + 1) : Append(old, e)[k].left = left[k]
  BY <1>1, <1>2, ReadOneMore DEF GoodScript
<1>5. GoodScript(Append(d, e), left, right, i + 1, j, same)
  BY <1>3, <1>4 DEF GoodScript
<1>6. QED BY <1>5 DEF e

(* Every script is good. *)
LEMMA ScriptsAreGood ==
    ASSUME NEW left \in Seq(StepTexts), NEW right \in Seq(StepTexts),
           NEW dp, dp = LengthTable(left, right),
           NEW sc, sc = Scripts(left, right)
    PROVE  \A i \in 0..Len(left), j \in 0..Len(right) :
               GoodScript(sc[<< i, j >>], left, right, i, j, dp[<< i, j >>])
<1>1. PICK m \in Nat, n \in Nat : m = Len(left) /\ n = Len(right)
  BY LenProperties
<1> DEFINE G == {p \in (0..m) \X (0..n) :
                     GoodScript(sc[<< p[1], p[2] >>], left, right, p[1], p[2], dp[<< p[1], p[2] >>])}
<1>2. \A i \in 0..m, j \in 0..n :
          << i, j >> \in G <=> GoodScript(sc[<< i, j >>], left, right, i, j, dp[<< i, j >>])
  OBVIOUS
<1> HIDE DEF G
<1>3. ASSUME NEW i \in 0..m, NEW j \in 0..n,
             \A a \in 0..m, b \in 0..n : a + b < i + j => << a, b >> \in G
      PROVE  << i, j >> \in G
  <2>1. SUFFICES GoodScript(sc[<< i, j >>], left, right, i, j, dp[<< i, j >>])
    BY <1>2
  <2>2. /\ i \in Nat /\ j \in Nat
        /\ i \in 0..Len(left) /\ j \in 0..Len(right)
        /\ LengthAt(dp, left, right, i, j)
        /\ ScriptAt(sc, dp, left, right, i, j)
    BY <1>1, TableCells, ScriptCells
  <2>3. i > 0 =>
            /\ i - 1 \in 0..m /\ i - 1 \in Nat /\ (i - 1) + 1 = i /\ (i - 1) + j < i + j
            /\ left[i] \in StepTexts
    <3>1. i > 0 => i \in 1..Len(left)
      BY <1>1
    <3>2. QED BY <3>1, <1>1, ElementOfSeq
  <2>4. j > 0 =>
            /\ j - 1 \in 0..n /\ j - 1 \in Nat /\ (j - 1) + 1 = j /\ i + (j - 1) < i + j
            /\ right[j] \in StepTexts
    <3>1. j > 0 => j \in 1..Len(right)
      BY <1>1
    <3>2. QED BY <3>1, <1>1, ElementOfSeq
  <2>5. i > 0 => GoodScript(sc[<< i - 1, j >>], left, right, i - 1, j, dp[<< i - 1, j >>])
    BY <1>2, <1>3, <2>3
  <2>6. j > 0 => GoodScript(sc[<< i, j - 1 >>], left, right, i, j - 1, dp[<< i, j - 1 >>])
    BY <1>2, <1>3, <2>4
  <2>7. i > 0 => dp[<< i - 1, j >>] \in Nat /\ (j = 0 => dp[<< i - 1, j >>] = 0)
    <3>1. i > 0 => LengthAt(dp, left, right, i - 1, j)
      BY <1>1, <2>3, TableCells
    <3>2. QED BY <3>1 DEF LengthAt
  <2>8. j > 0 => dp[<< i, j - 1 >>] \in Nat /\ (i = 0 => dp[<< i, j - 1 >>] = 0)
    <3>1. j > 0 => LengthAt(dp, left, right, i, j - 1)
      BY <1>1, <2>4, TableCells
    <3>2. QED BY <3>1 DEF LengthAt
  <2>9. CASE i > 0 /\ j > 0 /\ left[i] = right[j]
    <3>1. GoodScript(sc[<< i - 1, j - 1 >>], left, right, i - 1, j - 1, dp[<< i - 1, j - 1 >>])
      <4>1. (i - 1) + (j - 1) < i + j
        BY <2>2
      <4>2. QED BY <1>2, <1>3, <2>3, <2>4, <2>9, <4>1
    <3>2. dp[<< i - 1, j - 1 >>] \in Nat
      <4>1. LengthAt(dp, left, right, i - 1, j - 1)
        BY <1>1, <2>3, <2>4, <2>9, TableCells
      <4>2. QED BY <4>1 DEF LengthAt
    <3>3. PICK h, l, same, d :
              /\ h = i - 1 /\ l = j - 1 /\ same = dp[<< i - 1, j - 1 >>] /\ d = sc[<< i - 1, j - 1 >>]
              /\ h \in Nat /\ l \in Nat /\ same \in Nat
      BY <2>3, <2>4, <2>9, <3>2
    <3>4. h + 1 = i /\ l + 1 = j
      BY <2>3, <2>4, <2>9, <3>3
    <3>5. GoodScript(Append(d, Entry("equal", left[h + 1], right[l + 1])), left, right,
                     h + 1, l + 1, same + 1)
      BY <2>3, <2>9, <3>1, <3>3, <3>4, GoodEqual
    <3>6. sc[<< i, j >>] = Append(d, Entry("equal", left[i], right[j]))
      BY <2>2, <2>9, <3>3 DEF ScriptAt
    <3>7. dp[<< i, j >>] = same + 1
      BY <2>2, <2>9, <3>3 DEF LengthAt
    <3>8. QED BY <3>4, <3>5, <3>6, <3>7
  <2>10. CASE i = 0 /\ j = 0
    <3>1. sc[<< i, j >>] = << >> /\ dp[<< i, j >>] = 0
      BY <2>2, <2>10 DEF LengthAt, ScriptAt
    <3>2. ASSUME NEW types PROVE Len(Of(<< >>, types)) = 0
      <4>1. << >> \in Seq(DiffEntries) /\ DOMAIN << >> = {}
        OBVIOUS
      <4>2. {k \in DOMAIN << >> : << >>[k].type \in types} = {}
        BY <4>1
      <4>3. Len(Kept(<< >>, {})) = 0
        BY <4>1, KeptEntries, FS_EmptySet
      <4>4. QED BY <4>2, <4>3 DEF Of
    <3>3. << >> \in Seq(DiffEntries)
      OBVIOUS
    <3>4. QED BY <2>10, <3>1, <3>2, <3>3 DEF GoodScript
  <2>11. CASE /\ j > 0 /\ ~(i > 0 /\ left[i] = right[j])
              /\ i = 0 \/ dp[<< i, j - 1 >>] >= dp[<< i - 1, j >>]
              /\ sc[<< i, j >>] = Append(sc[<< i, j - 1 >>], Entry("added", NoStep, right[j]))
    <3>1. dp[<< i, j >>] = dp[<< i, j - 1 >>]
      <4>1. CASE i = 0
        BY <2>2, <2>8, <2>11, <4>1 DEF LengthAt
      <4>2. CASE i > 0
        <5>1. PICK x \in Nat, y \in Nat : x = dp[<< i - 1, j >>] /\ y = dp[<< i, j - 1 >>]
          BY <2>7, <2>8, <2>11, <4>2
        <5>2. dp[<< i, j >>] = IF x >= y THEN x ELSE y
          BY <2>2, <2>11, <4>2, <5>1 DEF LengthAt
        <5>3. y >= x
          BY <2>11, <4>2, <5>1
        <5>4. QED BY <5>1, <5>2, <5>3
      <4>3. QED BY <2>2, <4>1, <4>2
    <3>2. PICK l, same, d :
              /\ l = j - 1 /\ same = dp[<< i, j - 1 >>] /\ d = sc[<< i, j - 1 >>]
              /\ l \in Nat /\ same \in Nat
      BY <2>4, <2>8, <2>11
    <3>3. l + 1 = j
      BY <2>4, <2>11, <3>2
    <3>4. GoodScript(Append(d, Entry("added", NoStep, right[l + 1])), left, right, i, l + 1, same)
      BY <2>2, <2>4, <2>6, <2>11, <3>2, <3>3, GoodAdded
    <3>5. QED BY <2>11, <3>1, <3>2, <3>3, <3>4
  <2>12. CASE /\ i > 0 /\ ~(j > 0 /\ left[i] = right[j])
              /\ j = 0 \/ ~(dp[<< i, j - 1 >>] >= dp[<< i - 1, j >>])
              /\ sc[<< i, j >>] = Append(sc[<< i - 1, j >>], Entry("removed", left[i], NoStep))
    <3>1. dp[<< i, j >>] = dp[<< i - 1, j >>]
      <4>1. CASE j = 0
        BY <2>2, <2>7, <2>12, <4>1 DEF LengthAt
      <4>2. CASE j > 0
        <5>1. PICK x \in Nat, y \in Nat : x = dp[<< i - 1, j >>] /\ y = dp[<< i, j - 1 >>]
          BY <2>7, <2>8, <2>12, <4>2
        <5>2. dp[<< i, j >>] = IF x >= y THEN x ELSE y
          BY <2>2, <2>12, <4>2, <5>1 DEF LengthAt
        <5>3. ~(y >= x)
          BY <2>12, <4>2, <5>1
        <5>4. QED BY <5>1, <5>2, <5>3
      <4>3. QED BY <2>2, <4>1, <4>2
    <3>2. PICK h, same, d :
              /\ h = i - 1 /\ same = dp[<< i - 1, j >>] /\ d = sc[<< i - 1, j >>]
              /\ h \in Nat /\ same \in Nat
      BY <2>3, <2>7, <2>12
    <3>3. h + 1 = i
      BY <2>3, <2>12, <3>2
    <3>4. GoodScript(Append(d, Entry("removed", left[h + 1], NoStep)), left, right, h + 1, j, same)
      BY <2>2, <2>3, <2>5, <2>12, <3>2, <3>3, GoodRemoved
    <3>5. QED BY <2>12, <3>1, <3>2, <3>3, <3>4
  <2>13. QED
    <3>1. \/ i > 0 /\ j > 0 /\ left[i] = right[j]
          \/ i = 0 /\ j = 0
          \/ /\ j > 0 /\ (i = 0 \/ dp[<< i, j - 1 >>] >= dp[<< i - 1, j >>])
             /\ ~(i > 0 /\ left[i] = right[j])
             /\ sc[<< i, j >>] = Append(sc[<< i, j - 1 >>], Entry("added", NoStep, right[j]))
          \/ /\ i > 0 /\ (j = 0 \/ ~(dp[<< i, j - 1 >>] >= dp[<< i - 1, j >>]))
             /\ ~(j > 0 /\ left[i] = right[j])
             /\ sc[<< i, j >>] = Append(sc[<< i - 1, j >>], Entry("removed", left[i], NoStep))
      BY <2>2, Zenon DEF ScriptAt
    <3>2. QED BY <2>9, <2>10, <2>11, <2>12, <3>1
<1>4. \A i \in 0..m, j \in 0..n : << i, j >> \in G
  BY <1>3, PairsBySum
<1>5. QED BY <1>1, <1>2, <1>4

(* No choice of steps that both versions have in the same order is larger than
   the table says. *)
LEMMA NoneKeepsMore ==
    ASSUME NEW left \in Seq(StepTexts), NEW right \in Seq(StepTexts),
           NEW dp, dp = LengthTable(left, right)
    PROVE  \A i \in 0..Len(left), j \in 0..Len(right) :
               \A s \in SUBSET (1..i), t \in SUBSET (1..j) :
                   Kept(left, s) = Kept(right, t) => Cardinality(s) <= dp[<< i, j >>]
<1>1. PICK m \in Nat, n \in Nat :
          /\ m = Len(left) /\ n = Len(right) /\ DOMAIN left = 1..m /\ DOMAIN right = 1..n
  BY LenProperties
<1> DEFINE Bounded(i, j) ==
               \A s \in SUBSET (1..i), t \in SUBSET (1..j) :
                   Kept(left, s) = Kept(right, t) => Cardinality(s) <= dp[<< i, j >>]
           G == {p \in (0..m) \X (0..n) : Bounded(p[1], p[2])}
<1>2. \A i \in 0..m, j \in 0..n : << i, j >> \in G <=> Bounded(i, j)
  <2> HIDE DEF Bounded
  <2>1. QED OBVIOUS
<1> HIDE DEF G
<1>3. ASSUME NEW i \in 0..m, NEW j \in 0..n,
             \A a \in 0..m, b \in 0..n : a + b < i + j => << a, b >> \in G
      PROVE  << i, j >> \in G
  <2>1. SUFFICES ASSUME NEW s \in SUBSET (1..i), NEW t \in SUBSET (1..j),
                        Kept(left, s) = Kept(right, t)
                 PROVE  Cardinality(s) <= dp[<< i, j >>]
    BY <1>2
  <2>2. s \in SUBSET DOMAIN left /\ t \in SUBSET DOMAIN right
    BY <1>1
  <2>3. LengthAt(dp, left, right, i, j) /\ dp[<< i, j >>] \in Nat
    <3>1. LengthAt(dp, left, right, i, j)
      BY <1>1, TableCells
    <3>2. QED BY <3>1 DEF LengthAt
  <2>4. CASE s = {}
    BY <2>3, <2>4, FS_EmptySet
  <2>5. CASE s # {}
    <3>1. PICK x \in s, y \in t :
              /\ \A z \in s \ {x} : z < x
              /\ \A z \in t \ {y} : z < y
              /\ left[x] = right[y] /\ Kept(left, s \ {x}) = Kept(right, t \ {y})
              /\ Cardinality(s) = Cardinality(s \ {x}) + 1
      <4>1. PICK x \in s, y \in t : EndAlike(left, s, x, right, t, y)
        BY <2>1, <2>2, <2>5, KeptAlike
      <4>2. QED BY <4>1 DEF EndAlike
    <3>2. /\ i > 0 /\ j > 0 /\ i - 1 \in 0..m /\ j - 1 \in 0..n
          /\ (i - 1) + j < i + j /\ i + (j - 1) < i + j /\ (i - 1) + (j - 1) < i + j
      OBVIOUS
    <3>3. CASE left[i] = right[j]
      <4>1. s \ {x} \in SUBSET (1..(i - 1)) /\ t \ {y} \in SUBSET (1..(j - 1))
        <5>1. x <= i /\ y <= j /\ x \in Nat /\ y \in Nat
          OBVIOUS
        <5>2. \A z \in s \ {x} : z \in 1..(i - 1)
          BY <3>1, <5>1
        <5>3. \A z \in t \ {y} : z \in 1..(j - 1)
          BY <3>1, <5>1
        <5>4. QED BY <5>2, <5>3
      <4>2. Bounded(i - 1, j - 1)
        BY <1>2, <1>3, <3>2
      <4>3. Cardinality(s \ {x}) <= dp[<< i - 1, j - 1 >>]
        BY <3>1, <4>1, <4>2
      <4>4. dp[<< i, j >>] = dp[<< i - 1, j - 1 >>] + 1
        BY <2>3, <3>2, <3>3 DEF LengthAt
      <4>5. dp[<< i - 1, j - 1 >>] \in Nat
        <5>1. LengthAt(dp, left, right, i - 1, j - 1)
          BY <1>1, <3>2, TableCells
        <5>2. QED BY <5>1 DEF LengthAt
      <4>6. Cardinality(s \ {x}) \in Nat
        <5>1. s \ {x} \in SUBSET DOMAIN left
          BY <2>2
        <5>2. QED BY <5>1, PlacesFinite
      <4>7. QED BY <3>1, <4>3, <4>4, <4>5, <4>6
    <3>4. CASE left[i] # right[j]
      <4>1. PICK a \in Nat, b \in Nat : a = dp[<< i - 1, j >>] /\ b = dp[<< i, j - 1 >>]
        <5>1. LengthAt(dp, left, right, i - 1, j) /\ LengthAt(dp, left, right, i, j - 1)
          BY <1>1, <3>2, TableCells
        <5>2. QED BY <5>1 DEF LengthAt
      <4>2. dp[<< i, j >>] = IF a >= b THEN a ELSE b
        BY <2>3, <3>2, <3>4, <4>1 DEF LengthAt
      <4>3. a <= dp[<< i, j >>] /\ b <= dp[<< i, j >>]
        BY <4>2
      <4>4. Cardinality(s) \in Nat
        BY <2>2, PlacesFinite
      <4>5. CASE i \notin s
        <5>1. s \in SUBSET (1..(i - 1))
          BY <4>5
        <5>2. Bounded(i - 1, j)
          BY <1>2, <1>3, <3>2
        <5>3. Cardinality(s) <= a
          BY <2>1, <4>1, <5>1, <5>2
        <5>4. QED BY <2>3, <4>3, <4>4, <5>3
      <4>6. CASE j \notin t
        <5>1. t \in SUBSET (1..(j - 1))
          BY <4>6
        <5>2. Bounded(i, j - 1)
          BY <1>2, <1>3, <3>2
        <5>3. Cardinality(s) <= b
          BY <2>1, <4>1, <5>1, <5>2
        <5>4. QED BY <2>3, <4>3, <4>4, <5>3
      <4>7. CASE i \in s /\ j \in t
        <5>1. x = i
          <6>1. x <= i /\ x \in Nat
            OBVIOUS
          <6>2. x # i => i < x
            BY <3>1, <4>7
          <6>3. QED BY <6>1, <6>2
        <5>2. y = j
          <6>1. y <= j /\ y \in Nat
            OBVIOUS
          <6>2. y # j => j < y
            BY <3>1, <4>7
          <6>3. QED BY <6>1, <6>2
        <5>3. QED BY <3>1, <3>4, <5>1, <5>2
      <4>8. QED BY <4>5, <4>6, <4>7
    <3>5. QED BY <3>3, <3>4
  <2>6. QED BY <2>4, <2>5
<1>4. \A i \in 0..m, j \in 0..n : << i, j >> \in G
  <2> HIDE DEF Bounded
  <2>1. QED BY <1>3, PairsBySum
<1>5. QED BY <1>1, <1>2, <1>4

(* Of versions with the same steps the script has nothing but equal ones. *)
LEMMA SameIsEqual ==
    ASSUME NEW left \in Seq(StepTexts), NEW sc, sc = Scripts(left, left),
           NEW n \in Nat, n = Len(left)
    PROVE  \A k \in DOMAIN sc[<< n, n >>] : sc[<< n, n >>][k].type = "equal"
<1>1. PICK dp : dp = LengthTable(left, left)
  OBVIOUS
<1> DEFINE OnlyEqual(d) == \A k \in DOMAIN d : d[k].type = "equal"
           G == {i \in Nat : i <= n => OnlyEqual(sc[<< i, i >>])}
<1>2. 0 \in G
  <2>1. sc[<< 0, 0 >>] = << >>
    <3>1. 0 \in 0..Len(left)
      OBVIOUS
    <3>2. ScriptAt(sc, dp, left, left, 0, 0)
      BY <1>1, <3>1, ScriptCells
    <3>3. QED BY <3>2 DEF ScriptAt
  <2>2. QED BY <2>1
<1>3. ASSUME NEW i \in Nat, i \in G PROVE i + 1 \in G
  <2>1. SUFFICES ASSUME i + 1 <= n PROVE OnlyEqual(sc[<< i + 1, i + 1 >>])
    OBVIOUS
  <2>2. i \in 0..Len(left) /\ i + 1 \in 0..Len(left)
    BY <2>1
  <2>3. PICK d : d = sc[<< i, i >>]
    OBVIOUS
  <2>4. sc[<< i + 1, i + 1 >>] = Append(d, Entry("equal", left[i + 1], left[i + 1]))
    <3>1. ScriptAt(sc, dp, left, left, i + 1, i + 1)
      BY <1>1, <2>2, ScriptCells
    <3>2. i + 1 > 0 /\ (i + 1) - 1 = i
      OBVIOUS
    <3>3. QED BY <2>3, <3>1, <3>2 DEF ScriptAt
  <2>5. d \in Seq(DiffEntries)
    <3>1. GoodScript(d, left, left, i, i, dp[<< i, i >>])
      BY <1>1, <2>2, <2>3, ScriptsAreGood
    <3>2. QED BY <3>1 DEF GoodScript
  <2>6. OnlyEqual(d)
    BY <1>3, <2>1, <2>3
  <2>7. PICK e : e = Entry("equal", left[i + 1], left[i + 1])
    OBVIOUS
  <2>8. e.type = "equal" /\ e \in DiffEntries
    <3>1. left[i + 1] \in StepTexts
      BY <2>1, ElementOfSeq
    <3>2. QED BY <2>7, <3>1 DEF Entry, DiffEntries
  <2>9. PICK length \in Nat : length = Len(d) /\ DOMAIN d = 1..length
    BY <2>5, LenProperties
  <2> DEFINE r == Append(d, e)
  <2>10. r \in Seq(DiffEntries) /\ Len(r) = length + 1 /\ r[length + 1] = e
         /\ \A k \in 1..length : r[k] = d[k]
    BY <2>5, <2>8, <2>9, AppendProperties
  <2> HIDE DEF r
  <2>11. DOMAIN r = 1..(length + 1)
    BY <2>10, LenProperties
  <2>12. OnlyEqual(r)
    BY <2>6, <2>8, <2>9, <2>10, <2>11
  <2>13. QED BY <2>4, <2>7, <2>12 DEF r
<1> HIDE DEF G
<1>4. n \in G
  BY <1>2, <1>3, EveryNatural
<1>5. QED BY <1>4 DEF G

(* What the panel shows of any two versions is a shortest script from the one
   to the other, and it says "No changes" just of versions that are alike:
   the comparison of services/diff.ts, for every title, tag, step text and
   number of steps. *)
THEOREM DiffIsShortest == DiffInit => DiffIsAShortestScript
<1> SUFFICES ASSUME DiffInit PROVE DiffIsAShortestScript
  OBVIOUS
<1>1. PICK left \in Seq(StepTexts), right \in Seq(StepTexts) :
          left = before.steps /\ right = after.steps
  <2>1. ASSUME NEW s \in BoundedSeq(StepTexts, MaxStepCount) PROVE s \in Seq(StepTexts)
    <3>1. PICK m \in 0..MaxStepCount : s \in [1..m -> StepTexts]
      BY DiffAssumption DEF BoundedSeq, SeqOf
    <3>2. m \in Nat
      BY DiffAssumption
    <3>3. QED BY <3>1, <3>2
  <2>2. /\ before.steps \in BoundedSeq(StepTexts, MaxStepCount)
        /\ after.steps \in BoundedSeq(StepTexts, MaxStepCount)
    BY DEF DiffInit, Versions
  <2>3. QED BY <2>1, <2>2
<1>2. PICK m \in Nat, n \in Nat :
          /\ m = Len(left) /\ n = Len(right) /\ DOMAIN left = 1..m /\ DOMAIN right = 1..n
  BY LenProperties
<1>3. PICK dp, sc, d :
          /\ dp = LengthTable(left, right) /\ sc = Scripts(left, right)
          /\ d = lcsStepDiff(left, right) /\ d = sc[<< m, n >>]
  BY <1>2 DEF lcsStepDiff
<1> DEFINE diff == diffSnapshots(before, after)
<1>4. /\ diff.steps = d /\ diff.titleChanged = (before.title # after.title)
      /\ diff.added = after.tags \ before.tags /\ diff.removed = before.tags \ after.tags
  BY <1>1, <1>3 DEF diffSnapshots
<1> HIDE DEF diff
<1>5. m \in 0..Len(left) /\ n \in 0..Len(right)
  BY <1>2
<1>6. PICK same \in Nat : same = dp[<< m, n >>] /\ GoodScript(d, left, right, m, n, same)
  <2>1. LengthAt(dp, left, right, m, n)
    BY <1>3, <1>5, TableCells
  <2>2. GoodScript(d, left, right, m, n, dp[<< m, n >>])
    BY <1>3, <1>5, ScriptsAreGood
  <2>3. QED BY <2>1, <2>2 DEF LengthAt
<1>7. PICK old \in Seq(DiffEntries), new \in Seq(DiffEntries), kept \in Seq(DiffEntries) :
          /\ old = Of(d, {"equal", "removed"}) /\ new = Of(d, {"equal", "added"})
          /\ kept = Of(d, {"equal"})
  <2>1. ASSUME NEW types PROVE Of(d, types) \in Seq(DiffEntries)
    <3>1. d \in Seq(DiffEntries) /\ {k \in DOMAIN d : d[k].type \in types} \in SUBSET DOMAIN d
      BY <1>6 DEF GoodScript
    <3>2. QED BY <3>1, KeptEntries DEF Of
  <2>2. QED BY <2>1
<1>8. /\ DOMAIN old = 1..m /\ \A k \in 1..m : old[k].left = left[k]
      /\ DOMAIN new = 1..n /\ \A k \in 1..n : new[k].right = right[k]
      /\ DOMAIN kept = 1..same /\ \A k \in 1..same : kept[k].left = kept[k].right
      /\ Len(kept) = same
  BY <1>6, <1>7, LenProperties DEF GoodScript
<1>9. [k \in DOMAIN old |-> old[k].left] = left /\ [k \in DOMAIN new |-> new[k].right] = right
  <2>1. left = [k \in 1..m |-> left[k]] /\ right = [k \in 1..n |-> right[k]]
    BY <1>2
  <2>2. QED BY <1>8, <2>1
<1>10. \A e \in ToSet(kept) : e.left = e.right
  BY <1>8 DEF ToSet
<1>11. \A s \in Common(left, right) : Cardinality(s) <= Len(kept)
  <2>1. SUFFICES ASSUME NEW s \in SUBSET DOMAIN left, NEW t \in SUBSET DOMAIN right,
                        Kept(left, s) = Kept(right, t)
                 PROVE  Cardinality(s) <= Len(kept)
    BY DEF Common
  <2>2. Cardinality(s) <= dp[<< m, n >>]
    BY <1>2, <1>3, <1>5, <2>1, NoneKeepsMore
  <2>3. QED BY <1>6, <1>8, <2>2
<1>12. (before.tags \ diff.removed) \cup diff.added = after.tags
  BY <1>4
<1>13. ASSUME before = after PROVE ~hasAnyChange(diff)
  <2>1. left = right /\ m = n
    BY <1>1, <1>2, <1>13
  <2>2. \A k \in DOMAIN d : d[k].type = "equal"
    BY <1>2, <1>3, <2>1, SameIsEqual
  <2>3. QED BY <1>4, <1>13, <2>2 DEF hasAnyChange, ToSet
<1>14. ASSUME ~hasAnyChange(diff) PROVE before = after
  <2>1. /\ before.title = after.title /\ diff.added = {} /\ diff.removed = {}
        /\ \A k \in DOMAIN d : d[k].type = "equal"
    BY <1>4, <1>14 DEF hasAnyChange, ToSet
  <2>2. before.tags = after.tags
    <3>1. before.tags \in SUBSET TagNames /\ after.tags \in SUBSET TagNames
      BY DEF DiffInit, Versions
    <3>2. QED BY <1>4, <2>1, <3>1
  <2>3. old = kept /\ new = kept
    <3>1. /\ {k \in DOMAIN d : d[k].type \in {"equal", "removed"}} = DOMAIN d
          /\ {k \in DOMAIN d : d[k].type \in {"equal", "added"}} = DOMAIN d
          /\ {k \in DOMAIN d : d[k].type \in {"equal"}} = DOMAIN d
      BY <2>1
    <3>2. QED BY <1>7, <3>1 DEF Of
  <2>4. m = n /\ same = m
    <3>1. Len(old) = m /\ Len(new) = n
      BY <1>6, <1>7 DEF GoodScript
    <3>2. QED BY <1>8, <2>3, <3>1
  <2>5. left = right
    <3>1. \A k \in 1..m : left[k] = right[k]
      BY <1>8, <2>3, <2>4
    <3>2. QED BY <1>2, <2>4, <3>1, SeqEqual
  <2>6. before = [title |-> before.title, tags |-> before.tags, steps |-> before.steps]
        /\ after = [title |-> after.title, tags |-> after.tags, steps |-> after.steps]
    BY DEF DiffInit, Versions
  <2>7. QED BY <1>1, <2>1, <2>2, <2>5, <2>6
<1>15. QED
  BY <1>1, <1>4, <1>7, <1>9, <1>10, <1>11, <1>12, <1>13, <1>14 DEF DiffIsAShortestScript, diff
=============================================================================
