--------------------------- MODULE MCTestPlanLock ---------------------------
(* Instances of TestPlanLock for TLC. *)
EXTENDS TestPlanLock, TLC

(* The cases of the sets, or the cases named one by one. *)
MCDrafts == {[sets |-> Sets, extra |-> {}], [sets |-> {}, extra |-> Cases]}

(* Clients are interchangeable, and so are cases. *)
Symmetry == Permutations(Clients) \cup Permutations(Cases)
=============================================================================
