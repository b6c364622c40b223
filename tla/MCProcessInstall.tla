-------------------------- MODULE MCProcessInstall --------------------------
(* Instances of ProcessInstall for TLC: two types share a field, one of the
   two states is a default one, and earlier releases left a process with both
   types but not all their fields and states, or with one type only. *)
EXTENDS ProcessInstall, TLC

MCFieldsOf == [w \in Wits |-> IF w = "w1" THEN Fields ELSE {"f2"}]

MCStatesOf == [w \in Wits |-> States]

MCLegacy == {[marker |-> Old, types |-> Wits, fields |-> {<< "w1", "f1" >>},
              states |-> Wits \X DefaultStates],
             [marker |-> Old, types |-> {"w1"}, fields |-> {}, states |-> {}]}

Symmetry == Permutations(Admins) \cup Permutations(Processes)
=============================================================================
