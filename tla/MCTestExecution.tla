--------------------------- MODULE MCTestExecution ---------------------------
(* Instances of TestExecution for TLC: two clients, so that every pair of
   operations overlaps, and small sets of arguments. *)
EXTENDS TestExecution, TLC

(* Clients are interchangeable. *)
ClientSymmetry == Permutations(Clients)
=============================================================================
