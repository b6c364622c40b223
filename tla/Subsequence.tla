---------------------------- MODULE Subsequence -----------------------------
(* What is left of a list when some of its entries are dropped, by the places
   that stay: the filters of the code, in a form that can be reasoned about. *)
EXTENDS Naturals, FiniteSets, Sequences

(* Where n stands among the numbers of S. *)
Place(n, S) == Cardinality({m \in S : m <= n})

Kept(s, places) ==
    [k \in 1..Cardinality(places) |-> s[CHOOSE n \in places : Place(n, places) = k]]
=============================================================================
