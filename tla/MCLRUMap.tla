------------------------------ MODULE MCLRUMap ------------------------------
(* Model-checking instances of LRUMap. *)
EXTENDS LRUMap, TLC

\* Keys and values are interchangeable.
Symmetry == Permutations(Keys) \cup Permutations(Values)
=============================================================================
