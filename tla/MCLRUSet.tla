------------------------------ MODULE MCLRUSet ------------------------------
(* Model-checking instances of LRUSet. *)
EXTENDS LRUSet, TLC

\* Keys are interchangeable.
Symmetry == Permutations(Keys)
=============================================================================
