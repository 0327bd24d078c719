------------------------------ MODULE MCKDTree ------------------------------
(* Model-checking instances of KDTree. *)
EXTENDS KDTree, TLC

\* Four points that share no coordinate, and one that does with two of them.
MCPoints == {<<0, 1>>, <<1, 3>>, <<2, 0>>, <<3, 2>>, <<1, 0>>}

\* Addresses are interchangeable.
Symmetry == Permutations(Node)
=============================================================================
