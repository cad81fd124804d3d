------------------------------ MODULE MCTabApi ------------------------------
(* Instances of TabApi for TLC: ids of tabs are interchangeable.            *)
EXTENDS TabApi, TLC

Symmetry == Permutations(Ids)
=============================================================================
