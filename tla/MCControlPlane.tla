--------------------------- MODULE MCControlPlane ---------------------------
(* Instances of ControlPlane for TLC: processes and instance ids are each   *)
(* interchangeable.                                                         *)
EXTENDS ControlPlane, TLC

Symmetry == Permutations(Processes) \union Permutations(Instances)
=============================================================================
