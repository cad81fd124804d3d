--------------------------- MODULE MCDockerRuntime ---------------------------
(* Finite instances of DockerRuntime for TLC.                              *)
EXTENDS DockerRuntime, TLC

Symmetry == Permutations(SessionIds)
=============================================================================
