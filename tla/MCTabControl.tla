---------------------------- MODULE MCTabControl ----------------------------
(* Finite instances of TabControl for TLC.                                 *)
EXTENDS TabControl, TLC

\* InitialTab is one of the tab ids, so those are not symmetric.
Symmetry == Permutations(Numbers) \union Permutations(Callers)
=============================================================================
