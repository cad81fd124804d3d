------------------------- MODULE MCSignalingGateway -------------------------
(* Finite instances of SignalingGateway for TLC.                           *)
EXTENDS SignalingGateway, TLC

Symmetry == Permutations(Clients) \union Permutations(SessionIds)
=============================================================================
