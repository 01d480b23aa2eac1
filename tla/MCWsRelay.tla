----------------------------- MODULE MCWsRelay -----------------------------
(* Instances of WsRelay for TLC. *)
EXTENDS WsRelay, TLC

Symmetry == Permutations(Sessions) \cup Permutations(Requests)
=============================================================================
