---------------------------- MODULE MCConnections ----------------------------
(* Connections with symmetry for TLC. *)
EXTENDS Connections, TLC

Symmetry == Permutations(Requests) \cup Permutations(Players)
=============================================================================
