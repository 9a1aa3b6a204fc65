---------------------------- MODULE MCConnQueue ----------------------------
(* ConnQueue on a small instance. *)
EXTENDS ConnQueue

Symmetry == Permutations(Workers) \cup Permutations(Sockets)
=============================================================================
