--------------------------- MODULE MCIndexReload ---------------------------
(* IndexReload on a small instance. *)
EXTENDS IndexReload, TLC

Symmetry == Permutations(Workers) \cup Permutations(Addrs)
             \cup Permutations(Contents)
=============================================================================
