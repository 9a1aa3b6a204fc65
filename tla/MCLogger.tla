------------------------------ MODULE MCLogger ------------------------------
(* Logger on a small instance. *)
EXTENDS Logger
=============================================================================
