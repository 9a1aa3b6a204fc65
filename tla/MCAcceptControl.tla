-------------------------- MODULE MCAcceptControl --------------------------
(* AcceptControl on a small instance. *)
EXTENDS AcceptControl

(* What two threads do that switch accept at one time is not defined: no   *)
(* behaviour is followed beyond.                                           *)
UntilOverlapped == ~overlapped
=============================================================================
