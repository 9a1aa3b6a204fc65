---------------------------- MODULE ReplyStream ----------------------------
(***************************************************************************)
(* What a connection promises its client: the requests of the stream are   *)
(* evaluated one at a time in the order sent, each on its own body, and    *)
(* nothing but their replies goes out, in that order, whole and once.  The *)
(* next request is evaluated only when the reply before it is out.  A      *)
(* connection may end at any time; before it does it may send an error     *)
(* line in place of further replies.                                       *)
(***************************************************************************)
EXTENDS Framing

CONSTANT Line       \* the error line, a sequence of bytes

VARIABLES input,      \* the requests the client sends, never changes
          evaluated,  \* the bodies that were evaluated
          replies,    \* the replies made for them
          sent,       \* the bytes sent
          ended

vars == <<input, evaluated, replies, sent, ended>>

Init ==
  /\ evaluated = << >> /\ replies = << >> /\ sent = << >>
  /\ ended = FALSE

Answer ==
  /\ ~ended
  /\ sent = Stream(replies)
  /\ Len(evaluated) < Len(input)
  /\ evaluated' = Append(evaluated, Body(input, Len(evaluated) + 1))
  /\ Len(replies') = Len(replies) + 1 /\ IsPrefix(replies, replies')
  /\ UNCHANGED <<input, sent, ended>>

Send ==
  /\ ~ended
  /\ IsStrictPrefix(sent, sent')
  /\ IsPrefix(sent', Stream(replies) \o Line)
  /\ UNCHANGED <<input, evaluated, replies, ended>>

End ==
  /\ ~ended /\ ended' = TRUE
  /\ UNCHANGED <<input, evaluated, replies, sent>>

Next == Answer \/ Send \/ End

Spec == Init /\ [][Next]_vars
=============================================================================
