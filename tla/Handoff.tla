------------------------------ MODULE Handoff ------------------------------
(***************************************************************************)
(* What the connection queues promise: the main thread hands sockets to    *)
(* the workers, each worker takes exactly the sockets handed to it, in the *)
(* order in which they were handed over.                                   *)
(***************************************************************************)
EXTENDS Sequences

CONSTANTS Workers, Sockets, None

VARIABLES queue,    \* queue[w]: handed to w and not yet taken
          taken     \* taken[w]: the socket w is working on, or None

vars == <<queue, taken>>

Init ==
  /\ queue = [w \in Workers |-> << >>]
  /\ taken = [w \in Workers |-> None]

Put(w, s) ==
  /\ queue' = [queue EXCEPT ![w] = Append(@, s)]
  /\ UNCHANGED taken

Take(w) ==
  /\ queue[w] # << >>
  /\ taken[w] = None
  /\ taken' = [taken EXCEPT ![w] = Head(queue[w])]
  /\ queue' = [queue EXCEPT ![w] = Tail(@)]

Finish(w) ==
  /\ taken[w] # None
  /\ taken' = [taken EXCEPT ![w] = None]
  /\ UNCHANGED queue

Next == \E w \in Workers : \/ \E s \in Sockets : Put(w, s)
                           \/ Take(w)
                           \/ Finish(w)

Spec == Init /\ [][Next]_vars
=============================================================================
