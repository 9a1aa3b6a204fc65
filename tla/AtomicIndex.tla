---------------------------- MODULE AtomicIndex ----------------------------
(***************************************************************************)
(* What the index layer of the server promises to its callers: at every    *)
(* moment one index is current, a reload replaces it in one step, and a    *)
(* query that is answered at all is answered from the one index that was   *)
(* current at some moment between its call and its return.                 *)
(*                                                                         *)
(* There are no locks, no mappings and no addresses here; IndexReload is   *)
(* shown to implement this module.                                         *)
(***************************************************************************)
CONSTANTS Readers,    \* threads that call Get
          Contents    \* contents an index can have

VARIABLES current,    \* content being served, "none" before the first load
          request,    \* request[r]: "none", "pending" or "answered"
          answer      \* answer[r]: the contents r's answer was computed from

vars == <<current, request, answer>>

Init ==
  /\ current = "none"
  /\ request = [r \in Readers |-> "none"]
  /\ answer = [r \in Readers |-> {}]

(* A load or a reload takes effect. *)
Publish(c) ==
  /\ current' = c
  /\ UNCHANGED <<request, answer>>

Ask(r) ==
  /\ current # "none"
  /\ request[r] = "none"
  /\ request' = [request EXCEPT ![r] = "pending"]
  /\ UNCHANGED <<current, answer>>

(* The answer comes from the current index and from nothing else. *)
Answer(r) ==
  /\ request[r] = "pending"
  /\ request' = [request EXCEPT ![r] = "answered"]
  /\ answer' = [answer EXCEPT ![r] = {current}]
  /\ UNCHANGED current

(* A request may be refused, with the empty answer: nothing to look up, or *)
(* the server is exiting.                                                  *)
Refuse(r) ==
  /\ current # "none"
  /\ request[r] = "none"
  /\ request' = [request EXCEPT ![r] = "answered"]
  /\ UNCHANGED <<current, answer>>

Return(r) ==
  /\ request[r] = "answered"
  /\ request' = [request EXCEPT ![r] = "none"]
  /\ answer' = [answer EXCEPT ![r] = {}]
  /\ UNCHANGED current

Next ==
  \/ \E c \in Contents : Publish(c)
  \/ \E r \in Readers : Ask(r) \/ Answer(r) \/ Refuse(r) \/ Return(r)

Spec == Init /\ [][Next]_vars
=============================================================================
