------------------------------ MODULE Framing ------------------------------
(***************************************************************************)
(* The two byte streams of a connection (server/head.h: request_header,    *)
(* response_header).  A byte of the request stream is its position, from   *)
(* 1; a byte of the reply stream is named by the reply it belongs to, the  *)
(* part of that reply and its place there.                                 *)
(***************************************************************************)
EXTENDS Integers, Sequences, SequencesExt

CONSTANTS HeaderLen,      \* sizeof(request_header)
          RespHeaderLen   \* sizeof(response_header)

ASSUME HeaderAssumption == HeaderLen \in Nat \ {0} /\ RespHeaderLen \in Nat \ {0}

(* What a client sends: a sequence of requests, each a header with a magic *)
(* byte and a body of bodylen bytes.                                       *)
Request == [magic : {"REQ", "other"}, bodylen : Nat \ {0}]

(* EndOf(input)[i] is the position of the last byte of request i. *)
EndOf(input) ==
  LET end[i \in 0 .. Len(input)] ==
        IF i = 0 THEN 0 ELSE end[i - 1] + HeaderLen + input[i].bodylen
  IN end

Total(input) == EndOf(input)[Len(input)]

Body(input, i) ==
  [k \in 1 .. input[i].bodylen |-> EndOf(input)[i - 1] + HeaderLen + k]

(* Byte k of a part of reply r; the part is "head", "results" (of a query) *)
(* or "error" (its text).                                                  *)
Bytes(r, part, n) == [k \in 1 .. n |-> [reply |-> r, part |-> part, k |-> k]]

(* The stream that a sequence of replies stands for. *)
Stream(replies) ==
  FlattenSeq([r \in 1 .. Len(replies) |->
    Bytes(r, "head", RespHeaderLen) \o Bytes(r, replies[r].part, replies[r].bodylen)])
=============================================================================
