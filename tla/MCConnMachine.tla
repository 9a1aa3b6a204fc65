--------------------------- MODULE MCConnMachine ---------------------------
(* ConnMachine on a small instance: two or three requests that fit into    *)
(* the read buffer, fill it, make it grow, and make it grow beyond the     *)
(* high-water mark; and one that is not a request.                         *)
EXTENDS ConnMachine

Requests(lens) == [i \in 1 .. Len(lens) |-> [magic |-> "REQ", bodylen |-> lens[i]]]

GoodInputs == {Requests(<<1, 1, 1>>), Requests(<<1, 7>>), Requests(<<7, 1>>),
               Requests(<<4, 4>>)}

AllInputs == GoodInputs \cup {Append(Requests(<<4>>), [magic |-> "other", bodylen |-> 1])}

Sizes == {3, 6}
Lens  == {1, 5}
=============================================================================
