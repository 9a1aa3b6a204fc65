----------------------------- MODULE MCTrieClient ------------------------------
(* TrieClient on a small instance. *)
EXTENDS TrieClient

AB == 1..2
ShortKeys == UNION {[1..n -> AB] : n \in 0..2}
LongKeys == UNION {[1..n -> AB] : n \in 0..3}

\* The records with these keys; the values are distinct from all characters.
Numbered(keys) == [i \in DOMAIN keys |-> [key |-> keys[i], value |-> 10 * i]]

\* Sets of up to four keys over two characters, in dictionary order.
SortedInputs ==
    {Numbered(SetToSortSeq(ks, Before)) :
        ks \in {s \in SUBSET LongKeys : Cardinality(s) \in 1..4}}

\* And sequences of up to three short keys, sorted or not, repeated or not.
AllInputs ==
    SortedInputs \cup {Numbered(ks) : ks \in UNION {[1..n -> ShortKeys] : n \in 1..3}}

NoneOneOrAll == {0, 1, 2, 9}
================================================================================
