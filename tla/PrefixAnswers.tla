----------------------------- MODULE PrefixAnswers -----------------------------
(***************************************************************************)
(* What the trie answers, in terms of the records alone: store is a        *)
(* sequence of records [key, value] in dictionary order.                   *)
(*                                                                         *)
(* getChildren promises the records whose keys begin with the query.  The  *)
(* code keeps that promise as long as the query does not leave the double  *)
(* array for the tail: there locate_ex compares the rest of the query with *)
(* the whole rest of the key, and answers the root when they differ.       *)
(***************************************************************************)
EXTENDS Integers, Sequences, FiniteSets, SequencesExt

\* Two keys agree in their first d places, the NUL after the last included.
Agree(k, l, d) ==
    LET at(key, q) == IF q <= Len(key) THEN key[q] ELSE 0
    IN  /\ d <= Len(k) + 1 /\ d <= Len(l) + 1
        /\ \A q \in 1..d : at(k, q) = at(l, q)

\* Where the path of a key leaves the double array: the first place where no
\* other key agrees with it.
LeafDepth(store, i) ==
    CHOOSE d \in 0..(Len(store[i].key) + 1) :
        /\ \A j \in DOMAIN store \ {i} : ~Agree(store[i].key, store[j].key, d)
        /\ \A e \in 0..(d - 1) :
            \E j \in DOMAIN store \ {i} : Agree(store[i].key, store[j].key, e)

\* The record whose leaf a query runs into before its end.
InTailOf(store, q) ==
    {i \in DOMAIN store :
        LET d == LeafDepth(store, i)
        IN  d < Len(q) /\ d <= Len(store[i].key) /\ IsPrefix(SubSeq(q, 1, d), store[i].key)}

\* The records the answer is made of.
Under(store, q) ==
    IF InTailOf(store, q) = {}
    THEN {i \in DOMAIN store : IsPrefix(q, store[i].key)}
    ELSE IF \E i \in InTailOf(store, q) : store[i].key = q
    THEN InTailOf(store, q)
    ELSE DOMAIN store

\* The values of the answer: at most n, in the order of the keys.
ChildValues(store, q, n) ==
    LET all == Under(store, q)
        low == IF n < Cardinality(all) THEN n ELSE Cardinality(all)
        nth(m) == CHOOSE i \in all : Cardinality({j \in all : j <= i}) = m
    IN  IF n <= 0 THEN <<>> ELSE [m \in 1..low |-> store[nth(m)].value]

FindValues(store, q) ==
    {store[i].value : i \in {j \in DOMAIN store : store[j].key = q}}
================================================================================
