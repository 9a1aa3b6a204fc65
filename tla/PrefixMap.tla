------------------------------- MODULE PrefixMap -------------------------------
(***************************************************************************)
(* An abstract specification of trie::find and trie::getChildren: a map    *)
(* from keys to values and the answers of PrefixAnswers, without the       *)
(* double array and the tail (module Trie).                                *)
(***************************************************************************)
EXTENDS PrefixAnswers

CONSTANTS
    Letters,    \* the characters of queries
    MaxQuery,   \* bound on their length
    Limits      \* values of nMaxCountNeeded

Queries == UNION {[1..n -> Letters] : n \in 0..MaxQuery}

--------------------------------------------------------------------------------
VARIABLES
    store,      \* the records, in dictionary order; <<>> before they are loaded
    asked,      \* the last call
    answer      \* its result: a sequence of values

pmvars == <<store, asked, answer>>

NoCall == [op |-> "none", q |-> <<>>, n |-> 0]

PMInit == store = <<>> /\ asked = NoCall /\ answer = <<>>

\* Other records are loaded.
Load == asked' = NoCall /\ answer' = <<>>

FindCall ==
    \E q \in Queries :
        /\ asked' = [op |-> "find", q |-> q, n |-> 0]
        /\ answer' = SetToSeq(FindValues(store, q))
        /\ UNCHANGED store

ChildrenCall ==
    \E q \in Queries, n \in Limits :
        /\ asked' = [op |-> "getChildren", q |-> q, n |-> n]
        /\ answer' = ChildValues(store, q, n)
        /\ UNCHANGED store

PMNext == Load \/ FindCall \/ ChildrenCall

PMSpec == PMInit /\ [][PMNext]_pmvars
================================================================================
