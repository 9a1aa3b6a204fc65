------------------------------ MODULE TrieClient -------------------------------
(***************************************************************************)
(* A trie from its records to its answers: it is built, written and read   *)
(* as in module TrieFile, and callers of the reader use find(),            *)
(* getChildren() and a cursor.  The module shows that all this implements  *)
(* the abstract map of records of module PrefixMap.                        *)
(***************************************************************************)
EXTENDS TrieFile

CONSTANTS
    Letters, MaxQuery, Limits   \* as in PrefixMap

VARIABLES
    asked,      \* the last call
    answer,     \* its result: the values in the order they are returned
    cursor,     \* the cursor in use
    seen        \* the prefixes it has reported: [length, value]

callvars == <<asked, answer, cursor, seen>>

T == INSTANCE Trie WITH TrieChars <- Chars

Map == INSTANCE PrefixMap WITH
    store <- IF Loaded /\ Complete THEN recs ELSE <<>>

\* The arrays of the reader, addressed from 0.
trie ==
    [da |-> [i \in 0..(Len(mapped.da) - 1) |-> mapped.da[i + 1]],
     table |-> [c \in Chars |-> mapped.table[c + 1]],
     tail |-> mapped.tail]

NoCursor == T!Cursor(<<>>)

ClientInit ==
    /\ FileInit
    /\ asked = Map!NoCall /\ answer = <<>>
    /\ cursor = NoCursor /\ seen = {}

\* One call per trie: a lookup leaves nothing behind that the next one reads
\* (each starts with seekg() to the offset it needs).  What lookups in a file
\* that is not complete find is not defined.
Ready == Loaded /\ Complete /\ asked = Map!NoCall /\ cursor = NoCursor

FindKey ==
    /\ Ready
    /\ \E q \in Map!Queries :
        /\ asked' = [op |-> "find", q |-> q, n |-> 0]
        /\ answer' = T!Find(trie, q)
    /\ UNCHANGED <<buildervars, filevars, cursor, seen>>

Children ==
    /\ Ready
    /\ \E q \in Map!Queries, n \in Limits :
        LET pairs == T!GetChildren(trie, q, n)
        IN  /\ asked' = [op |-> "getChildren", q |-> q, n |-> n]
            /\ answer' = [i \in DOMAIN pairs |-> pairs[i].value]
    /\ UNCHANGED <<buildervars, filevars, cursor, seen>>

Prefix ==
    /\ Ready
    /\ \E q \in Map!Queries \ {<<>>} : cursor' = T!Cursor(q)
    /\ UNCHANGED <<buildervars, filevars, asked, answer, seen>>

NextMatch ==
    /\ cursor.result \in {"new", "found"} /\ cursor # NoCursor
    /\ cursor' = T!CursorNext(trie, cursor)
    /\ seen' = IF cursor'.result = "found"
               THEN seen \cup {[length |-> cursor'.length, value |-> cursor'.value]}
               ELSE seen
    /\ UNCHANGED <<buildervars, filevars, asked, answer>>

ClientNext == \/ FileNext /\ UNCHANGED callvars
              \/ FindKey \/ Children \/ Prefix \/ NextMatch

ClientSpec == ClientInit /\ [][ClientNext]_<<buildervars, filevars, callvars>>

--------------------------------------------------------------------------------
\* Properties.

\* find() and getChildren() answer as the map of the records does, whatever the
\* character table, the layout of the double array and the way the file is read.
ImplementsMap == Map!PMSpec

\* A cursor that has come to its end has reported every key, but the empty one,
\* that the query begins with, with its value; and next_prefix() never finds the
\* malformed arcs it throws exceptions for.
CursorComplete ==
    /\ cursor.result = "end" =>
        \A i \in DOMAIN recs :
            recs[i].key # <<>> /\ IsPrefix(recs[i].key, cursor.query) =>
                [length |-> Len(recs[i].key), value |-> recs[i].value] \in seen
    /\ cursor.result # "throws"

\* getChildren() returns records whose keys begin with the query ("get prefix
\* match results").
ChildrenHavePrefix ==
    asked.op = "getChildren" =>
        \A v \in Range(answer) :
            \E i \in DOMAIN recs : recs[i].value = v /\ IsPrefix(asked.q, recs[i].key)
================================================================================
