--------------------------------- MODULE Trie ----------------------------------
(***************************************************************************)
(* Lookups in a double-array trie (src/server/dastrie.h, template class    *)
(* trie): t is a record of the arrays da, table and tail of module         *)
(* TrieBuilder.  The results are pure functions of t.                      *)
(*                                                                         *)
(* Positions are those of the code: p and last count from 0, an element 0  *)
(* is INVALID_INDEX, an offset addresses the tail from 0.                  *)
(***************************************************************************)
EXTENDS Integers, Sequences, FiniteSets

CONSTANTS TrieChars   \* 0..NUMCHARS - 1

Root == 1

GetBase(t, i) == t.da[i].base

\* descend(): element 0 when there is no child for c.
Descend(t, i, c) ==
    LET check == t.table[c]
        next == GetBase(t, i) + check + 1
    IN  IF GetBase(t, i) > 0 /\ next < Cardinality(DOMAIN t.da) /\ t.da[next].check = check
        THEN next ELSE 0

At(key, p) == IF p < Len(key) THEN key[p + 1] ELSE 0
Rest(key, p) == SubSeq(key, p + 1, Len(key))

\* itail::strlen() at an offset.
StrLen(t, offset) ==
    CHOOSE n \in 0..(Len(t.tail) - offset - 1) :
        /\ t.tail[offset + n + 1] = 0
        /\ \A m \in 0..(n - 1) : t.tail[offset + m + 1] # 0

\* The string and the value that follow one another in the tail.
TailString(t, offset) == SubSeq(t.tail, offset + 1, offset + StrLen(t, offset))
TailValue(t, offset) == t.tail[offset + StrLen(t, offset) + 2]

\* Mutant: a prefix is enough.
MatchStringPrefix(t, offset, str) ==
    /\ offset + Len(str) + 1 <= Len(t.tail)
    /\ SubSeq(t.tail, offset + 1, offset + Len(str)) = str

\* itail::match_string(): the whole string and its NUL.
MatchString(t, offset, str) ==
    /\ offset + Len(str) + 1 <= Len(t.tail)
    /\ SubSeq(t.tail, offset + 1, offset + Len(str) + 1) = Append(str, 0)

\* Follow the characters of key from element cur until a leaf, a missing child
\* or a position beyond last.
RECURSIVE Walk(_, _, _, _, _)
Walk(t, key, last, cur, p) ==
    IF cur = 0 \/ last < p \/ GetBase(t, cur) < 0 THEN [cur |-> cur, p |-> p]
    ELSE Walk(t, key, last, Descend(t, cur, At(key, p)), p + 1)

\* locate(): the offset of the value in the tail, 0 when the key is unknown.
Locate(t, key) ==
    LET w == Walk(t, key, Len(key), Root, 0)
        p == IF Len(key) < w.p THEN Len(key) ELSE w.p
        offset == -GetBase(t, w.cur)
    IN  IF w.cur # 0 /\ GetBase(t, w.cur) < 0 /\ MatchString(t, offset, Rest(key, p))
        THEN offset + StrLen(t, offset) + 1 ELSE 0

\* find(): the value as a sequence, empty when the key is unknown.
Find(t, key) ==
    IF Locate(t, key) = 0 THEN <<>> ELSE <<t.tail[Locate(t, key) + 1]>>

\* locate_ex(): the element under which the keys that begin with key are to be
\* found.  A query that ends before a leaf compares "" with the first byte of
\* the tail; one whose rest is not the rest of the leaf gets the root.
LocateEx(t, key) ==
    LET w == Walk(t, key, Len(key) - 1, Root, 0)
        offset == IF w.p < Len(key) THEN -GetBase(t, w.cur) ELSE 0
    IN  IF w.cur = 0 THEN 0
        ELSE IF MatchString(t, offset, Rest(key, w.p)) THEN w.cur ELSE Root

Pair(key, value) == [key |-> key, value |-> value]

\* getChildrenRecursive(): the pairs below element cur from the character c on,
\* at most n; the loop over uint8_t stops before the last character.
RECURSIVE Below(_, _, _, _, _)
Below(t, cur, c, n, key) ==
    IF cur = 0 \/ n <= 0 \/ c + 1 \notin TrieChars THEN <<>>
    ELSE LET next == Descend(t, cur, c)
         IN  IF next = 0 THEN Below(t, cur, c + 1, n, key)
             ELSE LET base == GetBase(t, next)
                      here == IF base < 0
                              THEN <<Pair(Append(key, c) \o TailString(t, -base),
                                          TailValue(t, -base))>>
                              ELSE <<>>
                      under == Below(t, next, 0, n - Len(here), Append(key, c))
                      found == here \o under
                  IN  found \o Below(t, cur, c + 1, n - Len(found), key)

\* getChildren(): the leaf itself under the name of the query, then the pairs
\* below.
GetChildren(t, key, n) ==
    LET cur == LocateEx(t, key)
        base == GetBase(t, cur)
        here == IF base < 0 THEN <<Pair(key, TailValue(t, -base))>> ELSE <<>>
    IN  IF n <= 0 \/ cur = 0 THEN <<>>
        ELSE here \o Below(t, cur, 0, n - Len(here), key)

\* itail::match_string_partial(): the string in the tail begins str.
MatchPartial(t, offset, str) ==
    LET s == TailString(t, offset)
    IN  Len(s) <= Len(str) /\ SubSeq(str, 1, Len(s)) = s

\* prefix(): a new cursor; result is what the last call of next() returned.
Cursor(q) ==
    [query |-> q, length |-> 0, cur |-> Root, value |-> 0, result |-> "new"]

\* The record at the end of a prefix: the tail after NUL must be empty.
FoundAt(t, pfx, length, cur, offset) ==
    [pfx EXCEPT !.length = length, !.cur = cur, !.result = "found",
                !.value = TailValue(t, offset)]

\* next_prefix(): in the double array a prefix ends where there is a child for
\* NUL, in the tail where its string ends.  The leaf stays the current element.
RECURSIVE NextPrefix(_, _)
NextPrefix(t, pfx) ==
    LET base == GetBase(t, pfx.cur)
        next == Descend(t, pfx.cur, At(pfx.query, pfx.length))
        arc == IF next = 0 \/ Descend(t, next, 0) = 0 THEN 0
               ELSE GetBase(t, Descend(t, next, 0))
        low == IF Len(pfx.query) < pfx.length THEN Len(pfx.query) ELSE pfx.length
    IN  CASE base < 0 /\ MatchPartial(t, -base, Rest(pfx.query, low)) ->
                FoundAt(t, pfx, low + StrLen(t, -base), pfx.cur, -base)
          [] base < 0 /\ ~MatchPartial(t, -base, Rest(pfx.query, low)) ->
                [pfx EXCEPT !.length = low, !.result = "end"]
          [] base >= 0 /\ Len(pfx.query) < pfx.length ->
                [pfx EXCEPT !.result = "end"]
          [] base >= 0 /\ pfx.length <= Len(pfx.query) /\ next = 0 ->
                [pfx EXCEPT !.cur = 0, !.result = "end"]
          [] base >= 0 /\ pfx.length <= Len(pfx.query) /\ next # 0 /\ arc = 0 ->
                NextPrefix(t, [pfx EXCEPT !.length = @ + 1, !.cur = next])
          [] base >= 0 /\ pfx.length <= Len(pfx.query) /\ next # 0 /\ arc # 0 ->
                IF arc > 0 \/ StrLen(t, -arc) # 0
                THEN [pfx EXCEPT !.cur = next, !.result = "throws"]
                ELSE FoundAt(t, pfx, pfx.length + 1, next, -arc)

\* Mutant: the last character of the query is never looked at.
CursorNextLeaf(t, pfx) ==
    IF Len(pfx.query) <= pfx.length + 1 THEN [pfx EXCEPT !.result = "end"]
    ELSE NextPrefix(t, pfx)

\* prefix_cursor::next()
CursorNext(t, pfx) ==
    IF Len(pfx.query) <= pfx.length THEN [pfx EXCEPT !.result = "end"]
    ELSE NextPrefix(t, pfx)
================================================================================
