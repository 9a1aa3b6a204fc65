-------------------------------- MODULE Readings -------------------------------
(***************************************************************************)
(* How names and queries become Latin strings, in the indexer              *)
(* (src/indexer/indexer.cpp) and in the server                             *)
(* (src/server/prefixmatch.cpp), which share most of this code.            *)
(*                                                                         *)
(* A string is a sequence of characters, a character is a number; those    *)
(* in Hanzi take several bytes in UTF-8.  Every string is well-formed      *)
(* UTF-8: for a byte that begins no character getUTF8Len() returns 0 and   *)
(* the loops over a string do not advance.                                 *)
(***************************************************************************)
EXTENDS Integers, Sequences, FiniteSets, SequencesExt, Functions

CONSTANT Hanzi

\* Any number but the NUL that ends a string, and strings of them.
Character == Nat \ {0}
Text == Seq(Character)
Word == Text \ {<<>>}

AllEnglish(s) == Range(s) \cap Hanzi = {}

\* sepstr(): the non-empty pieces of s between separators.
Fields(s, seps) ==
    LET step(acc, c) ==
            IF c \in seps
            THEN [out |-> IF acc.cur = <<>> THEN acc.out ELSE Append(acc.out, acc.cur),
                  cur |-> <<>>]
            ELSE [acc EXCEPT !.cur = Append(@, c)]
        end == FoldLeft(step, [out |-> <<>>, cur |-> <<>>], s)
    IN  IF end.cur = <<>> THEN end.out ELSE Append(end.out, end.cur)

\* trim(): s without the separators at both ends.
Trim(s, seps) ==
    LET kept == {i \in DOMAIN s : s[i] \notin seps}
    IN  IF kept = {} THEN <<>> ELSE SubSeq(s, Min(kept), Max(kept))

\* A line of the file of readings: its first field names a character, the
\* others are its readings.
MapLine == [char : Character, readings : Seq(Word)]

\* read_chinese_map(): lines without readings are skipped, the last line for a
\* character wins.
ReadMap(lines) ==
    LET full == {i \in DOMAIN lines : lines[i].readings # <<>>}
        last(c) == Max({i \in full : lines[i].char = c})
    IN  [c \in {lines[i].char : i \in full} |-> lines[last(c)].readings]

\* Mutant: copies and items are taken in step.
CombineInStep(out, items) ==
    [k \in 1..(Len(out) * Len(items)) |->
        out[((k - 1) % Len(out)) + 1] \o items[((k - 1) % Len(items)) + 1]]

\* One round of get_all_results(): every string so far, followed by every item;
\* the blocks of copies go through the items in order.
Combine(out, items) ==
    LET block(item) == [k \in DOMAIN out |-> out[k] \o item]
    IN  FlattenSeq([j \in DOMAIN items |-> block(items[j])])

GetAllResults(all) ==
    LET results[n \in DOMAIN all] ==
            IF n = 1 THEN all[1] ELSE Combine(results[n - 1], all[n])
    IN  IF all = <<>> THEN <<>> ELSE results[Len(all)]

\* The readings of the characters of s that the map knows.
ReadingsOf(map, s) ==
    FlattenSeq([i \in DOMAIN s |-> IF s[i] \in DOMAIN map THEN <<map[s[i]]>> ELSE <<>>])

Initials(all) == [i \in DOMAIN all |-> [j \in DOMAIN all[i] |-> <<Head(all[i][j])>>]]

\* convert_to_letters() of the server.
ConvertQuery(map, s) ==
    IF AllEnglish(s) THEN <<s>> ELSE GetAllResults(ReadingsOf(map, s))

\* convert_to_letters() of the indexer: a text without any Latin character gets
\* the initials of its readings too.
ConvertLine(map, s) ==
    IF AllEnglish(s) THEN <<s>>
    ELSE GetAllResults(ReadingsOf(map, s)) \o
            (IF Range(s) \subseteq Hanzi
             THEN GetAllResults(Initials(ReadingsOf(map, s))) ELSE <<>>)

\* Reference definition: the ways to read s, one reading for each character
\* that the map knows.
Spellings(map, s) ==
    LET all == ReadingsOf(map, s)
        choices == {f \in [DOMAIN all -> UNION {Range(all[i]) : i \in DOMAIN all}] :
                        \A i \in DOMAIN all : f[i] \in Range(all[i])}
    IN  IF AllEnglish(s) THEN {s}
        ELSE IF all = <<>> THEN {} ELSE {FlattenSeq(f) : f \in choices}
================================================================================
