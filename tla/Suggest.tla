--------------------------------- MODULE Suggest -------------------------------
(***************************************************************************)
(* From a file of names to suggestions: create_index() of the indexer      *)
(* (src/indexer/indexer.cpp) reads lines "name tab rank", indexes each     *)
(* name under its readings and builds the trie; Get() and Query() of the   *)
(* server (src/server/prefixmatch.cpp) answer queries from it.  The trie   *)
(* answers as module PrefixAnswers says, which module TrieClient shows of  *)
(* the double array.                                                       *)
(*                                                                         *)
(* Abstractions: a rank is one digit; names in Hanzi and Latin letters.    *)
(* What happens between the steps of a query is in module IndexReload.     *)
(***************************************************************************)
EXTENDS Readings, PrefixAnswers

CONSTANTS
    MapFile,    \* the lines of the file of readings
    Lines,      \* lines an input file may have, as strings
    MaxLines,   \* bound on the lines of the input file
    Queries,    \* requests
    Limits,     \* values of max_depth
    Tab         \* the tab character, less than all others

ASSUME MapFileAssumption == MapFile \in Seq(MapLine)
ASSUME StringsAssumption == Lines \subseteq Text /\ Queries \subseteq Text
ASSUME MaxLinesAssumption == MaxLines \in Nat
ASSUME LimitsAssumption == Limits \subseteq Nat \ {0}

VARIABLES
    phase,      \* "reading", "built", or "undefined" after undefined behaviour
    input,      \* the lines read so far
    letterToItems, \* mLetterToItems: letters to the items under them
    trie,       \* the records of the trie
    asked,      \* the last request: query, without blanks around it, and limit
    answer      \* what Get() returned: a sequence of names

vars == <<phase, input, letterToItems, trie, asked, answer>>

map == ReadMap(MapFile)
NoRequest == [query |-> <<>>, limit |-> 0]

\* std::string: dictionary order.
Less(a, b) ==
    \E p \in 0..Len(b) :
        /\ p < Len(b) /\ p <= Len(a)
        /\ \A q \in 1..p : a[q] = b[q]
        /\ p = Len(a) \/ a[p + 1] < b[p + 1]

--------------------------------------------------------------------------------
\* The indexer.

\* A line with a name and a rank.
IsItem(line) == Len(Fields(line, {Tab})) = 2
ItemOf(line) ==
    [name |-> Fields(line, {Tab})[1], rank |-> Head(Fields(line, {Tab})[2])]

\* The item goes to the end of the items of each key, as often as it is there.
AddItem(items, keys, item) ==
    LET old(k) == IF k \in DOMAIN items THEN items[k] ELSE <<>>
        times(k) == Cardinality({i \in DOMAIN keys : keys[i] = k})
    IN  [k \in DOMAIN items \cup Range(keys) |-> old(k) \o [n \in 1..times(k) |-> item]]

Init ==
    /\ phase = "reading" /\ input = <<>>
    /\ letterToItems = [k \in {} |-> <<>>]
    /\ trie = <<>> /\ asked = NoRequest /\ answer = <<>>

ReadLine ==
    /\ phase = "reading" /\ Len(input) < MaxLines
    /\ \E line \in Lines :
        /\ input' = Append(input, line)
        /\ letterToItems' =
                IF IsItem(line)
                THEN AddItem(letterToItems, ConvertLine(map, line), ItemOf(line))
                ELSE letterToItems
    /\ UNCHANGED <<phase, trie, asked, answer>>

\* The records that build() is given: &allRecords[size - 1] leaves the greatest
\* key out.
Records ==
    LET keys == DOMAIN letterToItems
        nth(n) == CHOOSE k \in keys : Cardinality({l \in keys : Less(l, k)}) = n - 1
    IN  [n \in 1..(Cardinality(keys) - 1) |->
            [key |-> nth(n), value |-> letterToItems[nth(n)]]]

\* With fewer than two keys the range is empty or reversed and arrange() writes
\* outside of children[].
CreateIndex ==
    /\ phase = "reading"
    /\ IF Cardinality(DOMAIN letterToItems) < 2
       THEN phase' = "undefined" /\ UNCHANGED trie
       ELSE phase' = "built" /\ trie' = Records
    /\ UNCHANGED <<input, letterToItems, asked, answer>>

--------------------------------------------------------------------------------
\* The server.

\* The characters of the query that take several bytes.
Chinese(query) == Range(query) \cap Hanzi

\* The first item of each name among those at the places given.
FirstOfEachName(items, places) ==
    {items[i] : i \in {j \in places : \A k \in places :
                                        k < j => items[k].name # items[j].name}}

\* Mutant: one of the characters is enough.
FilteredAny(items, chinese) ==
    FirstOfEachName(items, {i \in DOMAIN items :
        chinese = {} \/ chinese \cap Range(items[i].name) # {}})

\* filter_result(): items whose name has all the Chinese characters, the first
\* one of each name, ...
Filtered(items, chinese) ==
    FirstOfEachName(items, {i \in DOMAIN items : chinese \subseteq Range(items[i].name)})

\* ... in ascending order of rank, equal ranks in any order.
Ranked(items) ==
    {s \in [1..Cardinality(items) -> items] :
        /\ Range(s) = items
        /\ \A i, j \in DOMAIN s : i < j => s[i].rank <= s[j].rank}

FilterResult(items, chinese, limit) ==
    {LET low == IF limit < Len(s) THEN limit ELSE Len(s)
     IN  [i \in 1..low |-> s[i].name] : s \in Ranked(Filtered(items, chinese))}

\* The items of all records that getChildren() returns for the readings.
Collect(letters, limit) ==
    LET found(l) == FlattenSeq(ChildValues(trie, l, limit))
    IN  FlattenSeq([i \in DOMAIN letters |-> found(letters[i])])

\* Query(): nothing for a query without a known reading.
Query(query, limit) ==
    LET letters == ConvertQuery(map, query)
    IN  IF letters = <<>> THEN {<<>>}
        ELSE FilterResult(Collect(letters, limit), Chinese(query), limit)

\* Get(): an empty request is refused, one of blanks only is not.
Get ==
    /\ phase = "built" /\ asked = NoRequest
    /\ \E line \in Queries, limit \in Limits :
        /\ asked' = [query |-> Trim(line, {Tab}), limit |-> limit]
        /\ answer' \in IF line = <<>> THEN {<<>>} ELSE Query(asked'.query, limit)
    /\ UNCHANGED <<phase, input, letterToItems, trie>>

Next == ReadLine \/ CreateIndex \/ Get

Spec == Init /\ [][Next]_vars

--------------------------------------------------------------------------------
\* Properties.

Items == {ItemOf(input[i]) : i \in {j \in DOMAIN input : IsItem(input[j])}}

\* The text a line is indexed under, and its readings by the reference
\* definition.
KeysOf(line) == Spellings(map, line)

Greatest ==
    LET keys == DOMAIN letterToItems
    IN  CHOOSE k \in keys : \A l \in keys \ {k} : Less(l, k)

\* A name one of whose readings begins with a reading of the query, and which
\* has the query's Chinese characters, is among the suggestions when max_depth
\* leaves room for all and the query is not empty.
NoSuggestionMissed ==
    /\ phase = "built" /\ asked.query # <<>>
    /\ asked.limit > Len(trie) /\ asked.limit > Len(input)
    =>
        \A i \in DOMAIN input :
            /\ IsItem(input[i])
            /\ Chinese(asked.query) \subseteq Range(ItemOf(input[i]).name)
            /\ \E key \in KeysOf(input[i]) \ {Greatest}, l \in Spellings(map, asked.query) :
                    IsPrefix(l, key)
            => ItemOf(input[i]).name \in Range(answer)

\* Suggestions are different names, at most max_depth, each has the Chinese
\* characters of the query, and no name comes before one of lower rank when
\* every name has one rank.
SuggestionsInOrder ==
    asked # NoRequest =>
        /\ Len(answer) <= asked.limit
        /\ \A i, j \in DOMAIN answer :
            /\ answer[i] = answer[j] => i = j
            /\ Chinese(asked.query) \subseteq Range(answer[i])
            /\ i < j => \E a, b \in Items :
                    a.name = answer[i] /\ b.name = answer[j] /\ a.rank <= b.rank

================================================================================
