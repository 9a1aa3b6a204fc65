------------------------------ MODULE TrieBuilder ------------------------------
(***************************************************************************)
(* The builder of the double-array trie (src/indexer/dastrie.h, template   *)
(* class builder with doublearray5_traits).  A node is an element of the   *)
(* double array da: its BASE addresses its children, the child for the     *)
(* character c is the element BASE + table[c] + 1, whose CHECK must be     *)
(* table[c].  A leaf has a negative BASE, the offset of the rest of its    *)
(* key and of its value in the tail array.                                 *)
(*                                                                         *)
(* arrange() calls itself for each child; the calls in progress are the    *)
(* frames of stack, the innermost one first.  One trip around its search   *)
(* for a base address is one step.                                         *)
(*                                                                         *)
(* Abstractions: a character is a number, 0 the NUL that ends a key; a     *)
(* value takes one place of the tail; NumChars stands for NUMCHARS = 256   *)
(* and MaxBase for doublearray_traits::max_base().                         *)
(***************************************************************************)
EXTENDS Integers, Sequences, FiniteSets, SequencesExt

CONSTANTS
    NumChars,   \* size of the character table
    MaxBase,    \* largest BASE value
    Inputs,     \* sequences of records that build() is called with
    MaxBuilds   \* bound on the number of calls of build()

ASSUME NumCharsAssumption == NumChars \in Nat \ {0}
ASSUME MaxBaseAssumption == MaxBase \in Nat
ASSUME MaxBuildsAssumption == MaxBuilds \in Nat
ASSUME InputsAssumption ==
    Inputs \subseteq Seq([key : Seq(1..(NumChars - 1)), value : Int]) \ {<<>>}

Chars == 0..(NumChars - 1)
INITIAL_INDEX == 1

VARIABLES
    pc,         \* what build() does next
    builds,     \* calls of build() so far
    recs,       \* the records of the current call
    table,      \* m_table: character to offset
    da,         \* m_da: index to [base, check]
    elink,      \* m_elink: the linked list of vacant elements
    used,       \* m_used_bases
    tail,       \* m_tail
    stack,      \* the calls of arrange() in progress
    index,      \* the vacant element the search for a base looks at
    ret,        \* what the last call of arrange() returned
    stat        \* m_stat: numbers of nodes, leaves and used elements

buildervars == <<pc, builds, recs, table, da, elink, used, tail, stack, index, ret,
                 stat>>

--------------------------------------------------------------------------------
\* Helpers.

Size(f) == Cardinality(DOMAIN f)

\* key[p] of a std::string: the NUL one past the last character.
CharAt(key, p) == IF p < Len(key) THEN key[p + 1] ELSE 0

\* The rest of a key from position p (str + offset).
From(key, p) == SubSeq(key, p + 1, Len(key))

Default == [base |-> 0, check |-> 0]

\* da_in_use()
InUse(d, i) == i \in DOMAIN d /\ d[i].base # 0

\* da_expand(): only ever grows.
DaExpand(d, size) ==
    IF Size(d) >= size THEN d
    ELSE [i \in 0..(size - 1) |-> IF i \in DOMAIN d THEN d[i] ELSE Default]

VlistInit == [i \in {0} |-> [prev |-> 0, next |-> 1]]

VlistNext(l, i) == IF i \in DOMAIN l THEN l[i].next ELSE i + 1

VlistExpand(l, size) ==
    IF Size(l) >= size THEN l
    ELSE [i \in 0..(size - 1) |->
            CASE i = 0 -> [l[0] EXCEPT !.prev = size - 1]
              [] i \in DOMAIN l \ {0} -> l[i]
              [] i = Size(l) -> [prev |-> l[0].prev, next |-> i + 1]
              [] OTHER -> [prev |-> i - 1, next |-> i + 1]]

\* The list with room for the element that follows the last one.
VlistGrow(l, next) ==
    IF next \in DOMAIN l THEN l
    ELSE [i \in 0..next |->
            CASE i = 0 -> [l[0] EXCEPT !.prev = next]
              [] i \in DOMAIN l \ {0} -> l[i]
              [] i = next -> [prev |-> 0, next |-> next + 1]
              [] OTHER -> [prev |-> 0, next |-> 0]]

\* Mutant: the link back is forgotten.
VlistUseOneWay(l, i) ==
    [VlistGrow(l, l[i].next) EXCEPT ![l[i].prev].next = l[i].next]

VlistUse(l, i) ==
    LET prev == l[i].prev
        next == l[i].next
    IN  [VlistGrow(l, next) EXCEPT ![prev].next = next, ![next].prev = prev]

\* clear(): the tail starts with one byte, so that no leaf gets BASE -0.
EmptyTail == <<0>>

\* A base value must not be used by other places.
\* Mutant: any base is accepted.
BaseUsedNever(base) == FALSE

BaseUsed(base) == base \in used

\* What a finished child leaves in its element.
Element(base, offset) == [base |-> base, check |-> offset - 1]

\* How often a character occurs in the keys; NUL once in each.
Frequency(rs, c) ==
    IF c = 0 THEN Len(rs)
    ELSE Cardinality(UNION {{<<i, p>> : p \in {q \in DOMAIN rs[i].key : rs[i].key[q] = c}} :
                                i \in DOMAIN rs})

\* build_table(): frequent characters first; std::sort leaves the order of
\* equally frequent ones open.
Tables(rs) ==
    {t \in [Chars -> Chars] :
        /\ \A c, d \in Chars : t[c] = t[d] => c = d
        /\ \A c, d \in Chars : Frequency(rs, c) > Frequency(rs, d) => t[c] < t[d]}

\* The children of the records first .. last - 1 at position p of their keys.
ChildrenOf(p, first, last) ==
    LET at(i) == CharAt(recs[i].key, p)
        starts == {i \in first..(last - 1) : i = first \/ at(i - 1) # at(i)}
        count == Cardinality(starts)
        start(n) == CHOOSE i \in starts : Cardinality({j \in starts : j < i}) = n - 1
    IN  [n \in 1..count |->
            [c |-> at(start(n)), offset |-> table[at(start(n))] + 1,
             first |-> start(n),
             last |-> IF n = count THEN last ELSE start(n + 1)]]

\* Mutant: the comparison is with the first record of the range.
SortedAtFirst(p, first, last) ==
    \A i \in first..(last - 1) :
        CharAt(recs[first].key, p) <= CharAt(recs[i].key, p)

SortedAt(p, first, last) ==
    \A i \in first..(last - 2) :
        CharAt(recs[i].key, p) <= CharAt(recs[i + 1].key, p)

MaxOffset(children) ==
    CHOOSE m \in {children[n].offset : n \in DOMAIN children} :
        \A n \in DOMAIN children : children[n].offset <= m

Frame(p, first, last) ==
    [p |-> p, first |-> first, last |-> last, children |-> <<>>, base |-> 0,
     child |-> 1]

Top == Head(stack)

--------------------------------------------------------------------------------
\* Actions.

BuilderInit ==
    /\ pc = "idle" /\ builds = 0 /\ recs = <<>> /\ index = 0 /\ ret = 0
    /\ table = [c \in Chars |-> c] /\ da = <<>> /\ elink = <<>>
    /\ used = {} /\ tail = <<>> /\ stack = <<>>
    /\ stat = [nodes |-> 0, leaves |-> 0, used |-> 0]

\* build(): clear() everything but m_used_bases, make the root, call arrange().
Build ==
    /\ pc \in {"idle", "built", "thrown"}
    /\ builds < MaxBuilds
    /\ builds' = builds + 1
    /\ \E input \in Inputs :
        /\ recs' = input
        /\ table' \in Tables(input)
        /\ stack' = <<Frame(0, 1, Len(input) + 1)>>
    /\ da' = [DaExpand([i \in {0} |-> Default], INITIAL_INDEX + 1)
                EXCEPT ![INITIAL_INDEX].base = 1]
    /\ elink' = VlistUse(VlistExpand(VlistInit, INITIAL_INDEX + 1), INITIAL_INDEX)
    /\ tail' = EmptyTail
    /\ stat' = [nodes |-> 0, leaves |-> 0, used |-> 0]
    /\ pc' = "arrange" /\ index' = 0 /\ ret' = 0
    /\ UNCHANGED used

Throw == pc' = "thrown"

\* A single record becomes a leaf: the rest of its key and its value go to the
\* tail.
ArrangeLeaf ==
    /\ pc = "arrange" /\ Top.first + 1 = Top.last
    /\ \/ /\ MaxBase < Len(tail)
          /\ Throw
          /\ UNCHANGED <<tail, ret, stat>>
       \/ /\ Len(tail) <= MaxBase
          /\ tail' = tail \o From(recs[Top.first].key, Top.p)
                          \o <<0, recs[Top.first].value>>
          /\ ret' = -Len(tail)
          /\ stat' = [stat EXCEPT !.leaves = @ + 1]
          /\ pc' = "return"
    /\ UNCHANGED <<builds, recs, table, da, elink, used, stack, index>>

\* Several records: the list of the children, if they are in order.
ArrangeNode ==
    /\ pc = "arrange" /\ Top.first + 1 < Top.last
    /\ \/ /\ ~SortedAt(Top.p, Top.first, Top.last)
          /\ Throw
          /\ UNCHANGED <<stack, index>>
       \/ /\ SortedAt(Top.p, Top.first, Top.last)
          /\ stack' = [stack EXCEPT ![1].children =
                            ChildrenOf(Top.p, Top.first, Top.last)]
          /\ index' = 0
          /\ pc' = "search"
    /\ UNCHANGED <<builds, recs, table, da, elink, used, tail, ret, stat>>

\* The next vacant element is too near for the first child, or addresses a base
\* that another node has.
SearchOn ==
    /\ pc = "search"
    /\ LET next == VlistNext(elink, index)
           base == next - Top.children[1].offset
       IN  /\ index' = next
           /\ base < INITIAL_INDEX \/ BaseUsed(base)
    /\ UNCHANGED <<pc, builds, recs, table, da, elink, used, tail, stack, ret, stat>>

\* The next vacant element gives a new base: grow both arrays and take it if
\* the other children fall on vacant elements too.
SearchTry ==
    /\ pc = "search"
    /\ LET children == Top.children
           next == VlistNext(elink, index)
           base == next - children[1].offset
           grown == DaExpand(da, base + MaxOffset(children) + 1)
       IN  /\ index' = next
           /\ base >= INITIAL_INDEX /\ ~BaseUsed(base)
           /\ da' = grown
           /\ elink' = VlistExpand(elink, base + MaxOffset(children) + 1)
           /\ IF \E n \in 2..Len(children) : InUse(grown, base + children[n].offset)
              THEN UNCHANGED <<pc, stack>>
              ELSE pc' = "reserve" /\ stack' = [stack EXCEPT ![1].base = base]
    /\ UNCHANGED <<builds, recs, table, used, tail, ret, stat>>

\* Register the base and mark the elements of all children with BASE = 1, so
\* that the descendants do not take them.
Reserve ==
    /\ pc = "reserve"
    /\ LET cells == [n \in DOMAIN Top.children |->
                        Top.base + Top.children[n].offset]
       IN  \/ /\ MaxBase <= Top.base + MaxOffset(Top.children)
              /\ Throw
              /\ UNCHANGED <<da, elink, used>>
           \/ /\ Top.base + MaxOffset(Top.children) < MaxBase
              /\ used' = used \cup {Top.base}
              /\ da' = [i \in DOMAIN da |->
                            IF \E n \in DOMAIN cells : cells[n] = i
                            THEN [da[i] EXCEPT !.base = 1] ELSE da[i]]
              /\ elink' = LET link[n \in 0..Len(cells)] ==
                                IF n = 0 THEN elink ELSE VlistUse(link[n - 1], cells[n])
                          IN  link[Len(cells)]
              /\ pc' = "children"
    /\ UNCHANGED <<builds, recs, table, tail, stack, index, ret, stat>>

\* The NUL of a key has nothing below it: two records there have the same key.
Duplicates(child) == child.c = 0 /\ child.first + 1 # child.last

\* Call arrange() for the next child.
EnterChild ==
    /\ pc = "children" /\ Top.child <= Len(Top.children)
    /\ LET child == Top.children[Top.child]
       IN  \/ /\ Duplicates(child)
              /\ Throw
              /\ UNCHANGED stack
           \/ /\ ~Duplicates(child)
              /\ stack' = <<Frame(Top.p + (IF child.c = 0 THEN 0 ELSE 1),
                                  child.first, child.last)>> \o stack
              /\ pc' = "arrange"
    /\ UNCHANGED <<builds, recs, table, da, elink, used, tail, index, ret, stat>>

\* All children are set: the node is its base.
LeaveNode ==
    /\ pc = "children" /\ Top.child > Len(Top.children)
    /\ ret' = Top.base
    /\ stat' = [stat EXCEPT !.nodes = @ + 1]
    /\ pc' = "return"
    /\ UNCHANGED <<builds, recs, table, da, elink, used, tail, stack, index>>

\* arrange() returns to the call for the parent, which sets BASE and CHECK.
ReturnToParent ==
    /\ pc = "return" /\ Len(stack) > 1
    /\ LET parent == stack[2]
           offset == parent.children[parent.child].offset
       IN  /\ da' = [da EXCEPT ![parent.base + offset] =
                        Element(ret, offset)]
           /\ stack' = <<[parent EXCEPT !.child = @ + 1]>> \o SubSeq(stack, 3, Len(stack))
    /\ pc' = "children"
    /\ UNCHANGED <<builds, recs, table, elink, used, tail, index, ret, stat>>

\* arrange() returns to build(), which sets the root and counts the used
\* elements (compute_stat).
ReturnToBuild ==
    /\ pc = "return" /\ Len(stack) = 1
    /\ da' = [da EXCEPT ![INITIAL_INDEX].base = ret]
    /\ stat' = [stat EXCEPT !.used = Cardinality({i \in DOMAIN da : InUse(da', i)})]
    /\ stack' = <<>>
    /\ pc' = "built"
    /\ UNCHANGED <<builds, recs, table, elink, used, tail, index, ret>>

BuilderStep ==
    \/ ArrangeLeaf \/ ArrangeNode \/ SearchOn \/ SearchTry \/ Reserve
    \/ EnterChild \/ LeaveNode \/ ReturnToParent \/ ReturnToBuild

BuilderNext == Build \/ BuilderStep

BuilderSpec == BuilderInit /\ [][BuilderNext]_buildervars

--------------------------------------------------------------------------------
\* Properties.

\* The shapes of the builder's arrays; every BASE and every offset addresses
\* something inside them.
TypeOK ==
    /\ pc \in {"idle", "arrange", "search", "reserve", "children", "return",
               "built", "thrown"}
    /\ builds \in 0..MaxBuilds
    /\ recs \in Seq([key : Seq(Chars \ {0}), value : Int])
    /\ table \in [Chars -> Chars]
    /\ DOMAIN da = 0..(Size(da) - 1)
    /\ \A i \in DOMAIN da : da[i] \in [base : Int, check : Chars]
    /\ \A i \in DOMAIN da : da[i].base > -Len(tail)
    /\ DOMAIN elink = 0..(Size(elink) - 1) /\ Size(da) <= Size(elink)
    /\ \A i \in DOMAIN elink : elink[i] \in [prev : DOMAIN elink, next : Nat]
    /\ used \subseteq 1..MaxBase
    /\ \A n \in 1..Len(stack) : stack[n].child \in 1..(Len(stack[n].children) + 1)

\* The linked list names the vacant elements, each once, in ascending order and
\* in both directions, and its last element is always vacant: the search for a
\* base (vlist_next in arrange) neither skips a free element nor leaves the list.
VacantListSound ==
    elink # <<>> =>
        LET vacant == {i \in DOMAIN elink \ {0} : ~InUse(da, i)}
            above(i) == {j \in vacant : j > i}
        IN  /\ Size(elink) - 1 \in vacant
            /\ elink[0].prev = Size(elink) - 1
            /\ \A i \in (vacant \cup {0}) \ {Size(elink) - 1} :
                /\ elink[i].next \in above(i)
                /\ \A j \in above(i) : elink[i].next <= j
                /\ elink[elink[i].next].prev = i

\* No two nodes have the same base address (m_used_bases): CHECK holds only the
\* character, so children of two such nodes could not be told apart.
BasesDistinct ==
    pc = "built" =>
        \A i, j \in DOMAIN da :
            da[i].base > 0 /\ da[i].base = da[j].base => i = j

\* Each call of arrange() owns one element: in the end the used elements are
\* exactly the nodes and the leaves, and there is a leaf for each record.
ElementsAddUp ==
    pc = "built" =>
        /\ stat.used = stat.nodes + stat.leaves
        /\ stat.leaves = Len(recs)

\* a comes before b in dictionary order.
Before(a, b) ==
    \E p \in 0..Len(b) :
        /\ \A q \in 0..(p - 1) : q < Len(a) /\ a[q + 1] = CharAt(b, q)
        /\ p <= Len(a) /\ CharAt(a, p) < CharAt(b, p)

Sorted(rs) == \A i \in 1..(Len(rs) - 1) : Before(rs[i].key, rs[i + 1].key)

\* Only records in dictionary order, without duplicates, become a trie; the
\* exceptions of arrange() name the others.
OnlySortedBuilt == pc = "built" => Sorted(recs)

\* At every step of the builder the list of vacant elements is sound; when it is
\* done, no base is used twice and every element belongs to a node or a leaf.
LayoutSound == VacantListSound /\ BasesDistinct /\ ElementsAddUp

\* Sorted records are refused only for lack of space.
SortedRefusedForSpace ==
    pc = "thrown" /\ Sorted(recs) =>
        \/ MaxBase < Len(tail)
        \/ Top.children # <<>> /\ MaxBase <= Top.base + MaxOffset(Top.children)

\* The exceptions of arrange() tell the records that cannot become a trie from
\* those that can.
RefusesRightly == OnlySortedBuilt /\ SortedRefusedForSpace
================================================================================
