-------------------------- MODULE ConnQueue_proofs --------------------------
(***************************************************************************)
(* Proofs about ConnQueue, for any number of workers and sockets, any      *)
(* block size of at least two items and any number of blocks.              *)
(*                                                                         *)
(* The invariant gives every linked list the sequence of its items: there  *)
(* are a sequence fl for the free list, a sequence q[w] for each queue and *)
(* an assignment own of a place to every item, such that the pointers run  *)
(* along the sequences and each sequence holds exactly what own puts in    *)
(* its place, once.  Since own is a function, lists and hands are disjoint *)
(* without a word about pairs of them; each step moves a few items from    *)
(* one place to another.                                                   *)
(***************************************************************************)
EXTENDS ConnQueue, FiniteSetTheorems, SequenceTheorems, WellFoundedInduction, TLAPS

Below == {ss \in Nat \X Nat : ss[1] < ss[2]}

(* A set with 0 and with the successor of each of its numbers has them     *)
(* all: the least number outside of it would have a predecessor in it.     *)
LEMMA SetInduction ==
  ASSUME NEW S, 0 \in S, \A n \in Nat : n \in S => n + 1 \in S
  PROVE  Nat \subseteq S
<1> SUFFICES ASSUME Nat \ S # {} PROVE FALSE
  OBVIOUS
<1>1. PICK x \in Nat \ S : \A y \in Nat \ S : ~(<<y, x>> \in Below)
  <2>1. IsWellFoundedOn(Below, Nat)
    BY NatLessThanWellFounded DEF OpToRel, Below
  <2>2. Nat \ S \subseteq Nat
    OBVIOUS
  <2> QED
    BY ONLY <2>1, <2>2, WFMin, Nat \ S # {}
<1>2. x # 0 /\ x - 1 \in Nat /\ x - 1 < x /\ x = (x - 1) + 1
  OBVIOUS
<1>3. <<x - 1, x>> \in Below
  BY <1>2 DEF Below
<1>4. x - 1 \in S
  BY <1>1, <1>2, <1>3
<1> QED
  BY <1>2, <1>4

(* NULL and garbage are no items. *)
LEMMA CountType == ItemCount \in Nat /\ Items = 1 .. ItemCount
                     /\ None \notin Items /\ Garbage \notin Items
  BY PerAllocAssumption, MaxAllocsAssumption, NoneAssumption
     DEF ItemCount, Items, Garbage

-----------------------------------------------------------------------------
(* The list from p on when the items' next fields are nx. *)
ListOn(nx, p, s) ==
  /\ p = IF s = << >> THEN None ELSE s[1]
  /\ \A k \in 1 .. Len(s) : nx[s[k]] = IF k = Len(s) THEN None ELSE s[k + 1]

(* s holds the items own puts in a place, each of them once. *)
Holds(s, own, place) ==
  /\ \A k \in 1 .. Len(s) : own[s[k]] = place
  /\ \A j, k \in 1 .. Len(s) : s[j] = s[k] => j = k
  /\ \A i \in Items : own[i] = place => \E k \in 1 .. Len(s) : s[k] = i

(* A list is the beginning of every other list from the same item. *)
LEMMA ListsAgree ==
  ASSUME NEW nx, NEW p, NEW s \in Seq(Items), NEW t \in Seq(Items),
         ListOn(nx, p, s), ListOn(nx, p, t)
  PROVE  Len(s) <= Len(t) /\ \A k \in 1 .. Len(s) : s[k] = t[k]
<1> DEFINE S == {n \in Nat : n <= Len(s) =>
                    n <= Len(t) /\ \A k \in 1 .. n : s[k] = t[k]}
<1>0. None \notin Items
  BY CountType
<1>1. 0 \in S
  BY DEF ListOn
<1>2. ASSUME NEW n \in Nat, n \in S PROVE n + 1 \in S
  <2> SUFFICES ASSUME n + 1 <= Len(s)
               PROVE  n + 1 <= Len(t) /\ \A k \in 1 .. n + 1 : s[k] = t[k]
    OBVIOUS
  <2>1. n <= Len(t) /\ \A k \in 1 .. n : s[k] = t[k]
    BY <1>2
  <2>2. s[n + 1] \in Items
    OBVIOUS
  <2>3. CASE n = 0
    <3>1. p = s[1] /\ p # None
      BY <1>0, <2>2, <2>3 DEF ListOn
    <3>2. t # << >> /\ t[1] = p
      BY <3>1 DEF ListOn
    <3> QED
      BY <2>3, <3>1, <3>2
  <2>4. CASE n # 0
    <3>1. nx[s[n]] = s[n + 1] /\ s[n] = t[n]
      BY <2>1, <2>4 DEF ListOn
    <3>2. nx[t[n]] # None
      BY <1>0, <2>2, <3>1
    <3>3. n # Len(t) /\ nx[t[n]] = t[n + 1]
      BY <2>1, <2>4, <3>2 DEF ListOn
    <3> QED
      BY <2>1, <3>1, <3>3
  <2> QED
    BY <2>3, <2>4
<1>3. Len(s) \in S
  <2> HIDE DEF S
  <2>1. Nat \subseteq S
    BY <1>1, <1>2, SetInduction
  <2> QED
    BY <2>1
<1> QED
  BY <1>3

(* There is one list from an item. *)
LEMMA ListIsUnique ==
  ASSUME NEW nx, NEW p, NEW s \in Seq(Items), NEW t \in Seq(Items),
         ListOn(nx, p, s), ListOn(nx, p, t)
  PROVE  s = t
<1>1. /\ Len(s) <= Len(t) /\ \A k \in 1 .. Len(s) : s[k] = t[k]
      /\ Len(t) <= Len(s)
  BY ListsAgree
<1>2. Len(s) = Len(t)
  BY <1>1
<1> QED
  BY <1>1, <1>2

(* A list on which no item is twice is one of those ListFrom looks at. *)
LEMMA ListIsShort ==
  ASSUME NEW s \in Seq(Items), \A j, k \in 1 .. Len(s) : s[j] = s[k] => j = k
  PROVE  s \in Lists
<1>1. Len(s) <= ItemCount
  <2> SUFFICES ASSUME Len(s) > ItemCount PROVE FALSE
    BY CountType
  <2>1. IsFiniteSet(1 .. Len(s)) /\ Cardinality(1 .. Len(s)) = Len(s)
    <3>1. 1 \in Int /\ Len(s) \in Int /\ Len(s) \in Nat
      OBVIOUS
    <3>2. /\ IsFiniteSet(1 .. Len(s))
          /\ Cardinality(1 .. Len(s)) = IF 1 > Len(s) THEN 0 ELSE Len(s) - 1 + 1
      BY ONLY <3>1, FS_Interval
    <3> QED
      BY <3>1, <3>2
  <2>2. IsFiniteSet(Items) /\ Cardinality(Items) = ItemCount
    BY CountType, FS_Interval
  <2>3. s \in [1 .. Len(s) -> Items]
    OBVIOUS
  <2>4. Cardinality(Items) < Cardinality(1 .. Len(s))
    BY <2>1, <2>2, CountType
  <2>5. \E x, y \in 1 .. Len(s) : x # y /\ s[x] = s[y]
    BY ONLY <2>1, <2>2, <2>3, <2>4, FS_PigeonHole
  <2> QED
    BY <2>5
<1>2. s \in [1 .. Len(s) -> Items] /\ Len(s) \in 0 .. ItemCount
  BY <1>1, CountType
<1> QED
  BY <1>2 DEF Lists

(* They are sequences. *)
LEMMA ListsAreSequences ==
  ASSUME NEW s \in Lists PROVE s \in Seq(Items)
<1>1. PICK n \in 0 .. ItemCount : s \in [1 .. n -> Items]
  BY DEF Lists
<1>2. n \in Nat
  BY CountType
<1> QED
  BY <1>1, <1>2

(* What ListFrom chooses is the list that is there. *)
LEMMA TheList ==
  ASSUME NEW s \in Seq(Items), \A j, k \in 1 .. Len(s) : s[j] = s[k] => j = k,
         NEW nx, NEW p, ListOn(nx, p, s)
  PROVE  (CHOOSE t \in Lists : ListOn(nx, p, t)) = s
<1>1. s \in Lists
  BY ListIsShort
<1> DEFINE c == CHOOSE t \in Lists : ListOn(nx, p, t)
<1>2. c \in Lists /\ ListOn(nx, p, c)
  BY <1>1
<1> HIDE DEF c
<1>3. c = s
  BY <1>2, ListsAreSequences, ListIsUnique
<1> QED
  BY <1>3 DEF c

-----------------------------------------------------------------------------
(* How the steps of the queues change a list. *)

(* What happens to other items leaves a list alone. *)
LEMMA ListStays ==
  ASSUME NEW nx, NEW mx, NEW p, NEW s \in Seq(Items), ListOn(nx, p, s),
         NEW own, NEW place, Holds(s, own, place),
         \A i \in Items : own[i] = place => mx[i] = nx[i]
  PROVE  ListOn(mx, p, s)
<1>1. \A k \in 1 .. Len(s) : mx[s[k]] = nx[s[k]]
  BY DEF Holds
<1> QED
  BY <1>1 DEF ListOn

(* Moves between other places leave a place alone. *)
LEMMA PlaceStays ==
  ASSUME NEW s \in Seq(Items), NEW own, NEW own2, NEW place,
         Holds(s, own, place),
         \A i \in Items : own2[i] = place <=> own[i] = place
  PROVE  Holds(s, own2, place)
  BY DEF Holds

(* Taking the first item. *)
TakesFirst(nx, p, s, own, own2, place) ==
  /\ s \in Seq(Items) /\ ListOn(nx, p, s) /\ p # None /\ Holds(s, own, place)
  /\ \A i \in Items : own2[i] = place <=> own[i] = place /\ i # p

LEMMA FirstTaken ==
  ASSUME NEW nx, NEW p, NEW s, NEW own, NEW own2, NEW place,
         TakesFirst(nx, p, s, own, own2, place)
  PROVE  /\ s # << >> /\ p = s[1] /\ Tail(s) \in Seq(Items)
         /\ ListOn(nx, nx[p], Tail(s)) /\ Holds(Tail(s), own2, place)
<1> USE DEF TakesFirst
<1>1. s # << >> /\ p = s[1] /\ Tail(s) \in Seq(Items) /\ Len(Tail(s)) = Len(s) - 1
  BY DEF ListOn
<1>2. \A k \in 1 .. Len(s) - 1 : Tail(s)[k] = s[k + 1] /\ k + 1 \in 1 .. Len(s)
  BY <1>1
<1>3. ListOn(nx, nx[p], Tail(s))
  <2>1. nx[p] = IF Tail(s) = << >> THEN None ELSE Tail(s)[1]
    <3>1. nx[p] = IF 1 = Len(s) THEN None ELSE s[1 + 1]
      <4>1. 1 \in 1 .. Len(s)
        BY <1>1
      <4>2. nx[s[1]] = IF 1 = Len(s) THEN None ELSE s[1 + 1]
        BY <4>1 DEF ListOn
      <4> QED
        BY <1>1, <4>2
    <3>2. CASE Len(s) = 1
      <4>1. Tail(s) = << >>
        <5>1. Len(Tail(s)) = 0 /\ Tail(s) \in Seq(Items)
          BY <1>1, <3>2
        <5> QED
          BY <5>1, EmptySeq
      <4> QED
        BY <3>1, <3>2, <4>1
    <3>3. CASE Len(s) # 1
      <4>1. Tail(s) # << >> /\ Tail(s)[1] = s[1 + 1]
        BY <1>1, <3>3
      <4> QED
        BY <3>1, <3>3, <4>1
    <3> QED
      BY <3>2, <3>3
  <2>2. ASSUME NEW k \in 1 .. Len(s) - 1
        PROVE  nx[Tail(s)[k]] = IF k = Len(s) - 1 THEN None ELSE Tail(s)[k + 1]
    <3>1. k + 1 \in 1 .. Len(s) /\ Tail(s)[k] = s[k + 1]
      BY <1>2
    <3>2. nx[s[k + 1]] = IF k + 1 = Len(s) THEN None ELSE s[k + 1 + 1]
      BY <3>1 DEF ListOn
    <3>3. k # Len(s) - 1 => Tail(s)[k + 1] = s[k + 1 + 1]
      BY <1>2
    <3>4. k = Len(s) - 1 <=> k + 1 = Len(s)
      OBVIOUS
    <3> QED
      BY <3>1, <3>2, <3>3, <3>4
  <2> QED
    BY <1>1, <2>1, <2>2 DEF ListOn
<1>4. Holds(Tail(s), own2, place)
  <2>1. ASSUME NEW k \in 1 .. Len(s) - 1 PROVE own2[Tail(s)[k]] = place
    <3>1. own[s[k + 1]] = place /\ s[k + 1] # s[1] /\ s[k + 1] \in Items
      BY <1>1, <1>2 DEF Holds
    <3> QED
      BY <1>1, <1>2, <3>1
  <2>2. ASSUME NEW j \in 1 .. Len(s) - 1, NEW k \in 1 .. Len(s) - 1,
               Tail(s)[j] = Tail(s)[k]
        PROVE  j = k
    <3>1. s[j + 1] = s[k + 1]
      BY <1>2, <2>2
    <3>2. j + 1 = k + 1
      BY <1>2, <3>1 DEF Holds
    <3> QED
      BY <3>2
  <2>3. ASSUME NEW i \in Items, own2[i] = place
        PROVE  \E k \in 1 .. Len(s) - 1 : Tail(s)[k] = i
    <3>1. PICK k \in 1 .. Len(s) : s[k] = i
      BY <2>3 DEF Holds
    <3>2. k # 1
      BY <1>1, <2>3, <3>1
    <3>3. k - 1 \in 1 .. Len(s) - 1 /\ Tail(s)[k - 1] = i
      BY <1>2, <3>1, <3>2
    <3> QED
      BY <3>3
  <2> QED
    BY <1>1, <2>1, <2>2, <2>3 DEF Holds
<1> QED
  BY <1>1, <1>3, <1>4

(* m new items, the ones from a + 1 on, are put in front. *)
InFront(a, m, s) == [k \in 1 .. m + Len(s) |-> IF k <= m THEN a + k ELSE s[k - m]]

PutsInFront(nx, mx, p, s, own, own2, place, a, m) ==
  /\ s \in Seq(Items) /\ ListOn(nx, p, s) /\ Holds(s, own, place)
  /\ a \in Nat /\ m \in Nat \ {0} /\ a + m <= ItemCount
  /\ \A k \in 1 .. m : own[a + k] # place
  /\ \A i \in Items : own2[i] = place <=> own[i] = place \/ i \in a + 1 .. a + m
  /\ \A i \in Items : own[i] = place => mx[i] = nx[i]
  /\ \A k \in 1 .. m - 1 : mx[a + k] = a + k + 1
  /\ mx[a + m] = p

LEMMA PutInFront ==
  ASSUME NEW nx, NEW mx, NEW p, NEW s, NEW own, NEW own2, NEW place, NEW a,
         NEW m, PutsInFront(nx, mx, p, s, own, own2, place, a, m)
  PROVE  /\ InFront(a, m, s) \in Seq(Items)
         /\ ListOn(mx, a + 1, InFront(a, m, s))
         /\ Holds(InFront(a, m, s), own2, place)
<1> USE DEF PutsInFront
<1> DEFINE t == InFront(a, m, s)
           n == m + Len(s)
<1>0. Len(s) \in Nat /\ n \in Nat /\ n >= 1
  OBVIOUS
<1>1. \A k \in 1 .. m : a + k \in Items
  BY CountType
<1>2. /\ \A k \in 1 .. m : t[k] = a + k
      /\ \A k \in 1 .. Len(s) : t[m + k] = s[k] /\ m + k \in 1 .. n
  BY DEF InFront
<1>3. t \in Seq(Items) /\ Len(t) = n /\ t # << >>
  <2>1. t \in [1 .. n -> Items]
    BY <1>1 DEF InFront
  <2> QED
    BY <1>0, <2>1
<1> HIDE DEF t
<1>4. ASSUME NEW k \in 1 .. n
      PROVE  k \in 1 .. m \/ \E j \in 1 .. Len(s) : k = m + j
  <2>1. k > m => k - m \in 1 .. Len(s) /\ k = m + (k - m)
    BY <1>0
  <2> QED
    BY <1>0, <2>1
<1>5. ListOn(mx, a + 1, t)
  <2>1. t[1] = a + 1
    BY <1>2
  <2>2. ASSUME NEW k \in 1 .. n
        PROVE  mx[t[k]] = IF k = n THEN None ELSE t[k + 1]
    <3>1. CASE k \in 1 .. m - 1
      <4>1. k \in 1 .. m /\ k + 1 \in 1 .. m /\ k # n
        BY <1>0, <3>1
      <4>2. t[k] = a + k /\ t[k + 1] = a + (k + 1) /\ mx[a + k] = a + k + 1
        BY <1>2, <3>1, <4>1
      <4>3. a + k + 1 = a + (k + 1)
        BY <3>1
      <4> QED
        BY <4>1, <4>2, <4>3
    <3>2. CASE k = m
      <4>1. t[k] = a + m /\ mx[t[k]] = p
        BY <1>2, <3>2
      <4>2. CASE Len(s) = 0
        BY <3>2, <4>1, <4>2 DEF ListOn
      <4>3. CASE Len(s) # 0
        <5>1. p = s[1] /\ t[m + 1] = s[1]
          BY <1>2, <4>3 DEF ListOn
        <5> QED
          BY <3>2, <4>1, <4>3, <5>1
      <4> QED
        BY <4>2, <4>3
    <3>3. ASSUME NEW j \in 1 .. Len(s), k = m + j
          PROVE  mx[t[k]] = IF k = n THEN None ELSE t[k + 1]
      <4>0. s[j] \in Items /\ own[s[j]] = place
        BY DEF Holds
      <4>1. t[k] = s[j] /\ mx[s[j]] = nx[s[j]]
        BY <1>2, <3>3, <4>0
      <4>2. nx[s[j]] = IF j = Len(s) THEN None ELSE s[j + 1]
        BY DEF ListOn
      <4>3. j # Len(s) => t[k + 1] = s[j + 1]
        <5>1. j # Len(s) => j + 1 \in 1 .. Len(s) /\ k + 1 = m + (j + 1)
          BY <3>3
        <5> QED
          BY <1>2, <5>1
      <4> QED
        BY <3>3, <4>1, <4>2, <4>3
    <3> QED
      BY <1>4, <3>1, <3>2, <3>3
  <2> QED
    BY <1>3, <2>1, <2>2 DEF ListOn
<1>6. Holds(t, own2, place)
  <2>1. ASSUME NEW k \in 1 .. n PROVE own2[t[k]] = place
    <3>1. CASE k \in 1 .. m
      BY <1>1, <1>2, <3>1
    <3>2. ASSUME NEW j \in 1 .. Len(s), k = m + j
          PROVE  own2[t[k]] = place
      <4>1. s[j] \in Items /\ own[s[j]] = place
        BY DEF Holds
      <4> QED
        BY <1>2, <3>2, <4>1
    <3> QED
      BY <1>4, <3>1, <3>2
  <2>2. ASSUME NEW j \in 1 .. n, NEW k \in 1 .. n, t[j] = t[k]
        PROVE  j = k
    <3>1. CASE j \in 1 .. m /\ k \in 1 .. m
      <4>1. a + j = a + k
        BY <1>2, <2>2, <3>1
      <4> QED
        BY <3>1, <4>1
    <3>2. ASSUME NEW x \in 1 .. m, NEW y \in 1 .. Len(s)
          PROVE  t[x] # t[m + y]
      <4>1. own[a + x] # place /\ own[s[y]] = place
        BY DEF Holds
      <4>2. t[x] = a + x /\ t[m + y] = s[y]
        BY <1>2
      <4> QED
        BY <4>1, <4>2
    <3>3. ASSUME NEW x \in 1 .. Len(s), NEW y \in 1 .. Len(s), t[m + x] = t[m + y]
          PROVE  x = y
      BY <1>2, <3>3 DEF Holds
    <3> QED
      BY <1>4, <2>2, <3>1, <3>2, <3>3
  <2>3. ASSUME NEW i \in Items, own2[i] = place
        PROVE  \E k \in 1 .. n : t[k] = i
    <3>1. CASE i \in a + 1 .. a + m
      <4>1. i - a \in 1 .. m /\ i - a \in 1 .. n /\ a + (i - a) = i
        BY <1>0, <3>1
      <4>2. t[i - a] = i
        BY <1>2, <4>1
      <4> QED
        BY <4>1, <4>2
    <3>2. CASE own[i] = place
      <4>1. PICK k \in 1 .. Len(s) : s[k] = i
        BY <3>2 DEF Holds
      <4> QED
        BY <1>2, <4>1
    <3> QED
      BY <2>3, <3>1, <3>2
  <2> QED
    BY <1>3, <2>1, <2>2, <2>3 DEF Holds
<1> QED
  BY <1>3, <1>5, <1>6 DEF t

(* An item is put at the end. *)
PutsAtEnd(nx, mx, p, s, own, own2, place, x) ==
  /\ s \in Seq(Items) /\ ListOn(nx, p, s) /\ Holds(s, own, place)
  /\ x \in Items /\ own[x] # place
  /\ \A i \in Items : own2[i] = place <=> own[i] = place \/ i = x
  /\ \A i \in Items : own[i] = place /\ i # s[Len(s)] => mx[i] = nx[i]
  /\ mx[x] = None
  /\ s # << >> => mx[s[Len(s)]] = x

LEMMA PutAtEnd ==
  ASSUME NEW nx, NEW mx, NEW p, NEW s, NEW own, NEW own2, NEW place, NEW x,
         PutsAtEnd(nx, mx, p, s, own, own2, place, x)
  PROVE  /\ ListOn(mx, IF s = << >> THEN x ELSE p, Append(s, x))
         /\ Holds(Append(s, x), own2, place)
<1> USE DEF PutsAtEnd
<1> DEFINE t == Append(s, x)
           n == Len(s)
<1>1. /\ t \in Seq(Items) /\ Len(t) = n + 1 /\ t # << >> /\ t[n + 1] = x
      /\ \A k \in 1 .. n : t[k] = s[k] /\ n \in Nat
  OBVIOUS
<1>2. s = << >> <=> n = 0
  OBVIOUS
<1> HIDE DEF t, n
<1>3. ListOn(mx, IF s = << >> THEN x ELSE p, t)
  <2>1. t[1] = IF s = << >> THEN x ELSE p
    <3>1. CASE n = 0
      BY <1>1, <1>2, <3>1
    <3>2. CASE n # 0
      <4>1. n \in Nat
        BY DEF n
      <4>2. t[1] = s[1]
        BY <1>1, <3>2, <4>1
      <4> QED
        BY <1>2, <3>2, <4>2 DEF ListOn
    <3> QED
      BY <3>1, <3>2
  <2>2. ASSUME NEW k \in 1 .. n + 1
        PROVE  mx[t[k]] = IF k = n + 1 THEN None ELSE t[k + 1]
    <3>0. n \in Nat
      BY DEF n
    <3>1. CASE k = n + 1
      BY <1>1, <3>1
    <3>2. CASE k = n
      <4>1. s # << >> /\ t[k] = s[n] /\ t[k + 1] = x /\ k # n + 1
        BY <1>1, <1>2, <3>0, <3>2
      <4> QED
        BY <4>1 DEF n
    <3>3. CASE k < n
      <4>1. k \in 1 .. n /\ k + 1 \in 1 .. n /\ k # n + 1
        BY <3>0, <3>3
      <4>2. t[k] = s[k] /\ t[k + 1] = s[k + 1] /\ nx[s[k]] = s[k + 1]
        BY <1>1, <3>3, <4>1 DEF ListOn, n
      <4>3. s[k] # s[n] /\ own[s[k]] = place /\ s[k] \in Items
        BY <3>3, <4>1 DEF Holds, n
      <4>4. mx[s[k]] = nx[s[k]]
        BY <4>3 DEF n
      <4> QED
        BY <4>1, <4>2, <4>4
    <3> QED
      BY <3>0, <3>1, <3>2, <3>3
  <2> QED
    BY <1>1, <2>1, <2>2 DEF ListOn
<1>4. Holds(t, own2, place)
  <2>0. n \in Nat
    BY DEF n
  <2>1. ASSUME NEW k \in 1 .. n + 1
        PROVE  own2[t[k]] = place /\ (k \in 1 .. n => own[t[k]] = place)
    <3>1. CASE k \in 1 .. n
      BY <1>1, <3>1 DEF Holds, n
    <3>2. CASE k = n + 1
      BY <1>1, <2>0, <3>2
    <3> QED
      BY <2>0, <3>1, <3>2
  <2>2. ASSUME NEW j \in 1 .. n + 1, NEW k \in 1 .. n + 1, t[j] = t[k]
        PROVE  j = k
    <3>1. CASE j \in 1 .. n /\ k \in 1 .. n
      BY <1>1, <2>2, <3>1 DEF Holds, n
    <3>2. CASE j = n + 1 \/ k = n + 1
      BY <1>1, <2>0, <2>1, <2>2, <3>2
    <3> QED
      BY <2>0, <3>1, <3>2
  <2>3. ASSUME NEW i \in Items, own2[i] = place
        PROVE  \E k \in 1 .. n + 1 : t[k] = i
    <3>1. CASE i = x
      BY <1>1, <2>0, <3>1
    <3>2. CASE own[i] = place
      <4>1. PICK k \in 1 .. n : s[k] = i
        BY <3>2 DEF Holds, n
      <4> QED
        BY <1>1, <2>0, <4>1
    <3> QED
      BY <2>3, <3>1, <3>2
  <2> QED
    BY <1>1, <2>1, <2>2, <2>3 DEF Holds
<1> QED
  BY <1>3, <1>4 DEF t

-----------------------------------------------------------------------------
(* The places of items, under their names. *)
Free == <<"free", None>>
MainPlace == <<"main", None>>
QueueOf(w) == <<"queue", w>>
HandOf(w) == <<"hand", w>>
Nowhere == <<"nowhere", None>>

(* No two of them are the same. *)
LEMMA PlacesDiffer ==
  ASSUME NEW v, NEW w
  PROVE  /\ QueueOf(v) \notin {Free, MainPlace, Nowhere, HandOf(w)}
         /\ HandOf(v) \notin {Free, MainPlace, Nowhere, QueueOf(w)}
         /\ QueueOf(v) = QueueOf(w) => v = w
         /\ HandOf(v) = HandOf(w) => v = w
         /\ Free # MainPlace /\ Free # Nowhere /\ MainPlace # Nowhere
  BY DEF Free, MainPlace, QueueOf, HandOf, Nowhere

PlacesOfItems == [Items -> Places \cup {Nowhere}]

(* There are no others. *)
LEMMA PlacesAre ==
  /\ Free \in Places /\ MainPlace \in Places
  /\ \A w \in Workers : QueueOf(w) \in Places /\ HandOf(w) \in Places
  /\ \A place \in Places :
       \/ place = Free \/ place = MainPlace
       \/ \E w \in Workers : place = QueueOf(w) \/ place = HandOf(w)
  BY DEF Places, Free, MainPlace, QueueOf, HandOf

(* The free list is fl, and own says so. *)
FreeList(fl, own) ==
  ListOn(next, cqi_freelist, fl) /\ Holds(fl, own, Free)

(* The queue of w is s, and own says so. *)
Queue(w, s, own) ==
  /\ ListOn(next, head[w], s) /\ Holds(s, own, QueueOf(w))
  /\ tail[w] = IF s = << >> THEN None ELSE s[Len(s)]

(* What the threads hold, and what no malloc has returned yet. *)
Hands(own) ==
  /\ \A i \in Items : own[i] = MainPlace <=> i \in HeldByMain
  /\ \A i \in Items, w \in Workers : own[i] = HandOf(w) <=> witem[w] = i
Allocated(own) ==
  \A i \in Items : own[i] = Nowhere <=> i > allocs * PerAlloc

(* Queued items have been filled. *)
Filled(own) ==
  \A i \in Items, w \in Workers :
    own[i] = QueueOf(w) \/ own[i] = HandOf(w) => sfd[i] \in Sockets

(* Where the threads are. *)
Stages ==
  /\ mpc \in {"idle", "alloc"} <=> item = None
  /\ mpc = "alloc" => allocs < MaxAllocs
  /\ mpc = "link" =>
       /\ item + PerAlloc - 1 \in Items
       /\ \A k \in 1 .. PerAlloc - 2 : next[item + k] = item + k + 1
  /\ mpc = "push" => sfd[item] \in Sockets
  /\ \A w \in Workers : wpc[w] = "use" <=> witem[w] # None

(* The sequences, the places and the state fit together. *)
Layout(fl, q, own) ==
  /\ FreeList(fl, own)
  /\ \A w \in Workers : Queue(w, q[w], own)
  /\ Hands(own) /\ Allocated(own) /\ Filled(own) /\ Stages

(* A step that does not touch the free list or its items. *)
LEMMA FreeStays ==
  ASSUME NEW fl \in Seq(Items), NEW own, NEW own2, FreeList(fl, own),
         cqi_freelist' = cqi_freelist,
         \A i \in Items : own2[i] = Free <=> own[i] = Free,
         \A i \in Items : own[i] = Free => next'[i] = next[i]
  PROVE  FreeList(fl, own2)'
<1>1. ListOn(next', cqi_freelist', fl)
  BY ListStays DEF FreeList
<1>2. Holds(fl, own2, Free)
  BY PlaceStays DEF FreeList
<1> QED
  BY <1>1, <1>2 DEF FreeList

(* A step that does not touch the queue of w or its items. *)
LEMMA QueueStays ==
  ASSUME NEW s \in Seq(Items), NEW own, NEW own2, NEW w \in Workers,
         Queue(w, s, own), head'[w] = head[w], tail'[w] = tail[w],
         \A i \in Items : own2[i] = QueueOf(w) <=> own[i] = QueueOf(w),
         \A i \in Items : own[i] = QueueOf(w) => next'[i] = next[i]
  PROVE  Queue(w, s, own2)'
<1>1. ListOn(next', head'[w], s)
  BY ListStays DEF Queue
<1>2. Holds(s, own2, QueueOf(w))
  BY PlaceStays DEF Queue
<1> QED
  BY <1>1, <1>2 DEF Queue

(* The queues are q, for some free list and some places. *)
Queues == [Workers -> Seq(Items)]
Fits(q) == \E fl \in Seq(Items), own \in PlacesOfItems : Layout(fl, q, own)

(* The blocks malloc can give lie one after the other. *)
LEMMA Blocks ==
  ASSUME allocs \in 0 .. MaxAllocs
  PROVE  /\ PerAlloc \in Nat /\ PerAlloc >= 2 /\ allocs \in Nat
         /\ allocs * PerAlloc \in Nat
         /\ (allocs + 1) * PerAlloc = allocs * PerAlloc + PerAlloc
         /\ allocs < MaxAllocs => allocs * PerAlloc + PerAlloc <= ItemCount
<1> USE PerAllocAssumption, MaxAllocsAssumption
<1>1. PerAlloc \in Nat /\ PerAlloc >= 2 /\ allocs \in Nat
  OBVIOUS
<1>2. allocs * PerAlloc \in Nat
  BY <1>1
<1>3. (allocs + 1) * PerAlloc = allocs * PerAlloc + PerAlloc
  BY <1>1
<1>4. ASSUME allocs < MaxAllocs
      PROVE  allocs * PerAlloc + PerAlloc <= ItemCount
  <2> DEFINE rest == MaxAllocs - (allocs + 1)
  <2>1. rest \in Nat /\ MaxAllocs = (allocs + 1) + rest
    BY <1>4
  <2>2. rest * PerAlloc \in Nat
    BY <1>1, <2>1
  <2> HIDE DEF rest
  <2>3. ((allocs + 1) + rest) * PerAlloc
          = (allocs + 1) * PerAlloc + rest * PerAlloc
    BY <1>1, <2>1
  <2>4. ItemCount = ((allocs + 1) + rest) * PerAlloc
    BY <1>1, <2>1 DEF ItemCount
  <2> QED
    BY <1>2, <1>3, <2>2, <2>3, <2>4
<1> QED
  BY <1>1, <1>2, <1>3, <1>4

(* At first all lists are empty and nothing is allocated. *)
LEMMA LayoutInit == Init => TypeOK /\ Fits([w \in Workers |-> << >>])
<1> SUFFICES ASSUME Init PROVE TypeOK /\ Fits([w \in Workers |-> << >>])
  OBVIOUS
<1>0. MaxAllocs \in Nat /\ PerAlloc \in Nat /\ 0 * PerAlloc = 0
  BY PerAllocAssumption, MaxAllocsAssumption
<1>1. TypeOK
  BY <1>0 DEF Init, TypeOK, Link
<1> DEFINE own == [i \in Items |-> Nowhere]
           q == [w \in Workers |-> << >>]
<1>2. own \in PlacesOfItems /\ \A i \in Items : own[i] = Nowhere
  BY DEF PlacesOfItems
<1>3. << >> \in Seq(Items) /\ Len(<< >>) = 0
  OBVIOUS
<1> HIDE DEF own
<1>4. /\ FreeList(<< >>, own)
      /\ \A w \in Workers : Queue(w, << >>, own)
  BY <1>2, <1>3, PlacesDiffer DEF Init, FreeList, Queue, ListOn, Holds
<1>5. Hands(own)
  BY <1>2, CountType, PlacesDiffer DEF Init, Hands, HeldByMain
<1>6. Allocated(own)
  BY <1>0, <1>2, CountType DEF Init, Allocated
<1>7. Filled(own)
  BY <1>2, PlacesDiffer DEF Filled
<1>8. Stages
  BY DEF Init, Stages
<1>9. Layout(<< >>, q, own)
  BY <1>4, <1>5, <1>6, <1>7, <1>8 DEF Layout
<1> QED
  BY <1>1, <1>2, <1>3, <1>9 DEF Fits

-----------------------------------------------------------------------------
(* cqi_new takes the first item of the free list, or finds none. *)
LEMMA NewPop ==
  ASSUME TypeOK, NEW q \in Queues, Fits(q), CqiNewPop
  PROVE  TypeOK' /\ Fits(q)'
<1> USE CountType
<1>0. PICK fl \in Seq(Items), own \in PlacesOfItems : Layout(fl, q, own)
  BY DEF Fits
<1>a. own \in [Items -> Places \cup {Nowhere}]
  BY DEF PlacesOfItems
<1>b. /\ mpc = "idle" /\ item = None /\ HeldByMain = {}
      /\ UNCHANGED <<next, head, tail, sfd, allocs, wpc, witem>>
  BY <1>0 DEF CqiNewPop, Layout, Stages, HeldByMain
<1>1. CASE cqi_freelist # None
  <2>1. item' = cqi_freelist /\ cqi_freelist' = next[cqi_freelist] /\ mpc' = "fill"
    BY <1>1 DEF CqiNewPop
  <2>2. ListOn(next, cqi_freelist, fl) /\ Holds(fl, own, Free)
    BY <1>0 DEF Layout, FreeList
  <2>3. cqi_freelist \in Items /\ own[cqi_freelist] = Free
    <3>1. fl # << >> /\ cqi_freelist = fl[1]
      BY <1>1, <2>2 DEF ListOn
    <3>2. 1 \in 1 .. Len(fl)
      BY <3>1
    <3> QED
      BY <2>2, <3>1, <3>2 DEF Holds
  <2>4. PICK own2 : own2 = [own EXCEPT ![cqi_freelist] = MainPlace]
    OBVIOUS
  <2>5. \A i \in Items : own2[i] = IF i = cqi_freelist THEN MainPlace ELSE own[i]
    BY <1>a, <2>4
  <2>6. own2 \in PlacesOfItems
    BY <1>a, <2>4, PlacesAre DEF PlacesOfItems
  <2>7. \A i \in Items : own2[i] = Free <=> own[i] = Free /\ i # cqi_freelist
    BY <2>5, PlacesDiffer
  <2>8. /\ Tail(fl) \in Seq(Items)
        /\ ListOn(next, next[cqi_freelist], Tail(fl)) /\ Holds(Tail(fl), own2, Free)
    <3>1. TakesFirst(next, cqi_freelist, fl, own, own2, Free)
      BY <1>1, <2>2, <2>7 DEF TakesFirst
    <3> QED
      BY <3>1, FirstTaken
  <2>9. FreeList(Tail(fl), own2)'
    BY <1>b, <2>1, <2>8 DEF FreeList
  <2>10. ASSUME NEW w \in Workers PROVE Queue(w, q[w], own2)'
    <3>1. \A i \in Items : own2[i] = QueueOf(w) <=> own[i] = QueueOf(w)
      BY <2>3, <2>5, PlacesDiffer
    <3>2. q[w] \in Seq(Items) /\ Queue(w, q[w], own)
      BY <1>0 DEF Layout, Queues
    <3> QED
      BY <1>b, <3>1, <3>2, QueueStays
  <2>11. Hands(own2)'
    <3>1. HeldByMain' = {cqi_freelist}
      BY <1>1, <2>1 DEF HeldByMain
    <3>2. \A i \in Items : own[i] # MainPlace
      BY <1>0, <1>b DEF Layout, Hands
    <3>3. \A i \in Items, w \in Workers : own2[i] = HandOf(w) <=> own[i] = HandOf(w)
      BY <2>3, <2>5, PlacesDiffer
    <3> QED
      BY <1>0, <1>b, <2>5, <3>1, <3>2, <3>3 DEF Layout, Hands
  <2>12. Allocated(own2)'
    BY <1>0, <1>b, <2>3, <2>5, PlacesDiffer DEF Layout, Allocated
  <2>13. Filled(own2)'
    BY <1>0, <1>b, <2>5, PlacesDiffer DEF Layout, Filled
  <2>14. Stages'
    BY <1>0, <1>1, <1>b, <2>1 DEF Layout, Stages
  <2>15. Layout(Tail(fl), q, own2)'
    BY <2>9, <2>10, <2>11, <2>12, <2>13, <2>14 DEF Layout
  <2>16. TypeOK'
    BY <1>b, <2>1, <2>3 DEF TypeOK, Link
  <2> QED
    BY <2>6, <2>8, <2>15, <2>16 DEF Fits
<1>2. CASE cqi_freelist = None
  <2>1. mpc' = "alloc" /\ allocs < MaxAllocs /\ UNCHANGED <<item, cqi_freelist>>
    BY <1>2 DEF CqiNewPop
  <2>2. FreeList(fl, own)' /\ \A w \in Workers : Queue(w, q[w], own)'
    BY <1>0, <1>b, <2>1 DEF Layout, FreeList, Queue
  <2>3. HeldByMain' = {}
    BY <1>b, <2>1 DEF HeldByMain
  <2>4. Hands(own)' /\ Allocated(own)' /\ Filled(own)'
    BY <1>0, <1>b, <2>1, <2>3 DEF Layout, Hands, Allocated, Filled
  <2>5. Stages'
    BY <1>0, <1>b, <2>1 DEF Layout, Stages
  <2>6. Layout(fl, q, own)'
    BY <2>2, <2>4, <2>5 DEF Layout
  <2>7. TypeOK'
    BY <1>b, <2>1 DEF TypeOK
  <2> QED
    BY <2>6, <2>7 DEF Fits
<1> QED
  BY <1>1, <1>2

(* A block that no list knows yet becomes the main thread's. *)
LEMMA NewAlloc ==
  ASSUME TypeOK, NEW q \in Queues, Fits(q), CqiNewAlloc
  PROVE  TypeOK' /\ Fits(q)'
<1> USE CountType
<1>0. PICK fl \in Seq(Items), own \in PlacesOfItems : Layout(fl, q, own)
  BY DEF Fits
<1>a. own \in [Items -> Places \cup {Nowhere}]
  BY DEF PlacesOfItems
<1>u. PICK used : used = allocs * PerAlloc
  OBVIOUS
<1>b. /\ mpc = "alloc" /\ item = None /\ HeldByMain = {} /\ allocs < MaxAllocs
      /\ UNCHANGED <<head, tail, cqi_freelist, sfd, wpc, witem>>
      /\ mpc' = "link" /\ allocs' = allocs + 1 /\ item' = used + 1
      /\ next' = [i \in Items |-> next'[i]]
      /\ \A i \in Items :
           next'[i] = IF i \in (used + 1) + 1 .. (used + PerAlloc) - 1
                       THEN i + 1 ELSE next[i]
  <2>1. /\ mpc = "alloc" /\ mpc' = "link" /\ allocs' = allocs + 1
        /\ UNCHANGED <<head, tail, cqi_freelist, sfd, wpc, witem>>
        /\ item' = used + 1
        /\ next' = [i \in Items |-> next'[i]]
        /\ \A i \in Items :
             next'[i] = IF i \in (used + 1) + 1 .. (used + PerAlloc) - 1
                         THEN i + 1 ELSE next[i]
    <3>1. mpc = "alloc" /\ mpc' = "link" /\ allocs' = allocs + 1
      BY DEF CqiNewAlloc
    <3>2. UNCHANGED <<head, tail, cqi_freelist, sfd, wpc, witem>>
      BY DEF CqiNewAlloc
    <3>3. item' = allocs * PerAlloc + 1
      BY DEF CqiNewAlloc
    <3>4. next' = [i \in Items |->
                     IF i \in (allocs * PerAlloc + 1) + 1
                                .. (allocs * PerAlloc + PerAlloc) - 1
                       THEN i + 1 ELSE next[i]]
      BY DEF CqiNewAlloc
    <3>5. next' = [i \in Items |-> next'[i]]
      BY ONLY <3>4
    <3>6. ASSUME NEW i \in Items
          PROVE  next'[i] = IF i \in (used + 1) + 1 .. (used + PerAlloc) - 1
                             THEN i + 1 ELSE next[i]
      <4>1. next'[i] = IF i \in (allocs * PerAlloc + 1) + 1
                                  .. (allocs * PerAlloc + PerAlloc) - 1
                        THEN i + 1 ELSE next[i]
        BY <3>4, Zenon
      <4> QED
        BY ONLY <4>1, <1>u, Zenon
    <3>7. item' = used + 1
      BY ONLY <3>3, <1>u
    <3> QED
      BY ONLY <3>1, <3>2, <3>5, <3>6, <3>7, Zenon
  <2>2. item = None /\ allocs < MaxAllocs
    BY <1>0, <2>1 DEF Layout, Stages
  <2>3. HeldByMain = {}
    BY <2>2 DEF HeldByMain
  <2> QED
    BY <2>1, <2>2, <2>3
<1>c. /\ PerAlloc \in Nat /\ PerAlloc >= 2 /\ used \in Nat /\ allocs \in Nat
      /\ allocs' * PerAlloc = used + PerAlloc /\ used + PerAlloc <= ItemCount
      /\ MaxAllocs \in Nat
  BY <1>b, <1>u, Blocks, MaxAllocsAssumption DEF TypeOK
<1>d. \A i \in Items : own[i] = Nowhere <=> i > used
  BY <1>0, <1>u DEF Layout, Allocated
<1>1. PICK own2 : own2 = [i \in Items |-> IF i \in used + 1 .. used + PerAlloc
                                            THEN MainPlace ELSE own[i]]
  OBVIOUS
<1>2. \A i \in Items : own2[i] = IF i \in used + 1 .. used + PerAlloc
                                   THEN MainPlace ELSE own[i]
  BY <1>1
<1>3. own2 \in PlacesOfItems
  BY <1>a, <1>1, PlacesAre DEF PlacesOfItems
<1>4. \A i \in Items : i \in used + 1 .. used + PerAlloc => own[i] = Nowhere
  BY <1>c, <1>d
<1>5. \A i \in Items : own[i] # Nowhere => next'[i] = next[i]
  BY <1>b, <1>c, <1>d
<1>6. FreeList(fl, own2)'
  <2>1. \A i \in Items : own2[i] = Free <=> own[i] = Free
    BY <1>2, <1>4, PlacesDiffer
  <2>2. \A i \in Items : own[i] = Free => next'[i] = next[i]
    BY <1>5, PlacesDiffer
  <2> QED
    <3>1. FreeList(fl, own) /\ cqi_freelist' = cqi_freelist
      BY <1>0, <1>b DEF Layout
    <3> QED
      BY <2>1, <2>2, <3>1, FreeStays
<1>7. ASSUME NEW w \in Workers PROVE Queue(w, q[w], own2)'
  <2>1. \A i \in Items : own2[i] = QueueOf(w) <=> own[i] = QueueOf(w)
    BY <1>2, <1>4, PlacesDiffer
  <2>2. \A i \in Items : own[i] = QueueOf(w) => next'[i] = next[i]
    BY <1>5, PlacesDiffer
  <2>3. q[w] \in Seq(Items) /\ Queue(w, q[w], own)
    BY <1>0 DEF Layout, Queues
  <2> QED
    BY <1>b, <2>1, <2>2, <2>3, QueueStays
<1>8. Hands(own2)'
  <2>1. HeldByMain' = used + 1 .. used + PerAlloc
    <3>1. item' # None /\ item' + PerAlloc - 1 = used + PerAlloc
      BY <1>b, <1>c, NoneAssumption
    <3> QED
      BY <1>b, <3>1 DEF HeldByMain
  <2>2. \A i \in Items : own[i] # MainPlace
    BY <1>0, <1>b DEF Layout, Hands
  <2>3. \A i \in Items, w \in Workers : own2[i] = HandOf(w) <=> own[i] = HandOf(w)
    BY <1>2, <1>4, PlacesDiffer
  <2> QED
    BY <1>0, <1>b, <1>2, <2>1, <2>2, <2>3 DEF Layout, Hands
<1>9. Allocated(own2)'
  <2>1. ASSUME NEW i \in Items PROVE own2[i] = Nowhere <=> i > used + PerAlloc
    <3>1. i \in Nat
      OBVIOUS
    <3>2. CASE i \in used + 1 .. used + PerAlloc
      <4>1. own2[i] = MainPlace /\ ~(i > used + PerAlloc)
        BY <1>2, <1>c, <3>1, <3>2
      <4> QED
        BY <4>1, PlacesDiffer
    <3>3. CASE i \notin used + 1 .. used + PerAlloc
      <4>1. own2[i] = own[i] /\ (i > used <=> i > used + PerAlloc)
        BY <1>2, <1>c, <3>1, <3>3
      <4> QED
        BY <1>d, <4>1
    <3> QED
      BY <3>2, <3>3
  <2> QED
    BY <1>c, <2>1 DEF Allocated
<1>10. Filled(own2)'
  BY <1>0, <1>b, <1>2, PlacesDiffer DEF Layout, Filled
<1>11. Stages'
  <2>1. item' # None /\ item' + PerAlloc - 1 \in Items
    BY <1>b, <1>c, NoneAssumption
  <2>2. ASSUME NEW k \in 1 .. PerAlloc - 2
        PROVE  next'[item' + k] = item' + k + 1
    <3>1. /\ item' + k \in Items
          /\ item' + k \in (used + 1) + 1 .. (used + PerAlloc) - 1
      BY <1>b, <1>c
    <3> QED
      BY <1>b, <3>1
  <2> QED
    BY <1>0, <1>b, <2>1, <2>2 DEF Layout, Stages
<1>12. Layout(fl, q, own2)'
  BY <1>6, <1>7, <1>8, <1>9, <1>10, <1>11 DEF Layout
<1>13. TypeOK'
  <2>1. item' \in Items /\ allocs' \in 0 .. MaxAllocs
    BY <1>b, <1>c DEF TypeOK
  <2>2. next' \in [Items -> Link]
    <3>1. \A i \in Items : i \in (used + 1) + 1 .. (used + PerAlloc) - 1 => i + 1 \in Items
      BY <1>c
    <3> QED
      BY <1>b, <3>1 DEF TypeOK, Link
  <2> QED
    BY <1>b, <2>1, <2>2 DEF TypeOK
<1> QED
  BY <1>3, <1>12, <1>13 DEF Fits

(* All of the block but its first item goes in front of the free list,     *)
(* which the workers may have changed since cqi_new looked at it.          *)
LEMMA NewLink ==
  ASSUME TypeOK, NEW q \in Queues, Fits(q), CqiNewLink
  PROVE  TypeOK' /\ Fits(q)'
<1> USE CountType
<1>0. PICK fl \in Seq(Items), own \in PlacesOfItems : Layout(fl, q, own)
  BY DEF Fits
<1>a. own \in [Items -> Places \cup {Nowhere}]
  BY DEF PlacesOfItems
<1>p. PerAlloc \in Nat /\ PerAlloc >= 2
  BY PerAllocAssumption
<1>b. /\ mpc = "link" /\ mpc' = "fill" /\ cqi_freelist' = item + 1
      /\ next' = [next EXCEPT ![(item + PerAlloc) - 1] = cqi_freelist]
      /\ UNCHANGED <<head, tail, sfd, allocs, item, wpc, witem>>
  <2>1. item + PerAlloc - 1 = (item + PerAlloc) - 1
    <3>1. item \in Items
      BY <1>0 DEF CqiNewLink, TypeOK, Layout, Stages
    <3> QED
      BY <1>p, <3>1
  <2> QED
    BY <2>1 DEF CqiNewLink
<1> PICK m \in Nat : m = PerAlloc - 1
  BY <1>p
<1>c. /\ item \in Items /\ item \in Nat /\ item # None /\ m >= 1
      /\ item + m \in Items /\ item + PerAlloc - 1 = item + m
      /\ (item + PerAlloc) - 1 = item + m
      /\ \A k \in 1 .. m - 1 : next[item + k] = item + k + 1
  <2>1. item # None /\ item \in Items
    BY <1>0, <1>b DEF TypeOK, Layout, Stages
  <2>2. item \in Nat
    BY <2>1
  <2>3. /\ item + PerAlloc - 1 \in Items
        /\ \A k \in 1 .. PerAlloc - 2 : next[item + k] = item + k + 1
    BY <1>0, <1>b DEF Layout, Stages
  <2> QED
    BY <1>p, <2>1, <2>2, <2>3
<1>d. HeldByMain = item .. item + m /\ HeldByMain' = {item}
  BY <1>b, <1>c DEF HeldByMain
<1>e. \A i \in Items : own[i] = MainPlace <=> i \in item .. item + m
  BY <1>0, <1>d DEF Layout, Hands
<1>f. /\ \A i \in Items : i # item + m => next'[i] = next[i]
      /\ next'[item + m] = cqi_freelist /\ next' \in [Items -> Link]
  BY <1>b, <1>c DEF TypeOK
<1>1. PICK own2 : own2 = [i \in Items |-> IF i \in item + 1 .. item + m
                                            THEN Free ELSE own[i]]
  OBVIOUS
<1>2. \A i \in Items : own2[i] = IF i \in item + 1 .. item + m
                                   THEN Free ELSE own[i]
  BY <1>1
<1>3. own2 \in PlacesOfItems
  BY <1>a, <1>1, PlacesAre DEF PlacesOfItems
<1>4. \A i \in Items : i \in item + 1 .. item + m => own[i] = MainPlace
  BY <1>c, <1>e
<1>5. PICK fl2 : fl2 = InFront(item, m, fl)
  OBVIOUS
<1>6. fl2 \in Seq(Items) /\ ListOn(next', item + 1, fl2) /\ Holds(fl2, own2, Free)
  <2>1. ListOn(next, cqi_freelist, fl) /\ Holds(fl, own, Free)
    BY <1>0 DEF Layout, FreeList
  <2>2. item + m <= ItemCount /\ item \in Nat /\ m \in Nat \ {0}
    BY <1>c
  <2>3. \A k \in 1 .. m : item + k \in Items /\ own[item + k] # Free
    <3>1. \A k \in 1 .. m : item + k \in Items /\ item + k \in item .. item + m
      BY <1>c
    <3> QED
      BY <1>e, <3>1, PlacesDiffer
  <2>4. \A i \in Items : own2[i] = Free <=> own[i] = Free \/ i \in item + 1 .. item + m
    BY <1>2
  <2>5. \A i \in Items : own[i] = Free => next'[i] = next[i]
    <3>1. own[item + m] # Free
      BY <1>c, <2>3
    <3> QED
      BY <1>f, <3>1
  <2>6. \A k \in 1 .. m - 1 : next'[item + k] = item + k + 1
    <3>1. \A k \in 1 .. m - 1 : item + k \in Items /\ item + k # item + m
      BY <1>c
    <3> QED
      BY <1>c, <1>f, <3>1
  <2>7. next'[item + m] = cqi_freelist
    BY <1>f
  <2>8. PutsInFront(next, next', cqi_freelist, fl, own, own2, Free, item, m)
    BY <2>1, <2>2, <2>3, <2>4, <2>5, <2>6, <2>7 DEF PutsInFront
  <2> QED
    BY <1>5, <2>8, PutInFront
<1>7. FreeList(fl2, own2)'
  BY <1>b, <1>6 DEF FreeList
<1>8. ASSUME NEW w \in Workers PROVE Queue(w, q[w], own2)'
  <2>1. \A i \in Items : own2[i] = QueueOf(w) <=> own[i] = QueueOf(w)
    BY <1>2, <1>4, PlacesDiffer
  <2>2. \A i \in Items : own[i] = QueueOf(w) => next'[i] = next[i]
    <3>1. own[item + m] = MainPlace
      BY <1>c, <1>e
    <3> QED
      BY <1>f, <3>1, PlacesDiffer
  <2>3. q[w] \in Seq(Items) /\ Queue(w, q[w], own)
    BY <1>0 DEF Layout, Queues
  <2> QED
    BY <1>b, <2>1, <2>2, <2>3, QueueStays
<1>9. Hands(own2)'
  <2>1. ASSUME NEW i \in Items PROVE own2[i] = MainPlace <=> i = item
    <3>1. i \in Nat
      OBVIOUS
    <3>2. CASE i \in item + 1 .. item + m
      <4>1. i # item /\ own2[i] = Free
        BY <1>2, <1>c, <3>1, <3>2
      <4> QED
        BY <4>1, PlacesDiffer
    <3>3. CASE i \notin item + 1 .. item + m
      <4>1. own2[i] = own[i] /\ (i \in item .. item + m <=> i = item)
        BY <1>2, <1>c, <3>1, <3>3
      <4> QED
        BY <1>e, <4>1
    <3> QED
      BY <3>2, <3>3
  <2>2. \A i \in Items, w \in Workers : own2[i] = HandOf(w) <=> own[i] = HandOf(w)
    BY <1>2, <1>4, PlacesDiffer
  <2> QED
    BY <1>0, <1>b, <1>d, <2>1, <2>2 DEF Layout, Hands
<1>10. Allocated(own2)'
  BY <1>0, <1>b, <1>2, <1>4, PlacesDiffer DEF Layout, Allocated
<1>11. Filled(own2)'
  BY <1>0, <1>b, <1>2, PlacesDiffer DEF Layout, Filled
<1>12. Stages'
  BY <1>0, <1>b, <1>c DEF Layout, Stages
<1>13. Layout(fl2, q, own2)'
  BY <1>7, <1>8, <1>9, <1>10, <1>11, <1>12 DEF Layout
<1>14. TypeOK'
  <2>1. item + 1 \in Items
    BY <1>c
  <2> QED
    BY <1>b, <1>f, <2>1 DEF TypeOK, Link
<1> QED
  BY <1>3, <1>6, <1>13, <1>14 DEF Fits

(* Only an item no list knows is filled. *)
LEMMA FillItem ==
  ASSUME TypeOK, NEW q \in Queues, Fits(q), NEW s \in Sockets, Fill(s)
  PROVE  TypeOK' /\ Fits(q)'
<1>0. PICK fl \in Seq(Items), own \in PlacesOfItems : Layout(fl, q, own)
  BY DEF Fits
<1>b. /\ mpc = "fill" /\ mpc' = "push" /\ sfd' = [sfd EXCEPT ![item] = s]
      /\ UNCHANGED <<next, head, tail, cqi_freelist, allocs, item, wpc, witem>>
  BY DEF Fill, lists
<1>c. item # None /\ item \in Items /\ HeldByMain = {item} /\ HeldByMain' = {item}
  BY <1>0, <1>b DEF TypeOK, Layout, Stages, HeldByMain
<1>d. /\ sfd'[item] = s /\ sfd' \in [Items -> Sockets \cup {None}]
      /\ \A i \in Items : i # item => sfd'[i] = sfd[i]
  BY <1>b, <1>c DEF TypeOK
<1>1. FreeList(fl, own)' /\ \A w \in Workers : Queue(w, q[w], own)'
  BY <1>0, <1>b DEF Layout, FreeList, Queue
<1>2. Hands(own)' /\ Allocated(own)'
  BY <1>0, <1>b, <1>c DEF Layout, Hands, Allocated
<1>3. Filled(own)'
  <2>1. own[item] = MainPlace
    BY <1>0, <1>c DEF Layout, Hands
  <2> QED
    BY <1>0, <1>d, <2>1, PlacesDiffer DEF Layout, Filled
<1>4. Stages'
  BY <1>0, <1>b, <1>c, <1>d DEF Layout, Stages
<1>5. Layout(fl, q, own)'
  BY <1>1, <1>2, <1>3, <1>4 DEF Layout
<1>6. TypeOK'
  BY <1>b, <1>d DEF TypeOK
<1> QED
  BY <1>5, <1>6 DEF Fits

(* cq_push puts the item at the end of the queue. *)
LEMMA Push ==
  ASSUME TypeOK, NEW q \in Queues, Fits(q), NEW w \in Workers, CqPush(w),
         NEW q2, q2 = [q EXCEPT ![w] = Append(q[w], item)]
  PROVE  TypeOK' /\ q2 \in Queues /\ Fits(q2)'
<1> USE CountType
<1>0. PICK fl \in Seq(Items), own \in PlacesOfItems : Layout(fl, q, own)
  BY DEF Fits
<1>a. own \in [Items -> Places \cup {Nowhere}]
  BY DEF PlacesOfItems
<1>b. /\ mpc = "push" /\ mpc' = "idle" /\ item' = None
      /\ next' = IF tail[w] = None
                   THEN [next EXCEPT ![item] = None]
                   ELSE [next EXCEPT ![item] = None, ![tail[w]] = item]
      /\ head' = IF tail[w] = None THEN [head EXCEPT ![w] = item] ELSE head
      /\ tail' = [tail EXCEPT ![w] = item]
      /\ UNCHANGED <<cqi_freelist, sfd, allocs, wpc, witem>>
  BY DEF CqPush
<1>c. item # None /\ item \in Items /\ HeldByMain = {item} /\ HeldByMain' = {}
  BY <1>0, <1>b DEF TypeOK, Layout, Stages, HeldByMain
<1>d. \A i \in Items : own[i] = MainPlace <=> i = item
  BY <1>0, <1>c DEF Layout, Hands
<1> DEFINE s == q[w]
<1>e. s \in Seq(Items) /\ ListOn(next, head[w], s) /\ Holds(s, own, QueueOf(w))
        /\ tail[w] = IF s = << >> THEN None ELSE s[Len(s)]
  BY <1>0 DEF Layout, Queue, Queues
<1>f. s # << >> => s[Len(s)] \in Items /\ s[Len(s)] # None /\ own[s[Len(s)]] = QueueOf(w)
  <2>1. s # << >> => Len(s) \in 1 .. Len(s)
    BY <1>e
  <2> QED
    BY <1>e, <2>1 DEF Holds
<1>g. tail[w] = None <=> s = << >>
  BY <1>e, <1>f
<1>h. /\ next'[item] = None
      /\ s # << >> => next'[s[Len(s)]] = item
      /\ \A i \in Items : i # item /\ i # tail[w] => next'[i] = next[i]
      /\ next' \in [Items -> Link]
  <2>1. s # << >> => s[Len(s)] # item
    BY <1>d, <1>f, PlacesDiffer
  <2>2. CASE s = << >>
    BY <1>b, <1>c, <1>g, <2>2 DEF TypeOK, Link
  <2>3. CASE s # << >>
    <3>1. tail[w] = s[Len(s)] /\ tail[w] \in Items /\ tail[w] # item
      BY <1>e, <1>f, <2>1, <2>3
    <3>2. next' = [next EXCEPT ![item] = None, ![tail[w]] = item]
      BY <1>b, <1>g, <2>3
    <3> QED
      BY <1>c, <3>1, <3>2 DEF TypeOK, Link
  <2> QED
    BY <2>2, <2>3
<1>1. PICK own2 : own2 = [own EXCEPT ![item] = QueueOf(w)]
  OBVIOUS
<1>2. \A i \in Items : own2[i] = IF i = item THEN QueueOf(w) ELSE own[i]
  BY <1>a, <1>1
<1>3. own2 \in PlacesOfItems
  BY <1>a, <1>1, PlacesAre DEF PlacesOfItems
<1>4. own[item] = MainPlace
  BY <1>c, <1>d
<1>5. /\ ListOn(next', IF s = << >> THEN item ELSE head[w], Append(s, item))
      /\ Holds(Append(s, item), own2, QueueOf(w))
  <2>1. own[item] # QueueOf(w)
    BY <1>4, PlacesDiffer
  <2>2. \A i \in Items : own2[i] = QueueOf(w) <=> own[i] = QueueOf(w) \/ i = item
    BY <1>2
  <2>3. \A i \in Items : own[i] = QueueOf(w) /\ i # s[Len(s)] => next'[i] = next[i]
    <3>1. ASSUME NEW i \in Items, own[i] = QueueOf(w), i # s[Len(s)]
          PROVE  next'[i] = next[i]
      <4>1. i # item /\ i # tail[w]
        BY <1>e, <2>1, <3>1
      <4> QED
        BY <1>h, <4>1
    <3> QED
      BY <3>1
  <2>4. PutsAtEnd(next, next', head[w], s, own, own2, QueueOf(w), item)
    <3> HIDE DEF s
    <3> QED
      BY <1>c, <1>e, <1>h, <2>1, <2>2, <2>3 DEF PutsAtEnd
  <2> QED
    BY <2>4, PutAtEnd
<1>6. q2 \in Queues /\ q2[w] = Append(s, item) /\ \A v \in Workers : v # w => q2[v] = q[v]
  <2>1. Append(s, item) \in Seq(Items)
    BY <1>c, <1>e
  <2> QED
    BY <2>1 DEF Queues
<1>7. Queue(w, q2[w], own2)'
  <2>1. head'[w] = IF s = << >> THEN item ELSE head[w]
    BY <1>b, <1>g DEF TypeOK
  <2>2. tail'[w] = item
    BY <1>b DEF TypeOK
  <2>3. q2[w] # << >> /\ q2[w][Len(q2[w])] = item
    BY <1>c, <1>e, <1>6
  <2> QED
    BY <1>5, <1>6, <2>1, <2>2, <2>3 DEF Queue
<1>8. ASSUME NEW v \in Workers PROVE Queue(v, q2[v], own2)'
  <2>1. CASE v = w
    BY <1>7, <2>1
  <2>2. CASE v # w
    <3>1. \A i \in Items : own2[i] = QueueOf(v) <=> own[i] = QueueOf(v)
      BY <1>2, <1>4, <2>2, PlacesDiffer
    <3>2. \A i \in Items : own[i] = QueueOf(v) => next'[i] = next[i]
      <4>1. tail[w] = None \/ own[tail[w]] = QueueOf(w)
        BY <1>e, <1>f
      <4>2. ASSUME NEW i \in Items, own[i] = QueueOf(v) PROVE next'[i] = next[i]
        <5>1. i # item /\ i # tail[w]
          BY <1>4, <2>2, <4>1, <4>2, PlacesDiffer
        <5> QED
          BY <1>h, <5>1
      <4> QED
        BY <4>2
    <3>3. q[v] \in Seq(Items) /\ Queue(v, q[v], own) /\ q2[v] = q[v]
      BY <1>0, <1>6, <2>2 DEF Layout, Queues
    <3>4. head'[v] = head[v] /\ tail'[v] = tail[v]
      BY <1>b, <2>2 DEF TypeOK
    <3>5. Queue(v, q[v], own2)'
      BY <3>1, <3>2, <3>3, <3>4, QueueStays
    <3> QED
      BY <3>3, <3>5
  <2> QED
    BY <2>1, <2>2
<1>9. FreeList(fl, own2)'
  <2>1. \A i \in Items : own2[i] = Free <=> own[i] = Free
    BY <1>2, <1>4, PlacesDiffer
  <2>2. ASSUME NEW i \in Items, own[i] = Free PROVE next'[i] = next[i]
    <3>1. tail[w] = None \/ own[tail[w]] = QueueOf(w)
      BY <1>e, <1>f
    <3>2. i # item /\ i # tail[w]
      BY <1>4, <2>2, <3>1, PlacesDiffer
    <3> QED
      BY <1>h, <3>2
  <2>3. FreeList(fl, own) /\ cqi_freelist' = cqi_freelist
    BY <1>0, <1>b DEF Layout
  <2> QED
    BY <2>1, <2>2, <2>3, FreeStays
<1>10. Hands(own2)'
  <2>1. \A i \in Items : own2[i] # MainPlace
    BY <1>2, <1>d, PlacesDiffer
  <2>2. \A i \in Items, v \in Workers : own2[i] = HandOf(v) <=> own[i] = HandOf(v)
    BY <1>2, <1>4, PlacesDiffer
  <2> QED
    BY <1>0, <1>b, <1>c, <2>1, <2>2 DEF Layout, Hands
<1>11. Allocated(own2)'
  BY <1>0, <1>b, <1>2, <1>4, PlacesDiffer DEF Layout, Allocated
<1>12. Filled(own2)'
  <2>1. sfd[item] \in Sockets
    BY <1>0, <1>b DEF Layout, Stages
  <2> QED
    BY <1>0, <1>b, <1>2, <2>1 DEF Layout, Filled
<1>13. Stages'
  BY <1>0, <1>b DEF Layout, Stages
<1>14. Layout(fl, q2, own2)'
  BY <1>8, <1>9, <1>10, <1>11, <1>12, <1>13 DEF Layout
<1>15. TypeOK'
  BY <1>b, <1>c, <1>h DEF TypeOK, Link
<1> QED
  BY <1>3, <1>6, <1>14, <1>15 DEF Fits

(* cq_pop takes the first item, and the tail with the last one. *)
LEMMA Pop ==
  ASSUME TypeOK, NEW q \in Queues, Fits(q), NEW w \in Workers, CqPop(w),
         NEW q2, q2 = [q EXCEPT ![w] = Tail(q[w])]
  PROVE  TypeOK' /\ q2 \in Queues /\ Fits(q2)'
<1> USE CountType
<1>0. PICK fl \in Seq(Items), own \in PlacesOfItems : Layout(fl, q, own)
  BY DEF Fits
<1>a. own \in [Items -> Places \cup {Nowhere}]
  BY DEF PlacesOfItems
<1>b. /\ wpc[w] = "idle" /\ head[w] # None
      /\ witem' = [witem EXCEPT ![w] = head[w]]
      /\ head' = [head EXCEPT ![w] = next[head[w]]]
      /\ tail' = IF next[head[w]] = None THEN [tail EXCEPT ![w] = None] ELSE tail
      /\ wpc' = [wpc EXCEPT ![w] = "use"]
      /\ UNCHANGED <<next, cqi_freelist, sfd, allocs, mpc, item>>
  BY DEF CqPop
<1> DEFINE s == q[w]
           h == head[w]
<1>e. s \in Seq(Items) /\ ListOn(next, h, s) /\ Holds(s, own, QueueOf(w))
        /\ tail[w] = IF s = << >> THEN None ELSE s[Len(s)]
  BY <1>0 DEF Layout, Queue, Queues
<1>f. h \in Items /\ own[h] = QueueOf(w)
  <2>1. s # << >> /\ h = s[1]
    BY <1>b, <1>e DEF ListOn
  <2>2. 1 \in 1 .. Len(s)
    BY <1>e, <2>1
  <2> QED
    BY <1>e, <2>1, <2>2 DEF Holds
<1>1. PICK own2 : own2 = [own EXCEPT ![h] = HandOf(w)]
  OBVIOUS
<1>2. \A i \in Items : own2[i] = IF i = h THEN HandOf(w) ELSE own[i]
  BY <1>a, <1>1
<1>3. own2 \in PlacesOfItems
  BY <1>a, <1>1, PlacesAre DEF PlacesOfItems
<1>4. /\ s # << >> /\ Tail(s) \in Seq(Items)
      /\ ListOn(next, next[h], Tail(s)) /\ Holds(Tail(s), own2, QueueOf(w))
  <2>1. \A i \in Items : own2[i] = QueueOf(w) <=> own[i] = QueueOf(w) /\ i # h
    BY <1>2, PlacesDiffer
  <2>2. TakesFirst(next, h, s, own, own2, QueueOf(w))
    BY <1>b, <1>e, <2>1 DEF TakesFirst
  <2> QED
    BY <2>2, FirstTaken
<1>5. q2 \in Queues /\ q2[w] = Tail(s) /\ \A v \in Workers : v # w => q2[v] = q[v]
  BY <1>4 DEF Queues
<1>6. Queue(w, q2[w], own2)'
  <2>1. head'[w] = next[h] /\ next' = next
    BY <1>b DEF TypeOK
  <2>2. tail'[w] = IF Tail(s) = << >> THEN None ELSE Tail(s)[Len(Tail(s))]
    <3>1. next[h] = None <=> Tail(s) = << >>
      <4>1. Tail(s) # << >> => Tail(s)[1] \in Items
        <5>1. \A t \in Seq(Items) : t # << >> => t[1] \in Items
          BY EmptySeq
        <5> QED
          BY <1>4, <5>1
      <4> QED
        BY <1>4, <4>1 DEF ListOn
    <3>2. CASE Tail(s) = << >>
      BY <1>b, <3>1, <3>2 DEF TypeOK
    <3>3. CASE Tail(s) # << >>
      <4>1. tail'[w] = s[Len(s)]
        BY <1>b, <1>e, <1>4, <3>1, <3>3
      <4>2. Tail(s)[Len(Tail(s))] = s[Len(s)]
        <5>1. Len(Tail(s)) = Len(s) - 1 /\ Len(Tail(s)) \in 1 .. Len(s) - 1
          BY <1>4, <1>e, <3>3
        <5> QED
          BY <1>4, <1>e, <5>1
      <4> QED
        BY <3>3, <4>1, <4>2
    <3> QED
      BY <3>2, <3>3
  <2> QED
    BY <1>4, <1>5, <2>1, <2>2 DEF Queue
<1>7. ASSUME NEW v \in Workers PROVE Queue(v, q2[v], own2)'
  <2>1. CASE v = w
    BY <1>6, <2>1
  <2>2. CASE v # w
    <3>1. \A i \in Items : own2[i] = QueueOf(v) <=> own[i] = QueueOf(v)
      BY <1>2, <1>f, <2>2, PlacesDiffer
    <3>2. q[v] \in Seq(Items) /\ Queue(v, q[v], own) /\ q2[v] = q[v]
      BY <1>0, <1>5, <2>2 DEF Layout, Queues
    <3>3. head'[v] = head[v] /\ tail'[v] = tail[v]
      BY <1>b, <2>2 DEF TypeOK
    <3>4. Queue(v, q[v], own2)'
      BY <1>b, <3>1, <3>2, <3>3, QueueStays
    <3> QED
      BY <3>2, <3>4
  <2> QED
    BY <2>1, <2>2
<1>8. FreeList(fl, own2)'
  <2>1. \A i \in Items : own2[i] = Free <=> own[i] = Free
    BY <1>2, <1>f, PlacesDiffer
  <2>2. FreeList(fl, own)
    BY <1>0 DEF Layout
  <2> QED
    BY <1>b, <2>1, <2>2, FreeStays
<1>9. Hands(own2)'
  <2>1. \A i \in Items : own2[i] = MainPlace <=> own[i] = MainPlace
    BY <1>2, <1>f, PlacesDiffer
  <2>2. HeldByMain' = HeldByMain
    BY <1>b DEF HeldByMain
  <2>3. ASSUME NEW i \in Items, NEW v \in Workers
        PROVE  own2[i] = HandOf(v) <=> witem'[v] = i
    <3>1. CASE v = w
      <4>1. witem[w] = None
        BY <1>0, <1>b DEF Layout, Stages, TypeOK
      <4>2. own[i] # HandOf(w)
        BY <1>0, <4>1 DEF Layout, Hands
      <4>3. witem'[w] = h
        BY <1>b DEF TypeOK
      <4> QED
        BY <1>2, <3>1, <4>2, <4>3
    <3>2. CASE v # w
      <4>1. witem'[v] = witem[v]
        BY <1>b, <3>2 DEF TypeOK
      <4>2. own[i] = HandOf(v) <=> witem[v] = i
        BY <1>0 DEF Layout, Hands
      <4>3. own2[i] = HandOf(v) <=> own[i] = HandOf(v)
        BY <1>2, <1>f, <3>2, PlacesDiffer
      <4> QED
        BY <4>1, <4>2, <4>3
    <3> QED
      BY <3>1, <3>2
  <2> QED
    BY <1>0, <2>1, <2>2, <2>3 DEF Layout, Hands
<1>10. Allocated(own2)'
  BY <1>0, <1>b, <1>2, <1>f, PlacesDiffer DEF Layout, Allocated
<1>11. Filled(own2)'
  <2>1. sfd[h] \in Sockets
    BY <1>0, <1>f DEF Layout, Filled
  <2> QED
    BY <1>0, <1>b, <1>2, <2>1 DEF Layout, Filled
<1>12. Stages'
  <2>1. \A v \in Workers : wpc'[v] = "use" <=> witem'[v] # None
    BY <1>0, <1>b, <1>f DEF Layout, Stages, TypeOK
  <2> QED
    BY <1>0, <1>b, <2>1 DEF Layout, Stages
<1>13. Layout(fl, q2, own2)'
  BY <1>7, <1>8, <1>9, <1>10, <1>11, <1>12 DEF Layout
<1>14. TypeOK'
  <2>1. next[h] \in Link /\ None \in Link
    BY <1>f DEF TypeOK, Link
  <2> QED
    BY <1>b, <1>f, <2>1 DEF TypeOK
<1> QED
  BY <1>3, <1>5, <1>13, <1>14 DEF Fits

(* cqi_free puts the item in front of the free list, even while the main   *)
(* thread links a block.                                                   *)
LEMMA FreeItem ==
  ASSUME TypeOK, NEW q \in Queues, Fits(q), NEW w \in Workers, CqiFree(w)
  PROVE  TypeOK' /\ Fits(q)'
<1> USE CountType
<1>0. PICK fl \in Seq(Items), own \in PlacesOfItems : Layout(fl, q, own)
  BY DEF Fits
<1>a. own \in [Items -> Places \cup {Nowhere}]
  BY DEF PlacesOfItems
<1> DEFINE x == witem[w]
<1>b. /\ wpc[w] = "use" /\ next' = [next EXCEPT ![x] = cqi_freelist]
      /\ cqi_freelist' = x /\ wpc' = [wpc EXCEPT ![w] = "idle"]
      /\ witem' = [witem EXCEPT ![w] = None]
      /\ UNCHANGED <<head, tail, sfd, allocs, mpc, item>>
  BY DEF CqiFree
<1>c. x \in Items /\ x # None /\ own[x] = HandOf(w)
  <2>1. x # None /\ x \in Items
    BY <1>0, <1>b DEF Layout, Stages, TypeOK
  <2> QED
    BY <1>0, <2>1 DEF Layout, Hands
<1>d. /\ next'[x] = cqi_freelist /\ next' \in [Items -> Link]
      /\ \A i \in Items : i # x => next'[i] = next[i]
  BY <1>b, <1>c DEF TypeOK
<1>1. PICK own2 : own2 = [own EXCEPT ![x] = Free]
  OBVIOUS
<1>2. \A i \in Items : own2[i] = IF i = x THEN Free ELSE own[i]
  BY <1>a, <1>1
<1>3. own2 \in PlacesOfItems
  BY <1>a, <1>1, PlacesAre DEF PlacesOfItems
<1>4. PICK fl2 : fl2 = InFront(x - 1, 1, fl)
  OBVIOUS
<1>5. fl2 \in Seq(Items) /\ ListOn(next', x, fl2) /\ Holds(fl2, own2, Free)
  <2>1. ListOn(next, cqi_freelist, fl) /\ Holds(fl, own, Free)
    BY <1>0 DEF Layout, FreeList
  <2>2. x - 1 \in Nat /\ x - 1 + 1 = x /\ (x - 1) + 1 <= ItemCount /\ 1 \in Nat \ {0}
    BY <1>c
  <2>3. \A k \in 1 .. 1 : own[(x - 1) + k] # Free
    <3>1. \A k \in 1 .. 1 : (x - 1) + k = x
      BY <1>c
    <3> QED
      BY <1>c, <3>1, PlacesDiffer
  <2>4. \A i \in Items : own2[i] = Free <=> own[i] = Free \/ i \in (x - 1) + 1 .. (x - 1) + 1
    BY <1>2, <1>c
  <2>5. \A i \in Items : own[i] = Free => next'[i] = next[i]
    BY <1>c, <1>d, PlacesDiffer
  <2>6. \A k \in 1 .. 1 - 1 : next'[(x - 1) + k] = (x - 1) + k + 1
    OBVIOUS
  <2>7. next'[(x - 1) + 1] = cqi_freelist
    BY <1>c, <1>d
  <2>8. /\ fl2 \in Seq(Items) /\ ListOn(next', (x - 1) + 1, fl2)
        /\ Holds(fl2, own2, Free)
    <3>1. PutsInFront(next, next', cqi_freelist, fl, own, own2, Free, x - 1, 1)
      BY <2>1, <2>2, <2>3, <2>4, <2>5, <2>6, <2>7 DEF PutsInFront
    <3> QED
      BY <1>4, <3>1, PutInFront
  <2>9. (x - 1) + 1 = x
    BY <1>c
  <2> QED
    BY <2>8, <2>9
<1>6. FreeList(fl2, own2)'
  BY <1>b, <1>5 DEF FreeList
<1>7. ASSUME NEW v \in Workers PROVE Queue(v, q[v], own2)'
  <2>1. \A i \in Items : own2[i] = QueueOf(v) <=> own[i] = QueueOf(v)
    BY <1>2, <1>c, PlacesDiffer
  <2>2. \A i \in Items : own[i] = QueueOf(v) => next'[i] = next[i]
    BY <1>c, <1>d, PlacesDiffer
  <2>3. q[v] \in Seq(Items) /\ Queue(v, q[v], own)
    BY <1>0 DEF Layout, Queues
  <2> QED
    BY <1>b, <2>1, <2>2, <2>3, QueueStays
<1>8. Hands(own2)'
  <2>1. \A i \in Items : own2[i] = MainPlace <=> own[i] = MainPlace
    BY <1>2, <1>c, PlacesDiffer
  <2>2. HeldByMain' = HeldByMain
    BY <1>b DEF HeldByMain
  <2>3. ASSUME NEW i \in Items, NEW v \in Workers
        PROVE  own2[i] = HandOf(v) <=> witem'[v] = i
    <3>0. own[i] = HandOf(v) <=> witem[v] = i
      BY <1>0 DEF Layout, Hands
    <3>1. CASE v = w
      <4>1. witem'[w] = None
        BY <1>b DEF TypeOK
      <4>2. own2[i] # HandOf(w)
        BY <1>2, <3>0, <3>1, PlacesDiffer
      <4> QED
        BY <3>1, <4>1, <4>2
    <3>2. CASE v # w
      <4>1. witem'[v] = witem[v]
        BY <1>b, <3>2 DEF TypeOK
      <4>2. own2[i] = HandOf(v) <=> own[i] = HandOf(v)
        BY <1>2, <1>c, <3>2, PlacesDiffer
      <4> QED
        BY <3>0, <4>1, <4>2
    <3> QED
      BY <3>1, <3>2
  <2> QED
    BY <1>0, <2>1, <2>2, <2>3 DEF Layout, Hands
<1>9. Allocated(own2)'
  BY <1>0, <1>b, <1>2, <1>c, PlacesDiffer DEF Layout, Allocated
<1>10. Filled(own2)'
  BY <1>0, <1>b, <1>2, PlacesDiffer DEF Layout, Filled
<1>11. Stages'
  <2>1. \A v \in Workers : wpc'[v] = "use" <=> witem'[v] # None
    BY <1>0, <1>b DEF Layout, Stages, TypeOK
  <2>2. mpc = "link" => \A k \in 1 .. PerAlloc - 2 : next'[item + k] = item + k + 1
    <3>1. SUFFICES ASSUME mpc = "link", NEW k \in 1 .. PerAlloc - 2
                   PROVE  next'[item + k] = item + k + 1
      OBVIOUS
    <3>2. /\ item # None /\ item + PerAlloc - 1 \in Items
          /\ next[item + k] = item + k + 1
      BY <1>0, <3>1 DEF Layout, Stages
    <3>3. item \in Items /\ PerAlloc \in Nat
      BY <3>2, PerAllocAssumption DEF TypeOK
    <3>4. item + k \in Items /\ item + k \in item .. item + PerAlloc - 1
      BY <3>2, <3>3
    <3>5. own[item + k] = MainPlace
      BY <1>0, <3>1, <3>2, <3>4 DEF Layout, Hands, HeldByMain
    <3>6. item + k # x
      BY <1>c, <3>5, PlacesDiffer
    <3> QED
      BY <1>d, <3>2, <3>4, <3>6
  <2> QED
    BY <1>0, <1>b, <2>1, <2>2 DEF Layout, Stages
<1>12. Layout(fl2, q, own2)'
  BY <1>6, <1>7, <1>8, <1>9, <1>10, <1>11 DEF Layout
<1>13. TypeOK'
  BY <1>b, <1>c, <1>d DEF TypeOK, Link
<1> QED
  BY <1>3, <1>5, <1>12, <1>13 DEF Fits

-----------------------------------------------------------------------------
(* The inductive invariant. *)
Inv == TypeOK /\ \E q \in Queues : Fits(q)

(* The queues of the initial state. *)
LEMMA EmptyQueues == [w \in Workers |-> << >>] \in Queues
  BY EmptySeq DEF Queues

(* Every step keeps it. *)
LEMMA InvStep == Inv /\ [Next]_vars => Inv'
<1> SUFFICES ASSUME Inv, [Next]_vars PROVE Inv'
  OBVIOUS
<1>0. PICK q \in Queues : Fits(q)
  BY DEF Inv
<1>a. TypeOK
  BY DEF Inv
<1>1. CASE CqiNewPop
  BY <1>0, <1>a, <1>1, NewPop DEF Inv
<1>2. CASE CqiNewAlloc
  BY <1>0, <1>a, <1>2, NewAlloc DEF Inv
<1>3. CASE CqiNewLink
  BY <1>0, <1>a, <1>3, NewLink DEF Inv
<1>4. ASSUME NEW s \in Sockets, Fill(s) PROVE Inv'
  BY <1>0, <1>a, <1>4, FillItem DEF Inv
<1>5. ASSUME NEW w \in Workers, CqPush(w) PROVE Inv'
  <2>1. PICK q2 : q2 = [q EXCEPT ![w] = Append(q[w], item)]
    OBVIOUS
  <2>2. TypeOK' /\ q2 \in Queues /\ Fits(q2)'
    BY <1>0, <1>a, <1>5, <2>1, Push
  <2> QED
    BY <2>2 DEF Inv
<1>6. ASSUME NEW w \in Workers, CqPop(w) PROVE Inv'
  <2>1. PICK q2 : q2 = [q EXCEPT ![w] = Tail(q[w])]
    OBVIOUS
  <2>2. TypeOK' /\ q2 \in Queues /\ Fits(q2)'
    BY <1>0, <1>a, <1>6, <2>1, Pop
  <2> QED
    BY <2>2 DEF Inv
<1>7. ASSUME NEW w \in Workers, CqiFree(w) PROVE Inv'
  BY <1>0, <1>a, <1>7, FreeItem DEF Inv
<1>8. CASE UNCHANGED vars
  <2>1. PICK fl \in Seq(Items), own \in PlacesOfItems : Layout(fl, q, own)
    BY <1>0 DEF Fits
  <2>2. HeldByMain' = HeldByMain
    BY <1>8 DEF vars, lists, HeldByMain
  <2>3. Layout(fl, q, own)'
    BY <1>8, <2>1, <2>2 DEF vars, lists, Layout, FreeList, Queue, Hands,
       Allocated, Filled, Stages
  <2>4. TypeOK'
    BY <1>8, <1>a DEF vars, lists, TypeOK
  <2> QED
    BY <2>3, <2>4 DEF Inv, Fits
<1> QED
  BY <1>1, <1>2, <1>3, <1>4, <1>5, <1>6, <1>7, <1>8 DEF Next

(* Hence it holds in every state. *)
LEMMA Invariance == Spec => []Inv
<1>1. Init => Inv
  BY LayoutInit, EmptyQueues DEF Inv
<1> QED
  BY <1>1, InvStep, PTL DEF Spec

(* TypeOK holds in every state: no thread ever follows a pointer that      *)
(* nobody has written.                                                     *)
THEOREM TypeCorrect == Spec => []TypeOK
<1>1. Inv => TypeOK
  BY DEF Inv
<1> QED
  BY Invariance, <1>1, PTL

-----------------------------------------------------------------------------
(* The lists of a layout are those ListFrom finds. *)
LEMMA ListsOfLayout ==
  ASSUME NEW fl \in Seq(Items), NEW q \in Queues, NEW own, Layout(fl, q, own)
  PROVE  /\ Terminated(cqi_freelist) /\ ListFrom(cqi_freelist) = fl
         /\ \A w \in Workers : Terminated(head[w]) /\ ListFrom(head[w]) = q[w]
<1> DEFINE Sound(p, s) == s \in Lists /\ ListOn(next, p, s)
                            /\ (CHOOSE t \in Lists : ListOn(next, p, t)) = s
<1>1. ASSUME NEW p, NEW s, Sound(p, s) PROVE Terminated(p) /\ ListFrom(p) = s
  <2>1. \A t : ListOn(next, p, t) <=> IsList(p, t)
    BY DEF ListOn, IsList
  <2>2. (CHOOSE t \in Lists : ListOn(next, p, t)) = (CHOOSE t \in Lists : IsList(p, t))
    BY <2>1
  <2>3. s \in Lists /\ IsList(p, s)
    BY <1>1, <2>1
  <2> QED
    BY <1>1, <2>2, <2>3 DEF Terminated, ListFrom
<1>2. Sound(cqi_freelist, fl)
  <2>1. ListOn(next, cqi_freelist, fl) /\ Holds(fl, own, Free)
    BY DEF Layout, FreeList
  <2>2. \A j, k \in 1 .. Len(fl) : fl[j] = fl[k] => j = k
    BY <2>1 DEF Holds
  <2> QED
    BY <2>1, <2>2, ListIsShort, TheList
<1>3. ASSUME NEW w \in Workers PROVE Sound(head[w], q[w])
  <2>1. ListOn(next, head[w], q[w]) /\ Holds(q[w], own, QueueOf(w))
    BY DEF Layout, Queue
  <2>2. \A j, k \in 1 .. Len(q[w]) : q[w][j] = q[w][k] => j = k
    BY <2>1 DEF Holds
  <2>3. q[w] \in Seq(Items)
    BY DEF Queues
  <2> QED
    BY <2>1, <2>2, <2>3, ListIsShort, TheList
<1> HIDE DEF Sound
<1> QED
  BY <1>1, <1>2, <1>3

(* ListsSound follows. *)
LEMMA SoundLists == Inv => ListsSound
<1> SUFFICES ASSUME Inv PROVE ListsSound
  OBVIOUS
<1>1. PICK q \in Queues, fl \in Seq(Items), own \in PlacesOfItems : Layout(fl, q, own)
  BY DEF Inv, Fits
<1>2. /\ Terminated(cqi_freelist)
      /\ \A w \in Workers : Terminated(head[w]) /\ ListFrom(head[w]) = q[w]
  BY <1>1, ListsOfLayout
<1>3. ASSUME NEW w \in Workers
      PROVE  tail[w] = IF head[w] = None THEN None ELSE Last(ListFrom(head[w]))
  <2>1. /\ ListOn(next, head[w], q[w]) /\ q[w] \in Seq(Items)
        /\ tail[w] = IF q[w] = << >> THEN None ELSE q[w][Len(q[w])]
    BY <1>1 DEF Layout, Queue, Queues
  <2>2. q[w] # << >> => q[w][1] \in Items
    <3>1. \A t \in Seq(Items) : t # << >> => t[1] \in Items
      BY EmptySeq
    <3> QED
      BY <2>1, <3>1
  <2>3. head[w] = None <=> q[w] = << >>
    BY <2>1, <2>2, CountType DEF ListOn
  <2> QED
    BY <1>2, <2>1, <2>3 DEF Last
<1> QED
  BY <1>2, <1>3 DEF ListsSound

(* ItemsAccounted follows: the items at a place are those own puts there. *)
LEMMA AccountedItems == Inv => ItemsAccounted
<1> SUFFICES ASSUME Inv PROVE ItemsAccounted
  OBVIOUS
<1>1. PICK q \in Queues, fl \in Seq(Items), own \in PlacesOfItems : Layout(fl, q, own)
  BY DEF Inv, Fits
<1>2. /\ ListFrom(cqi_freelist) = fl
      /\ \A w \in Workers : ListFrom(head[w]) = q[w]
  BY <1>1, ListsOfLayout
<1>3. Holds(fl, own, Free) /\ \A w \in Workers : Holds(q[w], own, QueueOf(w))
  BY <1>1 DEF Layout, FreeList, Queue
<1>4. \A w \in Workers : q[w] \in Seq(Items)
  BY DEF Queues
<1>5. ASSUME NEW s \in Seq(Items), NEW place, Holds(s, own, place)
      PROVE  IsInjective(s) /\ ToSet(s) = {i \in Items : own[i] = place}
  <2>1. DOMAIN s = 1 .. Len(s)
    OBVIOUS
  <2>2. IsInjective(s)
    BY <1>5, <2>1 DEF Holds, IsInjective
  <2>3. ToSet(s) = {i \in Items : own[i] = place}
    <3>1. \A k \in 1 .. Len(s) : s[k] \in Items /\ own[s[k]] = place
      BY <1>5 DEF Holds
    <3>2. \A i \in Items : own[i] = place => \E k \in 1 .. Len(s) : s[k] = i
      BY <1>5 DEF Holds
    <3> QED
      BY <2>1, <3>1, <3>2 DEF ToSet
  <2> QED
    BY <2>2, <2>3
<1>6. At(Free) = {i \in Items : own[i] = Free}
  <2>1. At(Free) = ToSet(ListFrom(cqi_freelist))
    BY DEF At, Free
  <2> QED
    BY <1>2, <1>3, <1>5, <2>1
<1>7. ASSUME NEW w \in Workers
      PROVE  At(QueueOf(w)) = {i \in Items : own[i] = QueueOf(w)}
  <2>1. At(QueueOf(w)) = ToSet(ListFrom(head[w]))
    BY DEF At, QueueOf
  <2> QED
    BY <1>2, <1>3, <1>4, <1>5, <2>1
<1>8. At(MainPlace) = {i \in Items : own[i] = MainPlace}
  <2>1. At(MainPlace) = HeldByMain
    BY DEF At, MainPlace
  <2>2. HeldByMain \subseteq Items
    <3>1. CASE item = None
      BY <3>1 DEF HeldByMain
    <3>2. CASE item # None /\ mpc = "link"
      <4>1. item \in Items /\ item + PerAlloc - 1 \in Items /\ PerAlloc \in Nat
        BY <1>1, <3>2, PerAllocAssumption DEF Layout, Stages, Inv, TypeOK
      <4> QED
        BY <3>2, <4>1, CountType DEF HeldByMain
    <3>3. CASE item # None /\ mpc # "link"
      BY <3>3 DEF HeldByMain, Inv, TypeOK
    <3> QED
      BY <3>1, <3>2, <3>3
  <2>3. \A i \in Items : own[i] = MainPlace <=> i \in HeldByMain
    BY <1>1 DEF Layout, Hands
  <2> QED
    BY <2>1, <2>2, <2>3
<1>9. ASSUME NEW w \in Workers
      PROVE  At(HandOf(w)) = {i \in Items : own[i] = HandOf(w)}
  <2>1. At(HandOf(w)) = {witem[w]} \ {None}
    BY DEF At, HandOf
  <2>2. witem[w] \in Items \cup {None}
    BY DEF Inv, TypeOK
  <2>3. \A i \in Items : own[i] = HandOf(w) <=> witem[w] = i
    BY <1>1 DEF Layout, Hands
  <2> QED
    BY <2>1, <2>2, <2>3, CountType
<1>10. \A place \in Places : At(place) = {i \in Items : own[i] = place}
  BY <1>6, <1>7, <1>8, <1>9, PlacesAre
<1>11. \A i \in Items : own[i] = Nowhere <=> i > allocs * PerAlloc
  BY <1>1 DEF Layout, Allocated
<1>12. Nowhere \notin Places
  BY DEF Places, Nowhere
<1>13. ASSUME NEW place \in Places PROVE At(place) \subseteq 1 .. allocs * PerAlloc
  <2>1. ASSUME NEW i \in At(place) PROVE i \in 1 .. allocs * PerAlloc
    <3>1. i \in Items /\ own[i] # Nowhere
      BY <1>10, <1>12, <2>1
    <3>2. allocs * PerAlloc \in Nat
      BY Blocks DEF Inv, TypeOK
    <3> QED
      BY <1>11, <3>1, <3>2, CountType
  <2> QED
    BY <2>1
<1>14. ASSUME NEW i \in 1 .. allocs * PerAlloc
       PROVE  \E place \in Places :
                i \in At(place) /\ \A other \in Places \ {place} : i \notin At(other)
  <2>1. allocs * PerAlloc \in Nat /\ allocs * PerAlloc <= ItemCount
    <3>1. allocs \in 0 .. MaxAllocs
      BY DEF Inv, TypeOK
    <3>2. CASE allocs < MaxAllocs
      BY <3>1, <3>2, Blocks, CountType
    <3>3. CASE allocs = MaxAllocs
      <4>1. allocs * PerAlloc = ItemCount
        BY <3>3, PerAllocAssumption, MaxAllocsAssumption DEF ItemCount
      <4> QED
        BY <4>1, CountType
    <3> QED
      BY <3>1, <3>2, <3>3, MaxAllocsAssumption
  <2>2. i \in Items /\ own[i] # Nowhere
    BY <1>11, <2>1, CountType
  <2>3. own[i] \in Places
    BY <1>1, <2>2 DEF PlacesOfItems
  <2> QED
    BY <1>10, <2>2, <2>3
<1>15. /\ IsInjective(ListFrom(cqi_freelist))
       /\ \A w \in Workers : IsInjective(ListFrom(head[w]))
  BY <1>2, <1>3, <1>4, <1>5
<1> QED
  BY <1>13, <1>14, <1>15 DEF ItemsAccounted

(* With any number of workers and items, however pushes, pops, allocations  *)
(* and frees interleave, every list ends in NULL and cq->tail is the last   *)
(* item of its queue.                                                       *)
THEOREM ListsStaySound == Spec => []ListsSound
  BY Invariance, SoundLists, PTL

(* Every item malloc has returned is on the free list, on one queue or in   *)
(* the hands of one thread, and nowhere twice.                              *)
THEOREM NoItemIsLost == Spec => []ItemsAccounted
  BY Invariance, AccountedItems, PTL

-----------------------------------------------------------------------------
(* The queues ListFrom finds after a step. *)
LEMMA QueuesAfter ==
  ASSUME NEW fl \in Seq(Items), NEW q \in Queues, NEW own, Layout(fl, q, own)',
         NEW w \in Workers
  PROVE  ListFrom(head[w])' = q[w]
<1>1. ListOn(next', head'[w], q[w]) /\ Holds(q[w], own, QueueOf(w))
  BY DEF Layout, Queue
<1>2. \A j, k \in 1 .. Len(q[w]) : q[w][j] = q[w][k] => j = k
  BY <1>1 DEF Holds
<1>3. q[w] \in Seq(Items)
  BY DEF Queues
<1>4. (CHOOSE t \in Lists : ListOn(next', head'[w], t)) = q[w]
  BY <1>1, <1>2, <1>3, TheList
<1>5. \A t : ListOn(next', head'[w], t) <=> IsList(head[w], t)'
  BY DEF ListOn, IsList
<1>6. (CHOOSE t \in Lists : ListOn(next', head'[w], t))
        = (CHOOSE t \in Lists : IsList(head[w], t)')
  BY <1>5
<1> QED
  BY <1>4, <1>6 DEF ListFrom, Lists, Items, ItemCount

(* The sockets in the items of s. *)
Sfds(f, s) == [k \in 1 .. Len(s) |-> f[s[k]]]

(* The sockets of a list with one item more. *)
LEMMA SfdsAppend ==
  ASSUME NEW f, NEW s \in Seq(Items), NEW x \in Items, \A i \in Items : f[i] \in Sockets \cup {None}
  PROVE  Sfds(f, Append(s, x)) = Append(Sfds(f, s), f[x])
<1>1. Sfds(f, s) \in Seq(Sockets \cup {None}) /\ Len(Sfds(f, s)) = Len(s)
  <2>1. Sfds(f, s) \in [1 .. Len(s) -> Sockets \cup {None}] /\ Len(s) \in Nat
    BY DEF Sfds
  <2> QED
    BY <2>1
<1>2. Sfds(f, Append(s, x)) \in Seq(Sockets \cup {None})
        /\ Len(Sfds(f, Append(s, x))) = Len(s) + 1
  <2>1. Append(s, x) \in Seq(Items) /\ Len(Append(s, x)) = Len(s) + 1
    OBVIOUS
  <2>2. Sfds(f, Append(s, x)) \in [1 .. Len(s) + 1 -> Sockets \cup {None}]
          /\ Len(s) + 1 \in Nat
    BY <2>1 DEF Sfds
  <2> QED
    BY <2>2
<1>3. ASSUME NEW k \in 1 .. Len(s) + 1
      PROVE  Sfds(f, Append(s, x))[k] = Append(Sfds(f, s), f[x])[k]
  <2>1. CASE k = Len(s) + 1
    BY <1>1, <2>1 DEF Sfds
  <2>2. CASE k \in 1 .. Len(s)
    <3>1. Sfds(f, Append(s, x))[k] = f[Append(s, x)[k]] /\ Append(s, x)[k] = s[k]
      BY <2>2 DEF Sfds
    <3>2. Append(Sfds(f, s), f[x])[k] = Sfds(f, s)[k] /\ Sfds(f, s)[k] = f[s[k]]
      BY <1>1, <2>2 DEF Sfds
    <3> QED
      BY <3>1, <3>2
  <2>3. k = Len(s) + 1 \/ k \in 1 .. Len(s)
    <3>1. Len(s) \in Nat
      OBVIOUS
    <3> QED
      BY ONLY <3>1, k \in 1 .. Len(s) + 1
  <2> QED
    BY ONLY <2>1, <2>2, <2>3
<1>4. Append(Sfds(f, s), f[x]) \in Seq(Sockets \cup {None})
        /\ Len(Append(Sfds(f, s), f[x])) = Len(s) + 1
  BY <1>1
<1> DEFINE a == Sfds(f, Append(s, x))
           b == Append(Sfds(f, s), f[x])
<1>5. a \in Seq(Sockets \cup {None}) /\ b \in Seq(Sockets \cup {None}) /\ Len(a) = Len(b)
        /\ \A k \in 1 .. Len(a) : a[k] = b[k]
  BY <1>2, <1>3, <1>4
<1> HIDE DEF a, b
<1>6. a = b
  BY <1>5, SeqEqual
<1> QED
  BY <1>6 DEF a, b

(* The sockets of a list without its first item. *)
LEMMA SfdsTail ==
  ASSUME NEW f, NEW s \in Seq(Items), s # << >>, \A i \in Items : f[i] \in Sockets \cup {None}
  PROVE  /\ Sfds(f, s) # << >> /\ Head(Sfds(f, s)) = f[s[1]]
         /\ Sfds(f, Tail(s)) = Tail(Sfds(f, s))
<1> DEFINE c == Sfds(f, s)
           a == Sfds(f, Tail(s))
           b == Tail(c)
<1>0. Len(s) \in Nat \ {0} /\ Tail(s) \in Seq(Items) /\ Len(Tail(s)) = Len(s) - 1
  BY EmptySeq
<1>1. c \in Seq(Sockets \cup {None}) /\ Len(c) = Len(s)
        /\ \A k \in 1 .. Len(s) : c[k] = f[s[k]]
  <2>1. c \in [1 .. Len(s) -> Sockets \cup {None}] /\ Len(s) \in Nat
    BY DEF Sfds
  <2> QED
    BY <2>1 DEF Sfds
<1>2. a \in Seq(Sockets \cup {None}) /\ Len(a) = Len(s) - 1
        /\ \A k \in 1 .. Len(s) - 1 : a[k] = f[Tail(s)[k]]
  <2>1. a \in [1 .. Len(s) - 1 -> Sockets \cup {None}] /\ Len(s) - 1 \in Nat
    BY <1>0 DEF Sfds
  <2>2. \A k \in 1 .. Len(s) - 1 : a[k] = f[Tail(s)[k]]
    BY <1>0 DEF Sfds
  <2> QED
    BY <2>1, <2>2
<1> HIDE DEF a, c
<1>3. c # << >> /\ Head(c) = f[s[1]]
  BY <1>0, <1>1
<1>4. b \in Seq(Sockets \cup {None}) /\ Len(b) = Len(s) - 1
        /\ \A k \in 1 .. Len(s) - 1 : b[k] = c[k + 1]
  BY <1>0, <1>1
<1>5. \A k \in 1 .. Len(s) - 1 : a[k] = b[k]
  <2>1. ASSUME NEW k \in 1 .. Len(s) - 1 PROVE a[k] = b[k]
    <3>1. k + 1 \in 1 .. Len(s) /\ Tail(s)[k] = s[k + 1]
      BY <1>0
    <3> QED
      BY <1>1, <1>2, <1>4, <3>1
  <2> QED
    BY <2>1
<1> HIDE DEF b
<1>6. a = b
  BY <1>2, <1>4, <1>5, SeqEqual
<1> QED
  BY <1>3, <1>6 DEF a, b, c

-----------------------------------------------------------------------------
(* The steps Handoff allows, in terms of the lists. *)
Handed == [w \in Workers |->
             [k \in 1 .. Len(ListFrom(head[w])) |-> sfd[ListFrom(head[w])[k]]]]
InUse == [w \in Workers |-> IF witem[w] = None THEN None ELSE sfd[witem[w]]]

PutSeen(w, s) ==
  Handed' = [Handed EXCEPT ![w] = Append(Handed[w], s)] /\ InUse' = InUse
TakeSeen(w) ==
  /\ Handed[w] # << >> /\ InUse[w] = None
  /\ InUse' = [InUse EXCEPT ![w] = Head(Handed[w])]
  /\ Handed' = [Handed EXCEPT ![w] = Tail(Handed[w])]
FinishSeen(w) ==
  /\ InUse[w] # None
  /\ InUse' = [InUse EXCEPT ![w] = None] /\ Handed' = Handed
StepSeen ==
  \/ Handed' = Handed /\ InUse' = InUse
  \/ \E w \in Workers :
       (\E s \in Sockets : PutSeen(w, s)) \/ TakeSeen(w) \/ FinishSeen(w)

(* What is handed over when the queues are q. *)
HandedOf(f, q) == [w \in Workers |-> Sfds(f, q[w])]

(* Before a step ... *)
LEMMA HandedIs ==
  ASSUME NEW q \in Queues, Fits(q)
  PROVE  Handed = HandedOf(sfd, q)
<1>1. PICK fl \in Seq(Items), own \in PlacesOfItems : Layout(fl, q, own)
  BY DEF Fits
<1>2. \A w \in Workers : ListFrom(head[w]) = q[w]
  BY <1>1, ListsOfLayout
<1> QED
  BY <1>2 DEF Handed, HandedOf, Sfds

(* ... and after it. *)
LEMMA HandedAfter ==
  ASSUME NEW q \in Queues, Fits(q)'
  PROVE  Handed' = HandedOf(sfd', q)
<1>1. PICK fl \in Seq(Items), own \in PlacesOfItems : Layout(fl, q, own)'
  BY DEF Fits, PlacesOfItems, Places, Items, ItemCount
<1>2. \A w \in Workers : ListFrom(head[w])' = q[w]
  BY <1>1, QueuesAfter
<1> QED
  BY <1>2 DEF Handed, HandedOf, Sfds

(* Only cq_push, cq_pop and cqi_free are seen, as the three steps. *)
LEMMA EveryStepIsAllowed == Inv /\ [Next]_vars => StepSeen
<1> SUFFICES ASSUME Inv, [Next]_vars PROVE StepSeen
  OBVIOUS
<1> USE CountType
<1>0. PICK q \in Queues : Fits(q)
  BY DEF Inv
<1>a. TypeOK /\ Handed = HandedOf(sfd, q)
  BY <1>0, HandedIs DEF Inv
<1>b. \A i \in Items : sfd[i] \in Sockets \cup {None}
  BY <1>a DEF TypeOK
<1>c. PICK fl \in Seq(Items), own \in PlacesOfItems : Layout(fl, q, own)
  BY <1>0 DEF Fits
<1>d. \A w \in Workers : q[w] \in Seq(Items) /\ Holds(q[w], own, QueueOf(w))
  BY <1>c DEF Queues, Layout, Queue
<1>1. ASSUME CqiNewPop \/ CqiNewAlloc \/ CqiNewLink PROVE StepSeen
  <2>1. Handed' = HandedOf(sfd', q)
    BY <1>0, <1>1, <1>a, NewPop, NewAlloc, NewLink, HandedAfter
  <2>2. sfd' = sfd /\ witem' = witem
    BY <1>1 DEF CqiNewPop, CqiNewAlloc, CqiNewLink
  <2> QED
    BY <1>a, <2>1, <2>2 DEF StepSeen, InUse
<1>2. ASSUME NEW s \in Sockets, Fill(s) PROVE StepSeen
  <2>1. Handed' = HandedOf(sfd', q)
    BY <1>0, <1>2, <1>a, FillItem, HandedAfter
  <2>2. mpc = "fill" /\ sfd' = [sfd EXCEPT ![item] = s] /\ witem' = witem
    BY <1>2 DEF Fill
  <2>3. item \in Items /\ own[item] = MainPlace
    <3>1. item # None /\ item \in Items /\ HeldByMain = {item}
      BY <1>a, <1>c, <2>2 DEF TypeOK, Layout, Stages, HeldByMain
    <3> QED
      BY <1>c, <3>1 DEF Layout, Hands
  <2>4. \A i \in Items : i # item => sfd'[i] = sfd[i]
    BY <1>a, <2>2 DEF TypeOK
  <2>5. \A w \in Workers : Sfds(sfd', q[w]) = Sfds(sfd, q[w])
    <3>1. ASSUME NEW w \in Workers, NEW k \in 1 .. Len(q[w])
          PROVE  sfd'[q[w][k]] = sfd[q[w][k]]
      <4>1. q[w][k] \in Items /\ own[q[w][k]] = QueueOf(w)
        BY <1>d DEF Holds
      <4> QED
        BY <2>3, <2>4, <4>1, PlacesDiffer
    <3> QED
      BY <3>1 DEF Sfds
  <2>6. Handed' = Handed
    BY <1>a, <2>1, <2>5 DEF HandedOf
  <2>7. \A w \in Workers : witem[w] = None \/ sfd'[witem[w]] = sfd[witem[w]]
    <3>1. ASSUME NEW w \in Workers, witem[w] # None
          PROVE  sfd'[witem[w]] = sfd[witem[w]]
      <4>1. witem[w] \in Items /\ own[witem[w]] = HandOf(w)
        BY <1>a, <1>c, <3>1 DEF TypeOK, Layout, Hands
      <4> QED
        BY <2>3, <2>4, <4>1, PlacesDiffer
    <3> QED
      BY <3>1
  <2>8. InUse' = InUse
    BY <2>2, <2>7 DEF InUse
  <2> QED
    BY <2>6, <2>8 DEF StepSeen
<1>3. ASSUME NEW w \in Workers, CqPush(w) PROVE StepSeen
  <2>1. PICK q2 : q2 = [q EXCEPT ![w] = Append(q[w], item)]
    OBVIOUS
  <2>2. Handed' = HandedOf(sfd', q2)
    BY <1>0, <1>a, <1>3, <2>1, Push, HandedAfter
  <2>3. sfd' = sfd /\ witem' = witem /\ mpc = "push"
    BY <1>3 DEF CqPush
  <2>4. item \in Items /\ sfd[item] \in Sockets
    BY <1>a, <1>c, <2>3 DEF TypeOK, Layout, Stages
  <2>5. /\ q2[w] = Append(q[w], item)
        /\ \A v \in Workers : v # w => q2[v] = q[v]
    BY <2>1 DEF Queues
  <2>6. Sfds(sfd, q2[w]) = Append(Sfds(sfd, q[w]), sfd[item])
    BY <1>b, <1>d, <2>4, <2>5, SfdsAppend
  <2>7. Handed' = [Handed EXCEPT ![w] = Append(Handed[w], sfd[item])]
    BY <1>a, <2>2, <2>3, <2>5, <2>6 DEF HandedOf
  <2>8. PutSeen(w, sfd[item])
    BY <2>3, <2>7 DEF PutSeen, InUse
  <2> QED
    BY <2>4, <2>8 DEF StepSeen
<1>4. ASSUME NEW w \in Workers, CqPop(w) PROVE StepSeen
  <2>1. PICK q2 : q2 = [q EXCEPT ![w] = Tail(q[w])]
    OBVIOUS
  <2>2. Handed' = HandedOf(sfd', q2)
    BY <1>0, <1>a, <1>4, <2>1, Pop, HandedAfter
  <2>3. /\ sfd' = sfd /\ witem' = [witem EXCEPT ![w] = head[w]]
        /\ wpc[w] = "idle" /\ head[w] # None
    BY <1>4 DEF CqPop
  <2>4. q[w] # << >> /\ head[w] = q[w][1] /\ head[w] \in Items
    <3>1. ListOn(next, head[w], q[w])
      BY <1>c DEF Layout, Queue
    <3>2. q[w] # << >> /\ head[w] = q[w][1]
      BY <2>3, <3>1 DEF ListOn
    <3>3. \A t \in Seq(Items) : t # << >> => t[1] \in Items
      BY EmptySeq
    <3> QED
      BY <1>d, <3>2, <3>3
  <2>5. /\ q2[w] = Tail(q[w])
        /\ \A v \in Workers : v # w => q2[v] = q[v]
    BY <2>1 DEF Queues
  <2>6. /\ Sfds(sfd, q[w]) # << >> /\ Head(Sfds(sfd, q[w])) = sfd[head[w]]
        /\ Sfds(sfd, q2[w]) = Tail(Sfds(sfd, q[w]))
    BY <1>b, <1>d, <2>4, <2>5, SfdsTail
  <2>7. Handed' = [Handed EXCEPT ![w] = Tail(Handed[w])]
    BY <1>a, <2>2, <2>3, <2>5, <2>6 DEF HandedOf
  <2>8. Handed[w] # << >> /\ Head(Handed[w]) = sfd[head[w]]
    BY <1>a, <2>6 DEF HandedOf
  <2>9. witem[w] = None /\ InUse[w] = None
    BY <1>a, <1>c, <2>3 DEF Layout, Stages, TypeOK, InUse
  <2>10. InUse' = [InUse EXCEPT ![w] = Head(Handed[w])]
    <3>1. witem'[w] = head[w] /\ \A v \in Workers : v # w => witem'[v] = witem[v]
      BY <1>a, <2>3 DEF TypeOK
    <3>2. InUse' = [v \in Workers |-> IF v = w THEN sfd[head[w]] ELSE InUse[v]]
      BY <2>3, <2>4, <3>1 DEF InUse
    <3>3. InUse = [v \in Workers |-> InUse[v]]
      BY DEF InUse
    <3> QED
      BY <2>8, <3>2, <3>3
  <2> QED
    BY <2>7, <2>8, <2>9, <2>10 DEF StepSeen, TakeSeen
<1>5. ASSUME NEW w \in Workers, CqiFree(w) PROVE StepSeen
  <2>1. Handed' = HandedOf(sfd', q)
    BY <1>0, <1>a, <1>5, FreeItem, HandedAfter
  <2>2. sfd' = sfd /\ witem' = [witem EXCEPT ![w] = None] /\ wpc[w] = "use"
    BY <1>5 DEF CqiFree
  <2>3. Handed' = Handed
    BY <1>a, <2>1, <2>2
  <2>4. witem[w] \in Items /\ sfd[witem[w]] \in Sockets
    <3>1. witem[w] # None /\ witem[w] \in Items
      BY <1>a, <1>c, <2>2 DEF Layout, Stages, TypeOK
    <3>2. own[witem[w]] = HandOf(w)
      BY <1>c, <3>1 DEF Layout, Hands
    <3> QED
      BY <1>c, <3>1, <3>2 DEF Layout, Filled
  <2>5. InUse[w] # None
    BY <2>4, NoneAssumption DEF InUse
  <2>6. InUse' = [InUse EXCEPT ![w] = None]
    <3>1. witem'[w] = None /\ \A v \in Workers : v # w => witem'[v] = witem[v]
      BY <1>a, <2>2 DEF TypeOK
    <3>2. InUse' = [v \in Workers |-> IF v = w THEN None ELSE InUse[v]]
      BY <2>2, <3>1 DEF InUse
    <3>3. InUse = [v \in Workers |-> InUse[v]]
      BY DEF InUse
    <3> QED
      BY <3>2, <3>3
  <2> QED
    BY <2>3, <2>5, <2>6 DEF StepSeen, FinishSeen
<1>6. CASE UNCHANGED vars
  <2>1. Fits(q)'
    <3>1. HeldByMain' = HeldByMain
      BY <1>6 DEF vars, lists, HeldByMain
    <3>2. Layout(fl, q, own)'
      BY <1>6, <1>c, <3>1 DEF vars, lists, Layout, FreeList, Queue, Hands,
         Allocated, Filled, Stages
    <3> QED
      BY <3>2 DEF Fits
  <2>2. Handed' = Handed
    BY <1>6, <1>a, <2>1, HandedAfter DEF vars, lists
  <2> QED
    BY <1>6, <2>2 DEF vars, StepSeen, InUse
<1> QED
  BY <1>1, <1>2, <1>3, <1>4, <1>5, <1>6 DEF Next

(* The seen steps are the steps of Handoff. *)
LEMMA SeenIsPromised == StepSeen => [Abstract!Next]_(Abstract!vars)
<1> USE DEF Handed, InUse
<1>1. Handed' = Handed /\ InUse' = InUse => UNCHANGED Abstract!vars
  BY DEF Abstract!vars
<1>2. ASSUME NEW w \in Workers
      PROVE  /\ \A s \in Sockets : PutSeen(w, s) => Abstract!Put(w, s)
             /\ TakeSeen(w) => Abstract!Take(w)
             /\ FinishSeen(w) => Abstract!Finish(w)
  BY DEF PutSeen, TakeSeen, FinishSeen, Abstract!Put, Abstract!Take, Abstract!Finish
<1> QED
  BY <1>1, <1>2 DEF StepSeen, Abstract!Next

(* So is the beginning. *)
LEMMA StartsAsPromised == Init => Abstract!Init
<1> SUFFICES ASSUME Init PROVE Abstract!Init
  OBVIOUS
<1>1. Handed = HandedOf(sfd, [w \in Workers |-> << >>])
  BY LayoutInit, EmptyQueues, HandedIs
<1>2. \A w \in Workers : Handed[w] = << >>
  <2>1. Sfds(sfd, << >>) = << >>
    BY DEF Sfds
  <2> QED
    BY <1>1, <2>1 DEF HandedOf
<1>3. Handed = [w \in Workers |-> << >>]
  BY <1>2 DEF Handed
<1>4. InUse = [w \in Workers |-> None]
  BY DEF Init, InUse
<1> QED
  BY <1>3, <1>4 DEF Abstract!Init, Handed, InUse

(* The linked lists implement the hand-over: whatever the interleaving, a   *)
(* socket reaches the worker it was pushed to, once, in the order of the    *)
(* pushes, with its own descriptor.                                         *)
THEOREM SocketsArriveInOrder == Spec => ImplementsHandoff
<1>1. Inv /\ [Next]_vars => [Abstract!Next]_(Abstract!vars)
  BY EveryStepIsAllowed, SeenIsPromised
<1> QED
  BY <1>1, Invariance, StartsAsPromised, PTL DEF Spec, ImplementsHandoff, Abstract!Spec
=============================================================================
