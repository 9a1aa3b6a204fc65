----------------------------- MODULE Lookup_proofs ------------------------------
(***************************************************************************)
(* The trie that prefixes are looked up in: the builder that lays its      *)
(* records out in a double array, the file that the array is written to    *)
(* and read from, and the suggestions that are taken from it.  For any     *)
(* files of readings and of names, any requests and any limits; for any    *)
(* inputs of build(), any alphabet and any size of a page.                 *)
(*                                                                         *)
(* Suggestions.  Most of it is about the operators the model is made of:   *)
(* what the conversions find, what a place in an order is, that no record  *)
(* under a query is missed, what is left of the items after filtering.     *)
(* The state needs little: SuggestInv says that the items of a line are    *)
(* under each of its keys, that the trie has the records of the keys but   *)
(* the greatest, and that an answer is one Query() may give.               *)
(*                                                                         *)
(* The builder.  What the properties say is true at all times only because *)
(* of what the open calls of arrange() know, so BuilderInv speaks of them. *)
(* CallsInv: the records of a call agree before its position, and are      *)
(* those of the child at hand of its caller.  OrderInv: the records up to  *)
(* the one that the recursion has reached are in order.  ListInv: the list *)
(* links the vacant elements in their order.  LayoutInv: each open call    *)
(* has elements of its own for the children that it has not placed, and a  *)
(* base that none else has, and the elements placed have been counted.     *)
(*                                                                         *)
(* The file.  ImageIs says which word is where in an image, and            *)
(* ImageReadBack follows the loop of assign() over it, a chunk at a turn.  *)
(* FileInv adds that the file is a beginning of the image.                 *)
(***************************************************************************)
EXTENDS Suggest, TrieFile, FiniteSetTheorems, FunctionTheorems, SequenceTheorems, WellFoundedInduction, TLAPS

-----------------------------------------------------------------------------
(* Numbers and recursion. *)

Descent == {ss \in Nat \X Nat : ss[1] < ss[2]}

(* A set of numbers that is not empty has a least one. *)
LEMMA LeastNumber ==
  ASSUME NEW S \in SUBSET Nat, S # {}
  PROVE  \E x \in S : \A y \in S : x <= y
<1>1. IsWellFoundedOn(Descent, Nat)
  BY NatLessThanWellFounded DEF OpToRel, Descent
<1>2. PICK x \in S : \A y \in S : ~(<<y, x>> \in Descent)
  BY ONLY <1>1, WFMin, S \in SUBSET Nat, S # {}
<1>3. ASSUME NEW y \in S PROVE x <= y
  <2>1. x \in Nat /\ y \in Nat
    OBVIOUS
  <2>2. ASSUME y < x PROVE FALSE
    <3>1. <<y, x>> \in Descent
      BY <2>1, <2>2 DEF Descent
    <3> QED
      BY <1>2, <3>1
  <2> QED
    BY <2>1, <2>2
<1> QED
  BY <1>3

(* A set with 0 and with the successor of each of its numbers has them     *)
(* all: the least number outside of it would have a predecessor in it.     *)
LEMMA SetInduction ==
  ASSUME NEW S, 0 \in S, \A n \in Nat : n \in S => n + 1 \in S
  PROVE  Nat \subseteq S
<1> SUFFICES ASSUME Nat \ S # {} PROVE FALSE
  OBVIOUS
<1>1. PICK x \in Nat \ S : \A y \in Nat \ S : x <= y
  <2>1. Nat \ S \in SUBSET Nat
    OBVIOUS
  <2> QED
    BY ONLY <2>1, LeastNumber, Nat \ S # {}
<1>2. x # 0 /\ x - 1 \in Nat /\ ~(x <= x - 1) /\ x = (x - 1) + 1
  OBVIOUS
<1>3. x - 1 \in S
  BY <1>1, <1>2
<1> QED
  BY <1>2, <1>3

LEMMA MinExists ==
  ASSUME NEW S \in SUBSET Nat, S # {}
  PROVE  Min(S) \in S /\ \A y \in S : Min(S) <= y
BY LeastNumber DEF Min

(* The numbers of a set that is bounded have a greatest. *)
LEMMA MaxExists ==
  ASSUME NEW n \in Nat, NEW S \in SUBSET (0 .. n), S # {}
  PROVE  Max(S) \in S /\ \A y \in S : Max(S) >= y
<1> DEFINE T == {k \in 0 .. n : n - k \in S}
<1>1. T \in SUBSET Nat /\ T # {}
  <2>1. PICK s \in S : TRUE
    OBVIOUS
  <2>2. n - s \in T
    OBVIOUS
  <2> QED
    BY <2>2
<1>2. PICK k \in T : \A l \in T : k <= l
  <2> HIDE DEF T
  <2> QED
    BY <1>1, LeastNumber
<1>3. n - k \in S
  OBVIOUS
<1>4. ASSUME NEW y \in S PROVE n - k >= y
  <2>1. y \in 0 .. n /\ n - y \in 0 .. n /\ n - (n - y) = y
    OBVIOUS
  <2>2. n - y \in T
    BY <2>1
  <2> QED
    BY <1>2, <2>1, <2>2
<1> QED
  BY <1>3, <1>4 DEF Max

(* A function that is defined by its value at 1 and step by step exists.    *)
Steps(n, D) == [1 .. n -> [D -> D]]
Follows(f, n, start, Step) ==
  f = [i \in 1 .. n |-> IF i = 1 THEN start ELSE Step[i][f[i - 1]]]

LEMMA FollowingExists ==
  ASSUME NEW n \in Nat, NEW D, NEW start \in D, NEW Step \in Steps(n, D)
  PROVE  \E f \in [1 .. n -> D] : Follows(f, n, start, Step)
<1> USE DEF Steps
<1> DEFINE Ok(f, m) == \A i \in 1 .. m : f[i] = IF i = 1 THEN start ELSE Step[i][f[i - 1]]
           S == {m \in Nat : m <= n => \E f \in [1 .. m -> D] : Ok(f, m)}
<1>1. 0 \in S
  <2> DEFINE z == [i \in 1 .. 0 |-> start]
  <2>1. z \in [1 .. 0 -> D] /\ Ok(z, 0)
    OBVIOUS
  <2> QED
    BY <2>1
<1>2. ASSUME NEW m \in Nat, m \in S PROVE m + 1 \in S
  <2>1. SUFFICES ASSUME m + 1 <= n PROVE \E f \in [1 .. m + 1 -> D] : Ok(f, m + 1)
    <3> HIDE DEF Ok
    <3> QED
      OBVIOUS
  <2>2. PICK f \in [1 .. m -> D] : Ok(f, m)
    <3> HIDE DEF Ok
    <3> QED
      BY <1>2, <2>1
  <2> DEFINE v == IF m = 0 THEN start ELSE Step[m + 1][f[m]]
             g == [i \in 1 .. m + 1 |-> IF i = m + 1 THEN v ELSE f[i]]
  <2>3. v \in D
    <3>1. Step[m + 1] \in [D -> D]
      BY <2>1
    <3>2. m # 0 => f[m] \in D
      OBVIOUS
    <3> QED
      BY <3>1, <3>2
  <2>4. g \in [1 .. m + 1 -> D] /\ g[m + 1] = v /\ \A i \in 1 .. m : g[i] = f[i]
    <3> HIDE DEF v
    <3> QED
      BY <2>3
  <2>5. ASSUME NEW i \in 1 .. m + 1
        PROVE  g[i] = IF i = 1 THEN start ELSE Step[i][g[i - 1]]
    <3>1. CASE i = m + 1
      <4>1. m # 0 => g[i - 1] = f[m]
        BY <2>4, <3>1
      <4> QED
        BY <2>4, <3>1, <4>1
    <3>2. CASE i \in 1 .. m
      <4>1. i # 1 => i - 1 \in 1 .. m /\ g[i - 1] = f[i - 1]
        BY <2>4, <3>2
      <4> HIDE DEF g
      <4> QED
        BY <2>2, <2>4, <3>2, <4>1
    <3> QED
      BY <3>1, <3>2
  <2> HIDE DEF g
  <2> QED
    BY <2>4, <2>5
<1>3. n \in S
  <2> HIDE DEF S
  <2>1. Nat \subseteq S
    BY <1>1, <1>2, SetInduction
  <2> QED
    BY <2>1
<1>4. PICK f \in [1 .. n -> D] : Ok(f, n)
  <2> HIDE DEF Ok
  <2> QED
    BY <1>3
<1>5. Follows(f, n, start, Step)
  BY <1>4 DEF Follows
<1> QED
  BY <1>5

(* Induction along such a function. *)
LEMMA AllValues ==
  ASSUME NEW n \in Nat, NEW D, NEW f, n >= 1 => f[1] \in D,
         \A i \in 1 .. n : i # 1 /\ f[i - 1] \in D => f[i] \in D
  PROVE  \A i \in 1 .. n : f[i] \in D
<1> DEFINE S == {m \in Nat : m + 1 <= n => f[m + 1] \in D}
<1>1. 0 \in S
  OBVIOUS
<1>2. ASSUME NEW m \in Nat, m \in S PROVE m + 1 \in S
  <2>1. SUFFICES ASSUME (m + 1) + 1 <= n PROVE f[(m + 1) + 1] \in D
    OBVIOUS
  <2>2. f[m + 1] \in D
    BY <1>2, <2>1
  <2> DEFINE j == (m + 1) + 1
  <2>3. j \in 1 .. n /\ j # 1 /\ j - 1 = m + 1
    BY <2>1
  <2> HIDE DEF j
  <2>4. f[j] \in D
    BY <2>2, <2>3
  <2> QED
    BY <2>4 DEF j
<1>3. Nat \subseteq S
  <2> HIDE DEF S
  <2> QED
    BY <1>1, <1>2, SetInduction
<1>4. ASSUME NEW i \in 1 .. n PROVE f[i] \in D
  <2>1. i - 1 \in Nat /\ (i - 1) + 1 = i /\ i <= n
    OBVIOUS
  <2>2. i - 1 \in S
    BY <1>3, <2>1
  <2> QED
    BY <2>1, <2>2
<1> QED
  BY <1>4

LEMMA IsSeq ==
  ASSUME NEW n \in Nat, NEW D, NEW f \in [1 .. n -> D]
  PROVE  f \in Seq(D) /\ Len(f) = n /\ DOMAIN f = 1 .. n
<1>1. f \in Seq(D) /\ DOMAIN f = 1 .. n
  OBVIOUS
<1> QED
  BY <1>1

-----------------------------------------------------------------------------
(* What FlattenSeq makes of sequences.  Concatenation is given a name of    *)
(* its own here: its definition by elements is of no use for what follows.  *)
Joined(a, b) == a \o b

LEMMA JoinedProperties ==
  ASSUME NEW D, NEW a \in Seq(D), NEW b \in Seq(D)
  PROVE  /\ Joined(a, b) \in Seq(D)
         /\ Range(a) \subseteq Range(Joined(a, b))
         /\ Range(b) \subseteq Range(Joined(a, b))
<1>1. /\ a \o b \in Seq(D) /\ Len(a \o b) = Len(a) + Len(b)
      /\ \A i \in 1 .. Len(a) + Len(b) :
            (a \o b)[i] = IF i <= Len(a) THEN a[i] ELSE b[i - Len(a)]
  BY ConcatProperties
<1>2. DOMAIN a = 1 .. Len(a) /\ DOMAIN b = 1 .. Len(b)
      /\ DOMAIN (a \o b) = 1 .. Len(a) + Len(b) /\ Len(a) \in Nat /\ Len(b) \in Nat
  BY <1>1
<1>3. ASSUME NEW i \in 1 .. Len(a) PROVE i \in DOMAIN (a \o b) /\ (a \o b)[i] = a[i]
  BY <1>1, <1>2
<1>4. ASSUME NEW i \in 1 .. Len(b)
      PROVE  i + Len(a) \in DOMAIN (a \o b) /\ (a \o b)[i + Len(a)] = b[i]
  BY <1>1, <1>2
<1>5. Range(a) \subseteq Range(a \o b) /\ Range(b) \subseteq Range(a \o b)
  <2>1. ASSUME NEW x \in Range(a) PROVE x \in Range(a \o b)
    BY <1>2, <1>3 DEF Range
  <2>2. ASSUME NEW x \in Range(b) PROVE x \in Range(a \o b)
    BY <1>2, <1>4 DEF Range
  <2> QED
    BY <2>1, <2>2
<1> QED
  BY <1>1, <1>5 DEF Joined

(* The sequences in s are joined one after the other. *)
JoinSteps(s, D) == [i \in 1 .. Len(s) |-> [x \in Seq(D) |-> Joined(x, s[i])]]

LEMMA FlattenFollows ==
  ASSUME NEW D, NEW s \in Seq(Seq(D)), s # << >>
  PROVE  \E f : /\ FlattenSeq(s) = f[Len(s)] /\ Len(s) >= 1
                /\ f[1] = s[1]
                /\ \A i \in 1 .. Len(s) : f[i] \in Seq(D)
                /\ \A i \in 1 .. Len(s) : i # 1 =>
                      f[i - 1] \in Seq(D) /\ f[i] = Joined(f[i - 1], s[i])
<1> DEFINE n == Len(s)
           Step == JoinSteps(s, D)
           start == s[1]
           Def(g) == [i \in 1 .. Len(s) |-> IF i = 1 THEN s[i] ELSE g[i - 1] \o s[i]]
           f == CHOOSE f : f = Def(f)
<1>1. n \in Nat /\ n >= 1 /\ n # 0 /\ \A i \in 1 .. n : s[i] \in Seq(D)
  OBVIOUS
<1>2. Step \in Steps(n, Seq(D))
  BY <1>1, JoinedProperties DEF Steps, JoinSteps
<1>3. PICK g \in [1 .. n -> Seq(D)] : Follows(g, n, start, Step)
  <2>1. start \in Seq(D)
    BY <1>1
  <2> HIDE DEF n, Step, start
  <2> QED
    BY <1>1, <1>2, <2>1, FollowingExists
<1>4. g = Def(g)
  <2>1. ASSUME NEW i \in 1 .. n, i # 1 PROVE Step[i][g[i - 1]] = g[i - 1] \o s[i]
    <3>1. i - 1 \in 1 .. n
      BY <1>1, <2>1
    <3>2. g[i - 1] \in Seq(D)
      <4> HIDE DEF n
      <4> QED
        BY <1>3, <3>1
    <3> QED
      BY <3>2 DEF JoinSteps, Joined
  <2> HIDE DEF Step
  <2> QED
    BY <1>3, <2>1 DEF Follows
<1>5. f = Def(f)
  <2> HIDE DEF Def
  <2> QED
    BY <1>4
<1>6. FlattenSeq(s) = f[Len(s)]
  BY <1>1, Zenon DEF FlattenSeq
<1> HIDE DEF f
<1>7. f[1] = s[1] /\ \A i \in 1 .. n : i # 1 => f[i] = Joined(f[i - 1], s[i])
  <2>1. \A i \in 1 .. n : f[i] = IF i = 1 THEN s[i] ELSE f[i - 1] \o s[i]
    BY <1>5
  <2> HIDE DEF Def, n
  <2>2. 1 \in 1 .. n
    BY <1>1
  <2>3. f[1] = s[1]
    BY <2>1, <2>2
  <2>4. ASSUME NEW i \in 1 .. n, i # 1 PROVE f[i] = Joined(f[i - 1], s[i])
    BY <2>1, <2>4, Zenon DEF Joined
  <2> QED
    BY <2>3, <2>4
<1> HIDE DEF Def, n
<1>8. \A i \in 1 .. n : f[i] \in Seq(D)
  <2>1. f[1] \in Seq(D)
    BY <1>1, <1>7
  <2>2. ASSUME NEW i \in 1 .. n, i # 1, f[i - 1] \in Seq(D) PROVE f[i] \in Seq(D)
    <3>1. f[i] = Joined(f[i - 1], s[i]) /\ s[i] \in Seq(D)
      BY <1>1, <1>7, <2>2
    <3> QED
      BY <2>2, <3>1, JoinedProperties
  <2> QED
    BY <1>1, <2>1, <2>2, AllValues
<1>9. ASSUME NEW i \in 1 .. n, i # 1 PROVE f[i - 1] \in Seq(D)
  <2>1. i - 1 \in 1 .. n
    BY <1>1, <1>9
  <2> QED
    BY <1>8, <2>1
<1> QED
  BY <1>1, <1>6, <1>7, <1>8, <1>9 DEF n

(* What is in one of the sequences is in all of them together. *)
LEMMA FlattenType ==
  ASSUME NEW D, NEW s \in Seq(Seq(D))
  PROVE  FlattenSeq(s) \in Seq(D)
<1>1. CASE s = << >>
  BY <1>1 DEF FlattenSeq
<1>2. CASE s # << >>
  <2>1. \E f : /\ FlattenSeq(s) = f[Len(s)] /\ Len(s) >= 1
               /\ \A i \in 1 .. Len(s) : f[i] \in Seq(D)
    BY <1>2, FlattenFollows
  <2> QED
    BY <2>1
<1> QED
  BY <1>1, <1>2

LEMMA FlattenHasAll ==
  ASSUME NEW D, NEW s \in Seq(Seq(D)), NEW k \in 1 .. Len(s)
  PROVE  Range(s[k]) \subseteq Range(FlattenSeq(s))
<1> DEFINE n == Len(s)
<1>1. s # << >> /\ n \in Nat /\ n >= 1 /\ \A i \in 1 .. n : s[i] \in Seq(D)
  OBVIOUS
<1>2. PICK f : /\ FlattenSeq(s) = f[n] /\ f[1] = s[1]
               /\ \A i \in 1 .. n : i # 1 =>
                     f[i - 1] \in Seq(D) /\ f[i] = Joined(f[i - 1], s[i])
  BY <1>1, FlattenFollows
<1> HIDE DEF n
<1> DEFINE good == [i \in 1 .. n |-> k <= i => Range(s[k]) \subseteq Range(f[i])]
<1>3. n >= 1 => good[1] \in {TRUE}
  <2>1. k <= 1 => k = 1
    BY DEF n
  <2>2. k <= 1 => Range(s[k]) \subseteq Range(f[1])
    BY <1>2, <2>1
  <2>3. 1 \in 1 .. n
    BY <1>1
  <2> QED
    BY <2>2, <2>3
<1>4. ASSUME NEW i \in 1 .. n, i # 1, good[i - 1] \in {TRUE}
      PROVE  good[i] \in {TRUE}
  <2>1. f[i] = Joined(f[i - 1], s[i]) /\ f[i - 1] \in Seq(D) /\ s[i] \in Seq(D)
    BY <1>1, <1>2, <1>4
  <2>2. Range(f[i - 1]) \subseteq Range(f[i]) /\ Range(s[i]) \subseteq Range(f[i])
    BY <2>1, JoinedProperties
  <2>3. i - 1 \in 1 .. n
    BY <1>1, <1>4
  <2>4. k <= i - 1 => Range(s[k]) \subseteq Range(f[i - 1])
    BY <1>4, <2>3
  <2>5. k <= i => k <= i - 1 \/ k = i
    BY <1>1
  <2> QED
    BY <2>2, <2>4, <2>5
<1>5. \A i \in 1 .. n : good[i] \in {TRUE}
  <2> HIDE DEF good
  <2> QED
    BY <1>1, <1>3, <1>4, AllValues
<1>6. n \in 1 .. n /\ k <= n
  BY <1>1 DEF n
<1> QED
  BY <1>2, <1>5, <1>6

-----------------------------------------------------------------------------
(* get_all_results(). *)

LEMMA CombineProperties ==
  ASSUME NEW D, NEW out \in Seq(Seq(D)), NEW items \in Seq(Seq(D))
  PROVE  /\ Combine(out, items) \in Seq(Seq(D))
         /\ \A x \in Range(out), y \in Range(items) :
               Joined(x, y) \in Range(Combine(out, items))
<1> DEFINE block(item) == [k \in DOMAIN out |-> Joined(out[k], item)]
           blocks == [j \in DOMAIN items |-> block(items[j])]
<1>1. Combine(out, items) = FlattenSeq(blocks)
  BY Zenon DEF Combine, Joined
<1>2. ASSUME NEW j \in DOMAIN items
      PROVE  block(items[j]) \in Seq(Seq(D)) /\ DOMAIN block(items[j]) = DOMAIN out
  <2>1. items[j] \in Seq(D)
    OBVIOUS
  <2>2. ASSUME NEW k \in DOMAIN out PROVE Joined(out[k], items[j]) \in Seq(D)
    <3>1. out[k] \in Seq(D)
      OBVIOUS
    <3> QED
      BY <2>1, <3>1, JoinedProperties
  <2>3. DOMAIN out = 1 .. Len(out) /\ Len(out) \in Nat
    OBVIOUS
  <2>4. block(items[j]) \in [1 .. Len(out) -> Seq(D)]
    BY <2>2, <2>3
  <2> HIDE DEF block
  <2> QED
    BY <2>3, <2>4, IsSeq
<1>3. blocks \in Seq(Seq(Seq(D))) /\ DOMAIN blocks = DOMAIN items
      /\ DOMAIN blocks = 1 .. Len(blocks)
  <2> HIDE DEF block
  <2>1. DOMAIN items = 1 .. Len(items) /\ Len(items) \in Nat
    OBVIOUS
  <2>2. blocks \in [1 .. Len(items) -> Seq(Seq(D))]
    BY <1>2, <2>1
  <2>3. DOMAIN blocks = DOMAIN items
    OBVIOUS
  <2> HIDE DEF blocks
  <2>4. blocks \in Seq(Seq(Seq(D)))
    BY <2>1, <2>2, IsSeq
  <2> QED
    BY <2>3, <2>4
<1>4. Combine(out, items) \in Seq(Seq(D))
  <2> HIDE DEF blocks
  <2> QED
    BY <1>1, <1>3, FlattenType
<1>5. ASSUME NEW x \in Range(out), NEW y \in Range(items)
      PROVE  Joined(x, y) \in Range(Combine(out, items))
  <2>1. PICK k \in DOMAIN out : x = out[k]
    BY DEF Range
  <2>2. PICK j \in DOMAIN items : y = items[j]
    BY DEF Range
  <2>3. block(y)[k] = Joined(x, y) /\ blocks[j] = block(y) /\ k \in DOMAIN block(y)
    BY <2>1, <2>2
  <2> HIDE DEF block, blocks
  <2>4. Joined(x, y) \in Range(blocks[j])
    BY <2>3 DEF Range
  <2>5. j \in 1 .. Len(blocks)
    BY <1>3
  <2>6. Range(blocks[j]) \subseteq Range(FlattenSeq(blocks))
    BY <1>3, <2>5, FlattenHasAll
  <2> QED
    BY <1>1, <2>4, <2>6
<1> QED
  BY <1>4, <1>5

CombineSteps(all, D) ==
  [i \in 1 .. Len(all) |-> [x \in Seq(Seq(D)) |-> Combine(x, all[i])]]

LEMMA ResultsFollow ==
  ASSUME NEW D, NEW all \in Seq(Seq(Seq(D))), all # << >>
  PROVE  \E f : /\ GetAllResults(all) = f[Len(all)] /\ Len(all) >= 1
                /\ f[1] = all[1]
                /\ \A i \in 1 .. Len(all) : f[i] \in Seq(Seq(D))
                /\ \A i \in 1 .. Len(all) : i # 1 =>
                      f[i - 1] \in Seq(Seq(D)) /\ f[i] = Combine(f[i - 1], all[i])
<1> DEFINE n == Len(all)
           Step == CombineSteps(all, D)
           start == all[1]
           Def(g) == [i \in DOMAIN all |-> IF i = 1 THEN all[1] ELSE Combine(g[i - 1], all[i])]
           f == CHOOSE f : f = Def(f)
<1>1. n \in Nat /\ n >= 1 /\ n # 0 /\ DOMAIN all = 1 .. n
      /\ \A i \in 1 .. n : all[i] \in Seq(Seq(D))
  OBVIOUS
<1>2. Step \in Steps(n, Seq(Seq(D)))
  <2>1. ASSUME NEW i \in 1 .. n, NEW x \in Seq(Seq(D)) PROVE Combine(x, all[i]) \in Seq(Seq(D))
    <3>1. all[i] \in Seq(Seq(D))
      BY <1>1
    <3> QED
      BY <3>1, CombineProperties
  <2> QED
    BY <2>1 DEF Steps, CombineSteps
<1>3. PICK g \in [1 .. n -> Seq(Seq(D))] : Follows(g, n, start, Step)
  <2>1. start \in Seq(Seq(D))
    BY <1>1
  <2> HIDE DEF n, Step, start
  <2> QED
    BY <1>1, <1>2, <2>1, FollowingExists
<1>4. g = Def(g)
  <2>1. ASSUME NEW i \in 1 .. n, i # 1 PROVE Step[i][g[i - 1]] = Combine(g[i - 1], all[i])
    <3>1. i - 1 \in 1 .. n
      BY <1>1, <2>1
    <3>2. g[i - 1] \in Seq(Seq(D))
      <4> HIDE DEF n
      <4> QED
        BY <1>3, <3>1
    <3> QED
      BY <3>2 DEF CombineSteps
  <2> HIDE DEF Step, n
  <2> QED
    BY <1>1, <1>3, <2>1 DEF Follows
<1>5. f = Def(f)
  <2> HIDE DEF Def
  <2> QED
    BY <1>4
<1>6. GetAllResults(all) = f[Len(all)]
  BY Zenon DEF GetAllResults
<1> HIDE DEF f
<1>7. f[1] = all[1] /\ \A i \in 1 .. n : i # 1 => f[i] = Combine(f[i - 1], all[i])
  <2>1. \A i \in DOMAIN all : f[i] = IF i = 1 THEN all[1] ELSE Combine(f[i - 1], all[i])
    BY <1>5
  <2> HIDE DEF Def, n
  <2>2. 1 \in 1 .. n
    BY <1>1
  <2>3. f[1] = all[1]
    BY <1>1, <2>1, <2>2
  <2>4. ASSUME NEW i \in 1 .. n, i # 1 PROVE f[i] = Combine(f[i - 1], all[i])
    BY <1>1, <2>1, <2>4, Zenon
  <2> QED
    BY <2>3, <2>4
<1> HIDE DEF Def, n
<1>8. \A i \in 1 .. n : f[i] \in Seq(Seq(D))
  <2>1. f[1] \in Seq(Seq(D))
    BY <1>1, <1>7
  <2>2. ASSUME NEW i \in 1 .. n, i # 1, f[i - 1] \in Seq(Seq(D))
        PROVE  f[i] \in Seq(Seq(D))
    <3>1. f[i] = Combine(f[i - 1], all[i]) /\ all[i] \in Seq(Seq(D))
      BY <1>1, <1>7, <2>2
    <3> QED
      BY <2>2, <3>1, CombineProperties
  <2> QED
    BY <1>1, <2>1, <2>2, AllValues
<1>9. ASSUME NEW i \in 1 .. n, i # 1 PROVE f[i - 1] \in Seq(Seq(D))
  <2>1. i - 1 \in 1 .. n
    BY <1>1, <1>9
  <2> QED
    BY <1>8, <2>1
<1> QED
  BY <1>1, <1>6, <1>7, <1>8, <1>9 DEF n

LEMMA ResultsType ==
  ASSUME NEW D, NEW all \in Seq(Seq(Seq(D)))
  PROVE  GetAllResults(all) \in Seq(Seq(D))
<1>1. CASE all = << >>
  BY <1>1 DEF GetAllResults
<1>2. CASE all # << >>
  <2>1. \E f : /\ GetAllResults(all) = f[Len(all)] /\ Len(all) >= 1
               /\ \A i \in 1 .. Len(all) : f[i] \in Seq(Seq(D))
    BY <1>2, ResultsFollow
  <2> QED
    BY <2>1
<1> QED
  BY <1>1, <1>2

(* One item of each sequence, one after the other, is among the results.   *)
LEMMA ResultsHaveAll ==
  ASSUME NEW D, NEW all \in Seq(Seq(Seq(D))), all # << >>,
         NEW g \in [1 .. Len(all) -> Seq(D)],
         \A i \in 1 .. Len(all) : g[i] \in Range(all[i])
  PROVE  FlattenSeq(g) \in Range(GetAllResults(all))
<1> DEFINE n == Len(all)
<1>1. n \in Nat /\ n >= 1 /\ n # 0 /\ \A i \in 1 .. n : all[i] \in Seq(Seq(D))
  OBVIOUS
<1>2. g \in Seq(Seq(D)) /\ g # << >> /\ Len(g) = n /\ \A i \in 1 .. n : g[i] \in Seq(D)
  <2>1. g \in Seq(Seq(D))
    BY <1>1, IsSeq
  <2>2. DOMAIN g = 1 .. n
    OBVIOUS
  <2> QED
    BY <1>1, <2>1, <2>2
<1>3. PICK f : /\ GetAllResults(all) = f[n] /\ f[1] = all[1]
               /\ \A i \in 1 .. n : i # 1 =>
                     f[i - 1] \in Seq(Seq(D)) /\ f[i] = Combine(f[i - 1], all[i])
  BY ResultsFollow
<1>4. PICK h : /\ FlattenSeq(g) = h[n] /\ h[1] = g[1]
               /\ \A i \in 1 .. n : i # 1 => h[i] = Joined(h[i - 1], g[i])
  <2> HIDE DEF n
  <2>1. \E h : /\ FlattenSeq(g) = h[Len(g)] /\ Len(g) >= 1
               /\ h[1] = g[1]
               /\ \A i \in 1 .. Len(g) : h[i] \in Seq(D)
               /\ \A i \in 1 .. Len(g) : i # 1 =>
                     h[i - 1] \in Seq(D) /\ h[i] = Joined(h[i - 1], g[i])
    BY <1>2, FlattenFollows
  <2> QED
    BY <1>2, <2>1
<1>5. \A i \in 1 .. n : g[i] \in Range(all[i])
  OBVIOUS
<1> HIDE DEF n
<1> DEFINE good == [i \in 1 .. n |-> h[i] \in Range(f[i])]
<1>6. n >= 1 => good[1] \in {TRUE}
  <2>1. 1 \in 1 .. n
    BY <1>1
  <2> QED
    BY <1>3, <1>4, <1>5, <2>1
<1>7. ASSUME NEW i \in 1 .. n, i # 1, good[i - 1] \in {TRUE}
      PROVE  good[i] \in {TRUE}
  <2>1. f[i] = Combine(f[i - 1], all[i]) /\ f[i - 1] \in Seq(Seq(D))
        /\ all[i] \in Seq(Seq(D)) /\ h[i] = Joined(h[i - 1], g[i]) /\ g[i] \in Range(all[i])
    BY <1>1, <1>3, <1>4, <1>5, <1>7
  <2>2. i - 1 \in 1 .. n
    BY <1>1, <1>7
  <2>3. h[i - 1] \in Range(f[i - 1])
    BY <1>7, <2>2
  <2>4. h[i] \in Range(f[i])
    BY <2>1, <2>3, CombineProperties
  <2> QED
    BY <2>4
<1>8. \A i \in 1 .. n : good[i] \in {TRUE}
  <2> HIDE DEF good
  <2> QED
    BY <1>1, <1>6, <1>7, AllValues
<1>9. n \in 1 .. n
  BY <1>1
<1> QED
  BY <1>3, <1>4, <1>8, <1>9

-----------------------------------------------------------------------------
(* Readings. *)

LEMMA SeqOfMore ==
  ASSUME NEW C, NEW D, C \subseteq D, NEW s \in Seq(C)
  PROVE  s \in Seq(D)
<1>1. Len(s) \in Nat /\ s \in [1 .. Len(s) -> C]
  OBVIOUS
<1>2. s \in [1 .. Len(s) -> D]
  BY <1>1
<1> QED
  BY <1>1, <1>2, IsSeq

LEMMA WordsAreTexts ==
  /\ \A s \in Seq(Word) : s \in Seq(Text)
  /\ \A s \in Seq(Seq(Word)) : s \in Seq(Seq(Text))
<1>1. \A s \in Seq(Word) : s \in Seq(Text)
  <2>1. Word \subseteq Text
    BY DEF Word
  <2> HIDE DEF Text, Word
  <2> QED
    BY <2>1, SeqOfMore
<1>2. \A s \in Seq(Seq(Word)) : s \in Seq(Seq(Text))
  <2>1. Seq(Word) \subseteq Seq(Text)
    BY <1>1
  <2> QED
    BY <2>1, SeqOfMore
<1> QED
  BY <1>1, <1>2

MapOk(m) == \A c \in DOMAIN m : m[c] \in Seq(Word)

(* The readings of a character are those of the last line for it.          *)
LEMMA MapType == MapOk(map)
<1> DEFINE full == {i \in DOMAIN MapFile : MapFile[i].readings # << >>}
           lines(c) == {i \in full : MapFile[i].char = c}
           last(c) == Max(lines(c))
           chars == {MapFile[i].char : i \in full}
<1>1. map = [c \in chars |-> MapFile[last(c)].readings]
  BY Zenon DEF map, ReadMap
<1>2. ASSUME NEW c \in chars PROVE last(c) \in DOMAIN MapFile
  <2>1. lines(c) # {}
    OBVIOUS
  <2>2. Len(MapFile) \in Nat /\ DOMAIN MapFile = 1 .. Len(MapFile)
    BY MapFileAssumption
  <2>3. lines(c) \in SUBSET (0 .. Len(MapFile))
    BY <2>2
  <2>4. lines(c) \subseteq DOMAIN MapFile
    OBVIOUS
  <2> HIDE DEF lines
  <2> QED
    BY <2>1, <2>2, <2>3, <2>4, MaxExists
<1>3. ASSUME NEW c \in chars PROVE MapFile[last(c)].readings \in Seq(Word)
  <2> HIDE DEF chars, last
  <2>1. MapFile[last(c)] \in MapLine
    BY <1>2, <1>3, MapFileAssumption
  <2> QED
    BY <2>1 DEF MapLine
<1>4. DOMAIN map = chars /\ \A c \in chars : map[c] \in Seq(Word)
  <2> HIDE DEF chars, last
  <2> QED
    BY <1>1, <1>3
<1> QED
  BY <1>4 DEF MapOk

LEMMA ReadingsType ==
  ASSUME NEW m, MapOk(m), NEW s \in Text
  PROVE  ReadingsOf(m, s) \in Seq(Seq(Word))
<1> DEFINE part(i) == IF s[i] \in DOMAIN m THEN << m[s[i]] >> ELSE << >>
           parts == [i \in DOMAIN s |-> part(i)]
<1>1. ReadingsOf(m, s) = FlattenSeq(parts)
  BY Zenon DEF ReadingsOf
<1>2. ASSUME NEW i \in DOMAIN s PROVE part(i) \in Seq(Seq(Word))
  <2>1. CASE s[i] \in DOMAIN m
    <3>1. m[s[i]] \in Seq(Word)
      BY <2>1 DEF MapOk
    <3> QED
      BY <2>1, <3>1
  <2>2. CASE s[i] \notin DOMAIN m
    BY <2>2
  <2> QED
    BY <2>1, <2>2
<1>3. parts \in Seq(Seq(Seq(Word)))
  <2>1. Len(s) \in Nat /\ DOMAIN s = 1 .. Len(s)
    BY DEF Text
  <2> HIDE DEF part
  <2>2. parts \in [1 .. Len(s) -> Seq(Seq(Word))]
    BY <1>2, <2>1
  <2> QED
    BY <2>1, <2>2, IsSeq
<1> HIDE DEF parts
<1> QED
  BY <1>1, <1>3, FlattenType

LEMMA InitialsType ==
  ASSUME NEW all \in Seq(Seq(Word))
  PROVE  Initials(all) \in Seq(Seq(Text))
<1> DEFINE initials(i) == [j \in DOMAIN all[i] |-> << Head(all[i][j]) >>]
<1>1. Len(all) \in Nat /\ DOMAIN all = 1 .. Len(all)
      /\ \A i \in DOMAIN all : all[i] \in Seq(Word)
  OBVIOUS
<1>2. ASSUME NEW i \in DOMAIN all PROVE initials(i) \in Seq(Text)
  <2>1. Len(all[i]) \in Nat /\ DOMAIN all[i] = 1 .. Len(all[i]) /\ all[i] \in Seq(Word)
    BY <1>1
  <2>2. ASSUME NEW j \in DOMAIN all[i] PROVE << Head(all[i][j]) >> \in Text
    <3>1. all[i][j] \in Word
      BY <2>1
    <3>2. Head(all[i][j]) \in Character
      BY <3>1 DEF Word, Text
    <3> QED
      BY <3>2 DEF Text
  <2>3. initials(i) \in [1 .. Len(all[i]) -> Text]
    BY <2>1, <2>2
  <2> HIDE DEF initials
  <2> QED
    BY <2>1, <2>3, IsSeq
<1>3. Initials(all) \in [1 .. Len(all) -> Seq(Text)]
  BY <1>1, <1>2 DEF Initials
<1> QED
  BY <1>1, <1>3, IsSeq

LEMMA ConvertType ==
  ASSUME NEW m, MapOk(m), NEW s \in Text
  PROVE  /\ ConvertQuery(m, s) \in Seq(Text)
         /\ ConvertLine(m, s) \in Seq(Text)
<1>1. << s >> \in Seq(Text)
  OBVIOUS
<1>2. ReadingsOf(m, s) \in Seq(Seq(Text))
  BY ReadingsType, WordsAreTexts
<1>3. Initials(ReadingsOf(m, s)) \in Seq(Seq(Text))
  BY ReadingsType, InitialsType
<1>4. /\ GetAllResults(ReadingsOf(m, s)) \in Seq(Text)
      /\ GetAllResults(Initials(ReadingsOf(m, s))) \in Seq(Text)
  BY <1>2, <1>3, ResultsType DEF Text
<1> DEFINE first == GetAllResults(ReadingsOf(m, s))
           second == IF Range(s) \subseteq Hanzi
                     THEN GetAllResults(Initials(ReadingsOf(m, s))) ELSE << >>
<1>5. first \in Seq(Text) /\ second \in Seq(Text)
  BY <1>4
<1>6. /\ ConvertQuery(m, s) = IF AllEnglish(s) THEN << s >> ELSE first
      /\ ConvertLine(m, s) = IF AllEnglish(s) THEN << s >> ELSE Joined(first, second)
  BY Zenon DEF ConvertQuery, ConvertLine, Joined
<1> HIDE DEF first, second
<1>7. Joined(first, second) \in Seq(Text)
  BY <1>5, JoinedProperties
<1> QED
  BY <1>1, <1>5, <1>6, <1>7

(* Both conversions find every way to read a text.                         *)
LEMMA SpellingsFound ==
  ASSUME NEW m, MapOk(m), NEW s \in Text
  PROVE  /\ Spellings(m, s) \subseteq Range(ConvertQuery(m, s))
         /\ Spellings(m, s) \subseteq Range(ConvertLine(m, s))
<1> DEFINE all == ReadingsOf(m, s)
           first == GetAllResults(all)
           second == IF Range(s) \subseteq Hanzi
                     THEN GetAllResults(Initials(all)) ELSE << >>
<1>1. all \in Seq(Seq(Text))
  BY ReadingsType, WordsAreTexts
<1>2. first \in Seq(Text) /\ second \in Seq(Text)
  <2>1. Initials(all) \in Seq(Seq(Text))
    BY ReadingsType, InitialsType
  <2> QED
    BY <1>1, <2>1, ResultsType DEF Text
<1>3. /\ ConvertQuery(m, s) = IF AllEnglish(s) THEN << s >> ELSE first
      /\ ConvertLine(m, s) = IF AllEnglish(s) THEN << s >> ELSE Joined(first, second)
  BY Zenon DEF ConvertQuery, ConvertLine, Joined
<1>4. CASE AllEnglish(s)
  <2>1. Spellings(m, s) = {s}
    BY <1>4, Zenon DEF Spellings
  <2>2. s \in Range(<< s >>)
    BY DEF Range
  <2> QED
    BY <1>3, <1>4, <2>1, <2>2
<1>5. CASE ~ AllEnglish(s)
  <2>1. CASE all = << >>
    <3>1. Spellings(m, s) = {}
      BY <1>5, <2>1 DEF Spellings
    <3> QED
      BY <3>1
  <2>2. CASE all # << >>
    <3> DEFINE choices == {f \in [DOMAIN all -> UNION {Range(all[i]) : i \in DOMAIN all}] :
                              \A i \in DOMAIN all : f[i] \in Range(all[i])}
    <3>1. Spellings(m, s) = {FlattenSeq(f) : f \in choices}
      BY <1>5, <2>2, Zenon DEF Spellings
    <3>2. ASSUME NEW f \in choices PROVE FlattenSeq(f) \in Range(first)
      <4> HIDE DEF all
      <4>1. Len(all) \in Nat /\ DOMAIN all = 1 .. Len(all)
            /\ \A i \in DOMAIN all : all[i] \in Seq(Text)
        BY <1>1
      <4>2. ASSUME NEW i \in 1 .. Len(all) PROVE f[i] \in Range(all[i]) /\ f[i] \in Text
        <5>1. f[i] \in Range(all[i])
          BY <4>1
        <5> QED
          BY <4>1, <5>1 DEF Range
      <4>3. f \in [1 .. Len(all) -> Text]
        BY <4>1, <4>2
      <4> HIDE DEF choices
      <4>4. \A i \in 1 .. Len(all) : f[i] \in Range(all[i])
        BY <4>2
      <4> QED
        BY <1>1, <2>2, <4>3, <4>4, ResultsHaveAll DEF Text
    <3> HIDE DEF all, choices
    <3>3. Spellings(m, s) \subseteq Range(first)
      BY <3>1, <3>2
    <3> HIDE DEF first, second
    <3>4. Range(first) \subseteq Range(Joined(first, second))
      BY <1>2, JoinedProperties
    <3> QED
      BY <1>3, <1>5, <3>3, <3>4
  <2> QED
    BY <2>1, <2>2
<1> QED
  BY <1>4, <1>5

-----------------------------------------------------------------------------
(* Orders: the place of an element is the number of those below it. *)

Ordered(S, below) ==
  /\ below \in [S -> SUBSET S]
  /\ \A k \in S : k \notin below[k]
  /\ \A k, l, m \in S : k \in below[l] /\ l \in below[m] => k \in below[m]
  /\ \A k, l \in S : k # l => k \in below[l] \/ l \in below[k]

LEMMA RankBounds ==
  ASSUME NEW S, IsFiniteSet(S), NEW below, Ordered(S, below), NEW k \in S
  PROVE  /\ Cardinality(S) \in Nat /\ Cardinality(S) >= 1
         /\ IsFiniteSet(below[k]) /\ Cardinality(below[k]) \in Nat
         /\ Cardinality(below[k]) <= Cardinality(S) - 1
         /\ Cardinality(below[k]) = Cardinality(S) - 1 => below[k] = S \ {k}
<1>1. below[k] \subseteq S \ {k}
  BY DEF Ordered
<1>2. Cardinality(S) \in Nat
  BY FS_CardinalityType
<1>3. IsFiniteSet(S \ {k}) /\ Cardinality(S \ {k}) = Cardinality(S) - 1
  BY FS_RemoveElement
<1>4. Cardinality(S \ {k}) \in Nat
  BY <1>3, FS_CardinalityType
<1>5. /\ IsFiniteSet(below[k]) /\ Cardinality(below[k]) <= Cardinality(S \ {k})
      /\ Cardinality(S \ {k}) = Cardinality(below[k]) => S \ {k} = below[k]
  BY <1>1, <1>3, FS_Subset
<1>6. Cardinality(below[k]) \in Nat
  BY <1>5, FS_CardinalityType
<1> QED
  BY <1>2, <1>3, <1>4, <1>5, <1>6

LEMMA RankDiffers ==
  ASSUME NEW S, IsFiniteSet(S), NEW below, Ordered(S, below),
         NEW k \in S, NEW l \in S, k \in below[l]
  PROVE  Cardinality(below[k]) < Cardinality(below[l])
<1>1. below[k] \subseteq below[l] \ {k}
  BY DEF Ordered
<1>2. IsFiniteSet(below[l]) /\ Cardinality(below[l]) \in Nat
  BY RankBounds
<1>3. IsFiniteSet(below[l] \ {k}) /\ Cardinality(below[l] \ {k}) = Cardinality(below[l]) - 1
  BY <1>2, FS_RemoveElement
<1>4. Cardinality(below[k]) <= Cardinality(below[l] \ {k})
  BY <1>1, <1>3, FS_Subset
<1>5. Cardinality(below[k]) \in Nat
  BY RankBounds
<1> QED
  BY <1>2, <1>3, <1>4, <1>5

(* Each place up to the number of elements is that of one element.         *)
LEMMA Ranks ==
  ASSUME NEW S, IsFiniteSet(S), NEW below, Ordered(S, below)
  PROVE  /\ \A k, l \in S : Cardinality(below[k]) = Cardinality(below[l]) => k = l
         /\ \A n \in 0 .. Cardinality(S) - 1 : \E k \in S : Cardinality(below[k]) = n
<1> DEFINE T == 0 .. Cardinality(S) - 1
           rank == [k \in S |-> Cardinality(below[k])]
<1>1. ASSUME NEW k \in S, NEW l \in S, k # l
      PROVE  Cardinality(below[k]) # Cardinality(below[l])
  <2>1. Cardinality(below[k]) \in Nat /\ Cardinality(below[l]) \in Nat
    BY RankBounds
  <2>2. CASE k \in below[l]
    BY <2>1, <2>2, RankDiffers
  <2>3. CASE l \in below[k]
    BY <2>1, <2>3, RankDiffers
  <2>4. k \in below[l] \/ l \in below[k]
    BY <1>1 DEF Ordered
  <2> QED
    BY <2>2, <2>3, <2>4
<1>2. Cardinality(S) \in Nat
  BY FS_CardinalityType
<1>3. rank \in [S -> T]
  <2>1. ASSUME NEW k \in S PROVE Cardinality(below[k]) \in T
    BY <1>2, RankBounds
  <2> QED
    BY <2>1
<1>4. rank \in Injection(S, T)
  <2>1. \A k, l \in S : rank[k] = rank[l] => k = l
    BY <1>1
  <2> HIDE DEF rank, T
  <2> QED
    BY <1>3, <2>1, Fun_IsInj
<1>5. IsFiniteSet(T) /\ Cardinality(T) = Cardinality(S)
  <2>1. 0 \in Int /\ Cardinality(S) - 1 \in Int
    BY <1>2
  <2>2. IsFiniteSet(T) /\ Cardinality(T) = IF 0 > Cardinality(S) - 1 THEN 0
                                            ELSE (Cardinality(S) - 1) - 0 + 1
    BY <2>1, FS_Interval
  <2> QED
    BY <1>2, <2>2
<1>6. rank \in Surjection(S, T)
  <2> HIDE DEF rank, T
  <2> QED
    BY <1>4, <1>5, FS_Injection
<1>7. \A n \in T : \E k \in S : rank[k] = n
  <2> HIDE DEF rank, T
  <2> QED
    BY <1>6, Fun_SurjectionProperties
<1> QED
  BY <1>1, <1>7

LEMMA PlaceTaken ==
  ASSUME NEW S, IsFiniteSet(S), NEW below, Ordered(S, below),
         NEW n \in 0 .. Cardinality(S) - 1
  PROVE  \E k \in S : Cardinality(below[k]) = n
BY Ranks

(* Strings in dictionary order. *)
LEMMA LessIsOrder ==
  ASSUME NEW a \in Text, NEW b \in Text, NEW c \in Text
  PROVE  /\ ~ Less(a, a)
         /\ Less(a, b) /\ Less(b, c) => Less(a, c)
         /\ a # b => Less(a, b) \/ Less(b, a)
<1>0. /\ \A i \in 1 .. Len(a) : a[i] \in Nat
      /\ \A i \in 1 .. Len(b) : b[i] \in Nat
      /\ \A i \in 1 .. Len(c) : c[i] \in Nat
  BY DEF Text, Character
<1>1. Len(a) \in Nat /\ Len(b) \in Nat /\ Len(c) \in Nat
  BY DEF Text
<1>2. ~ Less(a, a)
  <2> SUFFICES ASSUME NEW p \in 0 .. Len(a), p < Len(a), p = Len(a) \/ a[p + 1] < a[p + 1]
               PROVE  FALSE
    BY DEF Less
  <2>1. p + 1 \in 1 .. Len(a)
    BY <1>1
  <2> QED
    BY <1>0, <2>1
<1>3. ASSUME Less(a, b), Less(b, c) PROVE Less(a, c)
  <2>1. PICK p \in 0 .. Len(b) : /\ p < Len(b) /\ p <= Len(a)
                                 /\ \A q \in 1 .. p : a[q] = b[q]
                                 /\ p = Len(a) \/ a[p + 1] < b[p + 1]
    BY <1>3 DEF Less
  <2>2. PICK r \in 0 .. Len(c) : /\ r < Len(c) /\ r <= Len(b)
                                 /\ \A q \in 1 .. r : b[q] = c[q]
                                 /\ r = Len(b) \/ b[r + 1] < c[r + 1]
    BY <1>3 DEF Less
  <2>3. CASE p = r
    <3>1. b[p + 1] < c[p + 1]
      BY <1>1, <2>1, <2>2, <2>3
    <3>2. p = Len(a) \/ a[p + 1] < c[p + 1]
      <4>1. p + 1 \in 1 .. Len(b) /\ p + 1 \in 1 .. Len(c)
            /\ (p # Len(a) => p + 1 \in 1 .. Len(a))
        BY <1>1, <2>1, <2>2, <2>3
      <4>2. b[p + 1] \in Nat /\ c[p + 1] \in Nat /\ (p # Len(a) => a[p + 1] \in Nat)
        BY <1>0, <4>1
      <4> QED
        BY <2>1, <3>1, <4>2
    <3>3. \A q \in 1 .. p : a[q] = c[q]
      BY <2>1, <2>2, <2>3
    <3> QED
      BY <1>1, <2>1, <2>2, <2>3, <3>2, <3>3 DEF Less
  <2>4. CASE p < r
    <3>1. p + 1 \in 1 .. r /\ p \in 0 .. Len(c) /\ p < Len(c)
      BY <1>1, <2>1, <2>2, <2>4
    <3>2. b[p + 1] = c[p + 1]
      BY <2>2, <3>1
    <3>3. \A q \in 1 .. p : a[q] = c[q]
      <4>1. \A q \in 1 .. p : q \in 1 .. r
        BY <1>1, <2>2, <2>4
      <4> QED
        BY <2>1, <2>2, <4>1
    <3> QED
      BY <1>1, <2>1, <3>1, <3>2, <3>3 DEF Less
  <2>5. CASE r < p
    <3>1. r + 1 \in 1 .. p /\ r <= Len(a) /\ r # Len(b)
      BY <1>1, <2>1, <2>2, <2>5
    <3>2. a[r + 1] = b[r + 1]
      BY <2>1, <3>1
    <3>3. \A q \in 1 .. r : a[q] = c[q]
      <4>1. \A q \in 1 .. r : q \in 1 .. p
        BY <1>1, <2>1, <2>2, <2>5
      <4> QED
        BY <2>1, <2>2, <4>1
    <3> QED
      BY <1>1, <2>2, <3>1, <3>2, <3>3 DEF Less
  <2> QED
    BY <1>1, <2>3, <2>4, <2>5
<1>4. ASSUME a # b PROVE Less(a, b) \/ Less(b, a)
  <2> DEFINE ends == {p \in Nat : p = Len(a) \/ p = Len(b) \/ a[p + 1] # b[p + 1]}
  <2>1. PICK p \in ends : \A r \in ends : p <= r
    <3>1. Len(a) \in ends /\ ends \in SUBSET Nat
      BY <1>1
    <3> HIDE DEF ends
    <3>2. ends # {}
      BY <3>1
    <3> QED
      BY <3>1, <3>2, LeastNumber
  <2>2. p \in Nat /\ (p = Len(a) \/ p = Len(b) \/ a[p + 1] # b[p + 1])
    OBVIOUS
  <2>3. p <= Len(a) /\ p <= Len(b)
    <3>1. Len(a) \in ends /\ Len(b) \in ends
      BY <1>1
    <3> QED
      BY <2>1, <3>1
  <2>4. ASSUME NEW q \in 1 .. p PROVE a[q] = b[q]
    <3>1. q - 1 \in Nat /\ ~ (p <= q - 1) /\ (q - 1) + 1 = q
      BY <2>2
    <3>2. q - 1 \notin ends
      BY <2>1, <3>1
    <3> QED
      BY <3>1, <3>2
  <2> HIDE DEF ends
  <2>5. CASE p = Len(a) /\ p = Len(b)
    <3>1. a = b
      <4>1. a \in Seq(Character) /\ b \in Seq(Character) /\ Len(a) = Len(b)
            /\ \A i \in 1 .. Len(a) : a[i] = b[i]
        BY <2>4, <2>5 DEF Text
      <4> QED
        BY <4>1, SeqEqual
    <3> QED
      BY <1>4, <3>1
  <2>6. CASE p = Len(a) /\ p # Len(b)
    BY <1>1, <2>2, <2>3, <2>4, <2>6 DEF Less
  <2>7. CASE p # Len(a) /\ p = Len(b)
    BY <1>1, <2>2, <2>3, <2>4, <2>7 DEF Less
  <2>8. CASE p # Len(a) /\ p # Len(b)
    <3>1. p + 1 \in 1 .. Len(a) /\ p + 1 \in 1 .. Len(b) /\ p < Len(a) /\ p < Len(b)
      BY <1>1, <2>2, <2>3, <2>8
    <3>2. a[p + 1] < b[p + 1] \/ b[p + 1] < a[p + 1]
      BY <1>0, <2>2, <2>8, <3>1
    <3>3. p \in 0 .. Len(a) /\ p \in 0 .. Len(b)
      BY <1>1, <2>2, <2>3
    <3>4. CASE a[p + 1] < b[p + 1]
      BY <2>3, <2>4, <3>1, <3>3, <3>4 DEF Less
    <3>5. CASE b[p + 1] < a[p + 1]
      BY <2>3, <2>4, <3>1, <3>3, <3>5 DEF Less
    <3> QED
      BY <3>2, <3>4, <3>5
  <2> QED
    BY <2>5, <2>6, <2>7, <2>8
<1> QED
  BY <1>2, <1>3, <1>4

-----------------------------------------------------------------------------
(* The records that the trie is built from. *)

KeysBelow == [k \in DOMAIN letterToItems |-> {l \in DOMAIN letterToItems : Less(l, k)}]

LEMMA KeysOrdered ==
  ASSUME DOMAIN letterToItems \subseteq Text
  PROVE  Ordered(DOMAIN letterToItems, KeysBelow)
<1> DEFINE keys == DOMAIN letterToItems
<1>1. KeysBelow \in [keys -> SUBSET keys]
  BY DEF KeysBelow
<1>2. ASSUME NEW k \in keys, NEW l \in keys
      PROVE  k \in KeysBelow[l] <=> Less(k, l)
  BY DEF KeysBelow
<1>3. keys \subseteq Text
  OBVIOUS
<1> HIDE DEF keys
<1>4. \A k \in keys : k \notin KeysBelow[k]
  BY <1>2, <1>3, LessIsOrder
<1>5. ASSUME NEW k \in keys, NEW l \in keys, NEW m \in keys,
             k \in KeysBelow[l], l \in KeysBelow[m]
      PROVE  k \in KeysBelow[m]
  <2>1. Less(k, l) /\ Less(l, m)
    BY <1>2, <1>5
  <2>2. Less(k, m)
    BY <1>3, <2>1, LessIsOrder
  <2> QED
    BY <1>2, <2>2
<1>6. \A k, l \in keys : k # l => k \in KeysBelow[l] \/ l \in KeysBelow[k]
  BY <1>2, <1>3, LessIsOrder
<1> QED
  BY <1>1, <1>4, <1>5, <1>6 DEF Ordered, keys

(* A key with all the others below it is the greatest. *)
LEMMA GreatestIs ==
  ASSUME DOMAIN letterToItems \subseteq Text, NEW k \in DOMAIN letterToItems,
         KeysBelow[k] = DOMAIN letterToItems \ {k}
  PROVE  Greatest = k
<1> DEFINE keys == DOMAIN letterToItems
<1>1. \A l \in keys \ {k} : Less(l, k)
  BY DEF KeysBelow
<1>2. ASSUME NEW m \in keys, \A l \in keys \ {m} : Less(l, m) PROVE m = k
  <2> SUFFICES ASSUME m # k PROVE FALSE
    OBVIOUS
  <2>1. Less(k, m) /\ Less(m, k)
    BY <1>1, <1>2
  <2>2. k \in Text /\ m \in Text
    OBVIOUS
  <2> QED
    BY <2>1, <2>2, LessIsOrder
<1> QED
  BY <1>1, <1>2 DEF Greatest

RecordsAre(V) ==
  /\ Records \in Seq([key : Text, value : Seq(V)])
  /\ Len(Records) = Cardinality(DOMAIN letterToItems) - 1
  /\ DOMAIN Records = 1 .. Len(Records)
  /\ \A i \in DOMAIN Records : /\ Records[i].key \in DOMAIN letterToItems
                               /\ Records[i].value = letterToItems[Records[i].key]
  /\ \A i, j \in DOMAIN Records : Records[i].key = Records[j].key => i = j
  /\ \A k \in DOMAIN letterToItems \ {Greatest} :
        \E i \in DOMAIN Records : Records[i].key = k

LEMMA RecordsProperties ==
  ASSUME DOMAIN letterToItems \subseteq Text, IsFiniteSet(DOMAIN letterToItems),
         NEW V, \A k \in DOMAIN letterToItems : letterToItems[k] \in Seq(V),
         Cardinality(DOMAIN letterToItems) >= 2
  PROVE  RecordsAre(V)
<1> DEFINE keys == DOMAIN letterToItems
           place(k) == Cardinality({l \in keys : Less(l, k)})
           nth(n) == CHOOSE k \in keys : place(k) = n - 1
           N == Cardinality(keys) - 1
<1>1. Records = [n \in 1 .. N |-> [key |-> nth(n), value |-> letterToItems[nth(n)]]]
  BY Zenon DEF Records
<1>2. Cardinality(keys) \in Nat /\ N \in Nat
  <2>1. Cardinality(keys) \in Nat
    BY FS_CardinalityType
  <2> QED
    BY <2>1
<1>3. \A k \in keys : place(k) = Cardinality(KeysBelow[k])
  BY DEF KeysBelow
<1>4. Ordered(keys, KeysBelow)
  BY KeysOrdered
<1> HIDE DEF place
<1>5. ASSUME NEW n \in 1 .. N PROVE nth(n) \in keys /\ place(nth(n)) = n - 1
  <2>1. n - 1 \in 0 .. Cardinality(keys) - 1
    BY <1>2
  <2> HIDE DEF keys
  <2>2. \E k \in keys : Cardinality(KeysBelow[k]) = n - 1
    BY <1>4, <2>1, Ranks DEF keys
  <2> QED
    BY <1>3, <2>2
<1> HIDE DEF nth
<1>6. ASSUME NEW n \in 1 .. N
      PROVE  [key |-> nth(n), value |-> letterToItems[nth(n)]]
                \in [key : Text, value : Seq(V)]
  <2>1. nth(n) \in Text /\ letterToItems[nth(n)] \in Seq(V)
    BY <1>5
  <2> QED
    BY <2>1
<1>7. /\ Records \in Seq([key : Text, value : Seq(V)])
      /\ Len(Records) = N /\ DOMAIN Records = 1 .. N
  <2>1. Records \in [1 .. N -> [key : Text, value : Seq(V)]]
    BY <1>1, <1>6
  <2> HIDE DEF N
  <2> QED
    BY <1>2, <2>1, IsSeq
<1>8. ASSUME NEW i \in 1 .. N
      PROVE  Records[i].key = nth(i) /\ Records[i].value = letterToItems[nth(i)]
  BY <1>1
<1>9. ASSUME NEW i \in 1 .. N, NEW j \in 1 .. N, nth(i) = nth(j) PROVE i = j
  <2>1. i - 1 = j - 1
    BY <1>5, <1>9
  <2> QED
    BY <1>2, <2>1
<1>10. ASSUME NEW k \in keys \ {Greatest} PROVE \E i \in 1 .. N : nth(i) = k
  <2>1. /\ place(k) \in Nat /\ place(k) <= Cardinality(keys) - 1
        /\ place(k) = Cardinality(keys) - 1 => KeysBelow[k] = keys \ {k}
    BY <1>3, <1>4, RankBounds
  <2>2. CASE place(k) = Cardinality(keys) - 1
    <3>1. Greatest = k
      BY <2>1, <2>2, GreatestIs
    <3> QED
      BY <3>1
  <2>3. CASE place(k) # Cardinality(keys) - 1
    <3>1. place(k) + 1 \in 1 .. N /\ (place(k) + 1) - 1 = place(k)
      BY <1>2, <2>1, <2>3
    <3>2. nth(place(k) + 1) \in keys /\ place(nth(place(k) + 1)) = place(k)
      BY <1>5, <3>1
    <3>3. nth(place(k) + 1) = k
      BY <1>3, <1>4, <3>2, Ranks
    <3> QED
      BY <3>1, <3>3
  <2> QED
    BY <2>2, <2>3
<1> QED
  <2> HIDE DEF N
  <2>1. \A i \in DOMAIN Records : Records[i].key \in keys
                                  /\ Records[i].value = letterToItems[Records[i].key]
    BY <1>5, <1>7, <1>8
  <2>2. \A i, j \in DOMAIN Records : Records[i].key = Records[j].key => i = j
    BY <1>7, <1>8, <1>9
  <2>3. \A k \in keys \ {Greatest} : \E i \in DOMAIN Records : Records[i].key = k
    BY <1>7, <1>8, <1>10
  <2> HIDE DEF keys
  <2>4. Len(Records) = Cardinality(keys) - 1 /\ DOMAIN Records = 1 .. Len(Records)
    BY <1>7 DEF N
  <2> QED
    BY <1>7, <2>1, <2>2, <2>3, <2>4 DEF RecordsAre, keys

-----------------------------------------------------------------------------
(* What the trie answers. *)

StoreOk(store, V) ==
  /\ store \in Seq([key : Text, value : Seq(V)])
  /\ DOMAIN store = 1 .. Len(store)
  /\ \A i, j \in DOMAIN store : store[i].key = store[j].key => i = j

LEMMA StoreType ==
  ASSUME NEW V, NEW store, StoreOk(store, V), NEW j \in DOMAIN store
  PROVE  store[j].key \in Text /\ store[j].value \in Seq(V)
<1> DEFINE Record == [key : Text, value : Seq(V)]
<1>1. store[j] \in Record
  <2> HIDE DEF Record
  <2>1. store \in Seq(Record) /\ j \in 1 .. Len(store)
    BY DEF StoreOk, Record
  <2> QED
    BY <2>1
<1> QED
  BY <1>1

LEMMA PrefixAgrees ==
  ASSUME NEW q \in Text, NEW t \in Text, IsPrefix(q, t)
  PROVE  Len(q) <= Len(t) /\ \A i \in 1 .. Len(q) : q[i] = t[i]
<1>1. Len(q) \in Nat /\ Len(t) \in Nat /\ Len(q) <= Len(t)
      /\ SubSeq(q, 1, Len(q)) = SubSeq(t, 1, Len(q))
  BY DEF IsPrefix, Text
<1>2. /\ \A i \in 1 .. Len(q) : q[i] \in Character
      /\ \A i \in 1 .. Len(q) : t[i] \in Character
  BY <1>1 DEF Text
<1>3. ASSUME NEW i \in 1 .. Len(q) PROVE q[i] = t[i]
  <2>1. i \in 1 .. Len(q) - 1 + 1 /\ 1 + i - 1 = i /\ 1 \in Int /\ Len(q) \in Int
    BY <1>1
  <2>2. SubSeq(q, 1, Len(q))[i] = q[1 + i - 1]
    BY <1>2, <2>1, SubSeqProperties
  <2>3. SubSeq(t, 1, Len(q))[i] = t[1 + i - 1]
    BY <1>2, <2>1, SubSeqProperties
  <2> QED
    BY <1>1, <2>1, <2>2, <2>3
<1> QED
  BY <1>1, <1>3

(* Keys that agree in all places, the NUL included, are the same.          *)
LEMMA AgreeToTheEnd ==
  ASSUME NEW k \in Text, NEW l \in Text, Agree(k, l, Len(k) + 1)
  PROVE  k = l
<1> DEFINE at(key, q) == IF q <= Len(key) THEN key[q] ELSE 0
           n == Len(k)
<1>1. n \in Nat /\ Len(l) \in Nat /\ \A i \in 1 .. Len(l) : l[i] # 0
  BY DEF Text, Character
<1>2. n + 1 <= Len(l) + 1 /\ \A q \in 1 .. n + 1 : at(k, q) = at(l, q)
  BY DEF Agree
<1>3. at(k, n + 1) = 0 /\ n + 1 \in 1 .. n + 1
  BY <1>1
<1>4. at(l, n + 1) = 0
  <2> HIDE DEF at, n
  <2> QED
    BY <1>2, <1>3
<1>5. ~ (n + 1 <= Len(l))
  <2> SUFFICES ASSUME n + 1 <= Len(l) PROVE FALSE
    OBVIOUS
  <2>1. n + 1 \in 1 .. Len(l) /\ l[n + 1] = 0
    BY <1>1, <1>4
  <2> QED
    BY <1>1, <2>1
<1>6. n = Len(l)
  BY <1>1, <1>2, <1>5
<1>7. ASSUME NEW i \in 1 .. n PROVE k[i] = l[i]
  <2>1. i \in 1 .. n + 1 /\ i <= n
    BY <1>1
  <2>2. at(k, i) = k[i] /\ at(l, i) = l[i]
    BY <1>6, <2>1
  <2> HIDE DEF at
  <2> QED
    BY <1>2, <2>1, <2>2
<1>8. k \in Seq(Character) /\ l \in Seq(Character)
  BY DEF Text
<1> QED
  BY <1>6, <1>7, <1>8, SeqEqual

(* The path of a key does leave the double array, where no other key agrees. *)
LEMMA LeafDepthIs ==
  ASSUME NEW V, NEW store, StoreOk(store, V), NEW i \in DOMAIN store
  PROVE  /\ LeafDepth(store, i) \in 0 .. (Len(store[i].key) + 1)
         /\ \A j \in DOMAIN store \ {i} :
               ~ Agree(store[i].key, store[j].key, LeafDepth(store, i))
<1> DEFINE n == Len(store[i].key) + 1
           agree(j, d) == Agree(store[i].key, store[j].key, d)
           others == DOMAIN store \ {i}
           alone == {d \in Nat : \A j \in others : ~ agree(j, d)}
           Leaf(d) == /\ \A j \in others : ~ agree(j, d)
                      /\ \A e \in 0 .. (d - 1) : \E j \in others : agree(j, e)
<1>1. \A j \in DOMAIN store : store[j].key \in Text
  BY StoreType
<1>2. n \in Nat
  BY <1>1 DEF Text
<1>3. ASSUME NEW j \in others PROVE ~ agree(j, n)
  BY <1>1, <1>3, AgreeToTheEnd DEF StoreOk
<1>4. PICK d \in alone : \A e \in alone : d <= e
  <2>1. n \in alone /\ alone \in SUBSET Nat
    BY <1>2, <1>3
  <2> HIDE DEF alone
  <2>2. alone # {}
    BY <2>1
  <2> QED
    BY <2>1, <2>2, LeastNumber
<1> HIDE DEF agree, n
<1>5. d \in 0 .. n
  <2>1. n \in alone
    BY <1>2, <1>3
  <2> QED
    BY <1>2, <1>4, <2>1
<1>6. Leaf(d)
  <2>1. ASSUME NEW e \in 0 .. (d - 1) PROVE \E j \in others : agree(j, e)
    <3>1. e \in Nat /\ ~ (d <= e)
      OBVIOUS
    <3>2. e \notin alone
      BY <1>4, <3>1
    <3> QED
      BY <3>1, <3>2
  <2> QED
    BY <2>1
<1>7. LeafDepth(store, i) = CHOOSE x \in 0 .. n : Leaf(x)
  BY Zenon DEF LeafDepth, agree, n
<1> HIDE DEF Leaf
<1>8. LeafDepth(store, i) \in 0 .. n /\ Leaf(LeafDepth(store, i))
  BY <1>5, <1>6, <1>7
<1> QED
  BY <1>8 DEF Leaf, agree, n

(* No record whose key begins with the query is missed: when the query runs *)
(* into the leaf of a key that equals it, no other key begins with it.      *)
LEMMA UnderHasAll ==
  ASSUME NEW V, NEW store, StoreOk(store, V), NEW q \in Text,
         NEW j \in DOMAIN store, IsPrefix(q, store[j].key)
  PROVE  j \in Under(store, q)
<1>1. CASE InTailOf(store, q) = {}
  BY <1>1 DEF Under
<1>2. ASSUME NEW i \in InTailOf(store, q), store[i].key = q PROVE i = j
  <2> DEFINE d == LeafDepth(store, i)
             l == store[j].key
  <2>1. i \in DOMAIN store /\ d < Len(q)
    BY <1>2 DEF InTailOf
  <2> HIDE DEF d
  <2>2. d \in 0 .. (Len(q) + 1) /\ \A k \in DOMAIN store \ {i} : ~ Agree(q, store[k].key, d)
    BY <1>2, <2>1, LeafDepthIs DEF d
  <2>3. l \in Text
    BY StoreType
  <2>4. Len(q) <= Len(l) /\ \A r \in 1 .. Len(q) : q[r] = l[r]
    BY <2>3, PrefixAgrees
  <2> HIDE DEF l
  <2>5. Len(q) \in Nat /\ Len(l) \in Nat
    BY <2>3 DEF Text
  <2>6. ASSUME NEW r \in 1 .. d PROVE r <= Len(q) /\ r <= Len(l) /\ q[r] = l[r]
    <3>1. r \in 1 .. Len(q)
      BY <2>1, <2>2, <2>5
    <3> QED
      BY <2>4, <2>5, <3>1
  <2>7. d <= Len(q) + 1 /\ d <= Len(l) + 1
    BY <2>1, <2>2, <2>4, <2>5
  <2>8. Agree(q, l, d)
    BY <2>6, <2>7 DEF Agree
  <2> QED
    BY <2>2, <2>8 DEF l
<1>3. CASE InTailOf(store, q) # {} /\ \E i \in InTailOf(store, q) : store[i].key = q
  <2>1. j \in InTailOf(store, q)
    BY <1>2, <1>3
  <2> QED
    BY <1>3, <2>1 DEF Under
<1>4. CASE InTailOf(store, q) # {} /\ ~ \E i \in InTailOf(store, q) : store[i].key = q
  BY <1>4 DEF Under
<1> QED
  BY <1>1, <1>3, <1>4

LEMMA UpTo ==
  ASSUME NEW n \in Nat
  PROVE  IsFiniteSet(1 .. n) /\ Cardinality(1 .. n) = n
<1>1. 1 \in Int /\ n \in Int /\ (IF 1 > n THEN 0 ELSE n - 1 + 1) = n
  OBVIOUS
<1> QED
  BY <1>1, FS_Interval

LEMMA UnderIsFinite ==
  ASSUME NEW V, NEW store, StoreOk(store, V), NEW q
  PROVE  /\ Under(store, q) \subseteq 1 .. Len(store) /\ Len(store) \in Nat
         /\ IsFiniteSet(Under(store, q)) /\ Cardinality(Under(store, q)) \in Nat
         /\ Cardinality(Under(store, q)) <= Len(store)
<1>1. Len(store) \in Nat /\ DOMAIN store = 1 .. Len(store)
  BY DEF StoreOk
<1>2. Under(store, q) \subseteq 1 .. Len(store)
  BY <1>1 DEF Under, InTailOf
<1>3. IsFiniteSet(1 .. Len(store)) /\ Cardinality(1 .. Len(store)) = Len(store)
  BY <1>1, UpTo
<1>4. IsFiniteSet(Under(store, q)) /\ Cardinality(Under(store, q)) <= Len(store)
  BY <1>2, <1>3, FS_Subset
<1> QED
  BY <1>1, <1>2, <1>4, FS_CardinalityType

(* Numbers in their own order. *)
LEMMA NumbersOrdered ==
  ASSUME NEW S \in SUBSET Nat
  PROVE  Ordered(S, [k \in S |-> {l \in S : l < k}])
BY DEF Ordered

ChildrenAre(store, q, n, V) ==
  /\ ChildValues(store, q, n) \in Seq(Seq(V))
  /\ n > Len(store) =>
        \A i \in Under(store, q) : store[i].value \in Range(ChildValues(store, q, n))

LEMMA ChildrenProperties ==
  ASSUME NEW V, NEW store, StoreOk(store, V), NEW q, NEW n \in Nat
  PROVE  ChildrenAre(store, q, n, V)
<1> DEFINE all == Under(store, q)
           low == IF n < Cardinality(all) THEN n ELSE Cardinality(all)
           place(i) == Cardinality({j \in all : j <= i})
           nth(m) == CHOOSE i \in all : place(i) = m
           below == [k \in all |-> {l \in all : l < k}]
           values == [m \in 1 .. low |-> store[nth(m)].value]
<1>1. ChildValues(store, q, n) = IF n <= 0 THEN << >> ELSE values
  BY Zenon DEF ChildValues
<1>2. /\ all \subseteq 1 .. Len(store) /\ Len(store) \in Nat /\ IsFiniteSet(all)
      /\ Cardinality(all) \in Nat /\ Cardinality(all) <= Len(store)
  BY UnderIsFinite
<1>3. low \in Nat /\ low <= Cardinality(all)
  BY <1>2
<1>4. all \in SUBSET Nat /\ all \subseteq DOMAIN store
  BY <1>2 DEF StoreOk
<1>5. Ordered(all, below)
  <2> HIDE DEF all
  <2> QED
    BY <1>4, NumbersOrdered
<1> HIDE DEF all
<1>6. ASSUME NEW i \in all PROVE place(i) = Cardinality(below[i]) + 1
  <2>1. {j \in all : j <= i} = below[i] \cup {i} /\ i \notin below[i]
    <3>1. below[i] = {j \in all : j < i}
      OBVIOUS
    <3>2. \A j \in all : j <= i <=> j < i \/ j = i
      BY <1>4
    <3>3. ~ (i < i)
      BY <1>4
    <3> HIDE DEF below
    <3> QED
      BY <3>1, <3>2, <3>3
  <2>2. IsFiniteSet(below[i]) /\ Cardinality(below[i]) \in Nat
    BY <1>2, <1>5, RankBounds
  <2> HIDE DEF below
  <2> QED
    BY <2>1, <2>2, FS_AddElement
<1> HIDE DEF place, below
<1>7. ASSUME NEW m \in 1 .. low PROVE nth(m) \in all /\ place(nth(m)) = m
  <2>1. m - 1 \in 0 .. Cardinality(all) - 1 /\ (m - 1) + 1 = m
    BY <1>2, <1>3
  <2>2. PICK i \in all : Cardinality(below[i]) = m - 1
    <3> DEFINE r == m - 1
    <3>1. r \in 0 .. Cardinality(all) - 1
      BY <2>1
    <3> HIDE DEF r
    <3>2. IsFiniteSet(all)
      BY <1>2
    <3> QED
      BY <1>5, <3>1, <3>2, PlaceTaken DEF r
  <2>3. place(i) = m
    BY <1>6, <2>1, <2>2
  <2> QED
    BY <2>3
<1> HIDE DEF nth, low
<1>8. values \in Seq(Seq(V)) /\ DOMAIN values = 1 .. low
  <2>1. ASSUME NEW m \in 1 .. low PROVE store[nth(m)].value \in Seq(V)
    BY <1>4, <1>7, StoreType
  <2>2. values \in [1 .. low -> Seq(V)]
    BY <2>1
  <2> HIDE DEF values
  <2> QED
    BY <1>3, <2>2, IsSeq
<1>9. ChildValues(store, q, n) \in Seq(Seq(V))
  BY <1>1, <1>8
<1>10. ASSUME n > Len(store), NEW i \in all
       PROVE  store[i].value \in Range(ChildValues(store, q, n))
  <2>1. low = Cardinality(all) /\ ~ (n <= 0)
    BY <1>2, <1>10 DEF low
  <2>2. Cardinality(below[i]) \in Nat /\ Cardinality(below[i]) <= Cardinality(all) - 1
    BY <1>2, <1>5, RankBounds
  <2>3. place(i) \in 1 .. low
    BY <1>2, <1>6, <2>1, <2>2
  <2>4. nth(place(i)) \in all /\ place(nth(place(i))) = place(i)
    BY <1>7, <2>3
  <2>5. nth(place(i)) = i
    <3> DEFINE k == nth(place(i))
    <3>1. k \in all /\ place(k) = place(i)
      BY <2>4
    <3> HIDE DEF k
    <3>2. Cardinality(below[k]) \in Nat /\ Cardinality(below[i]) \in Nat
      BY <1>2, <1>5, <3>1, RankBounds
    <3>3. Cardinality(below[k]) = Cardinality(below[i])
      BY <1>6, <3>1, <3>2
    <3>4. k = i
      BY <1>2, <1>5, <3>1, <3>3, Ranks
    <3> QED
      BY <3>4 DEF k
  <2>6. values[place(i)] = store[i].value
    BY <2>3, <2>5
  <2> HIDE DEF values
  <2>7. store[i].value \in Range(values)
    BY <1>8, <2>3, <2>6 DEF Range
  <2> QED
    BY <1>1, <2>1, <2>7
<1> QED
  BY <1>9, <1>10 DEF ChildrenAre, all

-----------------------------------------------------------------------------
(* What the server makes of the answer of the trie. *)

CollectIs(letters, limit, V) ==
  /\ Collect(letters, limit) \in Seq(V)
  /\ limit > Len(trie) =>
        \A l \in Range(letters) : \A i \in Under(trie, l) :
            Range(trie[i].value) \subseteq Range(Collect(letters, limit))

LEMMA CollectProperties ==
  ASSUME NEW V, StoreOk(trie, V), NEW letters \in Seq(Text), NEW limit \in Nat
  PROVE  CollectIs(letters, limit, V)
<1> DEFINE found(l) == FlattenSeq(ChildValues(trie, l, limit))
           all == [i \in DOMAIN letters |-> found(letters[i])]
<1>1. Collect(letters, limit) = FlattenSeq(all)
  BY Zenon DEF Collect
<1>2. Len(letters) \in Nat /\ DOMAIN letters = 1 .. Len(letters)
  OBVIOUS
<1>3. ASSUME NEW l PROVE /\ found(l) \in Seq(V) /\ ChildValues(trie, l, limit) \in Seq(Seq(V))
                         /\ ChildrenAre(trie, l, limit, V)
  <2>1. ChildrenAre(trie, l, limit, V)
    BY ChildrenProperties
  <2>2. ChildValues(trie, l, limit) \in Seq(Seq(V))
    BY <2>1 DEF ChildrenAre
  <2> QED
    BY <2>1, <2>2, FlattenType
<1>4. all \in Seq(Seq(V)) /\ DOMAIN all = 1 .. Len(letters) /\ Len(all) = Len(letters)
  <2> HIDE DEF found
  <2>1. all \in [1 .. Len(letters) -> Seq(V)]
    BY <1>2, <1>3
  <2> HIDE DEF all
  <2> QED
    BY <1>2, <2>1, IsSeq
<1>5. Collect(letters, limit) \in Seq(V)
  <2> HIDE DEF all
  <2> QED
    BY <1>1, <1>4, FlattenType
<1>6. ASSUME limit > Len(trie), NEW k \in DOMAIN letters, NEW i \in Under(trie, letters[k])
      PROVE  Range(trie[i].value) \subseteq Range(Collect(letters, limit))
  <2> DEFINE l == letters[k]
             values == ChildValues(trie, l, limit)
  <2>1. trie[i].value \in Range(values) /\ values \in Seq(Seq(V))
    BY <1>3, <1>6 DEF ChildrenAre
  <2>2. all[k] = found(l) /\ k \in 1 .. Len(all)
    BY <1>2, <1>4
  <2>3. found(l) = FlattenSeq(values)
    OBVIOUS
  <2> HIDE DEF values, found, all, l
  <2>4. PICK m \in 1 .. Len(values) : trie[i].value = values[m]
    <3>1. DOMAIN values = 1 .. Len(values)
      BY <2>1
    <3> QED
      BY <2>1, <3>1 DEF Range
  <2>5. Range(trie[i].value) \subseteq Range(found(l))
    BY <2>1, <2>3, <2>4, FlattenHasAll
  <2>6. Range(all[k]) \subseteq Range(FlattenSeq(all))
    BY <1>4, <2>2, FlattenHasAll
  <2> QED
    BY <1>1, <2>2, <2>5, <2>6
<1>7. ASSUME limit > Len(trie), NEW l \in Range(letters), NEW i \in Under(trie, l)
      PROVE  Range(trie[i].value) \subseteq Range(Collect(letters, limit))
  <2>1. PICK k \in DOMAIN letters : l = letters[k]
    BY DEF Range
  <2> QED
    BY <1>6, <1>7, <2>1
<1> QED
  BY <1>5, <1>7 DEF CollectIs

(* A sequence has finitely many elements, no more than places.             *)
LEMMA RangeFinite ==
  ASSUME NEW V, NEW s \in Seq(V)
  PROVE  IsFiniteSet(Range(s)) /\ Cardinality(Range(s)) <= Len(s)
<1>1. Len(s) \in Nat /\ s \in [1 .. Len(s) -> V]
  OBVIOUS
<1>2. IsFiniteSet(1 .. Len(s)) /\ Cardinality(1 .. Len(s)) = Len(s)
  BY <1>1, UpTo
<1>3. s \in Surjection(1 .. Len(s), Range(s))
  BY <1>1, Fun_RangeProperties
<1> QED
  BY <1>2, <1>3, FS_Surjection

FilteredIs(items, chinese) ==
  /\ Filtered(items, chinese) \subseteq Range(items)
  /\ IsFiniteSet(Filtered(items, chinese))
  /\ \A x \in Filtered(items, chinese) : chinese \subseteq Range(x.name)
  /\ \A x, y \in Filtered(items, chinese) : x.name = y.name => x = y
  /\ \A x \in Range(items) : chinese \subseteq Range(x.name) =>
        \E y \in Filtered(items, chinese) : y.name = x.name

LEMMA FilteredProperties ==
  ASSUME NEW V, NEW items \in Seq(V), NEW chinese
  PROVE  FilteredIs(items, chinese)
<1> DEFINE places == {i \in DOMAIN items : chinese \subseteq Range(items[i].name)}
           First(j) == \A k \in places : k < j => items[k].name # items[j].name
           F == Filtered(items, chinese)
<1>1. F = {items[i] : i \in {j \in places : First(j)}}
  BY Zenon DEF Filtered, FirstOfEachName
<1>2. places \subseteq 1 .. Len(items) /\ Len(items) \in Nat /\ DOMAIN items = 1 .. Len(items)
  OBVIOUS
<1>3. \A i \in places : items[i] \in Range(items) /\ chinese \subseteq Range(items[i].name)
  BY DEF Range
<1>4. ASSUME NEW x \in Range(items), chinese \subseteq Range(x.name)
      PROVE  \E i \in places : items[i] = x
  BY <1>4 DEF Range
<1> HIDE DEF places, F
<1>5. F \subseteq Range(items) /\ \A x \in F : chinese \subseteq Range(x.name)
  BY <1>1, <1>3
<1>6. IsFiniteSet(F)
  BY <1>5, RangeFinite, FS_Subset
<1>7. ASSUME NEW x \in F, NEW y \in F, x.name = y.name PROVE x = y
  <2>1. PICK i \in places : x = items[i] /\ First(i)
    BY <1>1
  <2>2. PICK j \in places : y = items[j] /\ First(j)
    BY <1>1
  <2>3. ~ (i < j) /\ ~ (j < i)
    BY <1>7, <2>1, <2>2
  <2>4. i \in Nat /\ j \in Nat
    BY <1>2
  <2>5. i = j
    BY <2>3, <2>4
  <2> QED
    BY <2>1, <2>2, <2>5
<1>8. ASSUME NEW x \in Range(items), chinese \subseteq Range(x.name)
      PROVE  \E y \in F : y.name = x.name
  <2> DEFINE same == {i \in places : items[i].name = x.name}
  <2>1. same # {} /\ same \in SUBSET Nat
    <3>1. \A i \in places : i \in Nat
      BY <1>2
    <3>2. \E i \in places : items[i] = x
      BY <1>4, <1>8
    <3> QED
      BY <3>1, <3>2
  <2>2. PICK i \in same : \A k \in same : i <= k
    <3> HIDE DEF same
    <3> QED
      BY <2>1, LeastNumber
  <2>3. i \in places /\ items[i].name = x.name
    OBVIOUS
  <2>4. ASSUME NEW k \in places, k < i PROVE items[k].name # items[i].name
    <3>1. ~ (i <= k)
      BY <1>2, <2>3, <2>4
    <3>2. k \notin same
      BY <2>2, <3>1
    <3> QED
      BY <2>3, <3>2
  <2>5. First(i)
    BY <2>4
  <2>6. items[i] \in F
    BY <1>1, <2>3, <2>5
  <2> QED
    BY <2>3, <2>6
<1> QED
  BY <1>5, <1>6, <1>7, <1>8 DEF FilteredIs, F

(* The ranked items are the filtered ones, each once, by rank. *)
RankedIs(r, F, limit) ==
  \E s \in [1 .. Cardinality(F) -> F] :
    /\ Range(s) = F
    /\ \A i, j \in 1 .. Cardinality(F) : s[i] = s[j] => i = j
    /\ \A i, j \in 1 .. Cardinality(F) : i < j => s[i].rank <= s[j].rank
    /\ Len(r) \in Nat /\ Len(r) <= limit /\ Len(r) <= Cardinality(F)
    /\ DOMAIN r = 1 .. Len(r)
    /\ limit > Cardinality(F) => Len(r) = Cardinality(F)
    /\ \A i \in DOMAIN r : r[i] = s[i].name

LEMMA RankedProperties ==
  ASSUME NEW V, NEW items \in Seq(V), NEW chinese, NEW limit \in Nat,
         NEW r \in FilterResult(items, chinese, limit)
  PROVE  RankedIs(r, Filtered(items, chinese), limit)
<1> DEFINE F == Filtered(items, chinese)
           n == Cardinality(F)
           low(s) == IF limit < Len(s) THEN limit ELSE Len(s)
<1>1. IsFiniteSet(F) /\ n \in Nat
  <2>1. IsFiniteSet(F)
    BY FilteredProperties DEF FilteredIs
  <2> QED
    BY <2>1, FS_CardinalityType
<1>2. PICK s \in Ranked(F) : r = [i \in 1 .. low(s) |-> s[i].name]
  <2> HIDE DEF F
  <2>1. FilterResult(items, chinese, limit)
          = {[i \in 1 .. low(s) |-> s[i].name] : s \in Ranked(F)}
    BY Zenon DEF FilterResult, F
  <2> QED
    BY <2>1
<1> HIDE DEF F
<1>3. s \in [1 .. n -> F] /\ Range(s) = F
      /\ \A i, j \in DOMAIN s : i < j => s[i].rank <= s[j].rank
  BY DEF Ranked
<1> HIDE DEF n
<1>4. Len(s) = n
  BY <1>1, <1>3, IsSeq
<1>5. low(s) \in Nat /\ low(s) <= limit /\ low(s) <= n /\ (limit > n => low(s) = n)
  BY <1>1, <1>4
<1> HIDE DEF low
<1>6. DOMAIN r = 1 .. low(s) /\ Len(r) = low(s) /\ \A i \in 1 .. low(s) : r[i] = s[i].name
  <2>1. DOMAIN r = 1 .. low(s) /\ \A i \in 1 .. low(s) : r[i] = s[i].name
    BY <1>2
  <2>2. r \in [1 .. low(s) -> {s[i].name : i \in 1 .. low(s)}]
    BY <1>2
  <2> QED
    BY <1>5, <2>1, <2>2, IsSeq
<1>7. \A i, j \in 1 .. n : s[i] = s[j] => i = j
  <2>1. s \in Surjection(1 .. n, F)
    BY <1>3, Fun_RangeProperties
  <2>2. IsFiniteSet(1 .. n) /\ Cardinality(1 .. n) = n
    BY <1>1, UpTo
  <2>3. Cardinality(1 .. n) = Cardinality(F)
    BY <2>2 DEF n
  <2>4. s \in Injection(1 .. n, F)
    BY <2>1, <2>2, <2>3, FS_SurjSameCardinalityImpliesInj
  <2> QED
    BY <2>4, Fun_InjectionProperties
<1>8. DOMAIN s = 1 .. n
  BY <1>3
<1> QED
  BY <1>3, <1>5, <1>6, <1>7, <1>8 DEF RankedIs, F, n

(* What Query() answers. *)
LEMMA AnswerInOrder ==
  ASSUME NEW V, StoreOk(trie, V), NEW q \in Text, NEW limit \in Nat,
         NEW r \in Query(q, limit)
  PROVE  /\ Len(r) <= limit
         /\ \A i, j \in DOMAIN r :
              /\ r[i] = r[j] => i = j
              /\ Chinese(q) \subseteq Range(r[i])
              /\ i < j => \E a, b \in V : a.name = r[i] /\ b.name = r[j] /\ a.rank <= b.rank
<1> DEFINE letters == ConvertQuery(map, q)
           items == Collect(letters, limit)
           F == Filtered(items, Chinese(q))
<1>1. CASE letters = << >>
  <2>1. r = << >>
    BY <1>1 DEF Query
  <2>2. Len(r) = 0 /\ DOMAIN r = {}
    BY <2>1
  <2> QED
    BY <2>2
<1>2. CASE letters # << >>
  <2>1. r \in FilterResult(items, Chinese(q), limit)
    BY <1>2, Zenon DEF Query
  <2>2. letters \in Seq(Text)
    BY MapType, ConvertType
  <2> HIDE DEF letters
  <2>3. items \in Seq(V)
    BY <2>2, CollectProperties DEF CollectIs
  <2> HIDE DEF items
  <2>4. FilteredIs(items, Chinese(q)) /\ RankedIs(r, F, limit)
    BY <2>1, <2>3, FilteredProperties, RankedProperties
  <2>5. F \subseteq V
    <3>1. Range(items) \subseteq V
      BY <2>3 DEF Range
    <3> QED
      BY <2>4, <3>1 DEF FilteredIs
  <2>6. /\ \A x \in F : Chinese(q) \subseteq Range(x.name)
        /\ \A x, y \in F : x.name = y.name => x = y
    BY <2>4 DEF FilteredIs
  <2> HIDE DEF F
  <2> DEFINE n == Cardinality(F)
  <2>7. PICK s \in [1 .. n -> F] :
          /\ \A i, j \in 1 .. n : s[i] = s[j] => i = j
          /\ \A i, j \in 1 .. n : i < j => s[i].rank <= s[j].rank
          /\ Len(r) \in Nat /\ Len(r) <= limit /\ Len(r) <= n
          /\ DOMAIN r = 1 .. Len(r)
          /\ \A i \in DOMAIN r : r[i] = s[i].name
    BY <2>4 DEF RankedIs
  <2>8. n \in Nat
    <3>1. IsFiniteSet(F)
      BY <2>4 DEF FilteredIs, F
    <3> QED
      BY <3>1, FS_CardinalityType
  <2> HIDE DEF n
  <2>9. DOMAIN r \subseteq 1 .. n /\ \A i \in DOMAIN r : s[i] \in F /\ r[i] = s[i].name
    BY <2>7, <2>8
  <2>10. ASSUME NEW i \in DOMAIN r, NEW j \in DOMAIN r
         PROVE  /\ r[i] = r[j] => i = j
                /\ Chinese(q) \subseteq Range(r[i])
                /\ i < j => \E a, b \in V : a.name = r[i] /\ b.name = r[j] /\ a.rank <= b.rank
    <3>1. i \in 1 .. n /\ j \in 1 .. n /\ s[i] \in F /\ s[j] \in F
          /\ r[i] = s[i].name /\ r[j] = s[j].name
      BY <2>9
    <3>2. r[i] = r[j] => i = j
      BY <2>6, <2>7, <3>1
    <3>3. Chinese(q) \subseteq Range(r[i])
      BY <2>6, <3>1
    <3>4. i < j => s[i] \in V /\ s[j] \in V /\ s[i].rank <= s[j].rank
      BY <2>5, <2>7, <3>1
    <3> QED
      BY <3>1, <3>2, <3>3, <3>4
  <2> QED
    BY <2>7, <2>10
<1> QED
  BY <1>1, <1>2

LEMMA AnswerComplete ==
  ASSUME NEW V, IsFiniteSet(V), StoreOk(trie, V), NEW q \in Text, NEW limit \in Nat,
         limit > Len(trie), limit > Cardinality(V), NEW r \in Query(q, limit),
         NEW l \in Spellings(map, q), l \in Text,
         NEW i \in DOMAIN trie, IsPrefix(l, trie[i].key),
         NEW x \in Range(trie[i].value), Chinese(q) \subseteq Range(x.name)
  PROVE  x.name \in Range(r)
<1> DEFINE letters == ConvertQuery(map, q)
           items == Collect(letters, limit)
           F == Filtered(items, Chinese(q))
<1>1. l \in Range(letters) /\ letters \in Seq(Text)
  BY MapType, ConvertType, SpellingsFound
<1>2. letters # << >>
  BY <1>1 DEF Range
<1>3. r \in FilterResult(items, Chinese(q), limit)
  BY <1>2, Zenon DEF Query
<1> HIDE DEF letters
<1>4. /\ items \in Seq(V)
      /\ \A k \in Range(letters) : \A j \in Under(trie, k) :
            Range(trie[j].value) \subseteq Range(items)
  BY <1>1, CollectProperties DEF CollectIs
<1>5. i \in Under(trie, l)
  BY UnderHasAll
<1>6. x \in Range(items)
  BY <1>1, <1>4, <1>5
<1> HIDE DEF items
<1>7. FilteredIs(items, Chinese(q)) /\ RankedIs(r, F, limit)
  BY <1>3, <1>4, FilteredProperties, RankedProperties
<1>8. PICK y \in F : y.name = x.name
  BY <1>6, <1>7 DEF FilteredIs
<1>9. Cardinality(F) < limit
  <2>1. Range(items) \subseteq V
    BY <1>4 DEF Range
  <2>2. F \subseteq V
    BY <1>7, <2>1 DEF FilteredIs
  <2> HIDE DEF F
  <2>3. IsFiniteSet(F) /\ Cardinality(F) <= Cardinality(V)
    BY <2>2, FS_Subset
  <2>4. Cardinality(F) \in Nat /\ Cardinality(V) \in Nat
    BY <2>3, FS_CardinalityType
  <2> QED
    BY <2>3, <2>4
<1> HIDE DEF F
<1> DEFINE n == Cardinality(F)
<1>10. PICK s \in [1 .. n -> F] :
         /\ Range(s) = F
         /\ DOMAIN r = 1 .. Len(r) /\ (limit > n => Len(r) = n)
         /\ \A k \in DOMAIN r : r[k] = s[k].name
  BY <1>7 DEF RankedIs
<1>11. DOMAIN r = 1 .. n
  <2>1. n \in Nat
    <3>1. IsFiniteSet(F)
      BY <1>7 DEF FilteredIs, F
    <3> QED
      BY <3>1, FS_CardinalityType
  <2> QED
    BY <1>9, <1>10, <2>1
<1> HIDE DEF n
<1>12. PICK k \in 1 .. n : s[k] = y
  BY <1>10 DEF Range
<1>13. r[k] = x.name /\ k \in DOMAIN r
  BY <1>8, <1>10, <1>11, <1>12
<1> QED
  BY <1>13 DEF Range

-----------------------------------------------------------------------------
(* What is indexed. *)

AddedIs(items, keys, item, V) ==
  /\ DOMAIN AddItem(items, keys, item) = DOMAIN items \cup Range(keys)
  /\ \A k \in DOMAIN items \cup Range(keys) : AddItem(items, keys, item)[k] \in Seq(V)
  /\ \A k \in DOMAIN items : Range(items[k]) \subseteq Range(AddItem(items, keys, item)[k])
  /\ \A k \in Range(keys) : item \in Range(AddItem(items, keys, item)[k])

LEMMA AddItemProperties ==
  ASSUME NEW V, NEW items, \A k \in DOMAIN items : items[k] \in Seq(V),
         NEW keys \in Seq(Text), NEW item \in V
  PROVE  AddedIs(items, keys, item, V)
<1> DEFINE old(k) == IF k \in DOMAIN items THEN items[k] ELSE << >>
           places(k) == {i \in DOMAIN keys : keys[i] = k}
           times(k) == Cardinality(places(k))
           copies(k) == [n \in 1 .. times(k) |-> item]
           D == DOMAIN items \cup Range(keys)
           new == AddItem(items, keys, item)
<1>1. new = [k \in D |-> Joined(old(k), copies(k))]
  BY Zenon DEF AddItem, Joined
<1>2. ASSUME NEW k PROVE IsFiniteSet(places(k)) /\ times(k) \in Nat
  <2>1. Len(keys) \in Nat /\ places(k) \subseteq 1 .. Len(keys)
    OBVIOUS
  <2>2. IsFiniteSet(1 .. Len(keys))
    BY <2>1, UpTo
  <2>3. IsFiniteSet(places(k))
    BY <2>1, <2>2, FS_Subset
  <2> QED
    BY <2>3, FS_CardinalityType
<1>3. ASSUME NEW k \in Range(keys) PROVE times(k) >= 1
  <2>1. places(k) # {}
    BY DEF Range
  <2>2. times(k) # 0
    BY <1>2, <2>1, FS_EmptySet
  <2>3. times(k) \in Nat
    BY <1>2
  <2> HIDE DEF times
  <2> QED
    BY <2>2, <2>3
<1> HIDE DEF times
<1>4. ASSUME NEW k \in D PROVE old(k) \in Seq(V) /\ copies(k) \in Seq(V)
  <2>1. old(k) \in Seq(V)
    OBVIOUS
  <2>2. copies(k) \in [1 .. times(k) -> V]
    OBVIOUS
  <2> HIDE DEF copies
  <2> QED
    BY <1>2, <2>1, <2>2, IsSeq
<1>5. ASSUME NEW k \in Range(keys) PROVE item \in Range(copies(k))
  <2>1. 1 \in 1 .. times(k)
    BY <1>2, <1>3
  <2>2. copies(k)[1] = item /\ 1 \in DOMAIN copies(k)
    BY <2>1
  <2> HIDE DEF copies
  <2> QED
    BY <2>2 DEF Range
<1> HIDE DEF copies
<1>6. ASSUME NEW k \in D
      PROVE  new[k] \in Seq(V) /\ Range(old(k)) \subseteq Range(new[k])
                               /\ Range(copies(k)) \subseteq Range(new[k])
  <2>1. new[k] = Joined(old(k), copies(k))
    BY <1>1
  <2> HIDE DEF old, new
  <2> QED
    BY <1>4, <2>1, JoinedProperties
<1>7. DOMAIN new = D
  BY <1>1
<1>8. \A k \in DOMAIN items : old(k) = items[k]
  OBVIOUS
<1> HIDE DEF old, new
<1> QED
  BY <1>5, <1>6, <1>7, <1>8 DEF AddedIs, new

-----------------------------------------------------------------------------
(* The inductive invariant: each item is under every key of its line, only  *)
(* items of the input are under a key, the records are those of the keys,   *)
(* and the answer is one that Query() may give to the request.              *)

Indexed ==
  \A i \in DOMAIN input : IsItem(input[i]) =>
    \A k \in Range(ConvertLine(map, input[i])) :
        k \in DOMAIN letterToItems /\ ItemOf(input[i]) \in Range(letterToItems[k])

Answered ==
  asked # NoRequest =>
    /\ phase = "built" /\ asked.query \in Text /\ asked.limit \in Nat
    /\ \/ answer = << >> /\ asked.query = << >>
       \/ answer \in Query(asked.query, asked.limit)

SuggestInv ==
  /\ input \in Seq(Lines)
  /\ DOMAIN letterToItems \subseteq Text /\ IsFiniteSet(DOMAIN letterToItems)
  /\ \A k \in DOMAIN letterToItems : letterToItems[k] \in Seq(Items)
  /\ Indexed
  /\ phase = "built" => trie = Records /\ Cardinality(DOMAIN letterToItems) >= 2
  /\ Answered

LEMMA InvInit == Init => SuggestInv
<1> SUFFICES ASSUME Init PROVE SuggestInv
  OBVIOUS
<1>1. /\ input = << >> /\ DOMAIN letterToItems = {} /\ phase = "reading"
      /\ asked = NoRequest
  BY DEF Init
<1>2. input \in Seq(Lines) /\ DOMAIN input = {}
  BY <1>1
<1>3. IsFiniteSet({})
  BY FS_EmptySet
<1> QED
  BY <1>1, <1>2, <1>3 DEF SuggestInv, Indexed, Answered

(* The lines read are strings, and the items are those of them. *)
LEMMA LinesAreTexts ==
  ASSUME input \in Seq(Lines)
  PROVE  /\ Len(input) \in Nat /\ DOMAIN input = 1 .. Len(input)
         /\ \A i \in DOMAIN input : input[i] \in Text
<1>1. Lines \subseteq Text
  BY StringsAssumption
<1>2. Len(input) \in Nat /\ DOMAIN input = 1 .. Len(input)
      /\ \A i \in DOMAIN input : input[i] \in Lines
  OBVIOUS
<1> QED
  BY <1>1, <1>2

LEMMA ItemsFinite ==
  ASSUME input \in Seq(Lines)
  PROVE  IsFiniteSet(Items) /\ Cardinality(Items) <= Len(input)
         /\ Cardinality(Items) \in Nat
<1> DEFINE S == {j \in DOMAIN input : IsItem(input[j])}
           f == [i \in S |-> ItemOf(input[i])]
<1>1. Len(input) \in Nat /\ S \subseteq 1 .. Len(input)
  BY LinesAreTexts
<1>2. f \in [S -> Items] /\ \A t \in Items : \E i \in S : f[i] = t
  BY DEF Items
<1>3. f \in Surjection(S, Items)
  <2> HIDE DEF f, S
  <2> QED
    BY <1>2, Fun_IsSurj
<1> HIDE DEF f, S
<1>4. IsFiniteSet(1 .. Len(input)) /\ Cardinality(1 .. Len(input)) = Len(input)
  BY <1>1, UpTo
<1>5. IsFiniteSet(S) /\ Cardinality(S) <= Len(input)
  BY <1>1, <1>4, FS_Subset
<1>6. IsFiniteSet(Items) /\ Cardinality(Items) <= Cardinality(S)
  BY <1>3, <1>5, FS_Surjection
<1>7. Cardinality(S) \in Nat /\ Cardinality(Items) \in Nat
  BY <1>5, <1>6, FS_CardinalityType
<1> QED
  BY <1>1, <1>5, <1>6, <1>7

LEMMA InvReadLine ==
  ASSUME SuggestInv, ReadLine
  PROVE  SuggestInv'
<1>1. PICK line \in Lines :
        /\ input' = Append(input, line)
        /\ letterToItems' =
             IF IsItem(line)
             THEN AddItem(letterToItems, ConvertLine(map, line), ItemOf(line))
             ELSE letterToItems
  BY DEF ReadLine
<1>2. phase = "reading" /\ phase' = "reading" /\ UNCHANGED << trie, asked, answer >>
  BY DEF ReadLine
<1>3. input \in Seq(Lines) /\ Len(input) \in Nat /\ DOMAIN input = 1 .. Len(input)
  BY LinesAreTexts DEF SuggestInv
<1> DEFINE n == Len(input)
<1>4. /\ input' \in Seq(Lines) /\ DOMAIN input' = 1 .. n + 1
      /\ input'[n + 1] = line /\ \A i \in 1 .. n : input'[i] = input[i]
  BY <1>1, <1>3
<1> HIDE DEF n
<1>5. Items \subseteq Items'
  <2> SUFFICES ASSUME NEW i \in DOMAIN input, IsItem(input[i])
               PROVE  ItemOf(input[i]) \in Items'
    BY DEF Items
  <2>1. i \in DOMAIN input' /\ input'[i] = input[i]
    BY <1>3, <1>4 DEF n
  <2>2. ItemOf(input'[i]) \in Items' /\ ItemOf(input'[i]) = ItemOf(input[i])
    BY <2>1 DEF Items
  <2> QED
    BY <2>2
<1>6. IsItem(line) => ItemOf(line) \in Items'
  <2>1. n + 1 \in DOMAIN input'
    BY <1>3, <1>4 DEF n
  <2> QED
    BY <1>4, <2>1 DEF Items
<1>7. \A k \in DOMAIN letterToItems : letterToItems[k] \in Seq(Items')
  BY <1>5, SeqOfMore DEF SuggestInv
<1>8. DOMAIN letterToItems \subseteq Text /\ IsFiniteSet(DOMAIN letterToItems)
  BY DEF SuggestInv
<1>9. line \in Text
  BY StringsAssumption
<1>10. Answered'
  BY <1>2 DEF SuggestInv, Answered
<1>11. CASE ~ IsItem(line)
  <2>1. letterToItems' = letterToItems
    BY <1>1, <1>11
  <2>2. Indexed'
    <3> SUFFICES ASSUME NEW i \in DOMAIN input', IsItem(input'[i]),
                        NEW k \in Range(ConvertLine(map, input'[i]))
                 PROVE  k \in DOMAIN letterToItems /\ ItemOf(input'[i]) \in Range(letterToItems[k])
      BY <2>1 DEF Indexed
    <3>1. i # n + 1
      BY <1>4, <1>11
    <3>2. i \in DOMAIN input /\ input'[i] = input[i]
      BY <1>3, <1>4, <3>1 DEF n
    <3> QED
      BY <3>2 DEF SuggestInv, Indexed
  <2> QED
    BY <1>2, <1>4, <1>7, <1>8, <1>10, <2>1, <2>2 DEF SuggestInv
<1>12. CASE IsItem(line)
  <2> DEFINE keys == ConvertLine(map, line)
             item == ItemOf(line)
             new == AddItem(letterToItems, keys, item)
  <2>1. letterToItems' = new
    BY <1>1, <1>12
  <2>2. keys \in Seq(Text)
    BY <1>9, MapType, ConvertType
  <2>3. item \in Items'
    BY <1>6, <1>12
  <2> HIDE DEF keys, item
  <2>4. AddedIs(letterToItems, keys, item, Items')
    BY <1>7, <2>2, <2>3, AddItemProperties
  <2> HIDE DEF new
  <2>5. /\ DOMAIN letterToItems' = DOMAIN letterToItems \cup Range(keys)
        /\ \A k \in DOMAIN letterToItems' : letterToItems'[k] \in Seq(Items')
        /\ \A k \in DOMAIN letterToItems : Range(letterToItems[k]) \subseteq Range(letterToItems'[k])
        /\ \A k \in Range(keys) : item \in Range(letterToItems'[k])
    BY <2>1, <2>4 DEF AddedIs, new
  <2>6. DOMAIN letterToItems' \subseteq Text /\ IsFiniteSet(DOMAIN letterToItems')
    <3>1. Range(keys) \subseteq Text
      BY <2>2 DEF Range
    <3>2. IsFiniteSet(Range(keys))
      BY <2>2, RangeFinite
    <3> QED
      BY <1>8, <2>5, <3>1, <3>2, FS_Union
  <2>7. Indexed'
    <3> SUFFICES ASSUME NEW i \in DOMAIN input', IsItem(input'[i]),
                        NEW k \in Range(ConvertLine(map, input'[i]))
                 PROVE  k \in DOMAIN letterToItems'
                        /\ ItemOf(input'[i]) \in Range(letterToItems'[k])
      BY DEF Indexed
    <3>1. CASE i = n + 1
      <4>1. input'[i] = line
        BY <1>4, <3>1
      <4>2. k \in Range(keys) /\ ItemOf(input'[i]) = item
        BY <4>1 DEF keys, item
      <4> QED
        BY <2>5, <4>2
    <3>2. CASE i # n + 1
      <4>1. i \in DOMAIN input /\ input'[i] = input[i]
        BY <1>3, <1>4, <3>2 DEF n
      <4>2. k \in DOMAIN letterToItems /\ ItemOf(input[i]) \in Range(letterToItems[k])
        BY <4>1 DEF SuggestInv, Indexed
      <4> QED
        BY <2>5, <4>1, <4>2
    <3> QED
      BY <3>1, <3>2
  <2> QED
    BY <1>2, <1>4, <1>10, <2>5, <2>6, <2>7 DEF SuggestInv
<1> QED
  BY <1>11, <1>12

LEMMA InvCreateIndex ==
  ASSUME SuggestInv, CreateIndex
  PROVE  SuggestInv'
<1>1. /\ phase = "reading" /\ UNCHANGED << input, letterToItems, asked, answer >>
      /\ phase' = "built" => trie' = Records /\ ~ (Cardinality(DOMAIN letterToItems) < 2)
  BY DEF CreateIndex
<1>2. asked = NoRequest
  BY <1>1 DEF SuggestInv, Answered
<1>3. Answered'
  BY <1>1, <1>2 DEF Answered
<1>4. Items' = Items /\ Records' = Records
  BY <1>1 DEF Items, Records
<1>5. Indexed'
  BY <1>1 DEF SuggestInv, Indexed
<1>6. Cardinality(DOMAIN letterToItems) \in Nat
  BY FS_CardinalityType DEF SuggestInv
<1>7. phase' = "built" => trie' = Records' /\ Cardinality(DOMAIN letterToItems') >= 2
  BY <1>1, <1>4, <1>6
<1>8. /\ input' \in Seq(Lines)
      /\ DOMAIN letterToItems' \subseteq Text /\ IsFiniteSet(DOMAIN letterToItems')
      /\ \A k \in DOMAIN letterToItems' : letterToItems'[k] \in Seq(Items')
  BY <1>1, <1>4 DEF SuggestInv
<1> QED
  BY <1>3, <1>5, <1>7, <1>8 DEF SuggestInv

(* trim() makes a string of a string. *)
LEMMA TrimType ==
  ASSUME NEW s \in Text, NEW seps
  PROVE  Trim(s, seps) \in Text
<1> DEFINE kept == {i \in DOMAIN s : s[i] \notin seps}
<1>1. s \in Seq(Character) /\ Len(s) \in Nat /\ DOMAIN s = 1 .. Len(s)
  BY DEF Text
<1>2. Trim(s, seps) = IF kept = {} THEN << >> ELSE SubSeq(s, Min(kept), Max(kept))
  BY Zenon DEF Trim
<1>3. kept \in SUBSET Nat /\ kept \in SUBSET (0 .. Len(s)) /\ kept \subseteq 1 .. Len(s)
  BY <1>1
<1> HIDE DEF kept
<1>4. CASE kept = {}
  BY <1>2, <1>4 DEF Text
<1>5. CASE kept # {}
  <2> DEFINE low == Min(kept)
             high == Max(kept)
  <2>1. low \in kept
    BY <1>3, <1>5, MinExists
  <2>2. high \in kept
    BY <1>1, <1>3, <1>5, MaxExists
  <2> HIDE DEF low, high
  <2>3. low \in Int /\ high \in Int /\ low .. high \subseteq 1 .. Len(s)
    BY <1>1, <1>3, <2>1, <2>2
  <2>4. \A i \in low .. high : s[i] \in Character
    BY <1>1, <2>3
  <2>5. SubSeq(s, low, high) \in Seq(Character)
    BY <2>3, <2>4, SubSeqProperties
  <2> QED
    BY <1>2, <1>5, <2>5 DEF low, high, Text
<1> QED
  BY <1>4, <1>5

LEMMA InvGet ==
  ASSUME SuggestInv, Get
  PROVE  SuggestInv'
<1>1. PICK line \in Queries, limit \in Limits :
        /\ asked' = [query |-> Trim(line, {Tab}), limit |-> limit]
        /\ answer' \in IF line = << >> THEN {<< >>} ELSE Query(asked'.query, limit)
  BY DEF Get
<1>2. phase = "built" /\ UNCHANGED << phase, input, letterToItems, trie >>
  BY DEF Get
<1>3. line \in Text /\ limit \in Nat
  BY StringsAssumption, LimitsAssumption
<1>4. asked'.query = Trim(line, {Tab}) /\ asked'.limit = limit
  BY <1>1
<1>5. asked'.query \in Text
  BY <1>3, <1>4, TrimType
<1>6. answer' \in Query(asked'.query, limit) => (answer \in Query(asked.query, asked.limit))'
  BY <1>2, <1>4 DEF Query, FilterResult, Collect
<1>7. \/ answer' = << >> /\ asked'.query = << >>
      \/ (answer \in Query(asked.query, asked.limit))'
  <2>1. CASE line = << >>
    <3>1. answer' = << >>
      BY <1>1, <2>1
    <3>2. Trim(line, {Tab}) = << >>
      <4>1. {i \in DOMAIN line : line[i] \notin {Tab}} = {}
        BY <2>1
      <4> QED
        BY <4>1 DEF Trim
    <3> QED
      BY <1>4, <3>1, <3>2
  <2>2. CASE line # << >>
    BY <1>1, <1>6, <2>2
  <2> QED
    BY <2>1, <2>2
<1>8. Answered'
  BY <1>2, <1>3, <1>4, <1>5, <1>7 DEF Answered
<1>9. Items' = Items /\ Records' = Records
  BY <1>2 DEF Items, Records
<1>10. Indexed'
  BY <1>2 DEF SuggestInv, Indexed
<1>11. /\ input' \in Seq(Lines)
       /\ DOMAIN letterToItems' \subseteq Text /\ IsFiniteSet(DOMAIN letterToItems')
       /\ \A k \in DOMAIN letterToItems' : letterToItems'[k] \in Seq(Items')
       /\ phase' = "built" => trie' = Records' /\ Cardinality(DOMAIN letterToItems') >= 2
  BY <1>2, <1>9 DEF SuggestInv
<1> QED
  BY <1>8, <1>10, <1>11 DEF SuggestInv

LEMMA InvStutter ==
  ASSUME SuggestInv, UNCHANGED vars
  PROVE  SuggestInv'
<1>1. UNCHANGED << phase, input, letterToItems, trie, asked, answer >>
  BY DEF vars
<1>2. Items' = Items /\ Records' = Records
  BY <1>1 DEF Items, Records
<1>3. Indexed'
  BY <1>1 DEF SuggestInv, Indexed
<1>4. (answer \in Query(asked.query, asked.limit))' <=> answer \in Query(asked.query, asked.limit)
  BY <1>1 DEF Query, FilterResult, Collect
<1>5. Answered'
  BY <1>1, <1>4 DEF SuggestInv, Answered
<1>6. /\ input' \in Seq(Lines)
      /\ DOMAIN letterToItems' \subseteq Text /\ IsFiniteSet(DOMAIN letterToItems')
      /\ \A k \in DOMAIN letterToItems' : letterToItems'[k] \in Seq(Items')
      /\ phase' = "built" => trie' = Records' /\ Cardinality(DOMAIN letterToItems') >= 2
  BY <1>1, <1>2 DEF SuggestInv
<1> QED
  BY <1>3, <1>5, <1>6 DEF SuggestInv

(* Every step of the indexer and of the server keeps the invariant. *)
THEOREM SuggestInductive == Spec => []SuggestInv
<1>1. Init => SuggestInv
  BY InvInit
<1>2. SuggestInv /\ [Next]_vars => SuggestInv'
  <2> SUFFICES ASSUME SuggestInv, [Next]_vars PROVE SuggestInv'
    OBVIOUS
  <2>1. CASE ReadLine
    BY <2>1, InvReadLine
  <2>2. CASE CreateIndex
    BY <2>2, InvCreateIndex
  <2>3. CASE Get
    BY <2>3, InvGet
  <2>4. CASE UNCHANGED vars
    BY <2>4, InvStutter
  <2> QED
    BY <2>1, <2>2, <2>3, <2>4 DEF Next
<1> QED
  BY <1>1, <1>2, PTL DEF Spec

-----------------------------------------------------------------------------
(* The theorems. *)

LEMMA StoreBuilt ==
  ASSUME SuggestInv, phase = "built"
  PROVE  StoreOk(trie, Items) /\ RecordsAre(Items) /\ trie = Records
<1>1. /\ DOMAIN letterToItems \subseteq Text /\ IsFiniteSet(DOMAIN letterToItems)
      /\ \A k \in DOMAIN letterToItems : letterToItems[k] \in Seq(Items)
      /\ trie = Records /\ Cardinality(DOMAIN letterToItems) >= 2
  BY DEF SuggestInv
<1>2. RecordsAre(Items)
  BY <1>1, RecordsProperties
<1> QED
  BY <1>1, <1>2 DEF RecordsAre, StoreOk

(* filter_result() and Query() (src/server/prefixmatch.cpp): the names in   *)
(* an answer are different, at most max_depth of them, each has all the     *)
(* Chinese characters of the query, and their items are in order of rank,   *)
(* whatever the lines of both files and the requests are.                   *)
THEOREM InOrder == Spec => []SuggestionsInOrder
<1>1. SuggestInv => SuggestionsInOrder
  <2> SUFFICES ASSUME SuggestInv, asked # NoRequest
               PROVE  /\ Len(answer) <= asked.limit
                      /\ \A i, j \in DOMAIN answer :
                           /\ answer[i] = answer[j] => i = j
                           /\ Chinese(asked.query) \subseteq Range(answer[i])
                           /\ i < j => \E a, b \in Items :
                                a.name = answer[i] /\ b.name = answer[j] /\ a.rank <= b.rank
    BY Zenon DEF SuggestionsInOrder
  <2>1. /\ phase = "built" /\ asked.query \in Text /\ asked.limit \in Nat
        /\ \/ answer = << >> /\ asked.query = << >>
           \/ answer \in Query(asked.query, asked.limit)
    BY DEF SuggestInv, Answered
  <2>2. CASE answer = << >>
    <3>1. Len(answer) = 0 /\ DOMAIN answer = {}
      BY <2>2
    <3> QED
      BY <2>1, <3>1
  <2>3. CASE answer \in Query(asked.query, asked.limit)
    <3>1. StoreOk(trie, Items)
      BY <2>1, StoreBuilt
    <3> QED
      BY <2>1, <2>3, <3>1, AnswerInOrder
  <2> QED
    BY <2>1, <2>2, <2>3
<1> QED
  BY <1>1, SuggestInductive, PTL

(* create_index() (src/indexer/indexer.cpp) and Query(): no name is missed  *)
(* one of whose keys, the greatest of the trie excepted, begins with a     *)
(* reading of the query, when max_depth leaves room for all and the name    *)
(* has the Chinese characters of the query, whatever the lines of both      *)
(* files and the requests are.                                              *)
THEOREM NoneMissed == Spec => []NoSuggestionMissed
<1>1. SuggestInv => NoSuggestionMissed
  <2> SUFFICES ASSUME SuggestInv, phase = "built", asked.query # << >>,
                      asked.limit > Len(trie), asked.limit > Len(input),
                      NEW i \in DOMAIN input, IsItem(input[i]),
                      Chinese(asked.query) \subseteq Range(ItemOf(input[i]).name),
                      NEW key \in KeysOf(input[i]) \ {Greatest},
                      NEW l \in Spellings(map, asked.query), IsPrefix(l, key)
               PROVE  ItemOf(input[i]).name \in Range(answer)
    BY Zenon DEF NoSuggestionMissed
  <2> DEFINE item == ItemOf(input[i])
  <2>1. asked.query \in Text /\ asked.limit \in Nat
        /\ answer \in Query(asked.query, asked.limit)
    BY DEF SuggestInv, Answered, NoRequest
  <2>2. StoreOk(trie, Items) /\ RecordsAre(Items) /\ trie = Records
    BY StoreBuilt
  <2>3. input \in Seq(Lines) /\ input[i] \in Text
    BY LinesAreTexts DEF SuggestInv
  <2>4. key \in Range(ConvertLine(map, input[i]))
    BY <2>3, MapType, SpellingsFound DEF KeysOf
  <2>5. key \in DOMAIN letterToItems /\ item \in Range(letterToItems[key])
    BY <2>4 DEF SuggestInv, Indexed
  <2>6. PICK n \in DOMAIN trie : trie[n].key = key /\ trie[n].value = letterToItems[key]
    BY <2>2, <2>5 DEF RecordsAre
  <2>7. l \in Text
    <3>1. l \in Range(ConvertQuery(map, asked.query))
      BY <2>1, MapType, SpellingsFound
    <3>2. ConvertQuery(map, asked.query) \in Seq(Text)
      BY <2>1, MapType, ConvertType
    <3> QED
      BY <3>1, <3>2 DEF Range
  <2>8. IsFiniteSet(Items) /\ asked.limit > Cardinality(Items)
    <3>1. IsFiniteSet(Items) /\ Cardinality(Items) <= Len(input)
          /\ Cardinality(Items) \in Nat /\ Len(input) \in Nat
      BY <2>3, ItemsFinite, LinesAreTexts
    <3> QED
      BY <2>1, <3>1
  <2>9. item \in Range(trie[n].value) /\ IsPrefix(l, trie[n].key)
    BY <2>5, <2>6
  <2> HIDE DEF item
  <2>10. Chinese(asked.query) \subseteq Range(item.name)
    BY DEF item
  <2>11. item.name \in Range(answer)
    BY <2>1, <2>2, <2>7, <2>8, <2>9, <2>10, AnswerComplete
  <2> QED
    BY <2>11 DEF item
<1> QED
  BY <1>1, SuggestInductive, PTL

-----------------------------------------------------------------------------
(***************************************************************************)
(* The builder of the trie, for any inputs and any alphabet.               *)
(***************************************************************************)

(* What a call of arrange() knows about its records. *)
RecordsTyped(rs) == rs \in Seq([key : Seq(Chars \ {0}), value : Int]) /\ rs # <<>>

Child == [c : Chars, offset : Nat \ {0}, first : Nat, last : Nat]
FrameType == [p : Nat, first : Nat, last : Nat, children : Seq(Child), base : Nat, child : Nat]

(* The keys of the records first .. last - 1 agree before position p. *)
Agreeing(rs, p, first, last) ==
  /\ \A i \in first .. last - 1 : p <= Len(rs[i].key)
  /\ \A i, j \in first .. last - 1 : \A q \in 0 .. p - 1 :
        CharAt(rs[i].key, q) = CharAt(rs[j].key, q)

(* The children of these records divide them by their characters at p.     *)
ChildrenFit(rs, t, ch, p, first, last) ==
  /\ ch \in Seq(Child) /\ Len(ch) \in Nat \ {0}
  /\ ch[1].first = first /\ ch[Len(ch)].last = last
  /\ \A n \in 1 .. Len(ch) :
       /\ ch[n].offset = t[ch[n].c] + 1
       /\ first <= ch[n].first /\ ch[n].first < ch[n].last /\ ch[n].last <= last
       /\ \A i \in ch[n].first .. ch[n].last - 1 : CharAt(rs[i].key, p) = ch[n].c
  /\ \A n \in 1 .. Len(ch) - 1 :
       /\ ch[n].last = ch[n + 1].first
       /\ ch[n].c # ch[n + 1].c

ChildrenAscend(ch) == \A n, m \in 1 .. Len(ch) : n < m => ch[n].c < ch[m].c
ChildrenDiffer(ch) == \A n, m \in 1 .. Len(ch) : n # m => ch[n].offset # ch[m].offset

(* The calls of arrange(), the one by build() first. *)
CallOf(s, d) == s[Len(s) + 1 - d]
Call(d) == CallOf(stack, d)
Depth == Len(stack)

Working == pc \in {"arrange", "search", "reserve", "children", "return"}

(* The children of a call are listed. *)
Listed(rs, t, f) ==
  /\ f.first + 1 < f.last
  /\ ChildrenFit(rs, t, f.children, f.p, f.first, f.last)
  /\ ChildrenAscend(f.children) /\ ChildrenDiffer(f.children)

Ranged(rs, f) ==
  /\ 1 <= f.first /\ f.first < f.last /\ f.last <= Len(rs) + 1
  /\ Agreeing(rs, f.p, f.first, f.last)

(* A caller and the call for its child. *)
Calls(rs, t, f, g) ==
  /\ Listed(rs, t, f) /\ f.child \in 1 .. Len(f.children)
  /\ LET child == f.children[f.child]
     IN  /\ ~Duplicates(child)
         /\ g.first = child.first /\ g.last = child.last
         /\ g.p = f.p + (IF child.c = 0 THEN 0 ELSE 1)

StackOk(rs, t, s) ==
  /\ s \in Seq(FrameType) /\ s # <<>>
  /\ CallOf(s, 1).p = 0 /\ CallOf(s, 1).first = 1 /\ CallOf(s, 1).last = Len(rs) + 1
  /\ \A d \in 1 .. Len(s) : Ranged(rs, CallOf(s, d))
  /\ \A d \in 1 .. Len(s) - 1 : Calls(rs, t, CallOf(s, d), CallOf(s, d + 1))

(* The innermost call, at each place of arrange(). *)
Started(f) == f.children = <<>> /\ f.child = 1
Searching(rs, t, f) == Listed(rs, t, f) /\ f.child = 1
Filling(rs, t, f) == Listed(rs, t, f) /\ f.child \in 1 .. Len(f.children) + 1
Returning(rs, t, f, r) ==
  \/ f.first + 1 = f.last /\ f.children = <<>> /\ r < 0
  \/ Listed(rs, t, f) /\ f.child = Len(f.children) + 1 /\ r = f.base

InnerCall ==
  /\ pc = "arrange" => Started(Top)
  /\ pc \in {"search", "reserve"} => Searching(recs, table, Top)
  /\ pc = "children" => Filling(recs, table, Top)
  /\ pc = "return" => Returning(recs, table, Top, ret)

TableOk(t) == t \in [Chars -> Chars] /\ \A c, d \in Chars : t[c] = t[d] => c = d

CallsInv ==
  /\ pc \in {"idle", "arrange", "search", "reserve", "children", "return", "built", "thrown"}
  /\ TableOk(table)
  /\ tail \in Seq(Int) /\ ret \in Int
  /\ Working =>
      /\ RecordsTyped(recs) /\ tail # <<>>
      /\ StackOk(recs, table, stack)
      /\ InnerCall

-----------------------------------------------------------------------------
(* The last record that is known to come after the one before. *)
Reached ==
  IF pc = "children" /\ Top.child <= Len(Top.children) THEN Top.children[Top.child].first
  ELSE IF pc \in {"children", "return"} THEN Top.last - 1
  ELSE Top.first

InOrderUpTo(rs, n) == \A i \in 1 .. n - 1 : Before(rs[i].key, rs[i + 1].key)

OrderInv ==
  /\ Working => InOrderUpTo(recs, Reached)
  /\ OnlySortedBuilt
  /\ SortedRefusedForSpace

-----------------------------------------------------------------------------
(* The vacant elements V of a list l of n elements are linked in order. *)
Linked(l, n, V) ==
  /\ n \in Nat \ {0, 1}
  /\ V \subseteq 1 .. n - 1 /\ n - 1 \in V
  /\ l \in [0 .. n - 1 -> [prev : 0 .. n - 1, next : Nat]]
  /\ l[0].prev = n - 1 /\ l[n - 1].next = n
  /\ \A i \in (V \cup {0}) \ {n - 1} :
        /\ l[i].next \in V /\ i < l[i].next
        /\ \A j \in V : i < j => l[i].next <= j
        /\ l[l[i].next].prev = i

Taken(d) == {i \in DOMAIN d : d[i].base # 0}
Vacant(d, l) == {i \in DOMAIN l \ {0} : i \notin Taken(d)}

DaOk(d) ==
  /\ Size(d) \in Nat /\ Size(d) >= 2
  /\ d \in [0 .. Size(d) - 1 -> [base : Int, check : Int]]
  /\ d[0].base = 0

CellOf(f, k) == f.base + f.children[k].offset
OpenOf(f) == {k \in 1 .. Len(f.children) : f.child <= k}

ListInv ==
  /\ pc = "idle" => elink = <<>>
  /\ pc # "idle" =>
       /\ Linked(elink, Size(elink), Vacant(da, elink))
       /\ DaOk(da) /\ Size(da) <= Size(elink)
  /\ pc = "search" =>
       index \in Vacant(da, elink) \cup {0} \/ (index \in Nat /\ index >= Size(elink))
  /\ pc = "reserve" =>
       /\ Top.base >= 1 /\ Top.base \notin used
       /\ \A k \in 1 .. Len(Top.children) : CellOf(Top, k) \in Vacant(da, elink) \cap DOMAIN da

(* The calls that have reserved the elements of their children. *)
Expanded == IF pc \in {"children", "return"} THEN Depth ELSE Depth - 1

(* Each of the first e calls of s has elements of its own for its children. *)
CellsOk(s, e, T) ==
  /\ INITIAL_INDEX \in T
  /\ \A d \in 1 .. e : \A k \in OpenOf(CallOf(s, d)) :
        /\ CallOf(s, d).base >= 1
        /\ CellOf(CallOf(s, d), k) \in T
        /\ \A c \in 1 .. e : \A m \in OpenOf(CallOf(s, c)) :
              CellOf(CallOf(s, d), k) = CellOf(CallOf(s, c), m) => d = c /\ k = m
  /\ \A d \in 1 .. e : CallOf(s, d).children # <<>> => CallOf(s, d).base >= 1

CellsInv == Working => CellsOk(stack, Expanded, Taken(da))

(* Elements that wait for their BASE and CHECK, and those that have got them. *)
Awaited(s, e) ==
  {INITIAL_INDEX} \cup
    UNION {{CellOf(CallOf(s, d), k) : k \in OpenOf(CallOf(s, d))} : d \in 1 .. e}
Placed(d, s, e) == Taken(d) \ Awaited(s, e)

BasesOk(s, e, d, P, u) ==
  /\ \A i, j \in P : d[i].base > 0 /\ d[i].base = d[j].base => i = j
  /\ \A i \in P : d[i].base > 0 => d[i].base \in u
  /\ \A c \in 1 .. e : CallOf(s, c).children # <<>> =>
       /\ CallOf(s, c).base \in u
       /\ \A i \in P : d[i].base # CallOf(s, c).base
       /\ \A b \in 1 .. e : CallOf(s, b).children # <<>> /\ CallOf(s, b).base = CallOf(s, c).base => b = c

BasesInv ==
  /\ Working => BasesOk(stack, Expanded, da, Placed(da, stack, Expanded), used)
  /\ BasesDistinct

Leaves ==
  IF pc = "return" \/ (pc = "children" /\ Top.child > Len(Top.children)) THEN Top.last - 1
  ELSE Reached - 1

CountInv ==
  /\ stat \in [nodes : Nat, leaves : Nat, used : Nat]
  /\ Working =>
      /\ Cardinality(Placed(da, stack, Expanded)) =
            stat.nodes + stat.leaves - (IF pc = "return" THEN 1 ELSE 0)
      /\ stat.leaves = Leaves
  /\ ElementsAddUp

-----------------------------------------------------------------------------
(* The stack of calls: one more, another innermost one, one less. *)

(* The calls of a stack, and the innermost one. *)
LEMMA StackCalls ==
  ASSUME NEW S, NEW s \in Seq(S), s # <<>>
  PROVE  /\ Len(s) \in Nat \ {0} /\ Head(s) = s[1] /\ Head(s) \in S
         /\ CallOf(s, Len(s)) = Head(s)
         /\ \A d \in 1 .. Len(s) : CallOf(s, d) \in S
<1>1. Len(s) \in Nat \ {0} /\ Head(s) = s[1] /\ \A d \in 1 .. Len(s) : s[d] \in S
  OBVIOUS
<1>2. \A d \in 1 .. Len(s) : Len(s) + 1 - d \in 1 .. Len(s)
  BY <1>1
<1>3. Len(s) + 1 - Len(s) = 1 /\ 1 \in 1 .. Len(s)
  BY <1>1
<1> QED
  BY <1>1, <1>2, <1>3 DEF CallOf

Pushed(f, s) == <<f>> \o s

(* The calls of t are those of s, and f. *)
OneMore(S, t, s, f) ==
  /\ t \in Seq(S) /\ t # <<>> /\ Len(t) = Len(s) + 1 /\ Head(t) = f
  /\ CallOf(t, Len(s) + 1) = f
  /\ \A d \in 1 .. Len(s) : CallOf(t, d) = CallOf(s, d)

(* A call more. *)
LEMMA CallPushed ==
  ASSUME NEW S, NEW s \in Seq(S), NEW f \in S
  PROVE  OneMore(S, Pushed(f, s), s, f)
<1> DEFINE t == Pushed(f, s)
<1>1. Len(s) \in Nat
  OBVIOUS
<1>2. t \in Seq(S) /\ Len(t) = Len(s) + 1 /\ t[1] = f
  BY DEF Pushed
<1>3. \A i \in 1 .. Len(s) : t[i + 1] = s[i]
  BY DEF Pushed
<1>4. \A d \in 1 .. Len(s) : /\ Len(s) + 1 - d \in 1 .. Len(s)
                             /\ (Len(s) + 1) + 1 - d = (Len(s) + 1 - d) + 1
  BY <1>1
<1>5. t # <<>> /\ Head(t) = f
  BY <1>1, <1>2
<1>6. (Len(s) + 1) + 1 - (Len(s) + 1) = 1
  BY <1>1
<1> QED
  BY <1>2, <1>3, <1>4, <1>5, <1>6 DEF CallOf, OneMore

SameButTop(S, t, s, f) ==
  /\ t \in Seq(S) /\ t # <<>> /\ Len(t) = Len(s) /\ Head(t) = f
  /\ CallOf(t, Len(s)) = f
  /\ \A d \in 1 .. Len(s) - 1 : CallOf(t, d) = CallOf(s, d)

(* Another innermost call. *)
LEMMA CallReplaced ==
  ASSUME NEW S, NEW s \in Seq(S), s # <<>>, NEW f \in S
  PROVE  SameButTop(S, [s EXCEPT ![1] = f], s, f)
<1> DEFINE t == [s EXCEPT ![1] = f]
<1>1. Len(s) \in Nat \ {0}
  OBVIOUS
<1>2. t \in Seq(S) /\ Len(t) = Len(s) /\ t[1] = f
  BY <1>1
<1>3. \A i \in 1 .. Len(s) : i # 1 => t[i] = s[i]
  OBVIOUS
<1>4. \A d \in 1 .. Len(s) - 1 : Len(s) + 1 - d \in 1 .. Len(s) /\ Len(s) + 1 - d # 1
  BY <1>1
<1>5. t # <<>> /\ Head(t) = f
  BY <1>1, <1>2
<1>6. Len(s) + 1 - Len(s) = 1
  BY <1>1
<1> QED
  BY <1>2, <1>3, <1>4, <1>5, <1>6 DEF CallOf, SameButTop

OneLess(S, t, s, f) ==
  /\ t \in Seq(S) /\ t # <<>> /\ Len(t) = Len(s) - 1 /\ Head(t) = f
  /\ CallOf(t, Len(s) - 1) = f
  /\ s[2] = CallOf(s, Len(s) - 1) /\ s[2] \in S
  /\ \A d \in 1 .. Len(s) - 2 : CallOf(t, d) = CallOf(s, d)

(* The innermost call is gone, and its caller has changed. *)
LEMMA CallPopped ==
  ASSUME NEW S, NEW s \in Seq(S), Len(s) > 1, NEW f \in S,
         NEW u, u = SubSeq(s, 3, Len(s))
  PROVE  OneLess(S, Pushed(f, u), s, f)
<1> DEFINE t == Pushed(f, u)
<1>1. Len(s) \in Nat /\ Len(s) >= 2
  OBVIOUS
<1>2. u \in Seq(S) /\ Len(u) = Len(s) - 2 /\ \A i \in 1 .. Len(s) - 2 : u[i] = s[i + 2]
  <2>1. \A i \in 3 .. Len(s) : s[i] \in S
    <3>1. \A i \in 1 .. Len(s) : s[i] \in S
      OBVIOUS
    <3>2. \A i \in 3 .. Len(s) : i \in 1 .. Len(s)
      BY <1>1
    <3> QED
      BY <3>1, <3>2
  <2>2. 3 \in Int /\ Len(s) \in Int
    BY <1>1
  <2>3. /\ u \in Seq(S) /\ Len(u) = IF 3 <= Len(s) THEN Len(s) - 3 + 1 ELSE 0
        /\ \A i \in 1 .. Len(s) - 3 + 1 : u[i] = s[3 + i - 1]
    BY <2>1, <2>2, SubSeqProperties
  <2> DEFINE n == Len(s)
  <2>4. (IF 3 <= n THEN n - 3 + 1 ELSE 0) = n - 2 /\ n - 3 + 1 = n - 2
    <3>1. n \in Nat /\ n >= 2
      BY <1>1
    <3>2. n = 2 \/ 3 <= n
      <4> HIDE DEF n
      <4> QED
        BY <3>1
    <3> HIDE DEF n
    <3> QED
      BY <3>1, <3>2
  <2>5. \A i \in 1 .. Len(s) - 2 : 3 + i - 1 = i + 2
    BY <1>1
  <2> QED
    BY <2>3, <2>4, <2>5
<1>4. /\ t \in Seq(S) /\ t # <<>> /\ Len(t) = Len(u) + 1 /\ Head(t) = f
      /\ CallOf(t, Len(u) + 1) = f
      /\ \A d \in 1 .. Len(u) : CallOf(t, d) = CallOf(u, d)
  <2>1. u \in Seq(S)
    BY <1>2
  <2>2. OneMore(S, t, u, f)
    BY <2>1, CallPushed
  <2> QED
    BY <2>2 DEF OneMore
<1>5. \A d \in 1 .. Len(s) - 2 : CallOf(u, d) = CallOf(s, d)
  <2>1. \A d \in 1 .. Len(s) - 2 : /\ (Len(s) - 2) + 1 - d \in 1 .. Len(s) - 2
                                   /\ ((Len(s) - 2) + 1 - d) + 2 = Len(s) + 1 - d
    BY <1>1
  <2> QED
    BY <1>2, <2>1 DEF CallOf
<1>6. s[2] = CallOf(s, Len(s) - 1) /\ s[2] \in S
  <2>1. Len(s) + 1 - (Len(s) - 1) = 2 /\ 2 \in 1 .. Len(s)
    BY <1>1
  <2> QED
    BY <2>1 DEF CallOf
<1>7. Len(u) + 1 = Len(s) - 1
  BY <1>1, <1>2
<1> QED
  BY <1>2, <1>4, <1>5, <1>6, <1>7 DEF OneLess

-----------------------------------------------------------------------------
(* Keys and characters. *)

(* Characters of keys are in the alphabet, and NUL ends a key. *)
LEMMA CharType ==
  ASSUME RecordsTyped(recs), NEW i \in 1 .. Len(recs), NEW p \in Nat
  PROVE  /\ recs[i].key \in Seq(Chars \ {0}) /\ Len(recs[i].key) \in Nat
         /\ recs[i].value \in Int
         /\ CharAt(recs[i].key, p) \in Chars
         /\ CharAt(recs[i].key, p) = 0 <=> ~ (p < Len(recs[i].key))
<1>1. recs[i].key \in Seq(Chars \ {0}) /\ Len(recs[i].key) \in Nat /\ recs[i].value \in Int
  <2> DEFINE R == [key : Seq(Chars \ {0}), value : Int]
  <2>1. recs[i] \in R
    <3>1. recs \in Seq(R)
      BY DEF RecordsTyped
    <3> HIDE DEF R
    <3> QED
      BY <3>1
  <2> QED
    BY <2>1
<1>2. 0 \in Chars
  BY NumCharsAssumption DEF Chars
<1>3. p < Len(recs[i].key) => recs[i].key[p + 1] \in Chars \ {0}
  BY <1>1
<1> QED
  BY <1>1, <1>2, <1>3 DEF CharAt

(* The loop of arrange() over the records lists the children of a node. *)
LEMMA ChildrenListed ==
  ASSUME RecordsTyped(recs), table \in [Chars -> Chars], NEW p \in Nat,
         NEW first \in Nat, NEW last \in Nat, 1 <= first, first < last, last <= Len(recs) + 1
  PROVE  ChildrenFit(recs, table, ChildrenOf(p, first, last), p, first, last)
<1> DEFINE at(i) == CharAt(recs[i].key, p)
           starts == {i \in first .. last - 1 : i = first \/ at(i - 1) # at(i)}
           count == Cardinality(starts)
           below == [i \in starts |-> {j \in starts : j < i}]
           place(n) == {i \in starts : Cardinality({j \in starts : j < i}) = n - 1}
           start(n) == CHOOSE i \in starts : Cardinality({j \in starts : j < i}) = n - 1
           child(n) == [c |-> at(start(n)), offset |-> table[at(start(n))] + 1,
                        first |-> start(n),
                        last |-> IF n = count THEN last ELSE start(n + 1)]
           ch == ChildrenOf(p, first, last)
<1>1. ch = [n \in 1 .. count |-> child(n)]
  BY DEF ChildrenOf
<1>2. \A i \in first .. last - 1 : at(i) \in Chars /\ i \in Nat
  <2>1. Len(recs) \in Nat
    BY DEF RecordsTyped
  <2>2. ASSUME NEW i \in first .. last - 1 PROVE i \in 1 .. Len(recs) /\ i \in Nat
    BY <2>1
  <2> QED
    BY <2>2, CharType
<1>3. starts \in SUBSET Nat /\ first \in starts /\ \A i \in starts : first <= i /\ i < last
  OBVIOUS
<1>4. IsFiniteSet(starts) /\ count \in Nat
  <2>1. IsFiniteSet(1 .. last - 1)
    BY UpTo
  <2>2. starts \subseteq 1 .. last - 1
    OBVIOUS
  <2> HIDE DEF starts
  <2> QED
    BY <2>1, <2>2, FS_Subset, FS_CardinalityType
<1>5. Ordered(starts, below)
  <2> HIDE DEF starts
  <2> QED
    BY <1>3, NumbersOrdered
<1>6. \A i \in starts : below[i] = {j \in starts : j < i}
  <2> HIDE DEF starts
  <2> QED
    OBVIOUS
<1> HIDE DEF at, starts, below
<1>7. ASSUME NEW n \in 1 .. count
      PROVE  start(n) \in starts /\ Cardinality(below[start(n)]) = n - 1
  <2>1. n - 1 \in 0 .. count - 1
    BY <1>4
  <2>2. \E k \in starts : Cardinality(below[k]) = n - 1
    BY <1>4, <1>5, <2>1, PlaceTaken
  <2>3. \E i \in starts : Cardinality({j \in starts : j < i}) = n - 1
    BY <1>6, <2>2
  <2> QED
    BY <1>6, <2>3
<1>8. count >= 1
  BY <1>3, <1>4, <1>5, RankBounds
<1>9. ASSUME NEW i \in starts, NEW n \in 1 .. count, Cardinality(below[i]) = n - 1
      PROVE  i = start(n)
  <2>1. start(n) \in starts /\ Cardinality(below[start(n)]) = Cardinality(below[i])
    BY <1>7, <1>9
  <2> HIDE DEF start
  <2> QED
    BY <1>4, <1>5, <2>1, Ranks
<1> HIDE DEF start
<1>10. start(1) = first
  <2>1. below[first] = {}
    <3>1. \A j \in starts : ~ (j < first)
      BY <1>3
    <3>2. below[first] = {j \in starts : j < first}
      BY <1>3, <1>6
    <3> QED
      BY <3>1, <3>2
  <2>2. Cardinality(below[first]) = 1 - 1
    BY <2>1, FS_EmptySet
  <2> QED
    BY <1>3, <1>4, <1>8, <1>9, <2>2
(* Between two starts there is none. *)
<1>11. ASSUME NEW n \in 1 .. count, n # count
       PROVE  /\ n + 1 \in 1 .. count /\ start(n) < start(n + 1)
              /\ \A i \in starts : start(n) < i => start(n + 1) <= i
  <2>1. n + 1 \in 1 .. count
    BY <1>4, <1>11
  <2> DEFINE a == start(n)
             b == start(n + 1)
  <2>2. a \in starts /\ b \in starts /\ Cardinality(below[a]) = n - 1 /\ Cardinality(below[b]) = (n + 1) - 1
    BY <1>7, <2>1
  <2> HIDE DEF a, b
  <2>3. ASSUME ~ (a < b) PROVE FALSE
    <3>1. a = b \/ b \in below[a]
      BY <1>3, <1>6, <2>2, <2>3
    <3>2. b \in below[a] => Cardinality(below[b]) < Cardinality(below[a])
      BY <1>4, <1>5, <2>2, RankDiffers
    <3> QED
      BY <2>2, <3>1, <3>2
  <2>4. ASSUME NEW i \in starts, a < i, ~ (b <= i) PROVE FALSE
    <3>1. a \in below[i] /\ i \in below[b]
      BY <1>3, <1>6, <2>2, <2>4
    <3>2. Cardinality(below[a]) < Cardinality(below[i]) /\ Cardinality(below[i]) < Cardinality(below[b])
      BY <1>4, <1>5, <2>2, <3>1, RankDiffers
    <3>3. Cardinality(below[i]) \in Nat
      BY <1>4, <1>5, RankBounds
    <3> QED
      BY <2>2, <3>2, <3>3
  <2>5. \A i \in starts : a < i => b <= i
    <3>1. \A i \in starts : i \in Nat
      BY <1>3
    <3> QED
      BY <1>3, <2>2, <2>4, <3>1
  <2> QED
    BY <1>3, <2>1, <2>2, <2>3, <2>5 DEF a, b
<1>12. ASSUME NEW i \in starts, start(count) < i PROVE FALSE
  <2>1. count \in 1 .. count
    BY <1>4, <1>8
  <2>2. start(count) \in starts /\ Cardinality(below[start(count)]) = count - 1
    BY <1>7, <2>1
  <2>3. below[start(count)] = starts \ {start(count)}
    BY <1>4, <1>5, <2>2, RankBounds
  <2>4. i < start(count)
    <3>1. i # start(count)
      BY <1>3, <1>12, <2>2
    <3>2. i \in below[start(count)]
      BY <2>3, <3>1
    <3> QED
      BY <1>6, <2>2, <3>2
  <2>5. i \in Nat /\ start(count) \in Nat
    BY <1>3, <1>12, <2>2
  <2> QED
    BY <1>12, <2>4, <2>5
(* Where nothing starts, the character is that of the start before.        *)
<1>13. ASSUME NEW a \in starts, NEW b \in Nat, b <= last, \A i \in starts : a < i => b <= i,
              NEW i \in a .. b - 1
       PROVE  at(i) = at(a)
  <2> DEFINE S == {m \in Nat : a + m < b => at(a + m) = at(a)}
  <2>0. a \in Nat /\ first <= a
    BY <1>3
  <2>1. 0 \in S
    BY <2>0
  <2>2. ASSUME NEW m \in Nat, m \in S PROVE m + 1 \in S
    <3>1. SUFFICES ASSUME a + (m + 1) < b PROVE at(a + (m + 1)) = at(a)
      OBVIOUS
    <3>2. at(a + m) = at(a)
      BY <2>0, <2>2, <3>1
    <3> DEFINE k == a + (m + 1)
    <3>3. k \in first .. last - 1 /\ k # first /\ k - 1 = a + m /\ a < k /\ ~ (b <= k)
      BY <1>13, <2>0, <3>1
    <3>4. k \notin starts
      BY <1>13, <3>3
    <3>5. at(k - 1) = at(k)
      BY <3>3, <3>4 DEF starts
    <3> QED
      BY <3>2, <3>3, <3>5
  <2>3. Nat \subseteq S
    <3> HIDE DEF S
    <3> QED
      BY <2>1, <2>2, SetInduction
  <2>4. i - a \in Nat /\ a + (i - a) = i /\ i < b
    BY <2>0
  <2> QED
    BY <2>3, <2>4
<1>14. /\ ch \in Seq(Child) /\ Len(ch) = count /\ \A n \in 1 .. count : ch[n] = child(n)
       /\ \A n \in 1 .. count : child(n).last \in Nat /\ start(n) \in Nat /\ at(start(n)) \in Chars
  <2>1. ASSUME NEW n \in 1 .. count
        PROVE  child(n) \in Child /\ child(n).last \in Nat /\ start(n) \in Nat /\ at(start(n)) \in Chars
    <3>1. start(n) \in Nat /\ at(start(n)) \in Chars
      BY <1>2, <1>3, <1>7
    <3>2. table[at(start(n))] + 1 \in Nat \ {0}
      <4>1. table[at(start(n))] \in Chars
        BY <3>1
      <4> HIDE DEF start, at
      <4> QED
        BY <4>1 DEF Chars
    <3>3. n # count => start(n + 1) \in Nat
      BY <1>3, <1>7, <1>11
    <3> QED
      BY <3>1, <3>2, <3>3 DEF Child
  <2> HIDE DEF child
  <2>2. ch \in [1 .. count -> Child]
    BY <1>1, <2>1
  <2> QED
    BY <1>1, <1>4, <2>1, <2>2, IsSeq
<1>15. ASSUME NEW n \in 1 .. count
       PROVE  /\ child(n).first = start(n) /\ child(n).c = at(start(n))
              /\ child(n).offset = table[child(n).c] + 1
              /\ first <= start(n) /\ start(n) < child(n).last /\ child(n).last <= last
              /\ \A i \in start(n) .. child(n).last - 1 : at(i) = at(start(n))
  <2>1. start(n) \in starts /\ first <= start(n) /\ start(n) < last
    BY <1>3, <1>7
  <2>2. CASE n = count
    <3>1. child(n).last = last /\ \A i \in starts : start(n) < i => last <= i
      BY <1>12, <2>2
    <3> QED
      BY <1>13, <2>1, <3>1
  <2>3. CASE n # count
    <3>1. child(n).last = start(n + 1) /\ start(n + 1) \in starts /\ start(n) < start(n + 1)
      BY <1>7, <1>11, <2>3
    <3>2. \A i \in starts : start(n) < i => start(n + 1) <= i
      BY <1>11, <2>3
    <3>3. start(n + 1) \in Nat /\ start(n + 1) <= last
      <4>1. start(n + 1) \in Nat /\ start(n + 1) < last
        BY <1>3, <3>1
      <4> QED
        BY <4>1
    <3>4. \A i \in start(n) .. start(n + 1) - 1 : at(i) = at(start(n))
      BY <1>13, <2>1, <3>2, <3>3
    <3> QED
      BY <2>1, <3>1, <3>3, <3>4
  <2> QED
    BY <2>2, <2>3
<1>16. ASSUME NEW n \in 1 .. count - 1
       PROVE  child(n).last = child(n + 1).first /\ child(n).c # child(n + 1).c
  <2>1. n \in 1 .. count /\ n # count /\ n + 1 \in 1 .. count
    BY <1>4
  <2> DEFINE b == start(n + 1)
  <2>2. child(n).last = b /\ child(n + 1).first = b /\ child(n + 1).c = at(b) /\ child(n).c = at(start(n))
    BY <2>1
  <2>3. b \in starts /\ first <= start(n) /\ start(n) < b /\ start(n) \in Nat /\ b \in Nat
    BY <1>3, <1>7, <1>11, <2>1
  <2> HIDE DEF b
  <2>4. at(b - 1) # at(b)
    <3>1. b # first
      BY <2>3
    <3> QED
      BY <2>3, <3>1 DEF starts
  <2>5. b - 1 \in start(n) .. b - 1
    BY <2>3
  <2>6. at(b - 1) = at(start(n))
    BY <1>15, <2>1, <2>2, <2>5
  <2> QED
    BY <2>2, <2>4, <2>6
<1>17. count \in 1 .. count /\ 1 \in 1 .. count /\ child(1).first = first /\ child(count).last = last
  BY <1>4, <1>8, <1>10
<1>18. \A i : at(i) = CharAt(recs[i].key, p)
  BY DEF at
<1> HIDE DEF child, ch
<1>19. \A n \in 1 .. count - 1 : n \in 1 .. count /\ n + 1 \in 1 .. count
  BY <1>4
<1>20. ChildrenFit(recs, table, ch, p, first, last)
  <2>1. /\ Len(ch) \in Nat \ {0} /\ ch[1].first = first /\ ch[Len(ch)].last = last
    BY <1>4, <1>8, <1>14, <1>17
  <2>2. ASSUME NEW n \in 1 .. Len(ch)
        PROVE  /\ ch[n].offset = table[ch[n].c] + 1
               /\ first <= ch[n].first /\ ch[n].first < ch[n].last /\ ch[n].last <= last
               /\ \A i \in ch[n].first .. ch[n].last - 1 : CharAt(recs[i].key, p) = ch[n].c
    <3>1. n \in 1 .. count /\ ch[n] = child(n)
      BY <1>14
    <3> QED
      BY <1>15, <1>18, <3>1
  <2>3. ASSUME NEW n \in 1 .. Len(ch) - 1
        PROVE  ch[n].last = ch[n + 1].first /\ ch[n].c # ch[n + 1].c
    <3>1. n \in 1 .. count - 1 /\ ch[n] = child(n) /\ ch[n + 1] = child(n + 1)
      BY <1>14, <1>19
    <3> QED
      BY <1>16, <3>1
  <2> QED
    BY <1>14, <2>1, <2>2, <2>3 DEF ChildrenFit
<1> QED
  BY <1>20 DEF ch

(* In sorted records the children are in the order of their characters. *)
LEMMA ChildrenInOrder ==
  ASSUME RecordsTyped(recs), TableOk(table),
         NEW p \in Nat, NEW first \in Nat, NEW last \in Nat,
         1 <= first, first < last, last <= Len(recs) + 1,
         NEW ch, ChildrenFit(recs, table, ch, p, first, last), SortedAt(p, first, last)
  PROVE  ChildrenAscend(ch) /\ ChildrenDiffer(ch)
<1> DEFINE at(i) == CharAt(recs[i].key, p)
           S == {k \in Nat : \A n \in 1 .. Len(ch) : n + (k + 1) <= Len(ch) => ch[n].c < ch[n + (k + 1)].c}
<1>1. Len(ch) \in Nat /\ \A n \in 1 .. Len(ch) : ch[n] \in Child
  BY DEF ChildrenFit
<1>2. \A n \in 1 .. Len(ch) : /\ ch[n].c \in Chars /\ ch[n].c \in Int
                               /\ ch[n].first \in Nat /\ ch[n].last \in Nat
  BY <1>1 DEF Child, Chars
<1>3. ASSUME NEW n \in 1 .. Len(ch), n + 1 <= Len(ch) PROVE ch[n].c < ch[n + 1].c
  <2>1. n \in 1 .. Len(ch) - 1 /\ n + 1 \in 1 .. Len(ch)
    BY <1>1, <1>3
  <2>2. /\ first <= ch[n].first /\ ch[n].first < ch[n].last /\ ch[n].last = ch[n + 1].first
        /\ ch[n + 1].first < ch[n + 1].last /\ ch[n + 1].last <= last /\ ch[n].c # ch[n + 1].c
    BY <2>1 DEF ChildrenFit
  <2> DEFINE a == ch[n].first
             b == ch[n].last
             e == ch[n + 1].last
  <2>0. a \in Nat /\ b \in Nat /\ e \in Nat /\ first <= a /\ a < b /\ b < e /\ e <= last
    BY <1>2, <2>1, <2>2
  <2>3. b - 1 \in ch[n].first .. ch[n].last - 1 /\ b \in ch[n + 1].first .. ch[n + 1].last - 1
    <3>1. ch[n + 1].first = b
      BY <2>2
    <3> HIDE DEF a, b, e
    <3>2. b - 1 \in a .. b - 1 /\ b \in b .. e - 1
      BY <2>0
    <3> QED
      BY <3>1, <3>2 DEF a, b, e
  <2>4. at(b - 1) = ch[n].c /\ at(b) = ch[n + 1].c
    BY <2>1, <2>3 DEF ChildrenFit
  <2> HIDE DEF a, b, e
  <2>5. b - 1 \in first .. last - 2 /\ (b - 1) + 1 = b
    BY <2>0
  <2>6. at(b - 1) <= at(b)
    BY <2>5 DEF SortedAt
  <2> QED
    BY <1>2, <2>1, <2>2, <2>4, <2>6
<1>4. 0 \in S
  BY <1>3
<1>5. ASSUME NEW k \in Nat, k \in S PROVE k + 1 \in S
  <2>1. ASSUME NEW n \in 1 .. Len(ch), n + ((k + 1) + 1) <= Len(ch)
        PROVE  ch[n].c < ch[n + ((k + 1) + 1)].c
    <3> DEFINE m == n + (k + 1)
    <3>1. m \in 1 .. Len(ch) /\ m + 1 \in 1 .. Len(ch) /\ m + 1 <= Len(ch) /\ n + ((k + 1) + 1) = m + 1
      BY <1>1, <2>1
    <3>2. ch[n].c < ch[m].c
      BY <1>5, <3>1
    <3> HIDE DEF m
    <3>3. ch[m].c < ch[m + 1].c
      BY <1>3, <3>1
    <3> QED
      BY <1>2, <3>1, <3>2, <3>3
  <2> QED
    BY <2>1
<1>6. Nat \subseteq S
  <2> HIDE DEF S
  <2> QED
    BY <1>4, <1>5, SetInduction
<1>7. ASSUME NEW n \in 1 .. Len(ch), NEW m \in 1 .. Len(ch), n < m PROVE ch[n].c < ch[m].c
  <2>1. (m - n) - 1 \in Nat /\ n + (((m - n) - 1) + 1) = m
    BY <1>7
  <2> DEFINE k == (m - n) - 1
  <2>2. k \in S
    BY <1>6, <2>1
  <2>3. n + (k + 1) <= Len(ch) => ch[n].c < ch[n + (k + 1)].c
    BY <2>2
  <2> HIDE DEF k, S
  <2>4. n + (k + 1) = m /\ m <= Len(ch)
    BY <2>1, <1>1 DEF k
  <2> QED
    BY <2>3, <2>4
<1>8. ASSUME NEW n \in 1 .. Len(ch), NEW m \in 1 .. Len(ch), n # m
      PROVE  ch[n].offset # ch[m].offset
  <2>1. ch[n].c # ch[m].c
    <3>1. n < m \/ m < n
      BY <1>8
    <3> QED
      BY <1>2, <1>7, <3>1
  <2>2. ch[n].offset = table[ch[n].c] + 1 /\ ch[m].offset = table[ch[m].c] + 1
    BY DEF ChildrenFit
  <2>3. table[ch[n].c] # table[ch[m].c]
    BY <1>2, <2>1 DEF TableOk
  <2>4. table[ch[n].c] \in Int /\ table[ch[m].c] \in Int
    BY <1>2 DEF Chars, TableOk
  <2> QED
    BY <2>1, <2>2, <2>3, <2>4
<1> QED
  BY <1>7, <1>8 DEF ChildrenAscend, ChildrenDiffer

-----------------------------------------------------------------------------
(* The calls of arrange(). *)

(* What the invariant says of the innermost call. *)
LEMMA TopCall ==
  ASSUME CallsInv, Working
  PROVE  /\ RecordsTyped(recs) /\ TableOk(table) /\ tail \in Seq(Int) /\ tail # <<>>
         /\ StackOk(recs, table, stack) /\ stack \in Seq(FrameType) /\ stack # <<>>
         /\ Depth \in Nat \ {0} /\ Top = Call(Depth) /\ Top = stack[1]
         /\ Top \in FrameType /\ Ranged(recs, Top)
         /\ \A d \in 1 .. Depth : Call(d) \in FrameType
<1>1. /\ RecordsTyped(recs) /\ TableOk(table) /\ tail \in Seq(Int) /\ tail # <<>>
      /\ StackOk(recs, table, stack) /\ stack \in Seq(FrameType) /\ stack # <<>>
  BY DEF CallsInv, StackOk
<1>2. /\ Depth \in Nat \ {0} /\ Top = stack[1] /\ Top \in FrameType /\ Call(Depth) = Top
      /\ \A d \in 1 .. Depth : Call(d) \in FrameType
  BY <1>1, StackCalls DEF Depth, Top, Call
<1>3. Ranged(recs, Call(Depth))
  BY <1>1, <1>2 DEF StackOk, Depth, Call
<1> QED
  BY <1>1, <1>2, <1>3

(* What is known of a child that is listed. *)
LEMMA ListedChild ==
  ASSUME NEW rs, NEW t, NEW f, Listed(rs, t, f)
  PROVE  /\ f.children \in Seq(Child) /\ Len(f.children) \in Nat \ {0}
         /\ DOMAIN f.children = 1 .. Len(f.children)
         /\ 1 \in 1 .. Len(f.children) /\ f.children[1].offset \in Nat
         /\ \A n \in 1 .. Len(f.children) :
              /\ f.children[n] \in Child /\ f.children[n].offset \in Nat \ {0}
              /\ f.children[n].first \in Nat /\ f.children[n].last \in Nat
              /\ f.children[n].c \in Chars
<1>1. f.children \in Seq(Child) /\ Len(f.children) \in Nat \ {0}
  BY DEF Listed, ChildrenFit
<1>2. 1 \in 1 .. Len(f.children) /\ DOMAIN f.children = 1 .. Len(f.children)
  BY <1>1
<1>3. ASSUME NEW n \in 1 .. Len(f.children)
      PROVE  /\ f.children[n] \in Child /\ f.children[n].offset \in Nat \ {0}
             /\ f.children[n].first \in Nat /\ f.children[n].last \in Nat
             /\ f.children[n].c \in Chars
  <2>1. f.children[n] \in Child
    BY <1>1
  <2> QED
    BY <2>1 DEF Child
<1> QED
  BY <1>1, <1>2, <1>3

(* Another innermost call for the same records. *)
LEMMA StackReplaced ==
  ASSUME NEW rs, NEW t, NEW s, StackOk(rs, t, s), NEW f \in FrameType,
         f.p = Head(s).p, f.first = Head(s).first, f.last = Head(s).last
  PROVE  LET u == [s EXCEPT ![1] = f]
         IN  StackOk(rs, t, u) /\ SameButTop(FrameType, u, s, f)
<1> DEFINE u == [s EXCEPT ![1] = f]
<1>1. /\ s \in Seq(FrameType) /\ s # <<>>
      /\ CallOf(s, 1).p = 0 /\ CallOf(s, 1).first = 1 /\ CallOf(s, 1).last = Len(rs) + 1
      /\ \A d \in 1 .. Len(s) : Ranged(rs, CallOf(s, d))
      /\ \A d \in 1 .. Len(s) - 1 : Calls(rs, t, CallOf(s, d), CallOf(s, d + 1))
  BY DEF StackOk
<1>2. Len(s) \in Nat \ {0} /\ CallOf(s, Len(s)) = Head(s)
  BY <1>1, StackCalls
<1>3. SameButTop(FrameType, u, s, f)
  BY <1>1, CallReplaced
<1> HIDE DEF u
<1>4. /\ u \in Seq(FrameType) /\ u # <<>> /\ Len(u) = Len(s) /\ CallOf(u, Len(s)) = f
      /\ \A d \in 1 .. Len(s) - 1 : CallOf(u, d) = CallOf(s, d)
  BY <1>3 DEF SameButTop
(* What matters of a call to others. *)
<1>5. ASSUME NEW d \in 1 .. Len(s)
      PROVE  /\ CallOf(u, d).p = CallOf(s, d).p /\ CallOf(u, d).first = CallOf(s, d).first
             /\ CallOf(u, d).last = CallOf(s, d).last
  <2>1. d = Len(s) \/ d \in 1 .. Len(s) - 1
    BY <1>2
  <2> QED
    BY <1>2, <1>4, <2>1
<1>6. ASSUME NEW d \in 1 .. Len(s) PROVE Ranged(rs, CallOf(u, d))
  BY <1>1, <1>5 DEF Ranged
<1>7. ASSUME NEW d \in 1 .. Len(s) - 1 PROVE Calls(rs, t, CallOf(u, d), CallOf(u, d + 1))
  <2>1. d \in 1 .. Len(s) /\ d + 1 \in 1 .. Len(s)
    BY <1>2
  <2>2. Calls(rs, t, CallOf(s, d), CallOf(s, d + 1)) /\ CallOf(u, d) = CallOf(s, d)
    BY <1>1, <1>4
  <2> QED
    BY <1>5, <2>1, <2>2 DEF Calls
<1>8. 1 \in 1 .. Len(s)
  BY <1>2
<1>9. StackOk(rs, t, u)
  BY <1>1, <1>4, <1>5, <1>6, <1>7, <1>8 DEF StackOk
<1> QED
  BY <1>3, <1>9 DEF u

(* A call for the next child. *)
LEMMA StackPushed ==
  ASSUME NEW rs, NEW t, NEW s, StackOk(rs, t, s), NEW f \in FrameType,
         Calls(rs, t, Head(s), f), Ranged(rs, f)
  PROVE  LET u == Pushed(f, s)
         IN  StackOk(rs, t, u) /\ OneMore(FrameType, u, s, f)
<1> DEFINE u == Pushed(f, s)
<1>1. /\ s \in Seq(FrameType) /\ s # <<>>
      /\ CallOf(s, 1).p = 0 /\ CallOf(s, 1).first = 1 /\ CallOf(s, 1).last = Len(rs) + 1
      /\ \A d \in 1 .. Len(s) : Ranged(rs, CallOf(s, d))
      /\ \A d \in 1 .. Len(s) - 1 : Calls(rs, t, CallOf(s, d), CallOf(s, d + 1))
  BY DEF StackOk
<1>2. Len(s) \in Nat \ {0} /\ CallOf(s, Len(s)) = Head(s)
  BY <1>1, StackCalls
<1>3. OneMore(FrameType, u, s, f)
  BY <1>1, CallPushed
<1> HIDE DEF u
<1>4. /\ u \in Seq(FrameType) /\ u # <<>> /\ Len(u) = Len(s) + 1 /\ CallOf(u, Len(s) + 1) = f
      /\ \A d \in 1 .. Len(s) : CallOf(u, d) = CallOf(s, d)
  BY <1>3 DEF OneMore
<1>5. ASSUME NEW d \in 1 .. Len(s) + 1 PROVE Ranged(rs, CallOf(u, d))
  <2>1. d = Len(s) + 1 \/ d \in 1 .. Len(s)
    BY <1>2
  <2> QED
    BY <1>1, <1>4, <2>1
<1>6. ASSUME NEW d \in 1 .. Len(s) PROVE Calls(rs, t, CallOf(u, d), CallOf(u, d + 1))
  <2>1. CASE d = Len(s)
    BY <1>2, <1>4, <2>1
  <2>2. CASE d \in 1 .. Len(s) - 1
    <3>1. d + 1 \in 1 .. Len(s)
      BY <1>2, <2>2
    <3> QED
      BY <1>1, <1>4, <2>2, <3>1
  <2>3. d = Len(s) \/ d \in 1 .. Len(s) - 1
    BY <1>2
  <2> QED
    BY <2>1, <2>2, <2>3
<1>7. 1 \in 1 .. Len(s) /\ Len(u) - 1 = Len(s)
  BY <1>2, <1>4
<1>8. StackOk(rs, t, u)
  BY <1>1, <1>4, <1>5, <1>6, <1>7 DEF StackOk
<1> QED
  BY <1>3, <1>8 DEF u

(* The return to a caller. *)
LEMMA StackPopped ==
  ASSUME NEW rs, NEW t, NEW s, StackOk(rs, t, s), Len(s) > 1, NEW f \in FrameType,
         f.p = s[2].p, f.first = s[2].first, f.last = s[2].last
  PROVE  LET u == Pushed(f, SubSeq(s, 3, Len(s)))
         IN  StackOk(rs, t, u) /\ OneLess(FrameType, u, s, f)
<1> DEFINE v == SubSeq(s, 3, Len(s))
           u == Pushed(f, v)
<1>1. /\ s \in Seq(FrameType) /\ s # <<>>
      /\ CallOf(s, 1).p = 0 /\ CallOf(s, 1).first = 1 /\ CallOf(s, 1).last = Len(rs) + 1
      /\ \A d \in 1 .. Len(s) : Ranged(rs, CallOf(s, d))
      /\ \A d \in 1 .. Len(s) - 1 : Calls(rs, t, CallOf(s, d), CallOf(s, d + 1))
  BY DEF StackOk
<1>2. Len(s) \in Nat /\ Len(s) >= 2
  BY <1>1
<1>3. OneLess(FrameType, u, s, f)
  BY <1>1, CallPopped
<1> HIDE DEF u
<1>4. /\ u \in Seq(FrameType) /\ u # <<>> /\ Len(u) = Len(s) - 1 /\ CallOf(u, Len(s) - 1) = f
      /\ s[2] = CallOf(s, Len(s) - 1)
      /\ \A d \in 1 .. Len(s) - 2 : CallOf(u, d) = CallOf(s, d)
  BY <1>3 DEF OneLess
<1>5. ASSUME NEW d \in 1 .. Len(s) - 1
      PROVE  /\ CallOf(u, d).p = CallOf(s, d).p /\ CallOf(u, d).first = CallOf(s, d).first
             /\ CallOf(u, d).last = CallOf(s, d).last
  <2>1. d = Len(s) - 1 \/ d \in 1 .. Len(s) - 2
    BY <1>2
  <2> QED
    BY <1>4, <2>1
<1>6. ASSUME NEW d \in 1 .. Len(s) - 1 PROVE Ranged(rs, CallOf(u, d))
  <2>1. d \in 1 .. Len(s)
    BY <1>2
  <2> QED
    BY <1>1, <1>5, <2>1 DEF Ranged
<1>7. ASSUME NEW d \in 1 .. Len(s) - 2 PROVE Calls(rs, t, CallOf(u, d), CallOf(u, d + 1))
  <2>1. d \in 1 .. Len(s) - 1 /\ d + 1 \in 1 .. Len(s) - 1
    BY <1>2
  <2>2. Calls(rs, t, CallOf(s, d), CallOf(s, d + 1)) /\ CallOf(u, d) = CallOf(s, d)
    BY <1>1, <1>4, <2>1
  <2> QED
    BY <1>5, <2>1, <2>2 DEF Calls
<1>8. 1 \in 1 .. Len(s) - 1 /\ Len(u) - 1 = Len(s) - 2
  BY <1>2, <1>4
<1>9. StackOk(rs, t, u)
  BY <1>1, <1>4, <1>5, <1>6, <1>7, <1>8 DEF StackOk
<1> QED
  BY <1>3, <1>9 DEF u

(* The records of a child agree up to and with its character. *)
LEMMA ChildRanged ==
  ASSUME RecordsTyped(recs), NEW f \in FrameType, Ranged(recs, f), Listed(recs, table, f),
         NEW n \in 1 .. Len(f.children), NEW g \in FrameType,
         g.first = f.children[n].first, g.last = f.children[n].last,
         g.p = f.p + (IF f.children[n].c = 0 THEN 0 ELSE 1)
  PROVE  Ranged(recs, g)
<1> DEFINE c == f.children[n].c
<1>1. f.p \in Nat /\ f.first \in Nat /\ f.last \in Nat /\ g.first \in Nat /\ g.last \in Nat
  BY DEF FrameType
<1>2. /\ f.first <= g.first /\ g.first < g.last /\ g.last <= f.last
      /\ \A i \in g.first .. g.last - 1 : CharAt(recs[i].key, f.p) = c
  BY DEF Listed, ChildrenFit
<1>3. /\ 1 <= f.first /\ f.last <= Len(recs) + 1 /\ Len(recs) \in Nat
      /\ \A i \in f.first .. f.last - 1 : f.p <= Len(recs[i].key)
      /\ \A i, j \in f.first .. f.last - 1 : \A q \in 0 .. f.p - 1 :
            CharAt(recs[i].key, q) = CharAt(recs[j].key, q)
  BY DEF Ranged, Agreeing, RecordsTyped
<1>4. ASSUME NEW i \in g.first .. g.last - 1
      PROVE  i \in f.first .. f.last - 1 /\ i \in 1 .. Len(recs)
  <2>1. \A x, y, u, v, w \in Nat : 1 <= x /\ x <= u /\ v <= y /\ y <= w + 1 /\ i \in u .. v - 1
            => i \in x .. y - 1 /\ i \in 1 .. w
    OBVIOUS
  <2>2. f.first <= g.first /\ g.last <= f.last
    BY <1>2
  <2>3. 1 <= f.first /\ f.last <= Len(recs) + 1 /\ Len(recs) \in Nat
    BY <1>3
  <2> HIDE DEF c
  <2> QED
    BY ONLY <1>1, <2>1, <2>2, <2>3, i \in g.first .. g.last - 1
<1>5. ASSUME NEW i \in g.first .. g.last - 1 PROVE g.p <= Len(recs[i].key)
  <2>1. /\ f.p <= Len(recs[i].key) /\ Len(recs[i].key) \in Nat
        /\ c = 0 <=> ~ (f.p < Len(recs[i].key))
    BY <1>1, <1>2, <1>3, <1>4, CharType
  <2> QED
    BY <1>1, <2>1
<1>6. ASSUME NEW i \in g.first .. g.last - 1, NEW j \in g.first .. g.last - 1, NEW q \in 0 .. g.p - 1
      PROVE  CharAt(recs[i].key, q) = CharAt(recs[j].key, q)
  <2>1. q \in 0 .. f.p - 1 \/ q = f.p
    BY <1>1
  <2> QED
    BY <1>2, <1>3, <1>4, <2>1
<1>7. Agreeing(recs, g.p, g.first, g.last)
  BY <1>5, <1>6 DEF Agreeing
<1>8. 1 <= g.first /\ g.first < g.last /\ g.last <= Len(recs) + 1
  <2>1. \A x, y, u, v, w \in Nat : 1 <= x /\ x <= u /\ u < v /\ v <= y /\ y <= w + 1
            => 1 <= u /\ u < v /\ v <= w + 1
    OBVIOUS
  <2> QED
    BY <1>1, <1>2, <1>3, <2>1
<1> QED
  BY <1>7, <1>8 DEF Ranged

(* A call at its start. *)
LEMMA FrameTyped ==
  ASSUME NEW p \in Nat, NEW first \in Nat, NEW last \in Nat
  PROVE  /\ Frame(p, first, last) \in FrameType
         /\ Frame(p, first, last).p = p /\ Frame(p, first, last).first = first
         /\ Frame(p, first, last).last = last /\ Started(Frame(p, first, last))
<1>1. <<>> \in Seq(Child)
  OBVIOUS
<1> QED
  BY <1>1 DEF Frame, FrameType, Started

(* Each character has a code of its own, whatever std::sort does. *)
LEMMA TableBuilt ==
  ASSUME NEW rs, NEW t \in Tables(rs)
  PROVE  TableOk(t)
BY DEF Tables, TableOk

(* The inputs of build(). *)
LEMMA InputTyped ==
  ASSUME NEW given \in Inputs
  PROVE  RecordsTyped(given) /\ Len(given) \in Nat \ {0}
<1>1. Chars \ {0} = 1 .. NumChars - 1
  BY NumCharsAssumption DEF Chars
<1>2. given \in Seq([key : Seq(1 .. NumChars - 1), value : Int]) /\ given # <<>>
  BY InputsAssumption
<1>3. RecordsTyped(given)
  BY <1>1, <1>2 DEF RecordsTyped
<1>4. Len(given) \in Nat /\ Len(given) # 0
  BY <1>2
<1> QED
  BY <1>3, <1>4

(* At first no call is open. *)
LEMMA CallsInit == BuilderInit => CallsInv
<1> SUFFICES ASSUME BuilderInit PROVE CallsInv
  OBVIOUS
<1>1. TableOk(table)
  BY DEF BuilderInit, TableOk
<1> QED
  BY <1>1 DEF BuilderInit, CallsInv, Working

(* One lemma for each step of the builder: the calls on the stack. *)
LEMMA CallsBuild == ASSUME CallsInv, Build PROVE CallsInv'
<1>1. PICK given \in Inputs :
        /\ recs' = given /\ table' \in Tables(given)
        /\ stack' = <<Frame(0, 1, Len(given) + 1)>>
  BY DEF Build
<1>2. RecordsTyped(given) /\ Len(given) \in Nat \ {0}
  BY InputTyped
<1> DEFINE f == Frame(0, 1, Len(given) + 1)
<1>3. f \in FrameType /\ f.p = 0 /\ f.first = 1 /\ f.last = Len(given) + 1 /\ Started(f)
  <2>1. 0 \in Nat /\ 1 \in Nat /\ Len(given) + 1 \in Nat
    BY <1>2
  <2> QED
    BY <2>1, FrameTyped
<1> HIDE DEF f
<1>4. stack' = <<f>>
  BY <1>1 DEF f
<1>5. stack' \in Seq(FrameType) /\ stack' # <<>> /\ Len(stack') = 1 /\ Head(stack') = f /\ CallOf(stack', 1) = f
  BY <1>3, <1>4 DEF CallOf
<1>6. Ranged(given, f)
  <2>1. ASSUME NEW i \in 1 .. (Len(given) + 1) - 1 PROVE 0 <= Len(given[i].key)
    <3>1. i \in 1 .. Len(given)
      BY <1>2
    <3> DEFINE R == [key : Seq(Chars \ {0}), value : Int]
    <3>2. given[i] \in R
      <4>1. given \in Seq(R)
        BY <1>2 DEF RecordsTyped
      <4> HIDE DEF R
      <4> QED
        BY <3>1, <4>1
    <3>3. Len(given[i].key) \in Nat
      BY <3>2
    <3> QED
      BY <3>3
  <2>2. 0 .. 0 - 1 = {}
    OBVIOUS
  <2> QED
    BY <1>2, <1>3, <2>1, <2>2 DEF Ranged, Agreeing
<1>7. StackOk(given, table', stack')
  <2>1. \A d \in 1 .. Len(stack') : d = 1
    BY <1>5
  <2>2. 1 .. Len(stack') - 1 = {}
    BY <1>5
  <2> QED
    BY <1>3, <1>5, <1>6, <2>1, <2>2 DEF StackOk
<1>8. TableOk(table')
  BY <1>1, TableBuilt
<1>9. pc' = "arrange" /\ ret' = 0 /\ tail' = <<0>>
  BY DEF Build, EmptyTail
<1>10. Top' = f
  BY <1>5 DEF Top
<1>11. tail' \in Seq(Int) /\ tail' # <<>> /\ ret' \in Int
  BY <1>9
<1>12. InnerCall'
  BY <1>3, <1>9, <1>10 DEF InnerCall
<1> QED
  BY <1>1, <1>2, <1>7, <1>8, <1>9, <1>11, <1>12 DEF CallsInv

(* A call for one record stores it in the tail and returns. *)
LEMMA CallsArrangeLeaf == ASSUME CallsInv, ArrangeLeaf PROVE CallsInv'
<1>1. pc = "arrange" /\ Top.first + 1 = Top.last /\ UNCHANGED <<recs, table, stack>>
  BY DEF ArrangeLeaf
<1>2. Working
  BY <1>1 DEF Working
<1>3. /\ RecordsTyped(recs) /\ TableOk(table) /\ tail \in Seq(Int) /\ tail # <<>>
      /\ StackOk(recs, table, stack) /\ Top \in FrameType /\ Ranged(recs, Top)
  BY <1>2, TopCall
<1>4. Started(Top) /\ Top' = Top
  BY <1>1, <1>2 DEF CallsInv, InnerCall, Top
<1>5. CASE Throw /\ UNCHANGED <<tail, ret, stat>>
  <2>1. pc' = "thrown" /\ tail' = tail /\ ret' = ret
    BY <1>5 DEF Throw
  <2>2. ~ Working'
    BY <2>1 DEF Working
  <2> QED
    BY <1>1, <1>3, <2>1, <2>2 DEF CallsInv
<1>6. CASE /\ tail' = tail \o From(recs[Top.first].key, Top.p) \o <<0, recs[Top.first].value>>
           /\ ret' = -Len(tail) /\ pc' = "return"
  <2>1. Len(tail) \in Nat \ {0} /\ -Len(tail) \in Int /\ -Len(tail) < 0
    <3>1. Len(tail) \in Nat /\ Len(tail) # 0
      BY <1>3
    <3> QED
      BY <3>1
  <2>2. tail' \in Seq(Int) /\ tail' # <<>>
    <3> DEFINE i == Top.first
               a == From(recs[i].key, Top.p)
               b == <<0, recs[i].value>>
    <3>1. i \in 1 .. Len(recs) /\ Top.p \in Nat
      BY <1>3 DEF Ranged, FrameType, RecordsTyped
    <3>2. recs[i].key \in Seq(Chars \ {0}) /\ recs[i].value \in Int
      BY <1>3, <3>1, CharType
    <3> HIDE DEF i
    <3>3. a \in Seq(Int)
      <4> DEFINE k == recs[i].key
      <4>1. \A q \in 1 .. Len(k) : k[q] \in Int
        BY <3>2 DEF Chars
      <4>2. Len(k) \in Nat
        BY <3>2
      <4> HIDE DEF k
      <4>3. \A q \in Top.p + 1 .. Len(k) : k[q] \in Int
        <5>1. \A q \in Top.p + 1 .. Len(k) : q \in 1 .. Len(k)
          BY <3>1, <4>2
        <5> QED
          BY <4>1, <5>1
      <4>4. SubSeq(k, Top.p + 1, Len(k)) \in Seq(Int)
        <5>1. Top.p + 1 \in Int /\ Len(k) \in Int
          BY <3>1, <4>2
        <5> QED
          BY <4>3, <5>1, SubSeqProperties
      <4> QED
        BY <4>4 DEF From, k
    <3>4. b \in Seq(Int) /\ Len(b) = 2
      BY <3>2
    <3>5. tail' = (tail \o a) \o b
      <4>1. tail' = tail \o a \o b
        BY <1>6 DEF i
      <4> QED
        BY <4>1
    <3> HIDE DEF a, b
    <3>6. tail \o a \in Seq(Int)
      BY <1>3, <3>3
    <3> DEFINE x == tail \o a
    <3> HIDE DEF x
    <3>7. x \o b \in Seq(Int) /\ Len(x \o b) = Len(x) + 2 /\ Len(x) \in Nat
      <4>1. x \in Seq(Int)
        BY <3>6 DEF x
      <4> QED
        <5>1. x \o b \in Seq(Int) /\ Len(x \o b) = Len(x) + Len(b)
          BY <3>4, <4>1, ConcatProperties
        <5>2. Len(x) \in Nat
          BY <4>1
        <5> QED
          BY ONLY <3>4, <5>1, <5>2
    <3>8. Len(tail') # 0
      BY <3>5, <3>7 DEF x
    <3> QED
      BY <3>5, <3>7, <3>8 DEF x
  <2>3. Returning(recs, table, Top, ret')
    BY <1>1, <1>4, <1>6, <2>1 DEF Returning, Started
  <2>4. InnerCall'
    BY <1>1, <1>4, <1>6, <2>3 DEF InnerCall
  <2> QED
    BY <1>1, <1>3, <1>6, <2>1, <2>2, <2>4 DEF CallsInv
<1> QED
  BY <1>5, <1>6 DEF ArrangeLeaf

(* A call for several records lists their children. *)
LEMMA CallsArrangeNode == ASSUME CallsInv, ArrangeNode PROVE CallsInv'
<1>1. /\ pc = "arrange" /\ Top.first + 1 < Top.last
      /\ UNCHANGED <<recs, table, tail, ret>>
  BY DEF ArrangeNode
<1>2. Working
  BY <1>1 DEF Working
<1>3. /\ RecordsTyped(recs) /\ TableOk(table) /\ tail \in Seq(Int) /\ tail # <<>>
      /\ StackOk(recs, table, stack) /\ Top \in FrameType /\ Ranged(recs, Top)
      /\ Top = stack[1] /\ stack # <<>> /\ stack \in Seq(FrameType)
  BY <1>2, TopCall
<1>4. ret \in Int
  BY DEF CallsInv
<1>5. CASE Throw /\ UNCHANGED <<stack, index>>
  <2>1. pc' = "thrown" /\ UNCHANGED stack
    BY <1>5 DEF Throw
  <2>2. ~ Working'
    BY <2>1 DEF Working
  <2> QED
    BY <1>1, <1>3, <1>4, <2>1, <2>2 DEF CallsInv
<1>6. CASE /\ SortedAt(Top.p, Top.first, Top.last) /\ pc' = "search"
           /\ stack' = [stack EXCEPT ![1].children = ChildrenOf(Top.p, Top.first, Top.last)]
  <2> DEFINE ch == ChildrenOf(Top.p, Top.first, Top.last)
             f == [Top EXCEPT !.children = ch]
  <2>1. /\ Top.p \in Nat /\ Top.first \in Nat /\ Top.last \in Nat
        /\ 1 <= Top.first /\ Top.first < Top.last /\ Top.last <= Len(recs) + 1
    BY <1>3 DEF FrameType, Ranged
  <2>2. ChildrenFit(recs, table, ch, Top.p, Top.first, Top.last)
    <3>1. table \in [Chars -> Chars]
      BY <1>3 DEF TableOk
    <3> QED
      BY <1>3, <2>1, <3>1, ChildrenListed
  <2>3. stack' = [stack EXCEPT ![1] = f]
    BY <1>3, <1>6
  <2> HIDE DEF ch
  <2>4. ChildrenAscend(ch) /\ ChildrenDiffer(ch)
    BY <1>3, <1>6, <2>1, <2>2, ChildrenInOrder
  <2>5. ch \in Seq(Child)
    BY <2>2 DEF ChildrenFit
  <2>6. /\ f \in FrameType /\ f.p = Top.p /\ f.first = Top.first /\ f.last = Top.last
        /\ f.children = ch /\ f.child = Top.child
    BY <1>3, <2>5 DEF FrameType
  <2>7. Searching(recs, table, f)
    <3>1. Top.child = 1
      BY <1>1, <1>2 DEF CallsInv, InnerCall, Started
    <3> HIDE DEF f
    <3> QED
      BY <1>1, <2>2, <2>4, <2>6, <3>1 DEF Searching, Listed
  <2> HIDE DEF f
  <2>8. StackOk(recs, table, stack') /\ SameButTop(FrameType, stack', stack, f)
    BY <1>3, <2>3, <2>6, StackReplaced DEF Top
  <2>9. Top' = f
    BY <2>8 DEF SameButTop, Top
  <2>10. InnerCall'
    BY <1>1, <1>6, <2>7, <2>9 DEF InnerCall
  <2>11. stack' \in Seq(FrameType)
    BY <2>8 DEF StackOk
  <2> QED
    BY <1>1, <1>3, <1>4, <1>6, <2>8, <2>10, <2>11 DEF CallsInv
<1> QED
  BY <1>5, <1>6 DEF ArrangeNode

(* Steps that leave the calls alone. *)
LEMMA CallsSame ==
  ASSUME CallsInv, Working, UNCHANGED <<recs, table, stack, tail>>, ret' \in Int,
         pc' \in {"search", "children", "return"}, InnerCall'
  PROVE  CallsInv'
<1>1. /\ RecordsTyped(recs) /\ TableOk(table) /\ tail \in Seq(Int) /\ tail # <<>>
      /\ StackOk(recs, table, stack)
  BY TopCall
<1> QED
  BY <1>1 DEF CallsInv

(* Nothing is open after build(). *)
LEMMA CallsThrown ==
  ASSUME CallsInv, UNCHANGED <<recs, table, stack, tail, ret>>, pc' \in {"thrown", "built"}
  PROVE  CallsInv'
BY DEF CallsInv, Working

(* The search for a base goes on. *)
LEMMA CallsSearchOn == ASSUME CallsInv, SearchOn PROVE CallsInv'
<1>1. pc = "search" /\ UNCHANGED <<pc, recs, table, tail, stack, ret>>
  BY DEF SearchOn
<1>2. Working
  BY <1>1 DEF Working
<1>3. InnerCall'
  BY <1>1, <1>2 DEF CallsInv, InnerCall, Top
<1>4. ret' \in Int
  BY <1>1 DEF CallsInv
<1> QED
  BY <1>1, <1>2, <1>3, <1>4, CallsSame

(* What a step of the search does to the innermost call. *)
LEMMA SearchTrySteps ==
  ASSUME SearchTry
  PROVE  LET next == VlistNext(elink, index)
             base == next - Top.children[1].offset
             size == base + MaxOffset(Top.children) + 1
         IN  /\ pc = "search" /\ index' = next /\ base >= 1 /\ base \notin used
             /\ da' = DaExpand(da, size) /\ elink' = VlistExpand(elink, size)
             /\ \/ UNCHANGED <<pc, stack>>
                \/ /\ pc' = "reserve" /\ stack' = [stack EXCEPT ![1].base = base]
                   /\ \A n \in 2 .. Len(Top.children) : ~ InUse(da', base + Top.children[n].offset)
             /\ UNCHANGED <<builds, recs, table, used, tail, ret, stat>>
BY DEF SearchTry, BaseUsed, INITIAL_INDEX

(* The search tries a base, or has found one. *)
LEMMA CallsSearchTry ==
  ASSUME CallsInv, SearchTry, VlistNext(elink, index) \in Int
  PROVE  CallsInv'
<1> DEFINE base == VlistNext(elink, index) - Top.children[1].offset
<1>1. /\ pc = "search" /\ base >= 1
      /\ \/ UNCHANGED <<pc, stack>>
         \/ pc' = "reserve" /\ stack' = [stack EXCEPT ![1].base = base]
      /\ UNCHANGED <<recs, table, tail, ret>>
  BY SearchTrySteps
<1>2. Working
  BY <1>1 DEF Working
<1>3. /\ RecordsTyped(recs) /\ TableOk(table) /\ tail \in Seq(Int) /\ tail # <<>>
      /\ StackOk(recs, table, stack) /\ Top \in FrameType /\ Ranged(recs, Top)
      /\ Top = stack[1] /\ stack # <<>> /\ stack \in Seq(FrameType)
  BY <1>2, TopCall
<1>4. ret \in Int /\ Searching(recs, table, Top)
  BY <1>1, <1>2 DEF CallsInv, InnerCall
<1>7. base \in Nat
  <2>1. Top.children[1].offset \in Nat
    BY <1>3, <1>4, ListedChild DEF Searching
  <2> QED
    BY <1>1, <2>1
<1> HIDE DEF base
<1>5. CASE UNCHANGED <<pc, stack>>
  <2>1. InnerCall'
    BY <1>1, <1>4, <1>5 DEF InnerCall, Top
  <2> QED
    BY <1>1, <1>2, <1>4, <1>5, <2>1, CallsSame
<1>6. CASE pc' = "reserve" /\ stack' = [stack EXCEPT ![1].base = base] /\ base \in Nat
  <2> DEFINE f == [Top EXCEPT !.base = base]
  <2>1. stack' = [stack EXCEPT ![1] = f]
    BY <1>3, <1>6
  <2>2. /\ f \in FrameType /\ f.p = Top.p /\ f.first = Top.first /\ f.last = Top.last
        /\ f.children = Top.children /\ f.child = Top.child
    BY <1>3, <1>6 DEF FrameType
  <2> HIDE DEF f
  <2>3. Searching(recs, table, f)
    BY <1>4, <2>2 DEF Searching, Listed
  <2>4. StackOk(recs, table, stack') /\ SameButTop(FrameType, stack', stack, f)
    BY <1>3, <2>1, <2>2, StackReplaced DEF Top
  <2>5. Top' = f
    BY <2>4 DEF SameButTop, Top
  <2>6. InnerCall'
    BY <1>1, <1>6, <2>3, <2>5 DEF InnerCall
  <2>7. stack' \in Seq(FrameType)
    BY <2>4 DEF StackOk
  <2> QED
    BY <1>1, <1>3, <1>4, <1>6, <2>4, <2>6, <2>7 DEF CallsInv
<1> QED
  BY <1>1, <1>5, <1>6, <1>7

(* The elements of the children are reserved. *)
LEMMA CallsReserve == ASSUME CallsInv, Reserve PROVE CallsInv'
<1>1. /\ pc = "reserve" /\ UNCHANGED <<recs, table, tail, stack, ret>>
      /\ pc' \in {"thrown", "children"}
  BY DEF Reserve, Throw
<1>2. Working
  BY <1>1 DEF Working
<1>3. Searching(recs, table, Top) /\ ret \in Int
  BY <1>1, <1>2 DEF CallsInv, InnerCall
<1>4. CASE pc' = "thrown"
  BY <1>1, <1>4, CallsThrown
<1>5. CASE pc' = "children"
  <2>1. Filling(recs, table, Top)
    <3>1. Len(Top.children) \in Nat \ {0}
      BY <1>3, ListedChild DEF Searching
    <3> QED
      BY <1>3, <3>1 DEF Searching, Filling
  <2>2. InnerCall'
    BY <1>1, <1>5, <2>1 DEF InnerCall, Top
  <2> QED
    BY <1>1, <1>2, <1>3, <1>5, <2>2, CallsSame
<1> QED
  BY <1>1, <1>4, <1>5

(* A child with several records of one key is refused, others are called for. *)
LEMMA CallsEnterChild == ASSUME CallsInv, EnterChild PROVE CallsInv'
<1> DEFINE child == Top.children[Top.child]
           f == Frame(Top.p + (IF child.c = 0 THEN 0 ELSE 1), child.first, child.last)
<1>1. /\ pc = "children" /\ Top.child <= Len(Top.children)
      /\ UNCHANGED <<recs, table, tail, ret>>
      /\ \/ pc' = "thrown" /\ UNCHANGED stack
         \/ ~ Duplicates(child) /\ stack' = Pushed(f, stack) /\ pc' = "arrange"
  BY DEF EnterChild, Throw, Pushed
<1>2. Working
  BY <1>1 DEF Working
<1>3. /\ RecordsTyped(recs) /\ TableOk(table) /\ tail \in Seq(Int) /\ tail # <<>>
      /\ StackOk(recs, table, stack) /\ Top \in FrameType /\ Ranged(recs, Top)
  BY <1>2, TopCall
<1>4. ret \in Int /\ Listed(recs, table, Top) /\ Top.child \in 1 .. Len(Top.children)
  <2>1. Filling(recs, table, Top) /\ ret \in Int
    BY <1>1, <1>2 DEF CallsInv, InnerCall
  <2>2. Top.child \in Nat
    BY <1>3 DEF FrameType
  <2>3. Len(Top.children) \in Nat
    BY <2>1, ListedChild DEF Filling
  <2> QED
    BY <1>1, <2>1, <2>2, <2>3 DEF Filling
<1>5. CASE pc' = "thrown" /\ UNCHANGED stack
  BY <1>1, <1>5, CallsThrown
<1>6. CASE ~ Duplicates(child) /\ stack' = Pushed(f, stack) /\ pc' = "arrange"
  <2>1. child.first \in Nat /\ child.last \in Nat
    BY <1>4, ListedChild
  <2> DEFINE p == Top.p + (IF child.c = 0 THEN 0 ELSE 1)
  <2>2. p \in Nat
    BY <1>3 DEF FrameType
  <2> HIDE DEF p, child
  <2>3. /\ f \in FrameType /\ f.p = p /\ f.first = child.first /\ f.last = child.last
        /\ Started(f)
    BY <2>1, <2>2, FrameTyped DEF p
  <2> HIDE DEF f
  <2>4. Ranged(recs, f)
    BY <1>3, <1>4, <2>3, ChildRanged DEF child, p
  <2>5. Calls(recs, table, Top, f)
    BY <1>4, <1>6, <2>3 DEF Calls, child, p
  <2>6. StackOk(recs, table, stack') /\ OneMore(FrameType, stack', stack, f)
    BY <1>3, <1>6, <2>3, <2>4, <2>5, StackPushed DEF Top
  <2>7. Top' = f
    BY <2>6 DEF OneMore, Top
  <2>8. InnerCall'
    BY <1>6, <2>3, <2>7 DEF InnerCall
  <2>9. stack' \in Seq(FrameType)
    BY <2>6 DEF StackOk
  <2> QED
    BY <1>1, <1>3, <1>4, <1>6, <2>6, <2>8, <2>9 DEF CallsInv
<1> QED
  BY <1>1, <1>5, <1>6

(* All children have returned. *)
LEMMA CallsLeaveNode == ASSUME CallsInv, LeaveNode PROVE CallsInv'
<1>1. /\ pc = "children" /\ Top.child > Len(Top.children) /\ pc' = "return"
      /\ UNCHANGED <<recs, table, tail, stack>> /\ ret' = Top.base
  BY DEF LeaveNode
<1>2. Working
  BY <1>1 DEF Working
<1>3. Top \in FrameType /\ Filling(recs, table, Top)
  BY <1>1, <1>2, TopCall DEF CallsInv, InnerCall
<1>4. Returning(recs, table, Top, ret')
  <2>1. Len(Top.children) \in Nat
    BY <1>3, ListedChild DEF Filling
  <2> QED
    BY <1>1, <1>3, <2>1 DEF Filling, Returning
<1>5. InnerCall' /\ ret' \in Int
  BY <1>1, <1>3, <1>4 DEF InnerCall, Top, FrameType
<1> QED
  BY <1>1, <1>2, <1>5, CallsSame

(* The caller, whose child at hand has returned. *)
LEMMA CallerIs ==
  ASSUME CallsInv, Working, Len(stack) > 1
  PROVE  /\ stack[2] = Call(Depth - 1) /\ stack[2] \in FrameType
         /\ Ranged(recs, stack[2]) /\ Calls(recs, table, stack[2], Top)
<1>1. /\ StackOk(recs, table, stack) /\ stack \in Seq(FrameType)
      /\ Depth \in Nat \ {0} /\ Top = Call(Depth)
  BY TopCall
<1>2. Depth > 1 /\ Depth + 1 - (Depth - 1) = 2 /\ 2 \in 1 .. Depth /\ Depth - 1 \in 1 .. Depth
      /\ Depth - 1 \in 1 .. Depth - 1 /\ (Depth - 1) + 1 = Depth
  BY <1>1 DEF Depth
<1>3. stack[2] = Call(Depth - 1) /\ stack[2] \in FrameType
  BY <1>1, <1>2 DEF Call, CallOf, Depth
<1>4. Ranged(recs, Call(Depth - 1)) /\ Calls(recs, table, Call(Depth - 1), Call(Depth))
  BY <1>1, <1>2 DEF StackOk, Call, Depth
<1> QED
  BY <1>1, <1>3, <1>4

(* A call returns to the call for its parent. *)
LEMMA CallsReturnToParent ==
  ASSUME CallsInv, ReturnToParent
  PROVE  /\ CallsInv'
         /\ OneLess(FrameType, stack', stack, [stack[2] EXCEPT !.child = @ + 1])
<1> DEFINE f == [stack[2] EXCEPT !.child = @ + 1]
<1>1. /\ pc = "return" /\ Len(stack) > 1 /\ pc' = "children"
      /\ stack' = Pushed(f, SubSeq(stack, 3, Len(stack)))
      /\ UNCHANGED <<recs, table, tail, ret>>
  BY DEF ReturnToParent, Pushed
<1>2. Working
  BY <1>1 DEF Working
<1>3. /\ RecordsTyped(recs) /\ TableOk(table) /\ tail \in Seq(Int) /\ tail # <<>>
      /\ StackOk(recs, table, stack) /\ ret \in Int
  BY <1>2, TopCall DEF CallsInv
<1>4. stack[2] \in FrameType /\ Calls(recs, table, stack[2], Top)
  BY <1>1, <1>2, CallerIs
<1>5. /\ f \in FrameType /\ f.p = stack[2].p /\ f.first = stack[2].first
      /\ f.last = stack[2].last /\ f.children = stack[2].children /\ f.child = stack[2].child + 1
  BY <1>4 DEF FrameType
<1> HIDE DEF f
<1>6. Filling(recs, table, f)
  <2>1. Listed(recs, table, stack[2]) /\ stack[2].child \in 1 .. Len(stack[2].children)
    BY <1>4 DEF Calls
  <2>2. Len(stack[2].children) \in Nat
    BY <2>1, ListedChild
  <2>3. stack[2].child + 1 \in 1 .. Len(stack[2].children) + 1
    BY <2>1, <2>2
  <2> QED
    BY <1>5, <2>1, <2>3 DEF Filling, Listed
<1>7. StackOk(recs, table, stack') /\ OneLess(FrameType, stack', stack, f)
  BY <1>1, <1>3, <1>5, StackPopped
<1>8. Top' = f
  BY <1>7 DEF OneLess, Top
<1>9. InnerCall'
  BY <1>1, <1>6, <1>8 DEF InnerCall
<1>10. stack' \in Seq(FrameType)
  BY <1>7 DEF StackOk
<1> QED
  BY <1>1, <1>3, <1>7, <1>9, <1>10 DEF CallsInv, f

(* The call for the root returns to build(). *)
LEMMA CallsReturnToBuild == ASSUME CallsInv, ReturnToBuild PROVE CallsInv'
<1>1. pc' = "built" /\ stack' = <<>> /\ UNCHANGED <<table, tail, ret>>
  BY DEF ReturnToBuild
<1> QED
  BY <1>1 DEF CallsInv, Working

-----------------------------------------------------------------------------
(* The order of the records. *)

(* Characters can be compared. *)
LEMMA CharNumbers ==
  ASSUME RecordsTyped(recs), NEW i \in 1 .. Len(recs)
  PROVE  Len(recs[i].key) \in Nat /\ \A p \in Nat : CharAt(recs[i].key, p) \in Int
<1>1. ASSUME NEW p \in Nat PROVE Len(recs[i].key) \in Nat /\ CharAt(recs[i].key, p) \in Int
  <2>1. Len(recs[i].key) \in Nat /\ CharAt(recs[i].key, p) \in Chars
    BY CharType
  <2> QED
    BY <2>1 DEF Chars
<1> QED
  BY <1>1

(* The first character at which two keys differ decides. *)
LEMMA BeforeByChar ==
  ASSUME RecordsTyped(recs), NEW f \in FrameType, Ranged(recs, f),
         NEW i \in f.first .. f.last - 1, NEW j \in f.first .. f.last - 1,
         CharAt(recs[i].key, f.p) < CharAt(recs[j].key, f.p)
  PROVE  Before(recs[i].key, recs[j].key)
<1> DEFINE a == recs[i].key
           b == recs[j].key
           p == f.p
<1>1. /\ p \in Nat /\ i \in 1 .. Len(recs) /\ j \in 1 .. Len(recs)
      /\ p <= Len(a) /\ p <= Len(b)
      /\ \A q \in 0 .. p - 1 : CharAt(a, q) = CharAt(b, q)
  <2>1. f.p \in Nat /\ f.first \in Nat /\ f.last \in Nat /\ Len(recs) \in Nat
    BY DEF FrameType, RecordsTyped
  <2>2. i \in 1 .. Len(recs) /\ j \in 1 .. Len(recs)
    BY <2>1 DEF Ranged
  <2> QED
    BY <2>1, <2>2 DEF Ranged, Agreeing
<1>2. Len(a) \in Nat /\ Len(b) \in Nat
  BY <1>1, CharType
<1>3. CharAt(a, p) < CharAt(b, p)
  OBVIOUS
<1> HIDE DEF a, b, p
<1>4. ASSUME NEW q \in 0 .. p - 1 PROVE q < Len(a) /\ a[q + 1] = CharAt(b, q)
  <2>1. q < Len(a) /\ q \in Nat
    BY <1>1, <1>2
  <2> QED
    BY <1>1, <2>1 DEF CharAt
<1>5. p \in 0 .. Len(b)
  BY <1>1, <1>2
<1>6. Before(a, b)
  BY <1>1, <1>3, <1>4, <1>5 DEF Before
<1> QED
  BY <1>6 DEF a, b

(* In sorted records, characters after an agreement ascend. *)
LEMMA SortedAscends ==
  ASSUME RecordsTyped(recs), NEW f \in FrameType, Ranged(recs, f), Sorted(recs)
  PROVE  SortedAt(f.p, f.first, f.last)
<1> SUFFICES ASSUME NEW i \in f.first .. f.last - 2
             PROVE  CharAt(recs[i].key, f.p) <= CharAt(recs[i + 1].key, f.p)
  BY DEF SortedAt
<1> DEFINE a == recs[i].key
           b == recs[i + 1].key
           p == f.p
<1>1. /\ p \in Nat /\ i \in 1 .. Len(recs) /\ i + 1 \in 1 .. Len(recs) /\ i \in 1 .. Len(recs) - 1
      /\ p <= Len(a) /\ p <= Len(b)
      /\ \A q \in 0 .. p - 1 : CharAt(a, q) = CharAt(b, q)
  <2>1. f.p \in Nat /\ f.first \in Nat /\ f.last \in Nat /\ Len(recs) \in Nat
    BY DEF FrameType, RecordsTyped
  <2>2. 1 <= f.first /\ f.last <= Len(recs) + 1
    BY DEF Ranged
  <2>3. i \in 1 .. Len(recs) /\ i + 1 \in 1 .. Len(recs) /\ i \in 1 .. Len(recs) - 1
    BY <2>1, <2>2
  <2>4. i \in f.first .. f.last - 1 /\ i + 1 \in f.first .. f.last - 1
    BY <2>1
  <2> QED
    BY <2>1, <2>3, <2>4 DEF Ranged, Agreeing
<1>2. Before(a, b)
  BY <1>1 DEF Sorted
<1>3. /\ Len(a) \in Nat /\ Len(b) \in Nat
      /\ \A q \in Nat : CharAt(a, q) \in Int /\ CharAt(b, q) \in Int
  BY <1>1, CharNumbers
<1> HIDE DEF a, b, p
<1>4. PICK r \in 0 .. Len(b) :
        /\ \A q \in 0 .. r - 1 : q < Len(a) /\ a[q + 1] = CharAt(b, q)
        /\ CharAt(a, r) < CharAt(b, r)
  BY <1>2 DEF Before
<1>5. r \in Nat /\ r \notin 0 .. p - 1
  <2>1. r \in Nat
    BY <1>3
  <2> QED
    BY <1>1, <1>3, <1>4, <2>1
<1>6. CASE r = p
  BY <1>1, <1>3, <1>4, <1>6 DEF a, b, p
<1>7. CASE p < r
  <2>1. p \in 0 .. r - 1
    BY <1>1, <1>5, <1>7
  <2>2. CharAt(a, p) = CharAt(b, p)
    BY <1>4, <2>1 DEF CharAt
  <2>3. p \in Nat
    BY <1>1 DEF p
  <2>4. CharAt(a, p) <= CharAt(b, p)
    BY <1>3, <2>2, <2>3
  <2> QED
    BY <2>4 DEF a, b, p
<1>8. r = p \/ p < r
  BY <1>1, <1>5
<1> QED
  BY <1>6, <1>7, <1>8

(* Two records at the NUL of their keys have the same key. *)
LEMMA DuplicatesUnsorted ==
  ASSUME RecordsTyped(recs), NEW f \in FrameType, Ranged(recs, f), Listed(recs, table, f),
         NEW n \in 1 .. Len(f.children), Duplicates(f.children[n]), Sorted(recs)
  PROVE  FALSE
<1> DEFINE i == f.children[n].first
           a == recs[i].key
           b == recs[i + 1].key
           p == f.p
<1>1. /\ f.p \in Nat /\ f.first \in Nat /\ f.last \in Nat /\ Len(recs) \in Nat
      /\ f.children[n].first \in Nat /\ f.children[n].last \in Nat
  <2>1. f.children[n].first \in Nat /\ f.children[n].last \in Nat
    BY ListedChild
  <2>2. f.p \in Nat /\ f.first \in Nat /\ f.last \in Nat
    BY DEF FrameType
  <2>3. Len(recs) \in Nat
    BY DEF RecordsTyped
  <2> QED
    BY <2>1, <2>2, <2>3
<1>2. /\ f.first <= i /\ i + 1 < f.children[n].last /\ f.children[n].last <= f.last
      /\ CharAt(a, p) = 0 /\ CharAt(b, p) = 0
  <2>1. /\ f.first <= i /\ i < f.children[n].last /\ f.children[n].last <= f.last
        /\ \A k \in i .. f.children[n].last - 1 : CharAt(recs[k].key, f.p) = f.children[n].c
        /\ f.children[n].c = 0 /\ i + 1 # f.children[n].last
    BY DEF Listed, ChildrenFit, Duplicates
  <2> DEFINE e == f.children[n].last
  <2>2. i \in Nat /\ e \in Nat /\ i < e /\ i + 1 # e
    BY <1>1, <2>1
  <2>3. i \in i .. e - 1 /\ i + 1 \in i .. e - 1 /\ i + 1 < e
    <3> HIDE DEF i, e
    <3> QED
      BY <2>2
  <2>4. CharAt(a, p) = 0 /\ CharAt(b, p) = 0
    BY <2>1, <2>3
  <2> QED
    BY <2>1, <2>3, <2>4
<1>3. 1 <= f.first /\ f.last <= Len(recs) + 1
  BY DEF Ranged
<1>4. /\ i \in 1 .. Len(recs) /\ i + 1 \in 1 .. Len(recs) /\ i \in 1 .. Len(recs) - 1
      /\ i \in f.first .. f.last - 1 /\ i + 1 \in f.first .. f.last - 1
  <2> DEFINE e == f.children[n].last
  <2>1. i \in Nat /\ e \in Nat /\ i + 1 < e /\ e <= f.last /\ f.first <= i
    BY <1>1, <1>2
  <2> HIDE DEF e, i
  <2> QED
    BY <1>1, <1>3, <2>1
<1>5. /\ Len(a) \in Nat /\ Len(b) \in Nat /\ ~ (p < Len(a)) /\ ~ (p < Len(b))
      /\ \A q \in Nat : CharAt(a, q) \in Int /\ CharAt(b, q) \in Int
  BY <1>1, <1>2, <1>4, CharType, CharNumbers
<1>6. \A q \in 0 .. p - 1 : CharAt(a, q) = CharAt(b, q)
  BY <1>4 DEF Ranged, Agreeing
<1>7. Before(a, b)
  BY <1>4 DEF Sorted
<1>10. p \in Nat
  BY <1>1
<1> HIDE DEF a, b, p, i
<1>8. PICK r \in 0 .. Len(b) : CharAt(a, r) < CharAt(b, r)
  BY <1>7 DEF Before
<1>9. r \in Nat /\ (r = p \/ r \in 0 .. p - 1)
  BY <1>5, <1>10
<1> QED
  BY <1>2, <1>5, <1>6, <1>8, <1>9

-----------------------------------------------------------------------------

(* While build() works nothing is said of its result. *)
LEMMA OrderWorking ==
  ASSUME Working', InOrderUpTo(recs, Reached)', pc' # "built", pc' # "thrown"
  PROVE  OrderInv'
BY DEF OrderInv, OnlySortedBuilt, SortedRefusedForSpace

(* One lemma for each step of the builder: the order known so far. *)
LEMMA OrderBuild == ASSUME CallsInv, Build PROVE OrderInv'
<1>1. CallsInv' /\ pc' = "arrange"
  BY CallsBuild DEF Build
<1>2. PICK given \in Inputs : stack' = <<Frame(0, 1, Len(given) + 1)>>
  BY DEF Build
<1>3. Top'.first = 1
  BY <1>2 DEF Top, Frame
<1>4. Reached' = 1
  BY <1>1, <1>3 DEF Reached
<1>5. InOrderUpTo(recs, Reached)'
  BY <1>4 DEF InOrderUpTo
<1> QED
  BY <1>1, <1>5, OrderWorking DEF Working

(* A record that is alone has nothing to come before. *)
LEMMA OrderArrangeLeaf == ASSUME CallsInv, OrderInv, ArrangeLeaf PROVE OrderInv'
<1>1. pc = "arrange" /\ Top.first + 1 = Top.last /\ UNCHANGED <<recs, stack>> /\ Top' = Top
  BY DEF ArrangeLeaf, Top
<1>2. Working
  BY <1>1 DEF Working
<1>3. Reached = Top.first /\ Top.first \in Nat /\ InOrderUpTo(recs, Top.first)
  BY <1>1, <1>2, TopCall DEF Reached, OrderInv, FrameType
<1>4. CASE pc' = "thrown" /\ MaxBase < Len(tail) /\ UNCHANGED tail
  BY <1>4 DEF OrderInv, Working, OnlySortedBuilt, SortedRefusedForSpace
<1>5. CASE pc' = "return"
  <2>1. Reached' = Top.first
    BY <1>1, <1>3, <1>5 DEF Reached
  <2> QED
    BY <1>1, <1>3, <1>5, <2>1, OrderWorking DEF Working, InOrderUpTo
<1> QED
  BY <1>4, <1>5 DEF ArrangeLeaf, Throw

(* A node whose records are found unsorted is refused, and the input is not sorted. *)
LEMMA OrderArrangeNode == ASSUME CallsInv, OrderInv, ArrangeNode PROVE OrderInv'
<1>1. pc = "arrange" /\ UNCHANGED recs
  BY DEF ArrangeNode
<1>2. Working
  BY <1>1 DEF Working
<1>3. /\ Reached = Top.first /\ InOrderUpTo(recs, Top.first) /\ RecordsTyped(recs)
      /\ Top \in FrameType /\ Ranged(recs, Top) /\ stack # <<>> /\ stack \in Seq(FrameType)
      /\ Top = stack[1]
  BY <1>1, <1>2, TopCall DEF Reached, OrderInv
<1>4. CASE pc' = "thrown" /\ ~ SortedAt(Top.p, Top.first, Top.last)
  <2>1. ~ Sorted(recs)
    BY <1>3, <1>4, SortedAscends
  <2>2. ~ Sorted(recs)'
    BY <1>1, <2>1 DEF Sorted, Before, CharAt
  <2> QED
    BY <1>4, <2>2 DEF OrderInv, Working, OnlySortedBuilt, SortedRefusedForSpace
<1>5. CASE /\ pc' = "search"
           /\ stack' = [stack EXCEPT ![1].children = ChildrenOf(Top.p, Top.first, Top.last)]
  <2> DEFINE f == [Top EXCEPT !.children = ChildrenOf(Top.p, Top.first, Top.last)]
  <2>1. stack' = [stack EXCEPT ![1] = f]
    BY <1>3, <1>5
  <2>2. f.first = Top.first
    BY <1>3 DEF FrameType
  <2> HIDE DEF f
  <2>3. Head(stack') = f
    BY <1>3, <2>1
  <2>4. Reached' = Top.first
    BY <1>5, <2>2, <2>3 DEF Reached, Top
  <2> QED
    BY <1>1, <1>3, <1>5, <2>4, OrderWorking DEF Working, InOrderUpTo
<1> QED
  BY <1>4, <1>5 DEF ArrangeNode, Throw

(* The search looks at no record. *)
LEMMA OrderSearchOn == ASSUME CallsInv, OrderInv, SearchOn PROVE OrderInv'
<1>1. pc = "search" /\ pc' = pc /\ UNCHANGED <<recs, stack>> /\ Top' = Top
  BY DEF SearchOn, Top
<1>2. Working
  BY <1>1 DEF Working
<1>3. InOrderUpTo(recs, Top.first) /\ Reached' = Top.first
  BY <1>1, <1>2 DEF Reached, OrderInv
<1> QED
  BY <1>1, <1>2, <1>3, OrderWorking DEF Working, InOrderUpTo

(* Nor does a base that is tried. *)
LEMMA OrderSearchTry == ASSUME CallsInv, OrderInv, SearchTry PROVE OrderInv'
<1> DEFINE base == VlistNext(elink, index) - Top.children[1].offset
<1>1. /\ pc = "search" /\ UNCHANGED recs
      /\ \/ UNCHANGED <<pc, stack>>
         \/ pc' = "reserve" /\ stack' = [stack EXCEPT ![1].base = base]
  BY SearchTrySteps
<1> HIDE DEF base
<1>2. Working
  BY <1>1 DEF Working
<1>3. /\ InOrderUpTo(recs, Top.first) /\ Top \in FrameType /\ stack # <<>> /\ stack \in Seq(FrameType)
      /\ Top = stack[1]
  BY <1>1, <1>2, TopCall DEF Reached, OrderInv
<1>4. CASE UNCHANGED <<pc, stack>>
  <2>1. Reached' = Top.first
    BY <1>1, <1>4 DEF Reached, Top
  <2> QED
    BY <1>1, <1>3, <1>4, <2>1, OrderWorking DEF Working, InOrderUpTo
<1>5. CASE pc' = "reserve" /\ stack' = [stack EXCEPT ![1].base = base]
  <2> DEFINE f == [Top EXCEPT !.base = base]
  <2>1. stack' = [stack EXCEPT ![1] = f]
    BY <1>3, <1>5
  <2>2. f.first = Top.first
    BY <1>3 DEF FrameType
  <2> HIDE DEF f
  <2>3. Head(stack') = f
    BY <1>3, <2>1
  <2>4. Reached' = Top.first
    BY <1>5, <2>2, <2>3 DEF Reached, Top
  <2> QED
    BY <1>1, <1>3, <1>5, <2>4, OrderWorking DEF Working, InOrderUpTo
<1> QED
  BY <1>1, <1>4, <1>5

(* A build refused for space has said nothing about the order. *)
LEMMA OrderReserve == ASSUME CallsInv, OrderInv, Reserve PROVE OrderInv'
<1>1. pc = "reserve" /\ UNCHANGED <<recs, stack, tail>> /\ Top' = Top
  BY DEF Reserve, Top
<1>2. Working
  BY <1>1 DEF Working
<1>3. InOrderUpTo(recs, Top.first) /\ Searching(recs, table, Top)
  BY <1>1, <1>2 DEF Reached, OrderInv, CallsInv, InnerCall
<1>4. Len(Top.children) \in Nat \ {0} /\ Top.child = 1 /\ Top.children[1].first = Top.first
  BY <1>3 DEF Searching, Listed, ChildrenFit
<1>5. CASE pc' = "thrown" /\ MaxBase <= Top.base + MaxOffset(Top.children)
  <2>1. Top.children # <<>>
    BY <1>4
  <2> QED
    BY <1>1, <1>5, <2>1 DEF OrderInv, Working, OnlySortedBuilt, SortedRefusedForSpace
<1>6. CASE pc' = "children"
  <2>1. Reached' = Top.first
    <3>1. Top.child <= Len(Top.children)
      BY <1>4
    <3> QED
      BY <1>1, <1>4, <1>6, <3>1 DEF Reached
  <2> QED
    BY <1>1, <1>3, <1>6, <2>1, OrderWorking DEF Working, InOrderUpTo
<1> QED
  BY <1>5, <1>6 DEF Reserve, Throw

(* A duplicate key is refused, and the input is not sorted. *)
LEMMA OrderEnterChild == ASSUME CallsInv, OrderInv, EnterChild PROVE OrderInv'
<1> DEFINE child == Top.children[Top.child]
           f == Frame(Top.p + (IF child.c = 0 THEN 0 ELSE 1), child.first, child.last)
<1>1. /\ pc = "children" /\ Top.child <= Len(Top.children) /\ UNCHANGED recs
      /\ \/ pc' = "thrown" /\ Duplicates(child)
         \/ ~ Duplicates(child) /\ stack' = <<f>> \o stack /\ pc' = "arrange"
  BY DEF EnterChild, Throw
<1>2. Working
  BY <1>1 DEF Working
<1>3. /\ InOrderUpTo(recs, child.first) /\ Filling(recs, table, Top) /\ RecordsTyped(recs)
      /\ Top \in FrameType /\ Ranged(recs, Top) /\ stack \in Seq(FrameType)
  BY <1>1, <1>2, TopCall DEF Reached, OrderInv, CallsInv, InnerCall
<1>4. Listed(recs, table, Top) /\ Top.child \in 1 .. Len(Top.children)
  <2>1. Len(Top.children) \in Nat /\ Top.child \in Nat
    BY <1>3, ListedChild DEF Filling, FrameType
  <2> QED
    BY <1>1, <1>3, <2>1 DEF Filling
<1>5. CASE pc' = "thrown" /\ Duplicates(child)
  <2>1. ~ Sorted(recs)
    BY <1>3, <1>4, <1>5, DuplicatesUnsorted
  <2>2. ~ Sorted(recs)'
    <3>1. recs' = recs
      BY <1>1
    <3> QED
      BY Zenon, <2>1, <3>1 DEF Sorted
  <2> QED
    BY <1>5, <2>2 DEF OrderInv, Working, OnlySortedBuilt, SortedRefusedForSpace
<1>6. CASE stack' = <<f>> \o stack /\ pc' = "arrange"
  <2>1. f.first = child.first
    BY DEF Frame
  <2> HIDE DEF f, child
  <2>2. Top' = f
    BY <1>3, <1>6 DEF Top
  <2>3. Reached' = child.first
    BY <1>6, <2>1, <2>2 DEF Reached
  <2> QED
    BY <1>1, <1>3, <1>6, <2>3, OrderWorking DEF Working, InOrderUpTo
<1> QED
  BY <1>1, <1>5, <1>6

(* All records of a node are in order. *)
LEMMA OrderLeaveNode == ASSUME CallsInv, OrderInv, LeaveNode PROVE OrderInv'
<1>1. /\ pc = "children" /\ Top.child > Len(Top.children) /\ pc' = "return"
      /\ UNCHANGED <<recs, stack>> /\ Top' = Top
  BY DEF LeaveNode, Top
<1>2. Working
  BY <1>1 DEF Working
<1>3. ~ (Top.child <= Len(Top.children))
  <2>1. Len(Top.children) \in Nat /\ Top.child \in Nat
    BY <1>1, <1>2, TopCall, ListedChild DEF Filling, FrameType, CallsInv, InnerCall
  <2> QED
    BY <1>1, <2>1
<1>4. Reached = Top.last - 1 /\ Reached' = Top.last - 1
  BY <1>1, <1>3 DEF Reached
<1>5. InOrderUpTo(recs, Reached)
  BY <1>2 DEF OrderInv
<1> QED
  BY <1>1, <1>4, <1>5, OrderWorking DEF Working, InOrderUpTo

(* The last record of a child comes before the first one of the next. *)
LEMMA OrderReturnToParent == ASSUME CallsInv, OrderInv, ReturnToParent PROVE OrderInv'
<1> DEFINE g == stack[2]
           f == [g EXCEPT !.child = @ + 1]
           n == g.child
           ch == g.children
<1>1. pc = "return" /\ Len(stack) > 1 /\ pc' = "children" /\ UNCHANGED recs
  BY DEF ReturnToParent
<1>2. Working
  BY <1>1 DEF Working
<1>3. Top' = f
  BY CallsReturnToParent DEF OneLess, Top
<1>4. g \in FrameType /\ Ranged(recs, g) /\ Calls(recs, table, g, Top) /\ RecordsTyped(recs)
  BY <1>1, <1>2, CallerIs, TopCall
<1>5. /\ f.children = ch /\ f.child = n + 1 /\ f.last = g.last
      /\ Listed(recs, table, g) /\ n \in 1 .. Len(ch) /\ Top.last = ch[n].last
  BY <1>4 DEF Calls, FrameType
<1>6. /\ Len(ch) \in Nat \ {0} /\ ch[n].last \in Nat /\ g.first \in Nat /\ g.last \in Nat
      /\ Len(recs) \in Nat
  <2>1. Len(ch) \in Nat \ {0} /\ ch[n].last \in Nat
    BY <1>5, ListedChild
  <2>2. g.first \in Nat /\ g.last \in Nat
    BY <1>4 DEF FrameType
  <2>3. Len(recs) \in Nat
    BY <1>4 DEF RecordsTyped
  <2> QED
    BY <2>1, <2>2, <2>3
<1>7. InOrderUpTo(recs, ch[n].last - 1)
  BY <1>1, <1>2, <1>5 DEF OrderInv, Reached
<1> HIDE DEF f
<1>8. CASE n + 1 <= Len(ch)
  <2> DEFINE b == ch[n].last
  <2>1. n \in 1 .. Len(ch) - 1 /\ n + 1 \in 1 .. Len(ch)
    BY <1>5, <1>6, <1>8
  <2>2. Reached' = ch[n + 1].first
    BY <1>1, <1>3, <1>5, <1>8 DEF Reached
  <2>3. b = ch[n + 1].first /\ g.first <= ch[n].first /\ ch[n].first < b /\ b < ch[n + 1].last
        /\ ch[n + 1].last <= g.last /\ ch[n].c < ch[n + 1].c
    <3>1. n < n + 1
      BY <2>1
    <3> QED
      BY <1>5, <2>1, <3>1 DEF Listed, ChildrenFit, ChildrenAscend
  <2>4. ch[n].first \in Nat /\ ch[n + 1].last \in Nat
    BY <1>5, <2>1, ListedChild
  <2>5. CharAt(recs[b - 1].key, g.p) = ch[n].c /\ CharAt(recs[b].key, g.p) = ch[n + 1].c
    <3>1. b - 1 \in ch[n].first .. ch[n].last - 1 /\ b \in ch[n + 1].first .. ch[n + 1].last - 1
      <4> DEFINE x == ch[n].first
                 y == ch[n + 1].last
      <4>1. x \in Nat /\ y \in Nat /\ b \in Nat /\ x < b /\ b < y
        BY <1>6, <2>3, <2>4
      <4> HIDE DEF x, y, b
      <4>2. b - 1 \in x .. b - 1 /\ b \in b .. y - 1
        BY <4>1
      <4> QED
        BY <2>3, <4>2 DEF x, y, b
    <3> HIDE DEF b, ch, n, g
    <3>2. \A k \in 1 .. Len(ch) : \A i \in ch[k].first .. ch[k].last - 1 :
              CharAt(recs[i].key, g.p) = ch[k].c
      BY <1>5 DEF Listed, ChildrenFit, ch
    <3> QED
      BY <1>5, <2>1, <3>1, <3>2
  <2>6. b - 1 \in g.first .. g.last - 1 /\ b \in g.first .. g.last - 1 /\ b \in Nat /\ b - 1 >= 1
    <3> DEFINE x == ch[n].first
               y == ch[n + 1].last
    <3>1. x \in Nat /\ y \in Nat /\ b \in Nat /\ g.first <= x /\ x < b /\ b < y /\ y <= g.last /\ 1 <= g.first
      BY <1>4, <1>6, <2>3, <2>4 DEF Ranged
    <3> HIDE DEF x, y, b
    <3> QED
      BY <1>6, <3>1
  <2> HIDE DEF b, ch, n
  <2>7. Before(recs[b - 1].key, recs[b].key)
    BY <1>4, <2>3, <2>5, <2>6, BeforeByChar
  <2>8. InOrderUpTo(recs, b)
    <3>1. ASSUME NEW i \in 1 .. b - 1 PROVE Before(recs[i].key, recs[i + 1].key)
      <4>1. i \in 1 .. (b - 1) - 1 \/ i = b - 1
        BY <2>6
      <4>2. (b - 1) + 1 = b
        BY <2>6
      <4> QED
        BY <1>7, <2>7, <4>1, <4>2 DEF InOrderUpTo, b
    <3> QED
      BY <3>1 DEF InOrderUpTo
  <2>9. Reached' = b
    BY <2>2, <2>3
  <2> QED
    BY <1>1, <2>8, <2>9, OrderWorking DEF Working, InOrderUpTo
<1>9. CASE ~ (n + 1 <= Len(ch))
  <2>1. n = Len(ch)
    BY <1>5, <1>6, <1>9
  <2>2. ch[n].last = g.last
    BY <1>5, <2>1 DEF Listed, ChildrenFit
  <2>3. Reached' = g.last - 1
    BY <1>1, <1>3, <1>5, <1>9 DEF Reached
  <2> QED
    BY <1>1, <1>7, <2>2, <2>3, OrderWorking DEF Working, InOrderUpTo
<1> QED
  BY <1>8, <1>9

(* A trie that is built has its records in order. *)
LEMMA OrderReturnToBuild == ASSUME CallsInv, OrderInv, ReturnToBuild PROVE OrderInv'
<1>1. pc = "return" /\ Len(stack) = 1 /\ pc' = "built" /\ UNCHANGED recs
  BY DEF ReturnToBuild
<1>2. Working
  BY <1>1 DEF Working
<1>3. Top.last = Len(recs) + 1 /\ Len(recs) \in Nat
  BY <1>1, <1>2, TopCall DEF StackOk, Call, Depth, RecordsTyped
<1>4. Reached = Len(recs)
  BY <1>1, <1>3 DEF Reached
<1>5. Sorted(recs)
  BY <1>2, <1>4 DEF OrderInv, InOrderUpTo, Sorted
<1>6. Sorted(recs)'
  BY <1>1, <1>5 DEF Sorted, Before, CharAt
<1> QED
  BY <1>1, <1>6 DEF OrderInv, Working, OnlySortedBuilt, SortedRefusedForSpace

(* At first nothing is built or refused. *)
LEMMA OrderInit == BuilderInit => OrderInv
BY DEF BuilderInit, OrderInv, Working, OnlySortedBuilt, SortedRefusedForSpace

-----------------------------------------------------------------------------
(* The list of vacant elements. *)

(* The size of an array. *)
LEMMA SizeIs ==
  ASSUME NEW n \in Nat, NEW f, DOMAIN f = 0 .. n - 1
  PROVE  Size(f) = n
<1>1. 0 \in Int /\ n - 1 \in Int /\ (IF 0 > n - 1 THEN 0 ELSE (n - 1) - 0 + 1) = n
  OBVIOUS
<1>2. Cardinality(0 .. n - 1) = IF 0 > n - 1 THEN 0 ELSE (n - 1) - 0 + 1
  BY <1>1, FS_Interval
<1> QED
  BY <1>1, <1>2 DEF Size

(* What a linked list is, part by part. *)
LEMMA LinkedIs ==
  ASSUME NEW l, NEW n, NEW V, Linked(l, n, V)
  PROVE  /\ n \in Nat /\ n >= 2 /\ Size(l) = n /\ DOMAIN l = 0 .. n - 1
         /\ l \in [0 .. n - 1 -> [prev : 0 .. n - 1, next : Nat]]
         /\ \A i \in 0 .. n - 1 : l[i].prev \in 0 .. n - 1 /\ l[i].next \in Nat
         /\ V \subseteq 1 .. n - 1 /\ n - 1 \in V
<1>1. /\ n \in Nat /\ n >= 2 /\ l \in [0 .. n - 1 -> [prev : 0 .. n - 1, next : Nat]]
      /\ V \subseteq 1 .. n - 1 /\ n - 1 \in V
  BY DEF Linked
<1>2. \A i \in 0 .. n - 1 : l[i].prev \in 0 .. n - 1 /\ l[i].next \in Nat
  BY <1>1
<1>3. DOMAIN l = 0 .. n - 1
  BY <1>1
<1>4. Size(l) = n
  BY <1>1, <1>3, SizeIs
<1> QED
  BY <1>1, <1>2, <1>3, <1>4

(* Elements at the end are vacant. *)
LEMMA ExpandLinked ==
  ASSUME NEW l, NEW n, NEW V, Linked(l, n, V), NEW size \in Nat,
         NEW m, m = IF n >= size THEN n ELSE size
  PROVE  Linked(VlistExpand(l, size), m, V \cup n .. m - 1)
<1> DEFINE x == VlistExpand(l, size)
           W == V \cup n .. m - 1
<1>1. /\ n \in Nat /\ n >= 2 /\ Size(l) = n /\ DOMAIN l = 0 .. n - 1
      /\ l \in [0 .. n - 1 -> [prev : 0 .. n - 1, next : Nat]]
      /\ \A i \in 0 .. n - 1 : l[i].prev \in 0 .. n - 1 /\ l[i].next \in Nat
      /\ V \subseteq 1 .. n - 1 /\ n - 1 \in V
  BY LinkedIs
<1>2. /\ l[0].prev = n - 1 /\ l[n - 1].next = n
      /\ \A i \in (V \cup {0}) \ {n - 1} :
            /\ l[i].next \in V /\ i < l[i].next
            /\ \A j \in V : i < j => l[i].next <= j
            /\ l[l[i].next].prev = i
  BY DEF Linked
<1>3. CASE n >= size
  <2>1. x = l /\ m = n /\ n .. m - 1 = {}
    BY <1>1, <1>3 DEF VlistExpand
  <2>2. W = V
    BY <2>1
  <2> QED
    BY <2>1, <2>2
<1>4. CASE ~ (n >= size)
  <2>1. m = size /\ n < m /\ m \in Nat
    BY <1>1, <1>4
  <2>2. x = [i \in 0 .. m - 1 |->
              CASE i = 0 -> [l[0] EXCEPT !.prev = m - 1]
                [] i \in (0 .. n - 1) \ {0} -> l[i]
                [] i = n -> [prev |-> l[0].prev, next |-> i + 1]
                [] OTHER -> [prev |-> i - 1, next |-> i + 1]]
    BY <1>1, <1>4, <2>1 DEF VlistExpand
  <2> HIDE DEF x
  <2>3. /\ x[0] = [l[0] EXCEPT !.prev = m - 1]
        /\ \A i \in 1 .. n - 1 : x[i] = l[i]
        /\ \A i \in n .. m - 1 : x[i].prev = i - 1 /\ x[i].next = i + 1
    <3>1. x[0] = [l[0] EXCEPT !.prev = m - 1]
      <4>1. 0 \in 0 .. m - 1
        BY <1>1, <2>1
      <4>2. 0 # n /\ 0 \notin (0 .. n - 1) \ {0}
        BY <1>1
      <4> DEFINE r == [l[0] EXCEPT !.prev = m - 1]
      <4> HIDE DEF r
      <4>3. x = [i \in 0 .. m - 1 |->
                  CASE i = 0 -> r
                    [] i \in (0 .. n - 1) \ {0} -> l[i]
                    [] i = n -> [prev |-> l[0].prev, next |-> i + 1]
                    [] OTHER -> [prev |-> i - 1, next |-> i + 1]]
        BY <2>2 DEF r
      <4>4. x[0] = r
        BY <4>1, <4>2, <4>3
      <4> QED
        BY <4>4 DEF r
    <3>2. ASSUME NEW i \in 1 .. n - 1 PROVE x[i] = l[i]
      <4>1. i \in 0 .. m - 1 /\ i # 0 /\ i \in (0 .. n - 1) \ {0} /\ i # n
        BY <1>1, <2>1
      <4> QED
        BY <2>2, <4>1
    <3>3. ASSUME NEW i \in n .. m - 1 PROVE x[i].prev = i - 1 /\ x[i].next = i + 1
      <4>1. i \in 0 .. m - 1 /\ i # 0 /\ i \notin (0 .. n - 1) \ {0}
        BY <1>1, <2>1
      <4>2. CASE i = n
        BY <1>2, <2>2, <4>1, <4>2
      <4>3. CASE i # n
        BY <2>2, <4>1, <4>3
      <4> QED
        BY <4>2, <4>3
    <3> QED
      BY <3>1, <3>2, <3>3
  <2>4. x \in [0 .. m - 1 -> [prev : 0 .. m - 1, next : Nat]]
    <3>1. ASSUME NEW i \in 0 .. m - 1 PROVE x[i] \in [prev : 0 .. m - 1, next : Nat]
      <4>1. CASE i = 0
        <5>1. l[0] \in [prev : 0 .. n - 1, next : Nat]
          BY <1>1
        <5>2. m - 1 \in 0 .. m - 1
          BY <2>1
        <5> QED
          BY <2>3, <4>1, <5>1, <5>2
      <4>2. CASE i \in 1 .. n - 1
        <5>1. l[i] \in [prev : 0 .. n - 1, next : Nat]
          BY <1>1, <4>2
        <5>2. 0 .. n - 1 \subseteq 0 .. m - 1
          BY <1>1, <2>1
        <5> QED
          BY <2>3, <4>2, <5>1, <5>2
      <4>3. CASE i \in n .. m - 1
        <5>0. i \in 0 .. m - 1 /\ i # 0 /\ i \notin (0 .. n - 1) \ {0}
          BY <1>1, <2>1, <4>3
        <5>1. i - 1 \in 0 .. m - 1 /\ i + 1 \in Nat /\ n - 1 \in 0 .. m - 1
          BY <1>1, <2>1, <4>3
        <5>2. CASE i = n
          <6>1. x[i] = [prev |-> l[0].prev, next |-> i + 1]
            BY <2>2, <5>0, <5>2
          <6> QED
            BY <1>2, <5>1, <6>1
        <5>3. CASE i # n
          <6>1. x[i] = [prev |-> i - 1, next |-> i + 1]
            BY <2>2, <5>0, <5>3
          <6> QED
            BY <5>1, <6>1
        <5> QED
          BY <5>2, <5>3
      <4>4. i = 0 \/ i \in 1 .. n - 1 \/ i \in n .. m - 1
        BY <1>1, <2>1
      <4> QED
        BY <4>1, <4>2, <4>3, <4>4
    <3> QED
      BY <2>2, <3>1
  <2>5. x[0].prev = m - 1 /\ x[m - 1].next = m /\ x[0].next = l[0].next
    <3>1. l[0] \in [prev : 0 .. n - 1, next : Nat] /\ m - 1 \in n .. m - 1 /\ (m - 1) + 1 = m
      BY <1>1, <2>1
    <3> QED
      BY <2>3, <3>1
  <2>6. ASSUME NEW i \in (W \cup {0}) \ {m - 1}
        PROVE  /\ x[i].next \in W /\ i < x[i].next
               /\ \A j \in W : i < j => x[i].next <= j
               /\ x[x[i].next].prev = i
    <3>1. CASE i \in (V \cup {0}) \ {n - 1}
      <4>1. x[i].next = l[i].next
        <5>1. i = 0 \/ i \in 1 .. n - 1
          BY <1>1, <3>1
        <5> QED
          BY <2>3, <2>5, <5>1
      <4>2. l[i].next \in V /\ i < l[i].next /\ l[l[i].next].prev = i
            /\ \A j \in V : i < j => l[i].next <= j
        BY <1>2, <3>1
      <4>3. l[i].next \in 1 .. n - 1
        BY <1>1, <4>2
      <4>4. x[l[i].next] = l[l[i].next]
        BY <2>3, <4>3
      <4>5. \A j \in n .. m - 1 : l[i].next <= j
        BY <1>1, <2>1, <4>3
      <4> QED
        BY <4>1, <4>2, <4>4, <4>5
    <3>2. CASE i \in n - 1 .. m - 2
      <4>1. x[i].next = i + 1
        <5>1. i = n - 1 \/ i \in n .. m - 1
          BY <1>1, <2>1, <3>2
        <5>2. n - 1 \in 1 .. n - 1 /\ (n - 1) + 1 = n
          BY <1>1
        <5> QED
          BY <1>2, <2>3, <5>1, <5>2
      <4>2. i + 1 \in n .. m - 1 /\ (i + 1) - 1 = i /\ i < i + 1
        BY <1>1, <2>1, <3>2
      <4>3. \A j \in W : i < j => i + 1 <= j
        BY <1>1, <2>1, <3>2
      <4> QED
        BY <2>3, <4>1, <4>2, <4>3
    <3>3. i \in (V \cup {0}) \ {n - 1} \/ i \in n - 1 .. m - 2
      <4>1. i = n - 1 => i \in n - 1 .. m - 2
        BY <1>1, <2>1
      <4>2. i \in n .. m - 1 => i \in n - 1 .. m - 2
        BY <1>1, <2>1, <2>6
      <4> QED
        BY <4>1, <4>2
    <3> QED
      BY <3>1, <3>2, <3>3
  <2>7. m \in Nat \ {0, 1} /\ W \subseteq 1 .. m - 1 /\ m - 1 \in W
    BY <1>1, <2>1
  <2> HIDE DEF W
  <2> QED
    BY <2>4, <2>5, <2>6, <2>7 DEF Linked, x, W
<1> QED
  BY <1>3, <1>4

(* The element before a vacant one. *)
LEMMA Predecessor ==
  ASSUME NEW l, NEW n, NEW V, Linked(l, n, V), NEW i \in V
  PROVE  \E p \in V \cup {0} : p < i /\ l[p].next = i /\ l[i].prev = p
<1> DEFINE P == {j \in V \cup {0} : j < i}
<1>1. n \in Nat /\ n >= 2 /\ V \subseteq 1 .. n - 1 /\ n - 1 \in V
  BY LinkedIs
<1>2. \A j \in (V \cup {0}) \ {n - 1} :
            /\ l[j].next \in V /\ j < l[j].next
            /\ \A k \in V : j < k => l[j].next <= k
            /\ l[l[j].next].prev = j
  BY DEF Linked
<1>3. P \in SUBSET (0 .. n) /\ 0 \in P
  <2>1. V \subseteq 0 .. n /\ 0 \in 0 .. n /\ 0 < i
    BY <1>1
  <2> QED
    BY <2>1
<1>4. PICK p \in P : \A j \in P : p >= j
  <2>1. P # {}
    BY <1>3
  <2> HIDE DEF P
  <2> QED
    BY <1>1, <1>3, <2>1, MaxExists
<1>5. p \in (V \cup {0}) \ {n - 1} /\ p < i /\ p \in Int /\ i \in Int
  BY <1>1
<1>6. l[p].next \in V /\ p < l[p].next /\ l[p].next <= i /\ l[p].next \in Int
  <2>1. l[p].next \in V /\ p < l[p].next /\ \A k \in V : p < k => l[p].next <= k
    BY <1>2, <1>5
  <2>2. l[p].next <= i
    BY <1>5, <2>1
  <2>3. V \subseteq Int
    BY <1>1
  <2> QED
    BY <2>1, <2>2, <2>3
<1>7. l[p].next = i
  <2>1. ASSUME l[p].next < i PROVE FALSE
    <3>1. l[p].next \in P
      BY <1>6, <2>1
    <3> QED
      BY <1>4, <1>5, <1>6, <3>1
  <2> QED
    BY <1>5, <1>6, <2>1
<1>8. l[i].prev = p
  BY <1>2, <1>5, <1>7
<1> QED
  BY <1>5, <1>7, <1>8

(* An element taken out of the list leaves the others linked. *)
LEMMA UseInside ==
  ASSUME NEW l, NEW n, NEW V, Linked(l, n, V), NEW i \in V, i # n - 1
  PROVE  Linked(VlistUse(l, i), n, V \ {i})
<1> DEFINE x == VlistUse(l, i)
           W == V \ {i}
           next == l[i].next
<1>1. /\ n \in Nat /\ n >= 2 /\ Size(l) = n /\ DOMAIN l = 0 .. n - 1
      /\ l \in [0 .. n - 1 -> [prev : 0 .. n - 1, next : Nat]]
      /\ \A j \in 0 .. n - 1 : l[j].prev \in 0 .. n - 1 /\ l[j].next \in Nat
      /\ V \subseteq 1 .. n - 1 /\ n - 1 \in V
  BY LinkedIs
<1>2. /\ l[0].prev = n - 1 /\ l[n - 1].next = n
      /\ \A j \in (V \cup {0}) \ {n - 1} :
            /\ l[j].next \in V /\ j < l[j].next
            /\ \A k \in V : j < k => l[j].next <= k
            /\ l[l[j].next].prev = j
  BY DEF Linked
<1>3. PICK p \in V \cup {0} : p < i /\ l[p].next = i /\ l[i].prev = p
  BY Predecessor
<1>4. /\ next \in V /\ i < next /\ l[next].prev = i
      /\ \A k \in V : i < k => next <= k
  BY <1>2
<1>5. /\ i \in 1 .. n - 1 /\ next \in 1 .. n - 1 /\ p \in 0 .. n - 1 /\ p # n - 1
      /\ p # next /\ p # i /\ next # i /\ p < next /\ next # 0
  <2>1. i \in V /\ next \in V /\ i < next /\ p \in V \cup {0} /\ p < i
    BY <1>3, <1>4
  <2> HIDE DEF next
  <2>2. i \in 1 .. n - 1 /\ next \in 1 .. n - 1 /\ p \in 0 .. n - 1
    BY <1>1, <2>1
  <2>3. n \in Nat /\ i \in Int /\ next \in Int /\ p \in Int
    BY <1>1, <2>2
  <2>4. p # n - 1 /\ p # next /\ p # i /\ next # i /\ p < next /\ next # 0
    <3>1. p >= 0 /\ i <= n - 1
      BY <2>2, <2>3
    <3> QED
      BY <2>1, <2>3, <3>1
  <2> QED
    BY <2>2, <2>4
<1>6. x = [l EXCEPT ![p].next = next, ![next].prev = p]
  <2>1. VlistGrow(l, next) = l
    BY <1>1, <1>5 DEF VlistGrow
  <2> QED
    BY <1>3, <2>1 DEF VlistUse
<1> HIDE DEF x, next
<1> DEFINE R == [prev : 0 .. n - 1, next : Nat]
<1>17. \A j \in 0 .. n - 1 : l[j] \in R
  BY <1>1
<1>18. l[p] \in R /\ l[next] \in R
  <2>1. p \in 0 .. n - 1 /\ next \in 0 .. n - 1
    BY <1>1, <1>5
  <2> QED
    BY <1>17, <2>1
<1>7. DOMAIN x = 0 .. n - 1
  BY <1>1, <1>6
<1>8. x[p].next = next /\ x[p].prev = l[p].prev
  <2>1. p \in DOMAIN l /\ p # next
    BY <1>1, <1>5
  <2>2. x[p] = [l[p] EXCEPT !.next = next]
    BY <1>6, <2>1
  <2> QED
    BY <1>18, <2>2
<1>9. x[next].prev = p /\ x[next].next = l[next].next
  <2>1. next \in DOMAIN l /\ p # next
    BY <1>1, <1>5
  <2>2. x[next] = [l[next] EXCEPT !.prev = p]
    BY <1>6, <2>1
  <2> QED
    BY <1>18, <2>2
<1>10. \A j \in 0 .. n - 1 : j # p /\ j # next => x[j] = l[j]
  BY <1>1, <1>6
<1>11. x \in [0 .. n - 1 -> R]
  <2> DEFINE a == [l[p] EXCEPT !.next = next]
             b == [l[next] EXCEPT !.prev = p]
  <2>1. a \in R /\ b \in R
    <3>1. next \in Nat /\ p \in 0 .. n - 1
      BY <1>1, <1>5
    <3> QED
      BY <1>18, <3>1
  <2>2. x = [j \in 0 .. n - 1 |-> IF j = next THEN b ELSE IF j = p THEN a ELSE l[j]]
    <3>1. p \in 0 .. n - 1 /\ next \in 0 .. n - 1 /\ p # next /\ DOMAIN l = 0 .. n - 1
      BY <1>1, <1>5
    <3>2. l = [j \in 0 .. n - 1 |-> l[j]]
      BY <1>1
    <3> QED
      BY <1>6, <3>1, <3>2
  <2> HIDE DEF a, b, R
  <2> QED
    BY <1>17, <2>1, <2>2
<1>12. x[0].prev = n - 1 /\ x[n - 1].next = n
  <2>1. 0 \in 0 .. n - 1 /\ n - 1 \in 0 .. n - 1
    BY <1>1
  <2>2. x[0].prev = l[0].prev
    BY <1>5, <1>8, <1>10, <2>1
  <2>3. x[n - 1].next = l[n - 1].next
    BY <1>5, <1>9, <1>10, <2>1
  <2> QED
    BY <1>2, <2>2, <2>3
<1>13. ASSUME NEW q \in (W \cup {0}) \ {n - 1}
       PROVE  /\ x[q].next \in W /\ q < x[q].next
              /\ \A j \in W : q < j => x[q].next <= j
              /\ x[x[q].next].prev = q
  <2>1. CASE q = p
    <3>1. \A j \in W : p < j => next <= j
      <4>1. SUFFICES ASSUME NEW j \in W, p < j PROVE next <= j
        OBVIOUS
      <4>2. i <= j
        BY <1>2, <1>3, <1>5, <4>1
      <4>3. i < j
        <5>1. i \in Int /\ j \in Int /\ j # i
          BY <1>1, <1>5
        <5> QED
          BY <4>2, <5>1
      <4> QED
        BY <1>4, <4>3
    <3>2. next \in W
      BY <1>4, <1>5
    <3> HIDE DEF W
    <3> QED
      BY <1>5, <1>8, <1>9, <2>1, <3>1, <3>2
  <2>2. CASE q # p
    <3>0. V \subseteq 1 .. n - 1 /\ n \in Nat /\ n >= 2 /\ i # 0 /\ V \subseteq 0 .. n - 1
      <4>1. V \subseteq 1 .. n - 1 /\ n \in Nat /\ n >= 2
        BY <1>1
      <4>2. \A j \in 1 .. n - 1 : j # 0 /\ j \in 0 .. n - 1
        BY <4>1
      <4> QED
        BY <4>1, <4>2
    <3>1. q \in (V \cup {0}) \ {n - 1} /\ q \in 0 .. n - 1 /\ q # i
      BY <3>0
    <3>2. /\ l[q].next \in V /\ q < l[q].next
          /\ \A k \in V : q < k => l[q].next <= k
          /\ l[l[q].next].prev = q
      BY <1>2, <3>1
    <3>3. l[q].next # i /\ l[q].next # next
      BY <1>3, <1>4, <2>2, <3>1, <3>2
    <3>4. x[q].next = l[q].next
      BY <1>9, <1>10, <2>2, <3>1
    <3>5. l[q].next \in 0 .. n - 1
      BY <3>0, <3>2
    <3>6. x[l[q].next].prev = q
      BY <1>8, <1>10, <3>2, <3>3, <3>5
    <3> QED
      BY <3>2, <3>3, <3>4, <3>6
  <2> QED
    BY <2>1, <2>2
<1>14. n \in Nat \ {0, 1} /\ W \subseteq 1 .. n - 1 /\ n - 1 \in W
  <2>1. V \subseteq 1 .. n - 1 /\ n \in Nat /\ n >= 2 /\ n - 1 \in V
    BY <1>1
  <2>2. n # 0 /\ n # 1
    BY <2>1
  <2> QED
    BY <2>1, <2>2
<1> HIDE DEF W
<1> QED
  BY <1>11, <1>12, <1>13, <1>14 DEF Linked, x, W

(* Taking the last one makes room for a new last one. *)
LEMMA UseLast ==
  ASSUME NEW l, NEW n, NEW V, Linked(l, n, V)
  PROVE  Linked(VlistUse(l, n - 1), n + 1, (V \ {n - 1}) \cup {n})
<1> DEFINE i == n - 1
           x == VlistUse(l, i)
           W == (V \ {i}) \cup {n}
<1>1. /\ n \in Nat /\ n >= 2 /\ Size(l) = n /\ DOMAIN l = 0 .. n - 1
      /\ l \in [0 .. n - 1 -> [prev : 0 .. n - 1, next : Nat]]
      /\ \A j \in 0 .. n - 1 : l[j].prev \in 0 .. n - 1 /\ l[j].next \in Nat
      /\ V \subseteq 1 .. n - 1 /\ n - 1 \in V
  BY LinkedIs
<1>2. /\ l[0].prev = n - 1 /\ l[n - 1].next = n
      /\ \A j \in (V \cup {0}) \ {n - 1} :
            /\ l[j].next \in V /\ j < l[j].next
            /\ \A k \in V : j < k => l[j].next <= k
            /\ l[l[j].next].prev = j
  BY DEF Linked
<1>3. PICK p \in V \cup {0} : p < i /\ l[p].next = i /\ l[i].prev = p
  BY <1>1, Predecessor
<1>4. i \in 1 .. n - 1 /\ i < n /\ i + 1 = n /\ p \in 0 .. n - 1 /\ p # n /\ p # i /\ n # 0 /\ p < n
  BY <1>1, <1>3
<1> DEFINE g == VlistGrow(l, n)
<1>5. g = [j \in 0 .. n |->
            CASE j = 0 -> [l[0] EXCEPT !.prev = n]
              [] j \in (0 .. n - 1) \ {0} -> l[j]
              [] j = n -> [prev |-> 0, next |-> n + 1]
              [] OTHER -> [prev |-> 0, next |-> 0]]
  <2>1. n \notin DOMAIN l
    BY <1>1
  <2> QED
    BY <1>1, <2>1 DEF VlistGrow
<1> HIDE DEF g
<1>6. DOMAIN g = 0 .. n
  BY <1>5
<1>7. g[0].prev = n /\ g[0].next = l[0].next
  <2> DEFINE r == [l[0] EXCEPT !.prev = n]
  <2>1. l[0] \in [prev : 0 .. n - 1, next : Nat]
    BY <1>1
  <2>2. r.prev = n /\ r.next = l[0].next
    BY <2>1
  <2>3. 0 \in 0 .. n /\ 0 \notin (0 .. n - 1) \ {0} /\ 0 # n
    BY <1>1
  <2>4. g = [j \in 0 .. n |->
            CASE j = 0 -> r
              [] j \in (0 .. n - 1) \ {0} -> l[j]
              [] j = n -> [prev |-> 0, next |-> n + 1]
              [] OTHER -> [prev |-> 0, next |-> 0]]
    BY <1>5
  <2> HIDE DEF r
  <2>5. g[0] = r
    BY <2>3, <2>4
  <2> QED
    BY <2>2, <2>5
<1>8. \A j \in 1 .. n - 1 : g[j] = l[j]
  <2>1. SUFFICES ASSUME NEW j \in 1 .. n - 1 PROVE g[j] = l[j]
    OBVIOUS
  <2>2. j \in 0 .. n /\ j # 0 /\ j \in (0 .. n - 1) \ {0} /\ j # n
    BY <1>1
  <2> QED
    BY <1>5, <2>2
<1>9. g[n] = [prev |-> 0, next |-> n + 1]
  <2>1. n \in 0 .. n /\ n # 0 /\ n \notin (0 .. n - 1) \ {0}
    BY <1>1
  <2> QED
    BY <1>5, <2>1
<1> DEFINE R == [prev : 0 .. n, next : Nat]
<1>10. \A j \in 0 .. n : g[j] \in R
  <2>1. g[0] \in R
    <3> DEFINE r == [l[0] EXCEPT !.prev = n]
    <3>1. l[0] \in [prev : 0 .. n - 1, next : Nat] /\ n \in 0 .. n
      BY <1>1
    <3>2. r \in R
      BY <3>1
    <3>3. 0 \in 0 .. n /\ 0 \notin (0 .. n - 1) \ {0} /\ 0 # n
      BY <1>1
    <3>4. g = [j \in 0 .. n |->
            CASE j = 0 -> r
              [] j \in (0 .. n - 1) \ {0} -> l[j]
              [] j = n -> [prev |-> 0, next |-> n + 1]
              [] OTHER -> [prev |-> 0, next |-> 0]]
      BY <1>5
    <3> HIDE DEF r
    <3>5. g[0] = r
      BY <3>3, <3>4
    <3> QED
      BY <3>2, <3>5
  <2>2. ASSUME NEW j \in 1 .. n - 1 PROVE g[j] \in R
    <3>1. l[j] \in [prev : 0 .. n - 1, next : Nat]
      BY <1>1
    <3>2. 0 .. n - 1 \subseteq 0 .. n
      BY <1>1
    <3> QED
      BY <1>8, <3>1, <3>2
  <2>3. g[n] \in R
    <3>1. 0 \in 0 .. n /\ n + 1 \in Nat
      BY <1>1
    <3> QED
      BY <1>9, <3>1
  <2>4. \A j \in 0 .. n : j = 0 \/ j \in 1 .. n - 1 \/ j = n
    BY <1>1
  <2> QED
    BY <2>1, <2>2, <2>3, <2>4
<1>11. x = [g EXCEPT ![p].next = n, ![n].prev = p]
  BY <1>2, <1>3 DEF VlistUse, g
<1> HIDE DEF x
<1>12. /\ p \in 0 .. n /\ n \in 0 .. n /\ p # n
  BY <1>4
<1>13. x[p].next = n /\ x[p].prev = g[p].prev
  <2>1. g[p] \in R
    BY <1>10, <1>12
  <2>2. x[p] = [g[p] EXCEPT !.next = n]
    BY <1>6, <1>11, <1>12
  <2> QED
    BY <2>1, <2>2
<1>14. x[n].prev = p /\ x[n].next = n + 1
  <2>1. x[n] = [g[n] EXCEPT !.prev = p]
    BY <1>6, <1>11, <1>12
  <2> QED
    BY <1>9, <2>1
<1>15. \A j \in 0 .. n : j # p /\ j # n => x[j] = g[j]
  BY <1>6, <1>11
<1>16. x \in [0 .. n -> R]
  <2> DEFINE a == [g[p] EXCEPT !.next = n]
             b == [g[n] EXCEPT !.prev = p]
  <2>1. g[p] \in R /\ g[n] \in R /\ n \in Nat
    BY <1>1, <1>10, <1>12
  <2>2. a \in R /\ b \in R
    BY <1>12, <2>1
  <2>3. x = [j \in 0 .. n |-> IF j = n THEN b ELSE IF j = p THEN a ELSE g[j]]
    BY <1>6, <1>10, <1>11, <1>12
  <2> HIDE DEF a, b, R
  <2> QED
    BY <1>10, <2>2, <2>3
<1>17. x[0].prev = n /\ x[n].next = n + 1
  <2>1. x[0].prev = g[0].prev
    <3>1. 0 \in 0 .. n /\ 0 # n
      BY <1>1
    <3> QED
      BY <1>13, <1>15, <3>1
  <2> QED
    BY <1>7, <1>14, <2>1
<1>18. \A j \in 0 .. n - 1 : g[j].next = l[j].next
  <2>1. \A j \in 0 .. n - 1 : j = 0 \/ j \in 1 .. n - 1
    BY <1>1
  <2> QED
    BY <1>7, <1>8, <2>1
<1>19. ASSUME NEW q \in (W \cup {0}) \ {n}
       PROVE  /\ x[q].next \in W /\ q < x[q].next
              /\ \A j \in W : q < j => x[q].next <= j
              /\ x[x[q].next].prev = q
  <2>1. CASE q = p
    <3>1. \A j \in W : p < j => n <= j
      <4>1. SUFFICES ASSUME NEW j \in V \ {i}, p < j PROVE n <= j
        BY <1>1
      <4>2. i <= j
        BY <1>2, <1>3, <1>4, <4>1
      <4> QED
        BY <1>1, <1>4, <4>2
    <3> QED
      BY <1>4, <1>13, <1>14, <2>1, <3>1
  <2>2. CASE q # p
    <3>0. V \subseteq 1 .. n - 1 /\ n \in Nat /\ n >= 2 /\ i # 0
      BY <1>1, <1>4
    <3>1. q \in (V \cup {0}) \ {n - 1} /\ q \in 0 .. n - 1 /\ q \in 0 .. n /\ q # n
      <4>1. q \in (V \ {i}) \cup {0} /\ q # n
        OBVIOUS
      <4>2. q # i
        BY <3>0, <4>1
      <4>3. q \in 0 .. n - 1
        BY <3>0, <4>1
      <4>4. q \in 0 .. n
        BY <3>0, <4>3
      <4> QED
        BY <4>1, <4>2, <4>3, <4>4
    <3>2. /\ l[q].next \in V /\ q < l[q].next
          /\ \A k \in V : q < k => l[q].next <= k
          /\ l[l[q].next].prev = q
      BY <1>2, <3>1
    <3>3. l[q].next # i
      BY <1>3, <2>2, <3>2
    <3>4. x[q].next = l[q].next
      BY <1>15, <1>18, <2>2, <3>1
    <3>5. l[q].next \in 1 .. n - 1 /\ l[q].next \in 0 .. n /\ l[q].next # n
      BY <1>1, <3>2
    <3>6. x[l[q].next].prev = q
      BY <1>8, <1>13, <1>15, <3>2, <3>5
    <3>7. \A j \in W : q < j => l[q].next <= j
      BY <1>1, <3>2, <3>5
    <3> QED
      BY <3>2, <3>3, <3>4, <3>6, <3>7
  <2> QED
    BY <2>1, <2>2
<1>20. /\ n + 1 \in Nat \ {0, 1} /\ W \subseteq 1 .. (n + 1) - 1 /\ (n + 1) - 1 = n /\ n \in W
  BY <1>1
<1> HIDE DEF W, i
<1>21. Linked(x, n + 1, W)
  <2> DEFINE m == n + 1
  <2>1. /\ m \in Nat \ {0, 1} /\ W \subseteq 1 .. m - 1 /\ m - 1 = n /\ m - 1 \in W
    BY <1>20
  <2>2. x \in [0 .. m - 1 -> [prev : 0 .. m - 1, next : Nat]]
    BY <1>16, <2>1
  <2>3. x[0].prev = m - 1 /\ x[m - 1].next = m
    BY <1>17, <2>1
  <2>4. \A q \in (W \cup {0}) \ {m - 1} :
          /\ x[q].next \in W /\ q < x[q].next
          /\ \A j \in W : q < j => x[q].next <= j
          /\ x[x[q].next].prev = q
    BY <1>19, <2>1
  <2> HIDE DEF m
  <2>5. Linked(x, m, W)
    BY <2>1, <2>2, <2>3, <2>4 DEF Linked
  <2> QED
    BY <2>5 DEF m
<1> QED
  BY <1>21 DEF x, W, i

(* An element leaves the list, be it the last one or not. *)
LEMMA UseLinked ==
  ASSUME NEW l, NEW n, NEW V, Linked(l, n, V), NEW i \in V,
         NEW m, m = IF i = n - 1 THEN n + 1 ELSE n
  PROVE  Linked(VlistUse(l, i), m, (V \ {i}) \cup n .. m - 1)
<1>1. n \in Nat /\ n >= 2
  BY LinkedIs
<1>2. CASE i = n - 1
  <2>1. m = n + 1 /\ n .. m - 1 = {n}
    BY <1>1, <1>2
  <2> QED
    BY <1>2, <2>1, UseLast
<1>3. CASE i # n - 1
  <2>1. m = n /\ n .. m - 1 = {}
    BY <1>1, <1>3
  <2>2. (V \ {i}) \cup n .. m - 1 = V \ {i}
    BY <2>1
  <2> QED
    BY <1>3, <2>1, <2>2, UseInside
<1> QED
  BY <1>2, <1>3

(* The lists between the uses of several elements. *)
Uses(l, cells, K, link) ==
  link = [k \in 0 .. K |-> IF k = 0 THEN l ELSE VlistUse(link[k - 1], cells[k])]

(* The lists between the uses are a function of how many there were. *)
LEMMA UsesExist ==
  ASSUME NEW l, NEW cells, NEW K \in Nat
  PROVE  \E link : Uses(l, cells, K, link)
<1> DEFINE S == {k \in Nat : \E link : Uses(l, cells, k, link)}
<1>1. 0 \in S
  <2> DEFINE z == [k \in 0 .. 0 |-> l]
  <2>1. \A k \in 0 .. 0 : k = 0
    OBVIOUS
  <2>2. Uses(l, cells, 0, z)
    BY <2>1 DEF Uses
  <2> QED
    BY <2>2
<1>2. ASSUME NEW k \in Nat, k \in S PROVE k + 1 \in S
  <2>1. PICK f : Uses(l, cells, k, f)
    BY <1>2
  <2>2. \A j \in 0 .. k : f[j] = IF j = 0 THEN l ELSE VlistUse(f[j - 1], cells[j])
    BY <2>1 DEF Uses
  <2> DEFINE g == [j \in 0 .. k + 1 |-> IF j = k + 1 THEN VlistUse(f[k], cells[k + 1]) ELSE f[j]]
  <2>3. \A j \in 0 .. k : g[j] = f[j]
    <3>1. \A j \in 0 .. k : j \in 0 .. k + 1 /\ j # k + 1
      OBVIOUS
    <3> QED
      BY <3>1
  <2>4. g[k + 1] = VlistUse(f[k], cells[k + 1])
    OBVIOUS
  <2>5. DOMAIN g = 0 .. k + 1 /\ g = [j \in 0 .. k + 1 |-> g[j]]
    OBVIOUS
  <2> HIDE DEF g
  <2>6. ASSUME NEW j \in 0 .. k + 1
        PROVE  g[j] = IF j = 0 THEN l ELSE VlistUse(g[j - 1], cells[j])
    <3>1. CASE j = k + 1
      <4>1. j # 0 /\ j - 1 = k /\ k \in 0 .. k
        BY <3>1
      <4> QED
        BY <2>3, <2>4, <3>1, <4>1
    <3>2. CASE j # k + 1
      <4>1. j \in 0 .. k /\ (j # 0 => j - 1 \in 0 .. k)
        BY <3>2
      <4> QED
        BY <2>2, <2>3, <4>1
    <3> QED
      BY <3>1, <3>2
  <2>7. Uses(l, cells, k + 1, g)
    BY <2>5, <2>6 DEF Uses
  <2> QED
    BY <2>7
<1>3. Nat \subseteq S
  <2> HIDE DEF S
  <2> QED
    BY <1>1, <1>2, SetInduction
<1> QED
  BY <1>3

FirstOf(cells, K) == {cells[k] : k \in 1 .. K}

(* The list of those in V but not in C, and of others from n on. *)
LinkedWithout(l, n, V, C) ==
  \E m \in Nat : m >= n /\ Linked(l, m, (V \ C) \cup n .. m - 1)

(* The elements of all children leave the list. *)
LEMMA ReserveLinked ==
  ASSUME NEW l, NEW n, NEW V, Linked(l, n, V), NEW K \in Nat, NEW cells,
         \A k \in 1 .. K : cells[k] \in V,
         \A k, j \in 1 .. K : cells[k] = cells[j] => k = j,
         NEW link, Uses(l, cells, K, link), NEW C, C = FirstOf(cells, K)
  PROVE  LinkedWithout(link[K], n, V, C)
<1> DEFINE Gone(k) == {cells[j] : j \in 1 .. k}
           Good(k) == \E m \in Nat : m >= n /\ Linked(link[k], m, (V \ Gone(k)) \cup n .. m - 1)
           S == {k \in Nat : k <= K => Good(k)}
<1>0. n \in Nat /\ V \subseteq 1 .. n - 1
  BY LinkedIs
<1>1. 0 \in S
  <2>1. link[0] = l
    BY DEF Uses
  <2>2. Gone(0) = {} /\ n .. n - 1 = {}
    BY <1>0
  <2>3. (V \ Gone(0)) \cup n .. n - 1 = V
    BY <2>2
  <2>4. n >= n
    BY <1>0
  <2>5. Linked(link[0], n, (V \ Gone(0)) \cup n .. n - 1)
    BY <2>1, <2>3
  <2> QED
    BY <1>0, <2>4, <2>5
<1>2. ASSUME NEW k \in Nat, k \in S PROVE k + 1 \in S
  <2>1. SUFFICES ASSUME k + 1 <= K PROVE Good(k + 1)
    OBVIOUS
  <2>2. k + 1 \in 1 .. K /\ k <= K /\ (k + 1) - 1 = k /\ k + 1 \in 0 .. K /\ k + 1 # 0
    BY <2>1
  <2>3. PICK m \in Nat : m >= n /\ Linked(link[k], m, (V \ Gone(k)) \cup n .. m - 1)
    BY <1>2, <2>2
  <2> DEFINE U == (V \ Gone(k)) \cup n .. m - 1
             c == cells[k + 1]
             j == IF c = m - 1 THEN m + 1 ELSE m
  <2>4. c \in V
    BY <2>2
  <2>5. c \notin Gone(k)
    <3>1. \A i \in 1 .. k : i \in 1 .. K /\ i # k + 1
      BY <2>1
    <3> QED
      BY <2>2, <3>1
  <2>6. link[k + 1] = VlistUse(link[k], c)
    BY <2>2 DEF Uses
  <2>7. Gone(k + 1) = Gone(k) \cup {c}
    <3>1. 1 .. k + 1 = (1 .. k) \cup {k + 1}
      OBVIOUS
    <3> QED
      BY <3>1
  <2> HIDE DEF Gone, c
  <2>8. Linked(link[k + 1], j, (U \ {c}) \cup m .. j - 1)
    <3>1. c \in U
      BY <2>4, <2>5
    <3>2. Linked(link[k], m, U)
      BY <2>3
    <3> DEFINE M == j
    <3>3. M = IF c = m - 1 THEN m + 1 ELSE m
      OBVIOUS
    <3> HIDE DEF U, M
    <3>4. Linked(VlistUse(link[k], c), M, (U \ {c}) \cup m .. M - 1)
      BY <3>1, <3>2, <3>3, UseLinked
    <3> QED
      BY <2>6, <3>4 DEF M
  <2>9. (U \ {c}) \cup m .. j - 1 = (V \ Gone(k + 1)) \cup n .. j - 1
    <3>1. c \notin n .. m - 1
      BY <1>0, <2>4
    <3>2. n .. j - 1 = (n .. m - 1) \cup m .. j - 1
      <4>1. CASE c = m - 1
        <5>1. n .. (m + 1) - 1 = (n .. m - 1) \cup m .. (m + 1) - 1
          BY <1>0, <2>3
        <5> QED
          BY <4>1, <5>1
      <4>2. CASE c # m - 1
        <5>1. m .. m - 1 = {}
          OBVIOUS
        <5> QED
          BY <4>2, <5>1
      <4> QED
        BY <4>1, <4>2
    <3> HIDE DEF j
    <3> QED
      BY <2>7, <3>1, <3>2
  <2>10. j \in Nat /\ j >= n
    BY <1>0, <2>3
  <2> HIDE DEF U, j
  <2>11. Linked(link[k + 1], j, (V \ Gone(k + 1)) \cup n .. j - 1)
    BY <2>8, <2>9
  <2> QED
    BY <2>10, <2>11
<1>3. Nat \subseteq S
  <2> HIDE DEF S
  <2> QED
    BY <1>1, <1>2, SetInduction
<1>4. Good(K)
  <2> HIDE DEF S, Good
  <2>1. K \in S /\ K <= K
    BY <1>3
  <2> QED
    BY <2>1 DEF S
<1>5. C = Gone(K)
  BY DEF FirstOf
<1> HIDE DEF Gone
<1> QED
  BY <1>4, <1>5 DEF LinkedWithout

(* No offset of a child is greater than the maximum. *)
LEMMA OffsetsBounded ==
  ASSUME TableOk(table), NEW f, Listed(recs, table, f)
  PROVE  /\ MaxOffset(f.children) \in Nat
         /\ \A k \in 1 .. Len(f.children) :
              f.children[k].offset \in Nat \ {0} /\ f.children[k].offset <= MaxOffset(f.children)
<1> DEFINE ch == f.children
           O == {ch[n].offset : n \in DOMAIN ch}
<1>1. DOMAIN ch = 1 .. Len(ch) /\ 1 \in 1 .. Len(ch)
      /\ \A k \in 1 .. Len(ch) : ch[k].offset \in Nat \ {0} /\ ch[k].c \in Chars
  BY ListedChild
<1>2. \A k \in 1 .. Len(ch) : ch[k].offset = table[ch[k].c] + 1
  BY DEF Listed, ChildrenFit
<1>3. \A k \in 1 .. Len(ch) : ch[k].offset \in 0 .. NumChars
  <2>1. SUFFICES ASSUME NEW k \in 1 .. Len(ch) PROVE ch[k].offset \in 0 .. NumChars
    OBVIOUS
  <2>2. table[ch[k].c] \in Chars
    BY <1>1 DEF TableOk
  <2>3. NumChars \in Nat
    BY NumCharsAssumption
  <2>4. table[ch[k].c] + 1 \in 0 .. NumChars
    BY <2>2, <2>3 DEF Chars
  <2> QED
    BY <1>2, <2>4
<1>4. O \in SUBSET (0 .. NumChars) /\ O # {}
  BY <1>1, <1>3
<1>5. Max(O) \in O /\ \A y \in O : Max(O) >= y
  <2>1. NumChars \in Nat
    BY NumCharsAssumption
  <2> HIDE DEF O
  <2> QED
    BY <1>4, <2>1, MaxExists
<1>6. \E m \in O : \A n \in DOMAIN ch : ch[n].offset <= m
  <2>1. Max(O) \in Nat /\ O \subseteq Nat
    BY <1>4, <1>5
  <2>2. \A n \in DOMAIN ch : ch[n].offset <= Max(O)
    <3>1. SUFFICES ASSUME NEW n \in DOMAIN ch PROVE ch[n].offset <= Max(O)
      OBVIOUS
    <3>2. ch[n].offset \in O
      OBVIOUS
    <3> HIDE DEF O
    <3> QED
      BY <1>5, <2>1, <3>2
  <2> HIDE DEF O
  <2> QED
    BY <1>5, <2>2
<1>7. MaxOffset(ch) \in O /\ \A n \in DOMAIN ch : ch[n].offset <= MaxOffset(ch)
  BY <1>6 DEF MaxOffset
<1>8. O \subseteq Nat
  BY <1>4
<1> HIDE DEF O
<1> QED
  BY <1>1, <1>7, <1>8

(* The two arrays, once build() has been called. *)
LEMMA ListIs ==
  ASSUME ListInv, pc # "idle"
  PROVE  /\ Linked(elink, Size(elink), Vacant(da, elink))
         /\ Size(elink) \in Nat /\ Size(elink) >= 2 /\ DOMAIN elink = 0 .. Size(elink) - 1
         /\ Vacant(da, elink) \subseteq 1 .. Size(elink) - 1
         /\ Size(elink) - 1 \in Vacant(da, elink)
         /\ DaOk(da) /\ Size(da) \in Nat /\ Size(da) >= 2
         /\ DOMAIN da = 0 .. Size(da) - 1 /\ Size(da) <= Size(elink)
         /\ Taken(da) \subseteq 1 .. Size(da) - 1
         /\ \A i \in 0 .. Size(da) - 1 : da[i] \in [base : Int, check : Int]
<1>1. /\ Linked(elink, Size(elink), Vacant(da, elink))
      /\ DaOk(da) /\ Size(da) <= Size(elink)
  BY DEF ListInv
<1>2. /\ Size(elink) \in Nat /\ Size(elink) >= 2 /\ DOMAIN elink = 0 .. Size(elink) - 1
      /\ Vacant(da, elink) \subseteq 1 .. Size(elink) - 1
      /\ Size(elink) - 1 \in Vacant(da, elink)
  BY <1>1, LinkedIs
<1>3. /\ Size(da) \in Nat /\ Size(da) >= 2 /\ DOMAIN da = 0 .. Size(da) - 1
      /\ da \in [0 .. Size(da) - 1 -> [base : Int, check : Int]] /\ da[0].base = 0
  BY <1>1 DEF DaOk
<1>4. Taken(da) \subseteq 1 .. Size(da) - 1
  <2>1. SUFFICES ASSUME NEW i \in Taken(da) PROVE i \in 1 .. Size(da) - 1
    OBVIOUS
  <2>2. i \in 0 .. Size(da) - 1 /\ i # 0
    BY <1>3 DEF Taken
  <2> QED
    BY <1>3, <2>2
<1>5. \A i \in 0 .. Size(da) - 1 : da[i] \in [base : Int, check : Int]
  BY <1>3
<1> QED
  BY <1>1, <1>2, <1>3, <1>4, <1>5

(* The element that the search for a base looks at next. *)
LEMMA NextVacant ==
  ASSUME ListInv, pc = "search", NEW next, next = VlistNext(elink, index)
  PROVE  next \in Nat /\ (next \in Vacant(da, elink) \/ next >= Size(elink))
<1> DEFINE n == Size(elink)
           V == Vacant(da, elink)
<1>1. /\ Linked(elink, n, V) /\ n \in Nat /\ n >= 2 /\ DOMAIN elink = 0 .. n - 1
      /\ V \subseteq 1 .. n - 1 /\ n - 1 \in V
  BY ListIs
<1>2. /\ elink[n - 1].next = n
      /\ \A i \in (V \cup {0}) \ {n - 1} : elink[i].next \in V
  BY <1>1 DEF Linked
<1>3. index \in V \cup {0} \/ (index \in Nat /\ index >= n)
  BY DEF ListInv
<1> HIDE DEF n, V
<1>4. CASE index \in (V \cup {0}) \ {n - 1}
  <2>1. index \in DOMAIN elink
    BY <1>1, <1>4
  <2>2. next \in V
    BY <1>2, <1>4, <2>1 DEF VlistNext
  <2>3. next \in Nat
    BY <1>1, <2>2
  <2> QED
    BY <2>2, <2>3 DEF V
<1>5. CASE index = n - 1
  <2>1. index \in DOMAIN elink
    BY <1>1, <1>5
  <2>2. next = n
    BY <1>2, <1>5, <2>1 DEF VlistNext
  <2>3. next \in Nat /\ next >= n
    BY <1>1, <2>2
  <2> QED
    BY <2>3 DEF n
<1>6. CASE index \in Nat /\ index >= n
  <2>1. index \notin DOMAIN elink
    BY <1>1, <1>6
  <2>2. next = index + 1
    BY <2>1 DEF VlistNext
  <2>3. next \in Nat /\ next >= n
    BY <1>1, <1>6, <2>2
  <2> QED
    BY <2>3 DEF n
<1> QED
  BY <1>3, <1>4, <1>5, <1>6

(* Elements added at the end of the double array are vacant. *)
LEMMA DaExpanded ==
  ASSUME NEW d, DaOk(d), NEW size \in Nat, NEW m, m = IF Size(d) >= size THEN Size(d) ELSE size
  PROVE  LET x == DaExpand(d, size)
         IN  /\ DaOk(x) /\ Size(x) = m /\ DOMAIN x = 0 .. m - 1 /\ Taken(x) = Taken(d)
             /\ \A i \in DOMAIN d : x[i] = d[i]
<1> DEFINE x == DaExpand(d, size)
           n == Size(d)
           E == [base : Int, check : Int]
<1>1. n \in Nat /\ n >= 2 /\ d \in [0 .. n - 1 -> E] /\ d[0].base = 0
  BY DEF DaOk
<1>2. CASE n >= size
  <2>1. x = d /\ m = n
    BY <1>2 DEF DaExpand
  <2>2. DOMAIN d = 0 .. n - 1
    BY <1>1
  <2> HIDE DEF x
  <2>3. DaOk(x) /\ Size(x) = m /\ DOMAIN x = 0 .. m - 1 /\ Taken(x) = Taken(d)
    BY <2>1, <2>2
  <2> QED
    BY <2>1, <2>3 DEF x
<1>3. CASE ~ (n >= size)
  <2>1. m = size /\ m \in Nat /\ n < m /\ m >= 2
    BY <1>1, <1>3
  <2>2. DOMAIN d = 0 .. n - 1
    BY <1>1
  <2>3. x = [i \in 0 .. m - 1 |-> IF i \in 0 .. n - 1 THEN d[i] ELSE Default]
    BY <1>3, <2>1, <2>2 DEF DaExpand
  <2> HIDE DEF x, n
  <2>4. DOMAIN x = 0 .. m - 1
    BY <2>3
  <2>5. Size(x) = m
    BY <2>1, <2>4, SizeIs
  <2>6. Default \in E /\ Default.base = 0
    BY DEF Default
  <2>7. \A i \in 0 .. n - 1 : i \in 0 .. m - 1 /\ x[i] = d[i]
    BY <1>1, <2>1, <2>3
  <2>8. \A i \in (0 .. m - 1) \ (0 .. n - 1) : x[i] = Default
    BY <2>3
  <2>9. x \in [0 .. m - 1 -> E]
    <3>1. \A i \in 0 .. n - 1 : d[i] \in E
      BY <1>1
    <3> HIDE DEF E
    <3> QED
      BY <2>3, <2>6, <3>1
  <2>10. x[0].base = 0
    <3>1. 0 \in 0 .. n - 1
      BY <1>1
    <3> QED
      BY <1>1, <2>7, <3>1
  <2>11. DaOk(x)
    BY <2>1, <2>5, <2>9, <2>10 DEF DaOk
  <2>12. Taken(x) = Taken(d)
    BY <2>2, <2>4, <2>6, <2>7, <2>8 DEF Taken
  <2> QED
    BY <2>2, <2>4, <2>5, <2>7, <2>11, <2>12 DEF x
<1> QED
  BY <1>2, <1>3

(* The vacant elements are those that are not taken. *)
LEMMA VacantIs ==
  ASSUME NEW d, NEW l
  PROVE  Vacant(d, l) = (DOMAIN l \ {0}) \ Taken(d)
BY DEF Vacant

(* Steps that leave both arrays alone. *)
LEMMA ListSame ==
  ASSUME ListInv, pc # "idle", UNCHANGED <<da, elink>>,
         pc' \in {"arrange", "children", "return", "built", "thrown"}
  PROVE  ListInv'
BY DEF ListInv

(* Steps that fill in elements which are taken already. *)
LEMMA ListFilled ==
  ASSUME ListInv, pc # "idle", UNCHANGED elink,
         DaOk(da'), Size(da') = Size(da), Taken(da') = Taken(da),
         pc' \in {"children", "built"}
  PROVE  ListInv'
<1>1. Vacant(da', elink') = Vacant(da, elink)
  BY VacantIs
<1> QED
  BY <1>1 DEF ListInv

(* Before build() there are no arrays. *)
LEMMA ListInit == BuilderInit => ListInv
BY DEF BuilderInit, ListInv

(* build() starts with the root taken and the others vacant. *)
LEMMA ListBuild ==
  ASSUME Build
  PROVE  ListInv' /\ Taken(da') = {INITIAL_INDEX}
<1> DEFINE x == VlistExpand(VlistInit, 2)
           d == DaExpand([i \in {0} |-> Default], 2)
<1>1. /\ da' = [d EXCEPT ![1].base = 1] /\ elink' = VlistUse(x, 1) /\ pc' = "arrange"
  BY DEF Build, INITIAL_INDEX
<1>2. Size(VlistInit) = 1 /\ DOMAIN VlistInit = {0} /\ VlistInit[0] = [prev |-> 0, next |-> 1]
  <2>1. DOMAIN VlistInit = {0} /\ VlistInit[0] = [prev |-> 0, next |-> 1]
    BY DEF VlistInit
  <2> QED
    BY <2>1, FS_Singleton DEF Size
<1>3. x = [i \in 0 .. 1 |->
            CASE i = 0 -> [VlistInit[0] EXCEPT !.prev = 1]
              [] i \in {0} \ {0} -> VlistInit[i]
              [] i = 1 -> [prev |-> VlistInit[0].prev, next |-> i + 1]
              [] OTHER -> [prev |-> i - 1, next |-> i + 1]]
  <2>1. ~ (1 >= 2) /\ 2 - 1 = 1
    OBVIOUS
  <2> QED
    BY <1>2, <2>1 DEF VlistExpand
<1>4. DOMAIN x = 0 .. 1 /\ x[0] = [prev |-> 1, next |-> 1] /\ x[1] = [prev |-> 0, next |-> 2]
  <2>1. 0 \in 0 .. 1 /\ 1 \in 0 .. 1 /\ 1 # 0 /\ 1 + 1 = 2
    OBVIOUS
  <2>2. DOMAIN x = 0 .. 1 /\ x[0] = [VlistInit[0] EXCEPT !.prev = 1]
    BY <1>3, <2>1
  <2>3. x[1] = [prev |-> VlistInit[0].prev, next |-> 2]
    BY <1>3, <2>1
  <2> QED
    BY <1>2, <2>2, <2>3
<1>5. Linked(x, 2, {1})
  <2>1. x = [i \in 0 .. 1 |-> x[i]]
    BY <1>3
  <2> HIDE DEF x
  <2>2. \A i \in 0 .. 1 : i = 0 \/ i = 1
    OBVIOUS
  <2>3. \A i \in 0 .. 1 : x[i] \in [prev : 0 .. 1, next : Nat]
    BY <1>4, <2>2
  <2>4. x \in [0 .. 2 - 1 -> [prev : 0 .. 2 - 1, next : Nat]]
    BY <2>1, <2>3
  <2>5. \A i \in ({1} \cup {0}) \ {2 - 1} : i = 0
    OBVIOUS
  <2>6. x[0].next = 1 /\ x[0].prev = 1 /\ x[1].prev = 0 /\ x[1].next = 2
    BY <1>4
  <2>7. 2 - 1 = 1 /\ 2 \in Nat \ {0, 1} /\ {1} \subseteq 1 .. 2 - 1 /\ 0 < 1 /\ 1 <= 1
    OBVIOUS
  <2> QED
    BY <2>4, <2>5, <2>6, <2>7 DEF Linked
<1>6. Linked(elink', 3, {2})
  <2>1. 2 - 1 = 1 /\ 2 + 1 = 3 /\ ({1} \ {1}) \cup {2} = {2}
    OBVIOUS
  <2> HIDE DEF x
  <2>2. Linked(VlistUse(x, 2 - 1), 2 + 1, ({1} \ {2 - 1}) \cup {2})
    BY <1>5, UseLast
  <2> QED
    BY <1>1, <2>1, <2>2
<1>7. d = [i \in 0 .. 1 |-> Default]
  <2>1. DOMAIN [i \in {0} |-> Default] = {0} /\ [i \in {0} |-> Default][0] = Default
    OBVIOUS
  <2>2. Size([i \in {0} |-> Default]) = 1
    BY <2>1, FS_Singleton DEF Size
  <2>3. ~ (1 >= 2) /\ 2 - 1 = 1
    OBVIOUS
  <2>4. d = [i \in 0 .. 1 |-> IF i \in {0} THEN [j \in {0} |-> Default][i] ELSE Default]
    BY <2>1, <2>2, <2>3 DEF DaExpand
  <2> QED
    BY <2>4
<1> HIDE DEF d, x
<1>8. /\ DOMAIN da' = 0 .. 1 /\ da'[0] = Default /\ da'[1] = [base |-> 1, check |-> 0]
      /\ da' = [i \in 0 .. 1 |-> da'[i]]
  <2>1. 0 \in 0 .. 1 /\ 1 \in 0 .. 1 /\ 1 # 0
    OBVIOUS
  <2>2. d[0] = Default /\ d[1] = Default
    BY <1>7, <2>1
  <2>3. da'[0] = Default /\ da'[1] = [Default EXCEPT !.base = 1]
    BY <1>1, <1>7, <2>1, <2>2
  <2>4. [Default EXCEPT !.base = 1] = [base |-> 1, check |-> 0]
    BY DEF Default
  <2> QED
    BY <1>1, <1>7, <2>3, <2>4
<1>9. Size(da') = 2
  <2>1. 2 - 1 = 1 /\ 2 \in Nat
    OBVIOUS
  <2> QED
    BY <1>8, <2>1, SizeIs
<1>10. DaOk(da')
  <2>1. \A i \in 0 .. 1 : i = 0 \/ i = 1
    OBVIOUS
  <2>2. \A i \in 0 .. 1 : da'[i] \in [base : Int, check : Int]
    BY <1>8, <2>1 DEF Default
  <2>3. da' \in [0 .. 2 - 1 -> [base : Int, check : Int]]
    BY <1>8, <2>2
  <2>4. da'[0].base = 0
    BY <1>8 DEF Default
  <2> QED
    BY <1>9, <2>3, <2>4 DEF DaOk
<1>11. Taken(da') = {1}
  <2>1. \A i \in 0 .. 1 : i = 0 \/ i = 1
    OBVIOUS
  <2>2. 1 \in 0 .. 1 /\ da'[0].base = 0 /\ da'[1].base # 0
    BY <1>8 DEF Default
  <2> QED
    BY <1>8, <2>1, <2>2 DEF Taken
<1>12. Size(elink') = 3 /\ DOMAIN elink' = 0 .. 2
  <2>1. 3 - 1 = 2
    OBVIOUS
  <2> QED
    BY <1>6, <2>1, LinkedIs
<1>13. Vacant(da', elink') = {2}
  <2>1. ((0 .. 2) \ {0}) \ {1} = {2}
    OBVIOUS
  <2> QED
    BY <1>11, <1>12, <2>1, VacantIs
<1>14. ListInv'
  <2>1. Size(da') <= Size(elink')
    BY <1>9, <1>12
  <2>2. Linked(elink', Size(elink'), Vacant(da', elink'))
    BY <1>6, <1>12, <1>13
  <2> QED
    BY <1>1, <1>10, <2>1, <2>2 DEF ListInv
<1> QED
  BY <1>11, <1>14 DEF INITIAL_INDEX

(* The search starts at a vacant element. *)
LEMMA ListArrangeNode == ASSUME ListInv, ArrangeNode PROVE ListInv'
<1>1. /\ UNCHANGED <<da, elink>> /\ pc = "arrange"
      /\ pc' = "thrown" \/ (pc' = "search" /\ index' = 0)
  BY DEF ArrangeNode, Throw
<1>2. CASE pc' = "thrown"
  BY <1>1, <1>2, ListSame
<1>3. CASE pc' = "search" /\ index' = 0
  BY <1>1, <1>3 DEF ListInv
<1> QED
  BY <1>1, <1>2, <1>3

(* The search goes on to a vacant element, or beyond the end. *)
LEMMA ListSearchOn == ASSUME ListInv, SearchOn PROVE ListInv'
<1> DEFINE next == VlistNext(elink, index)
<1>1. UNCHANGED <<da, elink, pc>> /\ pc = "search" /\ index' = next
  BY DEF SearchOn
<1>2. next \in Nat /\ (next \in Vacant(da, elink) \/ next >= Size(elink))
  BY <1>1, NextVacant
<1> HIDE DEF next
<1> QED
  BY <1>1, <1>2 DEF ListInv

(* Both arrays grow, and a base is found only where all children have vacant elements. *)
LEMMA ListSearchTry ==
  ASSUME CallsInv, ListInv, SearchTry
  PROVE  /\ ListInv' /\ Taken(da') = Taken(da)
         /\ \A i \in Taken(da) : da'[i] = da[i]
<1> DEFINE ch == Top.children
           next == VlistNext(elink, index)
           base == next - ch[1].offset
           size == base + MaxOffset(ch) + 1
           n == Size(elink)
           V == Vacant(da, elink)
           m == IF n >= size THEN n ELSE size
           ds == IF Size(da) >= size THEN Size(da) ELSE size
<1>1. /\ pc = "search" /\ index' = next /\ base >= 1 /\ base \notin used
      /\ da' = DaExpand(da, size) /\ elink' = VlistExpand(elink, size)
      /\ \/ UNCHANGED <<pc, stack>>
         \/ /\ pc' = "reserve" /\ stack' = [stack EXCEPT ![1].base = base]
            /\ \A k \in 2 .. Len(ch) : ~ InUse(da', base + ch[k].offset)
      /\ used' = used
  BY SearchTrySteps
<1>2. Working
  BY <1>1 DEF Working
<1>3. TableOk(table) /\ stack # <<>> /\ stack \in Seq(FrameType) /\ Top = stack[1] /\ Top \in FrameType
  BY <1>2, TopCall
<1>4. Listed(recs, table, Top)
  BY <1>1, <1>2 DEF CallsInv, InnerCall, Searching
<1>5. /\ MaxOffset(ch) \in Nat /\ Len(ch) \in Nat \ {0} /\ 1 \in 1 .. Len(ch)
      /\ \A k \in 1 .. Len(ch) : ch[k].offset \in Nat \ {0} /\ ch[k].offset <= MaxOffset(ch)
  BY <1>3, <1>4, OffsetsBounded, ListedChild
<1>6. next \in Nat /\ (next \in V \/ next >= n)
  BY <1>1, NextVacant
<1>7. /\ Linked(elink, n, V) /\ n \in Nat /\ n >= 2 /\ DOMAIN elink = 0 .. n - 1
      /\ V \subseteq 1 .. n - 1 /\ DaOk(da) /\ Size(da) \in Nat /\ Size(da) <= n
      /\ Taken(da) \subseteq DOMAIN da
      /\ Taken(da) \subseteq 1 .. Size(da) - 1
  BY <1>1, ListIs DEF Taken
<1>8. base \in Nat /\ size \in Nat /\ next < size
      /\ \A k \in 1 .. Len(ch) : base + ch[k].offset < size /\ base + ch[k].offset \in Nat \ {0}
  <2> DEFINE o == ch[1].offset
             mo == MaxOffset(ch)
  <2>1. o \in Nat \ {0} /\ o <= mo /\ mo \in Nat
    BY <1>5
  <2>2. next - o >= 1
    BY <1>1
  <2>3. \A k \in 1 .. Len(ch) : ch[k].offset \in Nat \ {0} /\ ch[k].offset <= mo
    BY <1>5
  <2> HIDE DEF o, mo, next
  <2>4. next - o \in Nat /\ (next - o) + mo + 1 \in Nat /\ next < (next - o) + mo + 1
    BY <1>6, <2>1, <2>2
  <2>5. \A k \in 1 .. Len(ch) : (next - o) + ch[k].offset < (next - o) + mo + 1
                                /\ (next - o) + ch[k].offset \in Nat \ {0}
    BY <2>1, <2>3, <2>4
  <2> QED
    BY <2>4, <2>5 DEF o, mo, next
<1> HIDE DEF size, base, next, n, V, ch
<1>9. Linked(elink', m, V \cup n .. m - 1)
  BY <1>1, <1>7, <1>8, ExpandLinked
<1>10. /\ DaOk(da') /\ Size(da') = ds /\ DOMAIN da' = 0 .. ds - 1 /\ Taken(da') = Taken(da)
       /\ \A i \in DOMAIN da : da'[i] = da[i]
  BY <1>1, <1>7, <1>8, DaExpanded
<1>11. m \in Nat /\ n <= m /\ size <= m /\ ds <= m /\ size <= ds /\ ds \in Nat
  BY <1>7, <1>8
<1> HIDE DEF m, ds
<1>12. Size(elink') = m /\ DOMAIN elink' = 0 .. m - 1
  BY <1>9, LinkedIs
<1>13. Vacant(da', elink') = V \cup n .. m - 1
  <2>1. Vacant(da', elink') = ((0 .. m - 1) \ {0}) \ Taken(da)
    BY <1>10, <1>12, VacantIs
  <2>2. V = ((0 .. n - 1) \ {0}) \ Taken(da)
    BY <1>7, VacantIs DEF V
  <2>3. 0 .. m - 1 = (0 .. n - 1) \cup n .. m - 1
    BY <1>7, <1>11
  <2>4. 0 \notin n .. m - 1
    BY <1>7
  <2>5. \A i \in n .. m - 1 : i \notin Taken(da)
    BY <1>7
  <2> QED
    BY <2>1, <2>2, <2>3, <2>4, <2>5
<1>14. next \in Vacant(da', elink')
  <2>1. next >= n => next \in n .. m - 1
    BY <1>6, <1>7, <1>8, <1>11
  <2> QED
    BY <1>6, <1>13, <2>1
<1>15. CASE UNCHANGED <<pc, stack>>
  <2>1. ListInv'
    BY <1>1, <1>9, <1>10, <1>11, <1>12, <1>13, <1>14, <1>15 DEF ListInv
  <2> QED
    BY <1>7, <1>10, <2>1
<1>16. CASE /\ pc' = "reserve" /\ stack' = [stack EXCEPT ![1].base = base]
            /\ \A k \in 2 .. Len(ch) : ~ InUse(da', base + ch[k].offset)
  <2>1. Top' = [Top EXCEPT !.base = base]
    <3>1. stack' \in Seq(FrameType) /\ stack' # <<>> /\ stack'[1] = [stack[1] EXCEPT !.base = base]
      <4>1. [stack[1] EXCEPT !.base = base] \in FrameType
        BY <1>3, <1>8 DEF FrameType
      <4> DEFINE f == [stack[1] EXCEPT !.base = base]
      <4>2. stack' = [stack EXCEPT ![1] = f] /\ f \in FrameType
        BY <1>3, <1>16, <4>1
      <4> HIDE DEF f
      <4>3. stack' \in Seq(FrameType) /\ stack' # <<>> /\ stack'[1] = f
        BY <1>3, <4>2
      <4> QED
        BY <4>3 DEF f
    <3>2. Head(stack') = stack'[1]
      BY <3>1
    <3> QED
      BY <1>3, <3>1, <3>2 DEF Top
  <2>2. Top'.base = base /\ Top'.children = ch
    BY <1>3, <2>1 DEF FrameType, ch
  <2>3. ASSUME NEW k \in 1 .. Len(ch)
        PROVE  base + ch[k].offset \in Vacant(da', elink') \cap DOMAIN da'
    <3> DEFINE c == base + ch[k].offset
    <3>1. c < size /\ c \in Nat \ {0}
      BY <1>8
    <3> HIDE DEF c
    <3>2. c \in DOMAIN da' /\ c \in DOMAIN elink' \ {0}
      BY <1>8, <1>10, <1>11, <1>12, <3>1
    <3>3. c \notin Taken(da')
      <4>1. CASE k = 1
        <5>1. c = next
          <6>1. ch[1].offset \in Nat /\ next \in Nat
            BY <1>5, <1>6
          <6>2. c = base + ch[1].offset /\ base = next - ch[1].offset
            BY <4>1 DEF c, base, ch
          <6> QED
            BY <6>1, <6>2
        <5> QED
          BY <1>14, <5>1, VacantIs
      <4>2. CASE k # 1
        <5>1. k \in 2 .. Len(ch)
          BY <1>5, <4>2
        <5>2. ~ InUse(da', c)
          BY <1>16, <5>1 DEF c
        <5> QED
          BY <3>2, <5>2 DEF InUse, Taken
      <4> QED
        BY <4>1, <4>2
    <3>4. c \in Vacant(da', elink')
      BY <3>2, <3>3, VacantIs
    <3> QED
      BY <3>2, <3>4 DEF c
  <2>4. \A k \in 1 .. Len(Top'.children) : CellOf(Top', k) \in Vacant(da', elink') \cap DOMAIN da'
    BY <2>2, <2>3 DEF CellOf
  <2>5. Top'.base >= 1 /\ Top'.base \notin used'
    BY <1>1, <2>2
  <2>6. ListInv'
    BY <1>9, <1>10, <1>11, <1>12, <1>13, <1>16, <2>4, <2>5 DEF ListInv
  <2> QED
    BY <1>7, <1>10, <2>6
<1> QED
  BY <1>1, <1>15, <1>16

(* The elements of the children of a call. *)
CellsOf(f) == {CellOf(f, k) : k \in 1 .. Len(f.children)}

(* Exactly the elements of the children are taken. *)
LEMMA ReserveTakes ==
  ASSUME CallsInv, ListInv, Reserve, pc' # "thrown"
  PROVE  /\ pc' = "children" /\ used' = used \cup {Top.base} /\ UNCHANGED stack
         /\ Top.base >= 1 /\ Top.base \notin used
         /\ CellsOf(Top) \cap Taken(da) = {}
         /\ Taken(da') = Taken(da) \cup CellsOf(Top)
         /\ \A i \in Taken(da) : da'[i] = da[i]
         /\ ListInv'
<1> DEFINE ch == Top.children
           K == Len(ch)
           cells == [k \in DOMAIN ch |-> Top.base + ch[k].offset]
           n == Size(elink)
           V == Vacant(da, elink)
           E == [base : Int, check : Int]
<1>1. /\ pc = "reserve" /\ UNCHANGED stack /\ pc' = "children" /\ used' = used \cup {Top.base}
      /\ da' = [i \in DOMAIN da |->
                  IF \E k \in DOMAIN cells : cells[k] = i THEN [da[i] EXCEPT !.base = 1] ELSE da[i]]
  BY DEF Reserve, Throw
<1>2. \E link : Uses(elink, cells, Len(cells), link) /\ elink' = link[Len(cells)]
  <2> DEFINE link == CHOOSE f : f = [k \in 0 .. Len(cells) |->
                                       IF k = 0 THEN elink ELSE VlistUse(f[k - 1], cells[k])]
  <2>1. elink' = link[Len(cells)]
    BY <1>1, Zenon DEF Reserve, Throw
  <2>2. DOMAIN ch = 1 .. K /\ K \in Nat
    BY <1>1 DEF CallsInv, InnerCall, Working, Searching, Listed, ChildrenFit
  <2>3. Len(cells) \in Nat
    <3>1. DOMAIN cells = 1 .. K
      BY <2>2
    <3> HIDE DEF cells, K
    <3> QED
      BY <2>2, <3>1
  <2> HIDE DEF cells
  <2>4. \E f : f = [k \in 0 .. Len(cells) |->
                      IF k = 0 THEN elink ELSE VlistUse(f[k - 1], cells[k])]
    <3>1. PICK f : Uses(elink, cells, Len(cells), f)
      BY <2>3, UsesExist
    <3> QED
      BY <3>1 DEF Uses
  <2>5. Uses(elink, cells, Len(cells), link)
    BY <2>4 DEF Uses
  <2> HIDE DEF link
  <2> QED
    BY <2>1, <2>5
<1>3. Working
  BY <1>1 DEF Working
<1>4. TableOk(table) /\ Top \in FrameType
  BY <1>3, TopCall
<1>5. Listed(recs, table, Top)
  BY <1>1, <1>3 DEF CallsInv, InnerCall, Searching
<1>6. /\ K \in Nat /\ DOMAIN ch = 1 .. K
      /\ \A k \in 1 .. K : ch[k].offset \in Nat \ {0}
      /\ \A k, j \in 1 .. K : k # j => ch[k].offset # ch[j].offset
  BY <1>5, ListedChild DEF Listed, ChildrenDiffer
<1>7. Top.base \in Nat /\ Top.base >= 1 /\ Top.base \notin used
      /\ \A k \in 1 .. K : CellOf(Top, k) \in V \cap DOMAIN da
  BY <1>1, <1>4 DEF ListInv, FrameType
<1>8. DOMAIN cells = 1 .. K /\ \A k \in 1 .. K : cells[k] = CellOf(Top, k)
  BY <1>6 DEF CellOf
<1>9. Len(cells) = K
  <2>1. K \in Nat /\ cells \in [1 .. K -> {CellOf(Top, k) : k \in 1 .. K}]
    BY <1>6, <1>8
  <2> HIDE DEF cells, K
  <2> QED
    BY <2>1, IsSeq
<1>10. /\ Linked(elink, n, V) /\ n \in Nat /\ n >= 2 /\ DOMAIN elink = 0 .. n - 1
       /\ V \subseteq 1 .. n - 1 /\ DaOk(da) /\ Size(da) \in Nat /\ Size(da) <= n /\ Size(da) >= 2
       /\ DOMAIN da = 0 .. Size(da) - 1
       /\ Taken(da) \subseteq 1 .. Size(da) - 1
  BY <1>1, ListIs
<1>11. \A k, j \in 1 .. K : cells[k] = cells[j] => k = j
  <2>1. SUFFICES ASSUME NEW k \in 1 .. K, NEW j \in 1 .. K, k # j PROVE cells[k] # cells[j]
    OBVIOUS
  <2> DEFINE b == Top.base
             o == ch[k].offset
             q == ch[j].offset
  <2>2. b \in Nat /\ o \in Nat /\ q \in Nat /\ o # q
    BY <1>6, <1>7, <2>1
  <2>3. cells[k] = b + o /\ cells[j] = b + q
    BY <1>6
  <2> HIDE DEF b, o, q, cells
  <2> QED
    BY <2>2, <2>3
<1> DEFINE C == {cells[k] : k \in 1 .. K}
<1>12. C = CellsOf(Top)
  BY <1>8 DEF CellsOf
<1>13. \A k \in 1 .. K : cells[k] \in V
  BY <1>7, <1>8
<1>14. C \subseteq V /\ C \subseteq DOMAIN da
  BY <1>7, <1>8
<1>15. da' = [i \in DOMAIN da |-> IF i \in C THEN [da[i] EXCEPT !.base = 1] ELSE da[i]]
  <2>1. \A i : (\E k \in DOMAIN cells : cells[k] = i) <=> i \in C
    BY <1>8
  <2> HIDE DEF cells, C
  <2> QED
    BY <1>1, <2>1
<1> HIDE DEF cells, K, ch, n, V
<1>16. PICK m \in Nat : m >= n /\ Linked(elink', m, (V \ C) \cup n .. m - 1)
  <2>1. PICK link : Uses(elink, cells, K, link) /\ elink' = link[K]
    BY <1>2, <1>9
  <2>2. LinkedWithout(link[K], n, V, C)
    <3>1. /\ Linked(elink, n, V) /\ K \in Nat /\ Uses(elink, cells, K, link)
          /\ \A k \in 1 .. K : cells[k] \in V
          /\ \A k, j \in 1 .. K : cells[k] = cells[j] => k = j
          /\ C = FirstOf(cells, K)
      BY <1>6, <1>10, <1>11, <1>13, <2>1 DEF FirstOf
    <3> HIDE DEF C
    <3> QED
      BY <3>1, ReserveLinked
  <2> QED
    BY <2>1, <2>2 DEF LinkedWithout
<1> HIDE DEF C
<1>17. C \cap Taken(da) = {}
  BY <1>14, VacantIs DEF V
<1>18. /\ DOMAIN da' = DOMAIN da
       /\ \A i \in DOMAIN da \ C : da'[i] = da[i]
       /\ \A i \in C : da'[i].base = 1 /\ da'[i] \in E
  <2>1. \A i \in DOMAIN da : da[i] \in E
    BY <1>10 DEF DaOk
  <2>2. \A i \in C : da'[i] = [da[i] EXCEPT !.base = 1]
    BY <1>14, <1>15
  <2>3. \A i \in C : da'[i].base = 1 /\ da'[i] \in E
    <3>1. SUFFICES ASSUME NEW i \in C PROVE da'[i].base = 1 /\ da'[i] \in E
      OBVIOUS
    <3>2. da[i] \in E /\ da'[i] = [da[i] EXCEPT !.base = 1]
      BY <1>14, <2>1, <2>2
    <3> QED
      BY <3>2
  <2> QED
    BY <1>15, <2>3
<1>19. Taken(da') = Taken(da) \cup C
  <2>1. \A i \in C : da'[i].base # 0
    BY <1>18
  <2> QED
    BY <1>14, <1>18, <2>1 DEF Taken
<1>20. \A i \in Taken(da) : da'[i] = da[i]
  BY <1>17, <1>18 DEF Taken
<1>21. DaOk(da') /\ Size(da') = Size(da)
  <2>1. Size(da') = Size(da)
    BY <1>18 DEF Size
  <2>2. \A i \in DOMAIN da : da[i] \in E
    BY <1>10 DEF DaOk
  <2>3. \A i \in DOMAIN da : da'[i] \in E
    BY <1>18, <2>2
  <2> HIDE DEF E
  <2>4. da' \in [DOMAIN da -> E]
    BY <1>15, <2>3
  <2> USE DEF E
  <2>5. 0 \notin C /\ 0 \in DOMAIN da
    <3>1. 0 \notin V
      BY <1>10
    <3> QED
      BY <1>10, <1>14, <3>1
  <2>6. da'[0].base = 0
    BY <1>10, <1>18, <2>5 DEF DaOk
  <2> QED
    BY <1>10, <2>1, <2>4, <2>6 DEF DaOk
<1>22. Size(elink') = m /\ DOMAIN elink' = 0 .. m - 1
  BY <1>16, LinkedIs
<1>23. Vacant(da', elink') = (V \ C) \cup n .. m - 1
  <2>1. Vacant(da', elink') = ((0 .. m - 1) \ {0}) \ (Taken(da) \cup C)
    BY <1>19, <1>22, VacantIs
  <2>2. V = ((0 .. n - 1) \ {0}) \ Taken(da)
    BY <1>10, VacantIs DEF V
  <2>3. 0 .. m - 1 = (0 .. n - 1) \cup n .. m - 1
    BY <1>10, <1>16
  <2>4. 0 \notin n .. m - 1
    BY <1>10
  <2>5. \A i \in n .. m - 1 : i \notin Taken(da) /\ i \notin C
    BY <1>10, <1>14
  <2> QED
    BY <2>1, <2>2, <2>3, <2>4, <2>5
<1>24. ListInv'
  <2>1. Size(da') <= Size(elink')
    BY <1>10, <1>16, <1>21, <1>22
  <2> QED
    BY <1>1, <1>16, <1>21, <1>22, <1>23, <2>1 DEF ListInv
<1> QED
  BY <1>1, <1>7, <1>12, <1>17, <1>19, <1>20, <1>24

(* The list without the elements reserved is linked. *)
LEMMA ListReserve == ASSUME CallsInv, ListInv, Reserve PROVE ListInv'
<1>1. CASE pc' = "thrown"
  <2>1. pc = "reserve" /\ UNCHANGED <<da, elink>>
    BY <1>1 DEF Reserve
  <2> QED
    BY <1>1, <2>1, ListSame
<1>2. CASE pc' # "thrown"
  BY <1>2, ReserveTakes
<1> QED
  BY <1>1, <1>2

(* The first e calls of s are also the first e of t. *)
SameCalls(t, s, e) == \A d \in 1 .. e : CallOf(t, d) = CallOf(s, d)

(* What the elements of the calls are, part by part. *)
LEMMA CellsIs ==
  ASSUME NEW s, NEW e, NEW T, CellsOk(s, e, T)
  PROVE  /\ INITIAL_INDEX \in T
         /\ \A d \in 1 .. e : \A k \in OpenOf(CallOf(s, d)) :
              /\ CallOf(s, d).base >= 1 /\ CellOf(CallOf(s, d), k) \in T
              /\ \A c \in 1 .. e : \A m \in OpenOf(CallOf(s, c)) :
                   CellOf(CallOf(s, d), k) = CellOf(CallOf(s, c), m) => d = c /\ k = m
         /\ \A d \in 1 .. e : CallOf(s, d).children # <<>> => CallOf(s, d).base >= 1
BY DEF CellsOk

(* Fewer calls, or fewer open children of the last, have their own elements still. *)
LEMMA CellsKept ==
  ASSUME NEW s, NEW t, NEW e \in Int, NEW x \in Int, x <= e, NEW T, NEW U, T \subseteq U,
         CellsOk(s, e, T),
         \A d \in 1 .. x : /\ CallOf(t, d).base = CallOf(s, d).base
                           /\ CallOf(t, d).children = CallOf(s, d).children
                           /\ OpenOf(CallOf(t, d)) \subseteq OpenOf(CallOf(s, d))
  PROVE  CellsOk(t, x, U)
<1>1. \A d \in 1 .. x : d \in 1 .. e
  OBVIOUS
<1>2. \A d \in 1 .. x : \A k : CellOf(CallOf(t, d), k) = CellOf(CallOf(s, d), k)
  BY DEF CellOf
<1>3. INITIAL_INDEX \in U
  BY CellsIs
<1>4. ASSUME NEW d \in 1 .. x, NEW k \in OpenOf(CallOf(t, d))
      PROVE  /\ CallOf(t, d).base >= 1 /\ CellOf(CallOf(t, d), k) \in U
             /\ \A c \in 1 .. x : \A m \in OpenOf(CallOf(t, c)) :
                  CellOf(CallOf(t, d), k) = CellOf(CallOf(t, c), m) => d = c /\ k = m
  <2>1. d \in 1 .. e /\ k \in OpenOf(CallOf(s, d))
    BY <1>1
  <2>2. CallOf(t, d).base >= 1 /\ CellOf(CallOf(t, d), k) \in U
    BY <1>2, <2>1, CellsIs
  <2>3. ASSUME NEW c \in 1 .. x, NEW m \in OpenOf(CallOf(t, c)),
               CellOf(CallOf(t, d), k) = CellOf(CallOf(t, c), m)
        PROVE  d = c /\ k = m
    <3>1. c \in 1 .. e /\ m \in OpenOf(CallOf(s, c))
      BY <1>1
    <3>2. CellOf(CallOf(s, d), k) = CellOf(CallOf(s, c), m)
      BY <1>2, <2>3
    <3> QED
      BY <2>1, <3>1, <3>2, CellsIs
  <2> QED
    BY <2>2, <2>3
<1>5. \A d \in 1 .. x : CallOf(t, d).children # <<>> => CallOf(t, d).base >= 1
  BY <1>1, CellsIs
<1> QED
  BY <1>3, <1>4, <1>5 DEF CellsOk

(* The same calls have the same elements. *)
LEMMA CellsSame ==
  ASSUME NEW s, NEW t, NEW e \in Int, NEW T, NEW U, T \subseteq U,
         CellsOk(s, e, T), SameCalls(t, s, e)
  PROVE  CellsOk(t, e, U)
<1>1. \A d \in 1 .. e : /\ CallOf(t, d).base = CallOf(s, d).base
                        /\ CallOf(t, d).children = CallOf(s, d).children
                        /\ OpenOf(CallOf(t, d)) \subseteq OpenOf(CallOf(s, d))
  BY DEF SameCalls
<1>2. e <= e
  OBVIOUS
<1> QED
  BY <1>1, <1>2, CellsKept

(* The elements that call f has set aside. *)
OpenCells(f) == {CellOf(f, k) : k \in OpenOf(f)}

(* One more call sets elements aside that were vacant. *)
LEMMA CellsMore ==
  ASSUME NEW s, NEW t, NEW e \in Nat, NEW x, x = e + 1, NEW T, NEW U, T \subseteq U,
         CellsOk(s, e, T), SameCalls(t, s, e),
         NEW f, f = CallOf(t, x),
         OpenCells(f) \subseteq U, OpenCells(f) \cap T = {},
         \A k, m \in OpenOf(f) : CellOf(f, k) = CellOf(f, m) => k = m,
         f.children # <<>> => f.base >= 1,
         OpenOf(f) # {} => f.base >= 1
  PROVE  CellsOk(t, x, U)
<1>1. \A d \in 1 .. x : d \in 1 .. e \/ d = x
  OBVIOUS
<1>2. \A d \in 1 .. e : d # x /\ CallOf(t, d) = CallOf(s, d)
  BY DEF SameCalls
<1>3. INITIAL_INDEX \in U
  BY CellsIs
<1>4. \A k \in OpenOf(f) : CellOf(f, k) \in U /\ CellOf(f, k) \notin T
  BY DEF OpenCells
<1>5. \A d \in 1 .. e : \A k \in OpenOf(CallOf(t, d)) : CellOf(CallOf(t, d), k) \in T
  BY <1>2, CellsIs
<1>6. ASSUME NEW d \in 1 .. x, NEW k \in OpenOf(CallOf(t, d))
      PROVE  /\ CallOf(t, d).base >= 1 /\ CellOf(CallOf(t, d), k) \in U
             /\ \A c \in 1 .. x : \A m \in OpenOf(CallOf(t, c)) :
                  CellOf(CallOf(t, d), k) = CellOf(CallOf(t, c), m) => d = c /\ k = m
  <2>1. CASE d = x
    <3>1. CallOf(t, d).base >= 1 /\ CellOf(CallOf(t, d), k) \in U
      BY <1>4, <2>1
    <3>2. ASSUME NEW c \in 1 .. x, NEW m \in OpenOf(CallOf(t, c)),
                 CellOf(CallOf(t, d), k) = CellOf(CallOf(t, c), m)
          PROVE  d = c /\ k = m
      <4>1. CASE c = x
        BY <2>1, <3>2, <4>1
      <4>2. CASE c \in 1 .. e
        BY <1>4, <1>5, <2>1, <3>2, <4>2
      <4> QED
        BY <1>1, <4>1, <4>2
    <3> QED
      BY <3>1, <3>2
  <2>2. CASE d \in 1 .. e
    <3>1. k \in OpenOf(CallOf(s, d)) /\ CallOf(t, d) = CallOf(s, d)
      BY <1>2, <2>2
    <3>2. CallOf(t, d).base >= 1 /\ CellOf(CallOf(t, d), k) \in U
      BY <2>2, <3>1, CellsIs
    <3>3. ASSUME NEW c \in 1 .. x, NEW m \in OpenOf(CallOf(t, c)),
                 CellOf(CallOf(t, d), k) = CellOf(CallOf(t, c), m)
          PROVE  d = c /\ k = m
      <4>1. CASE c = x
        BY <1>4, <1>5, <2>2, <3>3, <4>1
      <4>2. CASE c \in 1 .. e
        <5>1. m \in OpenOf(CallOf(s, c)) /\ CellOf(CallOf(s, d), k) = CellOf(CallOf(s, c), m)
          BY <1>2, <3>1, <3>3, <4>2
        <5> QED
          BY <2>2, <3>1, <4>2, <5>1, CellsIs
      <4> QED
        BY <1>1, <4>1, <4>2
    <3> QED
      BY <3>2, <3>3
  <2> QED
    BY <1>1, <2>1, <2>2
<1>7. \A d \in 1 .. x : CallOf(t, d).children # <<>> => CallOf(t, d).base >= 1
  <2>1. SUFFICES ASSUME NEW d \in 1 .. x, CallOf(t, d).children # <<>> PROVE CallOf(t, d).base >= 1
    OBVIOUS
  <2>2. CASE d = x
    BY <2>1, <2>2
  <2>3. CASE d \in 1 .. e
    BY <1>2, <2>1, <2>3, CellsIs
  <2> QED
    BY <1>1, <2>2, <2>3
<1> QED
  BY <1>3, <1>6, <1>7 DEF CellsOk

-----------------------------------------------------------------------------
(* Awaited elements. *)

(* An element is awaited if it is the root or that of an open child. *)
LEMMA AwaitedIs ==
  ASSUME NEW s, NEW e
  PROVE  \A i : i \in Awaited(s, e) <=>
                  i = INITIAL_INDEX \/ \E d \in 1 .. e : i \in OpenCells(CallOf(s, d))
BY DEF Awaited, OpenCells

(* The same calls await the same elements. *)
LEMMA AwaitedSame ==
  ASSUME NEW s, NEW t, NEW e, SameCalls(t, s, e)
  PROVE  Awaited(t, e) = Awaited(s, e)
<1>1. \A i : i \in Awaited(t, e) <=> i \in Awaited(s, e)
  BY AwaitedIs DEF SameCalls
<1> QED
  BY <1>1

(* One more call awaits its elements, too. *)
LEMMA AwaitedMore ==
  ASSUME NEW s, NEW t, NEW e \in Nat, NEW x, x = e + 1, SameCalls(t, s, e)
  PROVE  Awaited(t, x) = Awaited(s, e) \cup OpenCells(CallOf(t, x))
<1>1. \A d : d \in 1 .. x <=> d \in 1 .. e \/ d = x
  OBVIOUS
<1>2. \A i : i \in Awaited(t, x) <=> i \in Awaited(s, e) \/ i \in OpenCells(CallOf(t, x))
  BY <1>1, AwaitedIs DEF SameCalls
<1> QED
  BY <1>2

(* When a child has returned it is no longer open. *)
LEMMA OpenAfter ==
  ASSUME NEW f, NEW g, f.child \in 1 .. Len(f.children), Len(f.children) \in Nat,
         g.child = f.child + 1, g.children = f.children, g.base = f.base
  PROVE  /\ f.child \in OpenOf(f) /\ OpenOf(g) = OpenOf(f) \ {f.child}
         /\ \A k : CellOf(g, k) = CellOf(f, k)
<1> DEFINE n == f.child
           m == Len(f.children)
<1>1. n \in 1 .. m /\ m \in Nat
  OBVIOUS
<1>2. OpenOf(f) = {k \in 1 .. m : n <= k} /\ OpenOf(g) = {k \in 1 .. m : n + 1 <= k}
  BY DEF OpenOf
<1>3. \A k : CellOf(g, k) = CellOf(f, k)
  BY DEF CellOf
<1> HIDE DEF n, m
<1>4. n \in OpenOf(f)
  BY <1>1, <1>2
<1>5. \A k \in 1 .. m : n + 1 <= k <=> n <= k /\ k # n
  BY <1>1
<1>6. OpenOf(g) = OpenOf(f) \ {n}
  BY <1>1, <1>2, <1>5
<1> QED
  BY <1>3, <1>4, <1>6 DEF n

(* The innermost of the calls s has returned to call f, which sets its cell. *)
Returned(s, t, e, T, f, g, cell) ==
  /\ e \in Nat /\ e >= 1 /\ CellsOk(s, e + 1, T)
  /\ SameCalls(t, s, e - 1) /\ OpenOf(CallOf(s, e + 1)) = {}
  /\ f = CallOf(s, e) /\ g = CallOf(t, e)
  /\ f.child \in 1 .. Len(f.children) /\ Len(f.children) \in Nat
  /\ g.child = f.child + 1 /\ g.children = f.children /\ g.base = f.base
  /\ cell = CellOf(f, f.child) /\ cell # INITIAL_INDEX

(* A child has got its element. *)
LEMMA AwaitedLess ==
  ASSUME NEW s, NEW t, NEW e, NEW T, NEW f, NEW g, NEW cell, Returned(s, t, e, T, f, g, cell)
  PROVE  /\ cell \in Awaited(s, e + 1) /\ cell \in T
         /\ Awaited(t, e) = Awaited(s, e + 1) \ {cell}
         /\ CellsOk(t, e, T)
<1>0. /\ e \in Nat /\ e >= 1 /\ CellsOk(s, e + 1, T)
      /\ SameCalls(t, s, e - 1) /\ OpenOf(CallOf(s, e + 1)) = {}
      /\ f = CallOf(s, e) /\ g = CallOf(t, e)
      /\ f.child \in 1 .. Len(f.children) /\ Len(f.children) \in Nat
      /\ g.child = f.child + 1 /\ g.children = f.children /\ g.base = f.base
      /\ cell = CellOf(f, f.child) /\ cell # INITIAL_INDEX
  BY DEF Returned
<1>1. /\ f.child \in OpenOf(f) /\ OpenOf(g) = OpenOf(f) \ {f.child}
      /\ \A k : CellOf(g, k) = CellOf(f, k)
  BY <1>0, OpenAfter
<1>2. /\ \A d : d \in 1 .. e + 1 <=> d \in 1 .. e - 1 \/ d = e \/ d = e + 1
      /\ \A d : d \in 1 .. e <=> d \in 1 .. e - 1 \/ d = e
      /\ \A d \in 1 .. e - 1 : d # e
  BY <1>0
<1>3. \A d \in 1 .. e - 1 : CallOf(t, d) = CallOf(s, d)
  BY <1>0 DEF SameCalls
<1>4. cell \in OpenCells(f)
  BY <1>0, <1>1 DEF OpenCells
<1>5. cell \in T
  BY <1>0, <1>1, <1>2, CellsIs
<1>6. OpenCells(g) = OpenCells(f) \ {cell}
  <2>1. \A k \in OpenOf(f) : CellOf(f, k) = cell => k = f.child
    BY <1>0, <1>1, <1>2, CellsIs
  <2> QED
    BY <1>0, <1>1, <2>1 DEF OpenCells
<1>7. \A d \in 1 .. e - 1 : cell \notin OpenCells(CallOf(s, d))
  <2>1. \A d \in 1 .. e - 1 : \A k \in OpenOf(CallOf(s, d)) : CellOf(CallOf(s, d), k) # cell
    BY <1>0, <1>1, <1>2, CellsIs
  <2> QED
    BY <2>1 DEF OpenCells
<1>8. OpenCells(CallOf(s, e + 1)) = {}
  BY <1>0 DEF OpenCells
<1>9. cell \in Awaited(s, e + 1)
  BY <1>0, <1>2, <1>4, AwaitedIs
<1>10. \A i : i \in Awaited(t, e) <=> i \in Awaited(s, e + 1) /\ i # cell
  <2>1. SUFFICES ASSUME NEW i PROVE i \in Awaited(t, e) <=> i \in Awaited(s, e + 1) /\ i # cell
    OBVIOUS
  <2>2. i \in Awaited(t, e) <=>
          \/ i = INITIAL_INDEX \/ i \in OpenCells(g)
          \/ \E d \in 1 .. e - 1 : i \in OpenCells(CallOf(s, d))
    BY <1>0, <1>2, <1>3, AwaitedIs
  <2>3. i \in Awaited(s, e + 1) <=>
          \/ i = INITIAL_INDEX \/ i \in OpenCells(f)
          \/ \E d \in 1 .. e - 1 : i \in OpenCells(CallOf(s, d))
    BY <1>0, <1>2, <1>8, AwaitedIs
  <2> QED
    BY <1>0, <1>6, <1>7, <2>2, <2>3
<1>11. CellsOk(t, e, T)
  <2>1. \A d \in 1 .. e : /\ CallOf(t, d).base = CallOf(s, d).base
                          /\ CallOf(t, d).children = CallOf(s, d).children
                          /\ OpenOf(CallOf(t, d)) \subseteq OpenOf(CallOf(s, d))
    BY <1>0, <1>1, <1>2, <1>3
  <2>2. e <= e + 1 /\ e + 1 \in Int /\ e \in Int /\ T \subseteq T
    BY <1>0
  <2> QED
    BY <1>0, <2>1, <2>2, CellsKept
<1> QED
  BY <1>5, <1>9, <1>10, <1>11

(* What the bases are, part by part. *)
LEMMA BasesIs ==
  ASSUME NEW s, NEW e, NEW d, NEW P, NEW u, BasesOk(s, e, d, P, u)
  PROVE  /\ \A i, j \in P : d[i].base > 0 /\ d[i].base = d[j].base => i = j
         /\ \A i \in P : d[i].base > 0 => d[i].base \in u
         /\ \A c \in 1 .. e : CallOf(s, c).children # <<>> =>
              /\ CallOf(s, c).base \in u
              /\ \A i \in P : d[i].base # CallOf(s, c).base
              /\ \A b \in 1 .. e : CallOf(s, b).children # <<>> /\ CallOf(s, b).base = CallOf(s, c).base => b = c
BY DEF BasesOk

(* The same calls have the same bases. *)
LEMMA BasesSame ==
  ASSUME NEW s, NEW t, NEW e, NEW d, NEW x, NEW P, NEW u, NEW v, BasesOk(s, e, d, P, u),
         SameCalls(t, s, e), \A i \in P : x[i] = d[i], u \subseteq v
  PROVE  BasesOk(t, e, x, P, v)
<1>1. \A c \in 1 .. e : CallOf(t, c) = CallOf(s, c)
  BY DEF SameCalls
<1>2. \A i, j \in P : x[i].base > 0 /\ x[i].base = x[j].base => i = j
  BY BasesIs
<1>3. \A i \in P : x[i].base > 0 => x[i].base \in v
  BY BasesIs
<1>4. \A c \in 1 .. e : CallOf(t, c).children # <<>> =>
        /\ CallOf(t, c).base \in v
        /\ \A i \in P : x[i].base # CallOf(t, c).base
        /\ \A b \in 1 .. e : CallOf(t, b).children # <<>> /\ CallOf(t, b).base = CallOf(t, c).base => b = c
  BY <1>1, BasesIs
<1> QED
  BY <1>2, <1>3, <1>4 DEF BasesOk

(* One more call with a new base, or without children. *)
LEMMA BasesMore ==
  ASSUME NEW s, NEW t, NEW e \in Nat, NEW y, y = e + 1,
         NEW d, NEW x, NEW P, NEW u, NEW v, BasesOk(s, e, d, P, u),
         SameCalls(t, s, e), \A i \in P : x[i] = d[i], u \subseteq v,
         NEW f, f = CallOf(t, y),
         f.children # <<>> => f.base \in Nat /\ f.base >= 1 /\ f.base \in v /\ f.base \notin u
  PROVE  BasesOk(t, y, x, P, v)
<1>1. \A c \in 1 .. e : CallOf(t, c) = CallOf(s, c)
  BY DEF SameCalls
<1>2. \A c \in 1 .. y : c \in 1 .. e \/ c = y
  OBVIOUS
<1>3. \A i, j \in P : x[i].base > 0 /\ x[i].base = x[j].base => i = j
  BY BasesIs
<1>4. \A i \in P : x[i].base > 0 => x[i].base \in v
  BY BasesIs
<1>5. ASSUME NEW c \in 1 .. y, CallOf(t, c).children # <<>>
      PROVE  /\ CallOf(t, c).base \in v
             /\ \A i \in P : x[i].base # CallOf(t, c).base
             /\ \A b \in 1 .. y : CallOf(t, b).children # <<>> /\ CallOf(t, b).base = CallOf(t, c).base => b = c
  <2>1. CASE c \in 1 .. e
    <3>1. CallOf(t, c).base \in u /\ \A i \in P : x[i].base # CallOf(t, c).base
      BY <1>1, <1>5, <2>1, BasesIs
    <3>2. ASSUME NEW b \in 1 .. y, CallOf(t, b).children # <<>>, CallOf(t, b).base = CallOf(t, c).base
          PROVE  b = c
      <4>1. b # y
        BY <3>1, <3>2
      <4>2. b \in 1 .. e
        BY <1>2, <4>1
      <4> QED
        BY <1>1, <1>5, <2>1, <3>2, <4>2, BasesIs
    <3> QED
      BY <3>1, <3>2
  <2>2. CASE c = y
    <3>1. f.base \in Nat /\ f.base >= 1 /\ f.base \in v /\ f.base \notin u
      BY <1>5, <2>2
    <3>2. ASSUME NEW i \in P PROVE x[i].base # f.base
      <4>1. f.base > 0
        BY <3>1
      <4> QED
        BY <3>1, <4>1, BasesIs
    <3>3. ASSUME NEW b \in 1 .. y, CallOf(t, b).children # <<>>, CallOf(t, b).base = f.base
          PROVE  b = y
      <4>1. b \notin 1 .. e
        BY <1>1, <3>1, <3>3, BasesIs
      <4> QED
        BY <1>2, <4>1
    <3> QED
      BY <2>2, <3>1, <3>2, <3>3
  <2> QED
    BY <1>2, <2>1, <2>2
<1> QED
  BY <1>3, <1>4, <1>5 DEF BasesOk

(* The innermost call returns: its base, or the place of a leaf, goes to cell. *)
BaseGiven(s, t, e, d, x, P, u, cell, r) ==
  /\ e \in Nat /\ BasesOk(s, e + 1, d, P, u)
  /\ \A c \in 1 .. e : /\ CallOf(t, c).base = CallOf(s, c).base
                       /\ CallOf(t, c).children = CallOf(s, c).children
                       /\ CallOf(s, c).children # <<>> => CallOf(s, c).base >= 1
                       /\ CallOf(s, c).base \in Nat
  /\ cell \notin P /\ \A i \in P : x[i] = d[i]
  /\ r \in Int /\ x[cell].base = r
  /\ r < 0 \/ (CallOf(s, e + 1).children # <<>> /\ r = CallOf(s, e + 1).base)

(* The bases of the other calls, and of what is placed, still differ. *)
LEMMA BasesLess ==
  ASSUME NEW s, NEW t, NEW e, NEW d, NEW x, NEW P, NEW u, NEW cell, NEW r,
         BaseGiven(s, t, e, d, x, P, u, cell, r)
  PROVE  BasesOk(t, e, x, P \cup {cell}, u)
<1> DEFINE y == e + 1
<1>0. /\ e \in Nat /\ BasesOk(s, y, d, P, u) /\ y = e + 1
      /\ \A c \in 1 .. e : /\ CallOf(t, c).base = CallOf(s, c).base
                           /\ CallOf(t, c).children = CallOf(s, c).children
                           /\ CallOf(s, c).children # <<>> => CallOf(s, c).base >= 1
                           /\ CallOf(s, c).base \in Nat
      /\ cell \notin P /\ \A i \in P : x[i] = d[i]
      /\ r \in Int /\ x[cell].base = r
      /\ r < 0 \/ (CallOf(s, y).children # <<>> /\ r = CallOf(s, y).base)
  BY DEF BaseGiven
<1> HIDE DEF y
<1>1. (\A c \in 1 .. e : c \in 1 .. y /\ c # y) /\ y \in 1 .. y
  BY <1>0
<1>2. r > 0 => /\ r \in u /\ \A i \in P : d[i].base # r
               /\ CallOf(s, y).children # <<>> /\ r = CallOf(s, y).base
  BY <1>0, <1>1, BasesIs
<1>3. ASSUME NEW i \in P \cup {cell}, NEW j \in P \cup {cell}, x[i].base > 0, x[i].base = x[j].base
      PROVE  i = j
  <2>1. CASE i \in P /\ j \in P
    BY <1>0, <1>3, <2>1, BasesIs
  <2>2. CASE i = cell \/ j = cell
    <3>1. x[cell].base = r /\ r > 0
      BY <1>0, <1>3, <2>2
    <3>2. r \in u /\ \A k \in P : d[k].base # r
      BY <1>2, <3>1
    <3>3. \A k \in P : x[k].base # r
      BY <1>0, <3>2
    <3>4. x[i].base = r /\ x[j].base = r
      BY <1>0, <1>3, <2>2, <3>1
    <3>5. i = cell /\ j = cell
      BY <3>3, <3>4
    <3> QED
      BY <3>5
  <2> QED
    BY <2>1, <2>2
<1>4. \A i \in P \cup {cell} : x[i].base > 0 => x[i].base \in u
  <2>1. \A i \in P : x[i].base > 0 => x[i].base \in u
    BY <1>0, BasesIs
  <2> QED
    BY <1>0, <1>2, <2>1
<1>5. ASSUME NEW c \in 1 .. e, CallOf(t, c).children # <<>>
      PROVE  /\ CallOf(t, c).base \in u
             /\ \A i \in P \cup {cell} : x[i].base # CallOf(t, c).base
             /\ \A b \in 1 .. e : CallOf(t, b).children # <<>> /\ CallOf(t, b).base = CallOf(t, c).base => b = c
  <2>1. CallOf(s, c).children # <<>> /\ c \in 1 .. y /\ c # y /\ CallOf(t, c).base = CallOf(s, c).base
    BY <1>0, <1>1, <1>5
  <2>2. CallOf(s, c).base \in u /\ \A i \in P : x[i].base # CallOf(s, c).base
    BY <1>0, <2>1, BasesIs
  <2>3. r # CallOf(s, c).base
    <3>1. CASE r < 0
      <4>1. CallOf(s, c).base >= 1 /\ CallOf(s, c).base \in Nat
        BY <1>0, <1>5, <2>1
      <4> QED
        BY <1>0, <3>1, <4>1
    <3>2. CASE CallOf(s, y).children # <<>> /\ r = CallOf(s, y).base
      BY <1>0, <1>1, <2>1, <3>2, BasesIs
    <3> QED
      BY <1>0, <3>1, <3>2
  <2>4. \A b \in 1 .. e : CallOf(t, b).children # <<>> /\ CallOf(t, b).base = CallOf(t, c).base => b = c
    BY <1>0, <1>1, <2>1, BasesIs
  <2> QED
    BY <1>0, <2>1, <2>2, <2>3, <2>4
<1> QED
  BY <1>3, <1>4, <1>5 DEF BasesOk

-----------------------------------------------------------------------------
(* The calls below the innermost one. *)

(* A change of the innermost call leaves the calls below it. *)
LEMMA BelowTop ==
  ASSUME NEW S, NEW s \in Seq(S), s # <<>>, NEW t \in Seq(S),
         DOMAIN t = DOMAIN s, \A i \in DOMAIN s : i # 1 => t[i] = s[i]
  PROVE  Len(t) = Len(s) /\ SameCalls(t, s, Len(s) - 1)
<1>1. Len(s) \in Nat \ {0} /\ DOMAIN s = 1 .. Len(s) /\ Len(t) = Len(s)
  <2>1. Len(s) \in Nat /\ Len(t) \in Nat /\ DOMAIN s = 1 .. Len(s) /\ DOMAIN t = 1 .. Len(t)
    OBVIOUS
  <2>2. Len(s) # 0
    OBVIOUS
  <2> QED
    BY <2>1, <2>2
<1>2. \A d \in 1 .. Len(s) - 1 : Len(s) + 1 - d \in 1 .. Len(s) /\ Len(s) + 1 - d # 1
  BY <1>1
<1> QED
  BY <1>1, <1>2 DEF SameCalls, CallOf

(* A stack has its own calls. *)
LEMMA SameStack ==
  ASSUME NEW s, NEW e
  PROVE  SameCalls(s, s, e)
BY DEF SameCalls

(* Steps after which the same calls wait for the same elements. *)
Quiet ==
  /\ Working /\ Working' /\ Expanded' = Expanded
  /\ SameCalls(stack', stack, Expanded)
  /\ Taken(da') = Taken(da) /\ \A i \in Taken(da) : da'[i] = da[i]
  /\ used' = used

(* How many calls have reserved elements. *)
LEMMA ExpandedIs ==
  ASSUME CallsInv, Working
  PROVE  /\ Expanded \in Nat /\ Depth \in Nat \ {0}
         /\ Expanded = IF pc \in {"children", "return"} THEN Depth ELSE Depth - 1
<1>1. Depth \in Nat \ {0}
  BY TopCall
<1>2. Depth - 1 \in Nat
  BY <1>1
<1> QED
  BY <1>1, <1>2 DEF Expanded, Depth

(* Such steps keep elements and bases. *)
LEMMA LayoutQuiet ==
  ASSUME CallsInv, CellsInv, BasesInv, Quiet
  PROVE  /\ CellsInv' /\ BasesInv'
         /\ Placed(da, stack, Expanded)' = Placed(da, stack, Expanded)
<1> DEFINE P == Placed(da, stack, Expanded)
<1>1. /\ Working /\ Working' /\ Expanded' = Expanded
      /\ SameCalls(stack', stack, Expanded)
      /\ Taken(da') = Taken(da) /\ \A i \in Taken(da) : da'[i] = da[i]
      /\ used' = used
  BY DEF Quiet
<1>2. Expanded \in Nat
  BY <1>1, ExpandedIs
<1>3. CellsOk(stack, Expanded, Taken(da)) /\ BasesOk(stack, Expanded, da, P, used)
  BY <1>1 DEF CellsInv, BasesInv
<1>4. CellsOk(stack', Expanded, Taken(da'))
  <2>1. Expanded \in Int /\ Taken(da) \subseteq Taken(da')
    BY <1>1, <1>2
  <2> QED
    BY <1>1, <1>3, <2>1, CellsSame
<1>5. Placed(da', stack', Expanded) = P
  BY <1>1, AwaitedSame DEF Placed
<1>6. BasesOk(stack', Expanded, da', P, used')
  <2>1. \A i \in P : da'[i] = da[i]
    BY <1>1 DEF Placed
  <2> HIDE DEF P
  <2> QED
    BY <1>1, <1>3, <2>1, BasesSame
<1>7. BasesDistinct'
  BY <1>1 DEF BasesDistinct, Working
<1> QED
  BY <1>1, <1>4, <1>5, <1>6, <1>7 DEF CellsInv, BasesInv

(* To list the children is one, *)
LEMMA QuietArrangeNode ==
  ASSUME CallsInv, ArrangeNode, pc' # "thrown"
  PROVE  Quiet /\ pc' = "search" /\ pc = "arrange"
         /\ UNCHANGED stat /\ Top'.first = Top.first
<1>1. /\ pc = "arrange" /\ pc' = "search" /\ UNCHANGED <<da, used, stat>>
      /\ stack' = [stack EXCEPT ![1].children = ChildrenOf(Top.p, Top.first, Top.last)]
  BY DEF ArrangeNode, Throw
<1>2. Working /\ Working'
  BY <1>1 DEF Working
<1>3. stack \in Seq(FrameType) /\ stack # <<>> /\ Top = stack[1]
  BY <1>2, TopCall
<1>4. stack' \in Seq(FrameType) /\ stack' # <<>>
  BY <1>2, CallsArrangeNode DEF CallsInv, StackOk
<1>5. DOMAIN stack' = DOMAIN stack /\ \A i \in DOMAIN stack : i # 1 => stack'[i] = stack[i]
  BY <1>1
<1>6. Len(stack') = Len(stack) /\ SameCalls(stack', stack, Len(stack) - 1)
  BY <1>3, <1>4, <1>5, BelowTop
<1>7. Expanded = Depth - 1 /\ Expanded' = Depth - 1
  BY <1>1, <1>6 DEF Expanded, Depth
<1>8. Top' = [Top EXCEPT !.children = ChildrenOf(Top.p, Top.first, Top.last)]
  <2>1. 1 \in DOMAIN stack
    BY <1>3
  <2>2. Head(stack') = stack'[1]
    BY <1>4
  <2> QED
    BY <1>1, <1>3, <2>1, <2>2 DEF Top
<1>9. Top'.first = Top.first
  <2>1. Top \in FrameType
    BY <1>2, TopCall
  <2> QED
    BY <1>8, <2>1 DEF FrameType
<1> QED
  BY <1>1, <1>2, <1>6, <1>7, <1>9 DEF Quiet, Depth

(* to search on, *)
LEMMA QuietSearchOn ==
  ASSUME CallsInv, SearchOn
  PROVE  Quiet /\ pc = "search" /\ pc' = pc /\ UNCHANGED <<stack, stat>>
<1>1. /\ pc = "search" /\ UNCHANGED <<pc, da, used, stack, stat>>
  BY DEF SearchOn
<1>2. Working /\ Working'
  BY <1>1 DEF Working
<1>3. Expanded' = Expanded
  BY <1>1 DEF Expanded, Depth
<1> QED
  BY <1>1, <1>2, <1>3, SameStack DEF Quiet

(* to try a base, *)
LEMMA QuietSearchTry ==
  ASSUME CallsInv, ListInv, SearchTry
  PROVE  /\ Quiet /\ pc = "search" /\ pc' \in {"search", "reserve"}
         /\ UNCHANGED stat /\ Top'.first = Top.first
<1> DEFINE base == VlistNext(elink, index) - Top.children[1].offset
<1>1. /\ pc = "search" /\ UNCHANGED <<used, stat>>
      /\ UNCHANGED <<pc, stack>> \/ (pc' = "reserve" /\ stack' = [stack EXCEPT ![1].base = base])
  BY SearchTrySteps
<1>2. Working /\ Working' /\ pc' \in {"search", "reserve"}
  BY <1>1 DEF Working
<1>3. stack \in Seq(FrameType) /\ stack # <<>> /\ Top = stack[1] /\ Top \in FrameType
  BY <1>2, TopCall
<1>4. VlistNext(elink, index) \in Int
  BY <1>1, NextVacant
<1>5. stack' \in Seq(FrameType) /\ stack' # <<>>
  BY <1>2, <1>4, CallsSearchTry DEF CallsInv, StackOk
<1>6. DOMAIN stack' = DOMAIN stack /\ \A i \in DOMAIN stack : i # 1 => stack'[i] = stack[i]
  BY <1>1
<1>7. Len(stack') = Len(stack) /\ SameCalls(stack', stack, Len(stack) - 1)
  BY <1>3, <1>5, <1>6, BelowTop
<1>8. Expanded = Depth - 1 /\ Expanded' = Depth - 1
  BY <1>1, <1>2, <1>7 DEF Expanded, Depth
<1>9. Taken(da') = Taken(da) /\ \A i \in Taken(da) : da'[i] = da[i]
  BY ListSearchTry
<1>10. Top'.first = Top.first
  <2>1. CASE stack' = stack
    BY <2>1 DEF Top
  <2>2. CASE stack' = [stack EXCEPT ![1].base = base]
    <3>1. 1 \in DOMAIN stack
      BY <1>3
    <3>2. Head(stack') = stack'[1]
      BY <1>5
    <3>3. Top' = [Top EXCEPT !.base = base]
      BY <1>3, <2>2, <3>1, <3>2 DEF Top
    <3> QED
      BY <1>3, <3>3 DEF FrameType
  <2> QED
    BY <1>1, <2>1, <2>2
<1> QED
  BY <1>1, <1>2, <1>7, <1>8, <1>9, <1>10 DEF Quiet, Depth

(* to call for a child, *)
LEMMA QuietEnterChild ==
  ASSUME CallsInv, EnterChild, pc' # "thrown"
  PROVE  /\ Quiet /\ pc = "children" /\ pc' = "arrange" /\ UNCHANGED stat
         /\ Top.child <= Len(Top.children)
         /\ Top'.first = Top.children[Top.child].first
<1> DEFINE child == Top.children[Top.child]
           f == Frame(Top.p + (IF child.c = 0 THEN 0 ELSE 1), child.first, child.last)
<1>1. /\ pc = "children" /\ pc' = "arrange" /\ UNCHANGED <<da, used, stat>>
      /\ Top.child <= Len(Top.children) /\ stack' = Pushed(f, stack)
  BY DEF EnterChild, Throw, Pushed
<1>2. Working /\ Working'
  BY <1>1 DEF Working
<1>3. stack \in Seq(FrameType) /\ stack # <<>> /\ Top \in FrameType /\ Depth \in Nat \ {0}
  BY <1>2, TopCall
<1>4. Filling(recs, table, Top)
  BY <1>1, <1>2 DEF CallsInv, InnerCall
<1>5. child.first \in Nat /\ child.last \in Nat
  <2>1. Listed(recs, table, Top) /\ Top.child \in 1 .. Len(Top.children) + 1
    BY <1>4 DEF Filling
  <2>2. Len(Top.children) \in Nat
    BY <2>1, ListedChild
  <2>3. Top.child \in 1 .. Len(Top.children)
    BY <1>1, <2>1, <2>2
  <2> QED
    BY <2>1, <2>3, ListedChild
<1>6. f \in FrameType /\ f.first = child.first
  <2>0. Top.p \in Nat
    BY <1>3 DEF FrameType
  <2> HIDE DEF child
  <2>1. Top.p + (IF child.c = 0 THEN 0 ELSE 1) \in Nat
    BY <2>0
  <2> QED
    BY <1>5, <2>1, FrameTyped
<1> HIDE DEF f, child
<1>7. OneMore(FrameType, stack', stack, f)
  BY <1>1, <1>3, <1>6, CallPushed
<1>8. Len(stack') = Depth + 1 /\ SameCalls(stack', stack, Depth) /\ Head(stack') = f
  BY <1>7 DEF OneMore, SameCalls, Depth
<1>9. Expanded = Depth /\ Expanded' = Depth
  BY <1>1, <1>3, <1>8 DEF Expanded, Depth
<1> QED
  BY <1>1, <1>2, <1>6, <1>8, <1>9 DEF Quiet, Top, child

(* and to leave a node. *)
LEMMA QuietLeaveNode ==
  ASSUME CallsInv, LeaveNode
  PROVE  /\ Quiet /\ pc = "children" /\ pc' = "return" /\ UNCHANGED stack
         /\ stat' = [stat EXCEPT !.nodes = @ + 1] /\ Top.child > Len(Top.children)
<1>1. /\ pc = "children" /\ pc' = "return" /\ UNCHANGED <<da, used, stack>>
      /\ stat' = [stat EXCEPT !.nodes = @ + 1] /\ Top.child > Len(Top.children)
  BY DEF LeaveNode
<1>2. Working /\ Working'
  BY <1>1 DEF Working
<1>3. Expanded' = Expanded
  BY <1>1 DEF Expanded, Depth
<1> QED
  BY <1>1, <1>2, <1>3, SameStack DEF Quiet

LayoutInv == CellsInv /\ BasesInv /\ CountInv

(* What the counts are, part by part. *)
LEMMA CountIs ==
  ASSUME CountInv, Working
  PROVE  /\ stat \in [nodes : Nat, leaves : Nat, used : Nat]
         /\ stat.nodes \in Nat /\ stat.leaves \in Nat
         /\ Cardinality(Placed(da, stack, Expanded)) =
               stat.nodes + stat.leaves - (IF pc = "return" THEN 1 ELSE 0)
         /\ stat.leaves = Leaves
BY DEF CountInv

(* Before build() is done nothing is said of its result. *)
LEMMA NotBuilt ==
  ASSUME pc' # "built"
  PROVE  BasesDistinct' /\ ElementsAddUp'
BY DEF BasesDistinct, ElementsAddUp

(* An exception ends the build. *)
LEMMA LayoutThrown ==
  ASSUME CountInv, pc' = "thrown", stat' = stat
  PROVE  LayoutInv'
<1>1. ~ Working' /\ pc' # "built"
  BY DEF Working
<1>2. stat' \in [nodes : Nat, leaves : Nat, used : Nat]
  BY DEF CountInv
<1> QED
  BY <1>1, <1>2, NotBuilt DEF LayoutInv, CellsInv, BasesInv, CountInv

(* Steps that neither fill in nor count an element. *)
LEMMA CountKept ==
  ASSUME CountInv, Working, Working', UNCHANGED stat, pc # "return", pc' # "return",
         Placed(da, stack, Expanded)' = Placed(da, stack, Expanded), Leaves' = Leaves
  PROVE  CountInv'
<1>1. pc' # "built"
  BY DEF Working
<1> QED
  BY <1>1, NotBuilt, CountIs DEF CountInv

(* One lemma for each step of the builder: elements, bases and counts. *)
LEMMA LayoutArrangeNode ==
  ASSUME CallsInv, LayoutInv, ArrangeNode
  PROVE  LayoutInv'
<1>1. CASE pc' = "thrown"
  <2>1. stat' = stat
    BY DEF ArrangeNode
  <2> QED
    BY <1>1, <2>1, LayoutThrown DEF LayoutInv
<1>2. CASE pc' # "thrown"
  <2>1. Quiet /\ pc' = "search" /\ pc = "arrange" /\ UNCHANGED stat /\ Top'.first = Top.first
    BY <1>2, QuietArrangeNode
  <2>2. CellsInv' /\ BasesInv' /\ Placed(da, stack, Expanded)' = Placed(da, stack, Expanded)
    BY <2>1, LayoutQuiet DEF LayoutInv
  <2>3. Leaves' = Leaves
    BY <2>1 DEF Leaves, Reached
  <2>4. CountInv'
    BY <2>1, <2>2, <2>3, CountKept DEF LayoutInv, Quiet
  <2> QED
    BY <2>2, <2>4 DEF LayoutInv
<1> QED
  BY <1>1, <1>2

(* The search touches no element. *)
LEMMA LayoutSearchOn ==
  ASSUME CallsInv, LayoutInv, SearchOn
  PROVE  LayoutInv'
<1>1. Quiet /\ pc = "search" /\ pc' = pc /\ UNCHANGED <<stack, stat>>
  BY QuietSearchOn
<1>2. CellsInv' /\ BasesInv' /\ Placed(da, stack, Expanded)' = Placed(da, stack, Expanded)
  BY <1>1, LayoutQuiet DEF LayoutInv
<1>3. Leaves' = Leaves
  BY <1>1 DEF Leaves, Reached, Top
<1>4. CountInv'
  BY <1>1, <1>2, <1>3, CountKept DEF LayoutInv, Quiet
<1> QED
  BY <1>2, <1>4 DEF LayoutInv

(* A base that is found is not yet one of the call. *)
LEMMA LayoutSearchTry ==
  ASSUME CallsInv, ListInv, LayoutInv, SearchTry
  PROVE  LayoutInv'
<1>1. /\ Quiet /\ pc = "search" /\ pc' \in {"search", "reserve"}
      /\ UNCHANGED stat /\ Top'.first = Top.first
  BY QuietSearchTry
<1>2. CellsInv' /\ BasesInv' /\ Placed(da, stack, Expanded)' = Placed(da, stack, Expanded)
  BY <1>1, LayoutQuiet DEF LayoutInv
<1>3. Leaves' = Leaves
  BY <1>1 DEF Leaves, Reached
<1>4. CountInv'
  BY <1>1, <1>2, <1>3, CountKept DEF LayoutInv, Quiet
<1> QED
  BY <1>2, <1>4 DEF LayoutInv

(* The call for a child has no elements yet. *)
LEMMA LayoutEnterChild ==
  ASSUME CallsInv, LayoutInv, EnterChild
  PROVE  LayoutInv'
<1>1. CASE pc' = "thrown"
  <2>1. stat' = stat
    BY DEF EnterChild
  <2> QED
    BY <1>1, <2>1, LayoutThrown DEF LayoutInv
<1>2. CASE pc' # "thrown"
  <2>1. /\ Quiet /\ pc = "children" /\ pc' = "arrange" /\ UNCHANGED stat
        /\ Top.child <= Len(Top.children)
        /\ Top'.first = Top.children[Top.child].first
    BY <1>2, QuietEnterChild
  <2>2. CellsInv' /\ BasesInv' /\ Placed(da, stack, Expanded)' = Placed(da, stack, Expanded)
    BY <2>1, LayoutQuiet DEF LayoutInv
  <2>3. Leaves' = Leaves
    <3>1. ~ (Top.child > Len(Top.children))
      <4>1. Filling(recs, table, Top)
        BY <2>1 DEF CallsInv, InnerCall, Quiet
      <4>2. Len(Top.children) \in Nat /\ Top.child \in Int
        BY <4>1, ListedChild DEF Filling
      <4> QED
        BY <2>1, <4>2
    <3> QED
      BY <2>1, <3>1 DEF Leaves, Reached
  <2>4. CountInv'
    BY <2>1, <2>2, <2>3, CountKept DEF LayoutInv, Quiet
  <2> QED
    BY <2>2, <2>4 DEF LayoutInv
<1> QED
  BY <1>1, <1>2

(* A node is counted when its children are placed. *)
LEMMA LayoutLeaveNode ==
  ASSUME CallsInv, LayoutInv, LeaveNode
  PROVE  LayoutInv'
<1>1. /\ Quiet /\ pc = "children" /\ pc' = "return" /\ UNCHANGED stack
      /\ stat' = [stat EXCEPT !.nodes = @ + 1] /\ Top.child > Len(Top.children)
  BY QuietLeaveNode
<1>2. CellsInv' /\ BasesInv' /\ Placed(da, stack, Expanded)' = Placed(da, stack, Expanded)
  BY <1>1, LayoutQuiet DEF LayoutInv
<1>3. Leaves' = Leaves
  BY <1>1 DEF Leaves, Top
<1> DEFINE c == Cardinality(Placed(da, stack, Expanded))
<1>4. /\ stat \in [nodes : Nat, leaves : Nat, used : Nat]
      /\ stat.nodes \in Nat /\ stat.leaves \in Nat
      /\ c = stat.nodes + stat.leaves - 0 /\ stat.leaves = Leaves
  BY <1>1, CountIs DEF LayoutInv, Quiet
<1>5. /\ stat' \in [nodes : Nat, leaves : Nat, used : Nat]
      /\ stat'.nodes = stat.nodes + 1 /\ stat'.leaves = stat.leaves
  BY <1>1, <1>4
<1>6. c' = stat'.nodes + stat'.leaves - 1
  <2>1. c' = c
    BY <1>2
  <2> HIDE DEF c
  <2>2. c = (stat.nodes + 1) + stat.leaves - 1
    BY <1>4
  <2> QED
    BY <1>5, <2>1, <2>2
<1>7. CountInv'
  BY <1>1, <1>3, <1>4, <1>5, <1>6, NotBuilt DEF CountInv
<1> QED
  BY <1>2, <1>7 DEF LayoutInv

(* A leaf is counted before it is placed. *)
LEMMA LayoutArrangeLeaf ==
  ASSUME CallsInv, LayoutInv, ArrangeLeaf
  PROVE  LayoutInv'
<1>1. CASE pc' = "thrown"
  <2>1. stat' = stat
    BY <1>1 DEF ArrangeLeaf
  <2> QED
    BY <1>1, <2>1, LayoutThrown DEF LayoutInv
<1>2. CASE pc' # "thrown"
  <2>1. /\ pc = "arrange" /\ pc' = "return" /\ Top.first + 1 = Top.last
        /\ stat' = [stat EXCEPT !.leaves = @ + 1] /\ UNCHANGED <<da, used, stack>>
    BY <1>2 DEF ArrangeLeaf, Throw
  <2>2. Working /\ Working'
    BY <2>1 DEF Working
  <2> DEFINE e == Expanded
             y == e + 1
             P == Placed(da, stack, Expanded)
  <2>3. e \in Nat /\ Depth \in Nat /\ e = Depth - 1 /\ Expanded' = Depth /\ y = Depth
    BY <2>1, <2>2, ExpandedIs DEF Expanded, Depth
  <2>4. Top = CallOf(stack, y) /\ Top.children = <<>> /\ Len(Top.children) = 0
    BY <2>1, <2>2, <2>3, TopCall DEF CallsInv, InnerCall, Started, Call
  <2>5. OpenOf(Top) = {} /\ OpenCells(Top) = {}
    BY <2>4 DEF OpenOf, OpenCells
  <2>6. CellsOk(stack, e, Taken(da)) /\ BasesOk(stack, e, da, P, used)
    BY <2>2 DEF LayoutInv, CellsInv, BasesInv
  <2>7. CellsOk(stack, y, Taken(da))
    <3>1. SameCalls(stack, stack, e)
      BY SameStack
    <3> HIDE DEF e, y
    <3>2. y = e + 1
      BY DEF y
    <3> QED
      BY <2>3, <2>4, <2>5, <2>6, <3>1, <3>2, CellsMore
  <2>8. Awaited(stack, y) = Awaited(stack, e)
    <3>1. SameCalls(stack, stack, e)
      BY SameStack
    <3> HIDE DEF e
    <3>2. Awaited(stack, y) = Awaited(stack, e) \cup OpenCells(CallOf(stack, y))
      BY <2>3, <3>1, AwaitedMore
    <3> QED
      BY <2>4, <2>5, <3>2
  <2>9. Placed(da, stack, Expanded)' = P
    BY <2>1, <2>3, <2>8 DEF Placed, Taken
  <2>10. BasesOk(stack, y, da, P, used)
    <3>1. SameCalls(stack, stack, e) /\ used \subseteq used /\ \A i \in P : da[i] = da[i]
      BY SameStack
    <3> HIDE DEF e, P, y
    <3>2. y = e + 1
      BY DEF y
    <3> QED
      BY <2>3, <2>4, <2>6, <3>1, <3>2, BasesMore
  <2>11. CellsInv' /\ BasesInv'
    <3>1. Taken(da)' = Taken(da)
      BY <2>1 DEF Taken
    <3> HIDE DEF P, y, e
    <3> QED
      BY <2>1, <2>3, <2>7, <2>9, <2>10, <3>1, NotBuilt DEF CellsInv, BasesInv
  <2> DEFINE c == Cardinality(P)
  <2>12. /\ stat \in [nodes : Nat, leaves : Nat, used : Nat]
         /\ stat.nodes \in Nat /\ stat.leaves \in Nat
         /\ c = stat.nodes + stat.leaves - 0 /\ stat.leaves = Leaves
    BY <2>1, <2>2, CountIs DEF LayoutInv
  <2>13. /\ stat' \in [nodes : Nat, leaves : Nat, used : Nat]
         /\ stat'.nodes = stat.nodes /\ stat'.leaves = stat.leaves + 1
    BY <2>1, <2>12
  <2>14. Cardinality(Placed(da, stack, Expanded)') = stat'.nodes + stat'.leaves - 1
    <3>1. Cardinality(Placed(da, stack, Expanded)') = c
      BY <2>9
    <3> HIDE DEF c
    <3>2. c = stat.nodes + (stat.leaves + 1) - 1
      BY <2>12
    <3> QED
      BY <2>13, <3>1, <3>2
  <2>15. stat'.leaves = Leaves'
    <3>1. Top.first \in Nat /\ Top.last \in Nat
      BY <2>2, TopCall DEF FrameType
    <3>2. Leaves = Top.first - 1 /\ Leaves' = Top.last - 1
      BY <2>1 DEF Leaves, Reached, Top
    <3> QED
      BY <2>1, <2>12, <2>13, <3>1, <3>2
  <2>16. CountInv'
    BY <2>1, <2>13, <2>14, <2>15, NotBuilt DEF CountInv
  <2> QED
    BY <2>11, <2>16 DEF LayoutInv
<1> QED
  BY <1>1, <1>2

(* The elements reserved are new to all calls, and so is the base. *)
LEMMA LayoutReserve ==
  ASSUME CallsInv, ListInv, LayoutInv, Reserve
  PROVE  LayoutInv'
<1>1. CASE pc' = "thrown"
  <2>1. stat' = stat
    BY DEF Reserve
  <2> QED
    BY <1>1, <2>1, LayoutThrown DEF LayoutInv
<1>2. CASE pc' # "thrown"
  <2>1. /\ pc = "reserve" /\ pc' = "children" /\ used' = used \cup {Top.base} /\ UNCHANGED <<stack, stat>>
        /\ Top.base >= 1 /\ Top.base \notin used
        /\ CellsOf(Top) \cap Taken(da) = {}
        /\ Taken(da') = Taken(da) \cup CellsOf(Top)
        /\ \A i \in Taken(da) : da'[i] = da[i]
    BY <1>2, ReserveTakes DEF Reserve
  <2>2. Working /\ Working'
    BY <2>1 DEF Working
  <2> DEFINE e == Expanded
             y == e + 1
             P == Placed(da, stack, Expanded)
  <2>3. e \in Nat /\ Depth \in Nat /\ e = Depth - 1 /\ Expanded' = Depth /\ y = Depth
    BY <2>1, <2>2, ExpandedIs DEF Expanded, Depth
  <2>4. Top = CallOf(stack, y) /\ Top \in FrameType /\ Top.base \in Nat
    BY <2>2, <2>3, TopCall DEF Call, FrameType
  <2>5. Listed(recs, table, Top) /\ Top.child = 1
    BY <2>1, <2>2 DEF CallsInv, InnerCall, Searching
  <2>6. Len(Top.children) \in Nat \ {0} /\ Top.children # <<>>
        /\ \A k \in 1 .. Len(Top.children) : Top.children[k].offset \in Nat
        /\ Top.children[1].first \in Nat
    BY <2>5, ListedChild
  <2>7. OpenOf(Top) = 1 .. Len(Top.children) /\ OpenCells(Top) = CellsOf(Top)
    <3>1. OpenOf(Top) = 1 .. Len(Top.children)
      BY <2>5, <2>6 DEF OpenOf
    <3> QED
      BY <3>1 DEF OpenCells, CellsOf
  <2>8. \A k, m \in OpenOf(Top) : CellOf(Top, k) = CellOf(Top, m) => k = m
    <3>1. SUFFICES ASSUME NEW k \in 1 .. Len(Top.children), NEW m \in 1 .. Len(Top.children), k # m
                   PROVE  CellOf(Top, k) # CellOf(Top, m)
      BY <2>7
    <3>2. Top.children[k].offset # Top.children[m].offset
      BY <2>5, <3>1 DEF Listed, ChildrenDiffer
    <3> DEFINE b == Top.base
               o == Top.children[k].offset
               q == Top.children[m].offset
    <3>3. b \in Nat /\ o \in Nat /\ q \in Nat /\ o # q
      BY <2>4, <2>6, <3>2
    <3>4. CellOf(Top, k) = b + o /\ CellOf(Top, m) = b + q
      BY DEF CellOf
    <3> HIDE DEF b, o, q
    <3> QED
      BY <3>3, <3>4
  <2>9. CellsOk(stack, e, Taken(da)) /\ BasesOk(stack, e, da, P, used)
    BY <2>2 DEF LayoutInv, CellsInv, BasesInv
  <2>10. CellsOk(stack, y, Taken(da'))
    <3>1. SameCalls(stack, stack, e)
      BY SameStack
    <3> HIDE DEF e, y
    <3>2. y = e + 1
      BY DEF y
    <3>3. OpenCells(Top) \subseteq Taken(da') /\ OpenCells(Top) \cap Taken(da) = {}
          /\ Taken(da) \subseteq Taken(da')
      BY <2>1, <2>7
    <3> QED
      BY <2>1, <2>3, <2>4, <2>8, <2>9, <3>1, <3>2, <3>3, CellsMore
  <2>11. Awaited(stack, y) = Awaited(stack, e) \cup CellsOf(Top)
    <3>1. SameCalls(stack, stack, e)
      BY SameStack
    <3> HIDE DEF e
    <3>2. Awaited(stack, y) = Awaited(stack, e) \cup OpenCells(CallOf(stack, y))
      BY <2>3, <3>1, AwaitedMore
    <3> QED
      BY <2>4, <2>7, <3>2
  <2>12. Placed(da, stack, Expanded)' = P
    <3>1. Placed(da, stack, Expanded)' = (Taken(da) \cup CellsOf(Top)) \ (Awaited(stack, e) \cup CellsOf(Top))
      BY <2>1, <2>3, <2>11 DEF Placed
    <3>2. P = Taken(da) \ Awaited(stack, e)
      BY DEF Placed
    <3> QED
      BY <2>1, <3>1, <3>2
  <2>13. BasesOk(stack, y, da', P, used')
    <3>1. SameCalls(stack, stack, e) /\ used \subseteq used'
      BY <2>1, SameStack
    <3>2. \A i \in P : da'[i] = da[i]
      BY <2>1 DEF Placed
    <3> HIDE DEF e, P, y
    <3>3. y = e + 1
      BY DEF y
    <3> QED
      BY <2>1, <2>3, <2>4, <2>9, <3>1, <3>2, <3>3, BasesMore
  <2>14. CellsInv' /\ BasesInv'
    <3> HIDE DEF P, y, e
    <3> QED
      BY <2>1, <2>3, <2>10, <2>12, <2>13, NotBuilt DEF CellsInv, BasesInv
  <2>15. Leaves' = Leaves
    <3>1. ~ (Top.child > Len(Top.children)) /\ Top.child <= Len(Top.children)
      BY <2>5, <2>6
    <3>2. Top.children[Top.child].first = Top.first
      BY <2>5 DEF Listed, ChildrenFit
    <3> QED
      BY <2>1, <3>1, <3>2 DEF Leaves, Reached, Top
  <2>16. CountInv'
    BY <2>1, <2>2, <2>12, <2>15, CountKept DEF LayoutInv
  <2> QED
    BY <2>14, <2>16 DEF LayoutInv
<1> QED
  BY <1>1, <1>2

(* An element set by a call that returns stays taken. *)
Filled(x, d, cell, v) ==
  /\ x = [d EXCEPT ![cell] = v]
  /\ DaOk(d) /\ cell \in Taken(d) /\ v \in [base : Int, check : Int] /\ v.base # 0

(* What such an assignment leaves alone. *)
LEMMA DaFilled ==
  ASSUME NEW x, NEW d, NEW cell, NEW v, Filled(x, d, cell, v)
  PROVE  /\ DaOk(x) /\ Size(x) = Size(d) /\ Taken(x) = Taken(d)
         /\ x[cell] = v /\ \A i \in DOMAIN d : i # cell => x[i] = d[i]
<1> DEFINE E == [base : Int, check : Int]
           n == Size(d)
<1>0. /\ x = [d EXCEPT ![cell] = v]
      /\ DaOk(d) /\ cell \in Taken(d) /\ v \in E /\ v.base # 0
  BY DEF Filled
<1>1. n \in Nat /\ n >= 2 /\ d \in [0 .. n - 1 -> E] /\ d[0].base = 0
  BY <1>0 DEF DaOk
<1>2. cell \in DOMAIN d /\ cell # 0
  BY <1>0, <1>1 DEF Taken
<1>3. DOMAIN x = DOMAIN d /\ x[cell] = v /\ \A i \in DOMAIN d : i # cell => x[i] = d[i]
  BY <1>0, <1>2
<1>4. Size(x) = n
  BY <1>3 DEF Size
<1>5. Taken(x) = Taken(d)
  <2>1. \A i \in DOMAIN d : x[i].base # 0 <=> d[i].base # 0
    BY <1>0, <1>2, <1>3 DEF Taken
  <2> QED
    BY <1>3, <2>1 DEF Taken
<1>6. x \in [0 .. n - 1 -> E]
  <2> HIDE DEF E, n
  <2> QED
    BY <1>0, <1>1
<1>7. x[0].base = 0
  <2>1. 0 \in DOMAIN d
    BY <1>1
  <2> QED
    BY <1>1, <1>2, <1>3, <2>1
<1>8. DaOk(x)
  BY <1>1, <1>4, <1>6, <1>7 DEF DaOk
<1> QED
  BY <1>3, <1>4, <1>5, <1>8

(* What arrange() returns is a base or the place of a leaf. *)
LEMMA Returns ==
  ASSUME CallsInv, LayoutInv, pc = "return"
  PROVE  /\ ret \in Int /\ ret # 0 /\ OpenOf(Top) = {}
         /\ ret < 0 \/ (Top.children # <<>> /\ ret = Top.base /\ ret >= 1)
<1>1. Working
  BY DEF Working
<1>2. Top \in FrameType /\ Top = CallOf(stack, Depth) /\ Depth \in Nat \ {0} /\ ret \in Int
  BY <1>1, TopCall DEF Call, CallsInv
<1>3. Returning(recs, table, Top, ret)
  BY <1>1 DEF CallsInv, InnerCall
<1>4. CASE Top.first + 1 = Top.last /\ Top.children = <<>> /\ ret < 0
  <2>1. Len(Top.children) = 0
    BY <1>4
  <2>2. OpenOf(Top) = {}
    BY <2>1 DEF OpenOf
  <2> QED
    BY <1>2, <1>4, <2>2
<1>5. CASE Listed(recs, table, Top) /\ Top.child = Len(Top.children) + 1 /\ ret = Top.base
  <2>1. Len(Top.children) \in Nat \ {0} /\ Top.children # <<>>
    BY <1>5, ListedChild
  <2>2. OpenOf(Top) = {}
    BY <1>5, <2>1 DEF OpenOf
  <2>3. Expanded = Depth /\ Depth \in 1 .. Depth
    BY <1>2 DEF Expanded, Depth
  <2>4. CellsOk(stack, Depth, Taken(da))
    BY <1>1, <2>3 DEF LayoutInv, CellsInv
  <2>5. Top.base >= 1
    BY <1>2, <2>1, <2>3, <2>4, CellsIs
  <2> QED
    BY <1>2, <1>5, <2>1, <2>2, <2>5
<1> QED
  BY <1>3, <1>4, <1>5 DEF Returning

(* The caller sets BASE and CHECK of the child, which is placed thereby. *)
LEMMA ReturnsToParent ==
  ASSUME CallsInv, ListInv, LayoutInv, ReturnToParent
  PROVE  ListInv' /\ LayoutInv'
<1> DEFINE e == Depth - 1
           f == stack[2]
           g == [f EXCEPT !.child = @ + 1]
           offset == f.children[f.child].offset
           cell == f.base + offset
           T == Taken(da)
           P == Placed(da, stack, Expanded)
<1>1. /\ pc = "return" /\ pc' = "children" /\ Len(stack) > 1
      /\ da' = [da EXCEPT ![cell] = Element(ret, offset)]
      /\ UNCHANGED <<elink, used, stat, ret, recs, table>>
  BY DEF ReturnToParent
<1>2. Working /\ Working'
  BY <1>1 DEF Working
<1>3. Depth \in Nat \ {0} /\ Top = CallOf(stack, Depth) /\ Top \in FrameType
      /\ \A d \in 1 .. Depth : CallOf(stack, d) \in FrameType
  BY <1>2, TopCall DEF Call
<1>4. e \in Nat /\ e >= 1 /\ e + 1 = Depth /\ e \in 1 .. Depth /\ Len(stack) = e + 1
      /\ Len(stack) - 1 = e /\ Len(stack) - 2 = e - 1
  BY <1>1, <1>3 DEF Depth
<1>5. Expanded = e + 1
  BY <1>1, <1>4 DEF Expanded
<1>6. /\ f = CallOf(stack, e) /\ f \in FrameType /\ Calls(recs, table, f, Top)
  BY <1>1, <1>2, CallerIs DEF Call
<1>7. OneLess(FrameType, stack', stack, g)
  BY CallsReturnToParent
<1> HIDE DEF e, g, f
<1>8. /\ Len(stack') = e /\ Head(stack') = g /\ CallOf(stack', e) = g
      /\ SameCalls(stack', stack, e - 1)
  BY <1>4, <1>7 DEF OneLess, SameCalls
<1>9. Expanded' = e
  BY <1>1, <1>8 DEF Expanded, Depth
<1>10. /\ g.child = f.child + 1 /\ g.children = f.children /\ g.base = f.base
       /\ g.last = f.last
  BY <1>6 DEF g, FrameType
<1>11. /\ Listed(recs, table, f) /\ f.child \in 1 .. Len(f.children)
       /\ Top.last = f.children[f.child].last
  BY <1>6 DEF Calls
<1>12. Len(f.children) \in Nat /\ offset \in Nat \ {0}
  BY <1>11, ListedChild
<1>13. f.base \in Nat
  BY <1>6 DEF FrameType
<1>14. ret \in Int /\ ret # 0 /\ OpenOf(Top) = {}
       /\ (ret < 0 \/ (Top.children # <<>> /\ ret = Top.base /\ ret >= 1))
  BY <1>1, Returns
<1>15. CellsOk(stack, e + 1, T) /\ BasesOk(stack, e + 1, da, P, used)
  BY <1>2, <1>5 DEF LayoutInv, CellsInv, BasesInv
<1>16. f.base >= 1
  <2>1. f.child \in OpenOf(f)
    BY <1>10, <1>11, <1>12, OpenAfter
  <2>2. e \in 1 .. e + 1
    BY <1>4
  <2> QED
    BY <1>6, <1>15, <2>1, <2>2, CellsIs
<1>17. cell # INITIAL_INDEX /\ cell = CellOf(f, f.child)
  <2>1. cell # 1
    <3> DEFINE o == offset
    <3>1. o \in Nat \ {0}
      BY <1>12
    <3> HIDE DEF offset, o
    <3>2. f.base + o # 1
      BY <1>13, <1>16, <3>1
    <3> QED
      BY <3>2 DEF o
  <2> QED
    BY <2>1 DEF INITIAL_INDEX, CellOf
<1> HIDE DEF cell, offset
<1>18. /\ cell \in Awaited(stack, e + 1) /\ cell \in T
       /\ Awaited(stack', e) = Awaited(stack, e + 1) \ {cell}
       /\ CellsOk(stack', e, T)
  <2>1. OpenOf(CallOf(stack, e + 1)) = {}
    BY <1>3, <1>4, <1>14
  <2> HIDE DEF T
  <2> QED
    <3>1. Returned(stack, stack', e, T, f, g, cell)
      BY <1>4, <1>6, <1>8, <1>10, <1>11, <1>12, <1>15, <1>17, <2>1 DEF Returned
    <3> QED
      BY <3>1, AwaitedLess
<1> DEFINE v == Element(ret, offset)
<1>19. v \in [base : Int, check : Int] /\ v.base = ret
  BY <1>12, <1>14 DEF Element
<1>20. DaOk(da)
  BY <1>1, ListIs
<1>21. /\ DaOk(da') /\ Size(da') = Size(da) /\ Taken(da') = Taken(da)
       /\ da'[cell] = v /\ \A i \in DOMAIN da : i # cell => da'[i] = da[i]
  <2> HIDE DEF v
  <2>1. da' = [da EXCEPT ![cell] = v]
    BY <1>1 DEF v
  <2> QED
    <3>1. Filled(da', da, cell, v)
      BY <1>14, <1>18, <1>19, <1>20, <2>1 DEF Filled
    <3> QED
      BY <3>1, DaFilled
<1>22. ListInv'
  BY <1>1, <1>21, ListFilled
<1>23. P = T \ Awaited(stack, e + 1) /\ cell \notin P
  BY <1>5, <1>18 DEF Placed
<1>24. Placed(da, stack, Expanded)' = P \cup {cell}
  BY <1>9, <1>18, <1>21, <1>23 DEF Placed
<1>25. BasesOk(stack', e, da', P \cup {cell}, used)
  <2>1. \A c \in 1 .. e : /\ CallOf(stack', c).base = CallOf(stack, c).base
                          /\ CallOf(stack', c).children = CallOf(stack, c).children
                          /\ CallOf(stack, c).children # <<>> => CallOf(stack, c).base >= 1
    <3>1. \A c \in 1 .. e : (c \in 1 .. e - 1 \/ c = e) /\ c \in 1 .. e + 1
      BY <1>4
    <3>2. \A c \in 1 .. e - 1 : CallOf(stack', c) = CallOf(stack, c)
      BY <1>8 DEF SameCalls
    <3>3. \A c \in 1 .. e : CallOf(stack, c).children # <<>> => CallOf(stack, c).base >= 1
      BY <1>15, <3>1, CellsIs
    <3> QED
      BY <1>6, <1>8, <1>10, <3>1, <3>2, <3>3
  <2>2. \A i \in P : da'[i] = da[i]
    BY <1>21, <1>23 DEF Taken
  <2>3. da'[cell].base = ret
    BY <1>19, <1>21
  <2>4. ret < 0 \/ (CallOf(stack, e + 1).children # <<>> /\ ret = CallOf(stack, e + 1).base)
    BY <1>3, <1>4, <1>14
  <2>5. \A c \in 1 .. e : CallOf(stack, c).base \in Nat
    <3>1. \A c \in 1 .. e : c \in 1 .. Depth
      BY <1>4
    <3> QED
      BY <1>3, <3>1 DEF FrameType
  <2> HIDE DEF P
  <2>6. BaseGiven(stack, stack', e, da, da', P, used, cell, ret)
    BY <1>4, <1>14, <1>15, <1>23, <2>1, <2>2, <2>3, <2>4, <2>5 DEF BaseGiven
  <2> QED
    BY <2>6, BasesLess
<1>26. CellsInv' /\ BasesInv'
  <2>1. pc' # "built"
    BY <1>1
  <2> HIDE DEF P
  <2> QED
    BY <1>1, <1>9, <1>18, <1>21, <1>24, <1>25, <2>1, NotBuilt DEF CellsInv, BasesInv
<1>27. Leaves' = Leaves
  <2>1. Top' = g
    BY <1>8 DEF Top
  <2>2. /\ f.children[Len(f.children)].last = f.last
        /\ \A n \in 1 .. Len(f.children) - 1 : f.children[n].last = f.children[n + 1].first
    BY <1>11 DEF Listed, ChildrenFit
  <2>3. Leaves = Top.last - 1
    BY <1>1 DEF Leaves
  <2>4. CASE f.child = Len(f.children)
    <3>1. g.child > Len(g.children)
      BY <1>10, <1>12, <2>4
    <3>2. Leaves' = g.last - 1
      BY <1>1, <2>1, <3>1 DEF Leaves
    <3> QED
      BY <1>10, <1>11, <2>2, <2>3, <2>4, <3>2
  <2>5. CASE f.child # Len(f.children)
    <3>1. f.child \in 1 .. Len(f.children) - 1 /\ g.child <= Len(g.children) /\ ~ (g.child > Len(g.children))
      BY <1>10, <1>11, <1>12, <2>5
    <3>2. Leaves' = g.children[g.child].first - 1
      BY <1>1, <2>1, <3>1 DEF Leaves, Reached
    <3> QED
      BY <1>10, <1>11, <2>2, <2>3, <3>1, <3>2
  <2> QED
    BY <2>4, <2>5
<1>28. CountInv'
  <2>1. IsFiniteSet(P)
    <3>1. T \subseteq 1 .. Size(da) - 1 /\ Size(da) \in Nat
      BY <1>1, ListIs
    <3>2. IsFiniteSet(1 .. Size(da) - 1)
      BY <3>1, FS_Interval
    <3>3. P \subseteq 1 .. Size(da) - 1
      BY <1>23, <3>1
    <3> QED
      BY <3>2, <3>3, FS_Subset
  <2>2. Cardinality(P \cup {cell}) = Cardinality(P) + 1
    <3> HIDE DEF P
    <3> QED
      BY <1>23, <2>1, FS_AddElement
  <2> DEFINE c == Cardinality(P)
  <2>3. /\ stat \in [nodes : Nat, leaves : Nat, used : Nat]
        /\ stat.nodes \in Nat /\ stat.leaves \in Nat
        /\ c = stat.nodes + stat.leaves - 1 /\ stat.leaves = Leaves
    BY <1>1, <1>2, CountIs DEF LayoutInv
  <2>4. Cardinality(Placed(da, stack, Expanded)') = stat.nodes + stat.leaves - 0
    <3>1. Cardinality(Placed(da, stack, Expanded)') = c + 1
      BY <1>24, <2>2
    <3> HIDE DEF c
    <3> QED
      BY <2>3, <3>1
  <2> HIDE DEF P
  <2> QED
    BY <1>1, <1>27, <2>3, <2>4, NotBuilt DEF CountInv
<1> QED
  BY <1>22, <1>26, <1>28 DEF LayoutInv

(* In the end the root gets its base, and every element has an owner. *)
LEMMA ReturnsToBuild ==
  ASSUME CallsInv, ListInv, LayoutInv, ReturnToBuild
  PROVE  ListInv' /\ LayoutInv'
<1> DEFINE T == Taken(da)
           P == Placed(da, stack, Expanded)
           v == [da[1] EXCEPT !.base = ret]
<1>1. /\ pc = "return" /\ pc' = "built" /\ Len(stack) = 1 /\ stack' = <<>>
      /\ da' = [da EXCEPT ![1].base = ret]
      /\ stat' = [stat EXCEPT !.used = Cardinality({i \in DOMAIN da : InUse(da', i)})]
      /\ UNCHANGED <<elink, recs, used>>
  BY DEF ReturnToBuild, INITIAL_INDEX
<1>2. Working /\ ~ Working'
  BY <1>1 DEF Working
<1>3. /\ Top = CallOf(stack, 1) /\ Top \in FrameType /\ Expanded = 1 /\ Depth = 1
      /\ StackOk(recs, table, stack)
  BY <1>1, <1>2, TopCall DEF Call, Expanded, Depth
<1>4. ret \in Int /\ ret # 0 /\ OpenOf(Top) = {}
      /\ (ret < 0 \/ (Top.children # <<>> /\ ret = Top.base /\ ret >= 1))
  BY <1>1, Returns
<1>5. CellsOk(stack, 1, T) /\ BasesOk(stack, 1, da, P, used)
  BY <1>2, <1>3 DEF LayoutInv, CellsInv, BasesInv
<1>6. 1 \in T
  BY <1>5, CellsIs DEF INITIAL_INDEX
<1>7. Awaited(stack, 1) = {1}
  <2>1. OpenCells(Top) = {}
    BY <1>4 DEF OpenCells
  <2>2. \A d \in 1 .. 1 : d = 1
    OBVIOUS
  <2>3. \A i : i \in Awaited(stack, 1) <=> i = 1
    BY <1>3, <2>1, <2>2, AwaitedIs DEF INITIAL_INDEX
  <2> QED
    BY <2>3
<1>8. P = T \ {1}
  BY <1>3, <1>7 DEF Placed
<1>9. DaOk(da) /\ T \subseteq DOMAIN da /\ Size(da) \in Nat
      /\ T \subseteq 1 .. Size(da) - 1
      /\ \A i \in DOMAIN da : da[i] \in [base : Int, check : Int]
  BY <1>1, ListIs DEF Taken
<1>10. v \in [base : Int, check : Int] /\ v.base = ret
  <2>1. da[1] \in [base : Int, check : Int]
    BY <1>6, <1>9
  <2> QED
    BY <1>4, <2>1
<1>11. /\ DaOk(da') /\ Size(da') = Size(da) /\ Taken(da') = T
       /\ da'[1] = v /\ \A i \in DOMAIN da : i # 1 => da'[i] = da[i]
  <2> HIDE DEF v
  <2>1. da' = [da EXCEPT ![1] = v]
    BY <1>1, <1>6, <1>9 DEF v
  <2> QED
    <3>1. Filled(da', da, 1, v)
      BY <1>4, <1>6, <1>9, <1>10, <2>1 DEF Filled
    <3> QED
      BY <3>1, DaFilled
<1>12. ListInv'
  BY <1>1, <1>11, ListFilled
<1>13. \A i \in P : da'[i] = da[i] /\ i # 1 /\ i \in T
  BY <1>8, <1>9, <1>11
<1>14. BasesDistinct'
  <2>1. SUFFICES ASSUME NEW i \in DOMAIN da', NEW j \in DOMAIN da', da'[i].base > 0, da'[i].base = da'[j].base
                 PROVE  i = j
    BY DEF BasesDistinct
  <2>2. i \in T /\ j \in T
    <3>1. da'[i].base # 0 /\ da'[j].base # 0
      BY <2>1
    <3> QED
      BY <1>11, <3>1 DEF Taken
  <2>3. ret > 0 => \A k \in P : da[k].base # ret
    <3>1. 1 \in 1 .. 1
      OBVIOUS
    <3>2. ret > 0 => Top.children # <<>> /\ ret = Top.base
      BY <1>4
    <3> QED
      BY <1>3, <1>5, <3>1, <3>2, BasesIs
  <2>4. da'[1].base = ret
    BY <1>10, <1>11
  <2>5. CASE i = 1 \/ j = 1
    <3>1. ret > 0 /\ da'[i].base = ret /\ da'[j].base = ret
      BY <2>1, <2>4, <2>5
    <3>2. \A k \in P : da'[k].base # ret
      BY <1>13, <2>3, <3>1
    <3>3. i \notin P /\ j \notin P
      BY <3>1, <3>2
    <3> QED
      BY <1>8, <2>2, <3>3
  <2>6. CASE i # 1 /\ j # 1
    <3>1. i \in P /\ j \in P
      BY <1>8, <2>2, <2>6
    <3>2. da'[i] = da[i] /\ da'[j] = da[j]
      BY <1>13, <3>1
    <3> QED
      BY <1>5, <2>1, <3>1, <3>2, BasesIs
  <2> QED
    BY <2>5, <2>6
<1>15. stat'.used = Cardinality(T) /\ stat'.nodes = stat.nodes /\ stat'.leaves = stat.leaves
       /\ (Cardinality(T) \in Nat => stat' \in [nodes : Nat, leaves : Nat, used : Nat])
       /\ stat.nodes \in Nat /\ stat.leaves \in Nat
       /\ Cardinality(P) = stat.nodes + stat.leaves - 1 /\ stat.leaves = Leaves
  <2>1. /\ stat \in [nodes : Nat, leaves : Nat, used : Nat]
        /\ stat.nodes \in Nat /\ stat.leaves \in Nat
        /\ Cardinality(P) = stat.nodes + stat.leaves - 1 /\ stat.leaves = Leaves
    BY <1>1, <1>2, CountIs DEF LayoutInv
  <2>2. {i \in DOMAIN da : InUse(da', i)} = T
    <3>1. DOMAIN da' = DOMAIN da
      BY <1>1
    <3> QED
      BY <1>9, <1>11, <3>1 DEF InUse, Taken
  <2> DEFINE c == Cardinality(T)
  <2>3. stat' = [stat EXCEPT !.used = c]
    BY <1>1, <2>2
  <2> HIDE DEF c
  <2>4. stat'.used = c /\ stat'.nodes = stat.nodes /\ stat'.leaves = stat.leaves
        /\ (c \in Nat => stat' \in [nodes : Nat, leaves : Nat, used : Nat])
    BY <2>1, <2>3
  <2> QED
    BY <2>1, <2>4 DEF c
<1>16. Cardinality(T) \in Nat /\ Cardinality(P) = Cardinality(T) - 1
  <2>1. IsFiniteSet(1 .. Size(da) - 1)
    BY <1>9, FS_Interval
  <2>2. IsFiniteSet(T)
    BY <1>9, <2>1, FS_Subset
  <2> HIDE DEF T, P
  <2> QED
    BY <1>6, <1>8, <2>2, FS_CardinalityType, FS_RemoveElement
<1>17. Leaves = Len(recs)
  <2>1. Leaves = Top.last - 1
    BY <1>1 DEF Leaves
  <2>2. Top.last = Len(recs) + 1
    BY <1>3 DEF StackOk
  <2>3. Len(recs) \in Nat
    BY <1>2, TopCall DEF RecordsTyped
  <2> QED
    BY <2>1, <2>2, <2>3
<1>18. ElementsAddUp'
  <2> DEFINE c == Cardinality(T)
             p == Cardinality(P)
  <2>1. stat'.used = c /\ c \in Nat /\ p = c - 1 /\ p = stat.nodes + stat.leaves - 1
    BY <1>15, <1>16
  <2> HIDE DEF c, p
  <2>2. stat'.used = stat.nodes + stat.leaves
    BY <1>15, <2>1
  <2> QED
    BY <1>1, <1>15, <1>17, <2>2 DEF ElementsAddUp
<1>19. LayoutInv'
  BY <1>2, <1>14, <1>15, <1>16, <1>18 DEF LayoutInv, CellsInv, BasesInv, CountInv
<1> QED
  BY <1>12, <1>19

(* At first there is nothing to count. *)
LEMMA LayoutInit == BuilderInit => LayoutInv
BY DEF BuilderInit, LayoutInv, CellsInv, BasesInv, CountInv, Working, BasesDistinct, ElementsAddUp

(* build() starts with the root awaited and nothing placed. *)
LEMMA LayoutBuild ==
  ASSUME Build
  PROVE  LayoutInv'
<1>1. PICK given \in Inputs :
        /\ recs' = given /\ stack' = <<Frame(0, 1, Len(given) + 1)>>
        /\ pc' = "arrange" /\ stat' = [nodes |-> 0, leaves |-> 0, used |-> 0]
  BY DEF Build
<1>2. Taken(da') = {1}
  BY ListBuild DEF INITIAL_INDEX
<1>3. Expanded' = 0
  BY <1>1 DEF Expanded, Depth
<1>4. \A d \in 1 .. 0 : FALSE
  OBVIOUS
<1>5. CellsOk(stack', 0, Taken(da'))
  BY <1>2, <1>4 DEF CellsOk, INITIAL_INDEX
<1>6. Awaited(stack', 0) = {1}
  <2>1. \A i : i \in Awaited(stack', 0) <=> i = 1
    BY <1>4, AwaitedIs DEF INITIAL_INDEX
  <2> QED
    BY <2>1
<1>7. Placed(da', stack', Expanded') = {}
  BY <1>2, <1>3, <1>6 DEF Placed
<1>8. BasesOk(stack', 0, da', {}, used')
  BY <1>4 DEF BasesOk
<1>9. Leaves' = 0
  <2>1. Top' = Frame(0, 1, Len(given) + 1)
    BY <1>1 DEF Top
  <2>2. Top'.first = 1
    BY <2>1 DEF Frame
  <2> QED
    BY <1>1, <2>2 DEF Leaves, Reached
<1>10. stat' \in [nodes : Nat, leaves : Nat, used : Nat] /\ stat'.nodes = 0 /\ stat'.leaves = 0
  BY <1>1
<1>11. Cardinality(Placed(da', stack', Expanded')) = stat'.nodes + stat'.leaves - 0
  BY <1>7, <1>10, FS_EmptySet
<1>12. pc' # "built" /\ pc' # "return"
  BY <1>1
<1>13. CountInv'
  BY <1>9, <1>10, <1>11, <1>12, NotBuilt DEF CountInv
<1> QED
  BY <1>3, <1>5, <1>7, <1>8, <1>12, <1>13, NotBuilt DEF LayoutInv, CellsInv, BasesInv

-----------------------------------------------------------------------------
(* The inductive invariant of the builder. *)
BuilderInv == CallsInv /\ OrderInv /\ ListInv /\ LayoutInv

(* The list of vacant elements, as a run checks it. *)
LEMMA VacantListIsSound ==
  ASSUME ListInv
  PROVE  VacantListSound
<1> DEFINE vacant == {i \in DOMAIN elink \ {0} : ~ InUse(da, i)}
           above(i) == {j \in vacant : j > i}
           n == Size(elink)
<1>1. SUFFICES ASSUME pc # "idle"
               PROVE  /\ n - 1 \in vacant /\ elink[0].prev = n - 1
                      /\ \A i \in (vacant \cup {0}) \ {n - 1} :
                           /\ elink[i].next \in above(i)
                           /\ \A j \in above(i) : elink[i].next <= j
                           /\ elink[elink[i].next].prev = i
  <2>1. pc = "idle" => elink = <<>>
    BY DEF ListInv
  <2> QED
    BY <2>1 DEF VacantListSound
<1>2. /\ Linked(elink, n, Vacant(da, elink)) /\ n \in Nat
      /\ Vacant(da, elink) \subseteq 1 .. n - 1 /\ n - 1 \in Vacant(da, elink)
  BY <1>1, ListIs
<1>3. vacant = Vacant(da, elink)
  BY DEF Vacant, InUse, Taken
<1>4. /\ elink[0].prev = n - 1
      /\ \A i \in (Vacant(da, elink) \cup {0}) \ {n - 1} :
            /\ elink[i].next \in Vacant(da, elink) /\ i < elink[i].next
            /\ \A j \in Vacant(da, elink) : i < j => elink[i].next <= j
            /\ elink[elink[i].next].prev = i
  BY <1>2 DEF Linked
<1> DEFINE V == Vacant(da, elink)
<1>5. vacant = V /\ V \subseteq Int
  BY <1>2, <1>3
<1> HIDE DEF vacant, V
<1>6. \A i \in V \cup {0} : \A j \in V : i < j <=> j > i
  BY <1>5
<1> QED
  BY <1>2, <1>4, <1>5, <1>6 DEF V

(* Every step of the builder keeps the invariant: build() and each part of *)
(* the recursive arrange(), for any inputs and any size of the alphabet.   *)
THEOREM BuilderInductive ==
  /\ BuilderInit => BuilderInv
  /\ BuilderInv /\ [BuilderNext]_buildervars => BuilderInv'
<1>1. BuilderInit => BuilderInv
  BY CallsInit, OrderInit, ListInit, LayoutInit DEF BuilderInv
<1>2. ASSUME BuilderInv, [BuilderNext]_buildervars
      PROVE  BuilderInv'
  <2>0. CallsInv /\ OrderInv /\ ListInv /\ LayoutInv
    BY <1>2 DEF BuilderInv
  <2>1. CASE Build
    BY <2>0, <2>1, CallsBuild, OrderBuild, ListBuild, LayoutBuild DEF BuilderInv
  <2>2. CASE ArrangeLeaf
    <3>1. pc # "idle" /\ UNCHANGED <<da, elink>> /\ pc' \in {"return", "thrown"}
      BY <2>2 DEF ArrangeLeaf, Throw
    <3> QED
      BY <2>0, <2>2, <3>1, CallsArrangeLeaf, OrderArrangeLeaf, ListSame, LayoutArrangeLeaf DEF BuilderInv
  <2>3. CASE ArrangeNode
    BY <2>0, <2>3, CallsArrangeNode, OrderArrangeNode, ListArrangeNode, LayoutArrangeNode DEF BuilderInv
  <2>4. CASE SearchOn
    BY <2>0, <2>4, CallsSearchOn, OrderSearchOn, ListSearchOn, LayoutSearchOn DEF BuilderInv
  <2>5. CASE SearchTry
    <3>1. VlistNext(elink, index) \in Int
      BY <2>0, <2>5, SearchTrySteps, NextVacant
    <3> QED
      BY <2>0, <2>5, <3>1, CallsSearchTry, OrderSearchTry, ListSearchTry, LayoutSearchTry DEF BuilderInv
  <2>6. CASE Reserve
    BY <2>0, <2>6, CallsReserve, OrderReserve, ListReserve, LayoutReserve DEF BuilderInv
  <2>7. CASE EnterChild
    <3>1. pc # "idle" /\ UNCHANGED <<da, elink>> /\ pc' \in {"arrange", "thrown"}
      BY <2>7 DEF EnterChild, Throw
    <3> QED
      BY <2>0, <2>7, <3>1, CallsEnterChild, OrderEnterChild, ListSame, LayoutEnterChild DEF BuilderInv
  <2>8. CASE LeaveNode
    <3>1. pc # "idle" /\ UNCHANGED <<da, elink>> /\ pc' = "return"
      BY <2>8 DEF LeaveNode
    <3> QED
      BY <2>0, <2>8, <3>1, CallsLeaveNode, OrderLeaveNode, ListSame, LayoutLeaveNode DEF BuilderInv
  <2>9. CASE ReturnToParent
    BY <2>0, <2>9, CallsReturnToParent, OrderReturnToParent, ReturnsToParent DEF BuilderInv
  <2>10. CASE ReturnToBuild
    BY <2>0, <2>10, CallsReturnToBuild, OrderReturnToBuild, ReturnsToBuild DEF BuilderInv
  <2>11. CASE UNCHANGED buildervars
    <3>1. /\ UNCHANGED <<pc, builds, recs, table, da, elink, used, tail>>
          /\ UNCHANGED <<stack, index, ret, stat>>
      BY <2>11 DEF buildervars
    <3>2. CallsInv'
      BY <2>0, <3>1 DEF CallsInv, Working, InnerCall, Top
    <3>3. OrderInv'
      BY <2>0, <3>1 DEF OrderInv, Working, Reached, Top, OnlySortedBuilt, SortedRefusedForSpace
    <3>4. ListInv'
      BY <2>0, <3>1 DEF ListInv, Top
    <3>5. LayoutInv'
      BY <2>0, <3>1 DEF LayoutInv, CellsInv, BasesInv, CountInv, Working, Expanded, Depth,
                        Leaves, Reached, Top, BasesDistinct, ElementsAddUp
    <3> QED
      BY <3>2, <3>3, <3>4, <3>5 DEF BuilderInv
  <2> QED
    BY <1>2, <2>1, <2>2, <2>3, <2>4, <2>5, <2>6, <2>7, <2>8, <2>9, <2>10, <2>11
       DEF BuilderNext, BuilderStep
<1> QED
  BY <1>1, <1>2

(* arrange() and the list of vacant elements that it reserves from: the    *)
(* list leads through the vacant elements of the double array and no       *)
(* others, no two nodes are given one base, and in a trie that is built    *)
(* every element in use is the root, a node or a leaf.                     *)
THEOREM LayoutIsSound == BuilderSpec => []LayoutSound
<1>1. BuilderInv => LayoutSound
  BY VacantListIsSound DEF BuilderInv, LayoutInv, BasesInv, CountInv, LayoutSound
<1> QED
  BY <1>1, BuilderInductive, PTL DEF BuilderSpec

(* build() throws for records that are not sorted, and only for those or   *)
(* for want of space: whatever it builds had its records in order.         *)
THEOREM RefusalsAreRight == BuilderSpec => []RefusesRightly
<1>1. BuilderInv => RefusesRightly
  BY DEF BuilderInv, OrderInv, RefusesRightly
<1> QED
  BY <1>1, BuilderInductive, PTL DEF BuilderSpec

-----------------------------------------------------------------------------

(***************************************************************************)
(* The index file.                                                         *)
(***************************************************************************)

(* The words of a chunk. *)
IsChunk(c, id, data, S) ==
  /\ c \in Seq(S) /\ Len(data) \in Nat /\ Len(c) = 2 + Len(data)
  /\ c[1] = id /\ c[2] = 2 + Len(data)
  /\ \A i \in 1 .. Len(data) : c[2 + i] = data[i]

(* What write_chunk puts to the file: a name, a size and the data. *)
LEMMA ChunkIs ==
  ASSUME NEW S, Int \subseteq S, NEW id \in S, NEW data \in Seq(S)
  PROVE  IsChunk(File!Chunk(id, data), id, data, S)
<1> DEFINE head == <<id, 2 + Len(data)>>
<1>1. Len(data) \in Nat
  OBVIOUS
<1>2. head \in Seq(S) /\ Len(head) = 2 /\ head[1] = id /\ head[2] = 2 + Len(data)
  <2>1. 2 + Len(data) \in S
    BY <1>1
  <2> QED
    BY <2>1
<1>3. File!Chunk(id, data) = head \o data
  BY DEF File!Chunk, File!CHUNKSIZE
<1> HIDE DEF head
<1>4. /\ head \o data \in Seq(S) /\ Len(head \o data) = 2 + Len(data)
      /\ \A i \in 1 .. 2 + Len(data) : (head \o data)[i] = IF i <= 2 THEN head[i] ELSE data[i - 2]
  <2>1. data \in Seq(S)
    OBVIOUS
  <2>2. /\ head \o data \in Seq(S) /\ Len(head \o data) = Len(head) + Len(data)
        /\ \A i \in 1 .. Len(head) + Len(data) :
              (head \o data)[i] = IF i <= Len(head) THEN head[i] ELSE data[i - Len(head)]
    BY <1>2, <2>1, ConcatProperties
  <2> QED
    BY <1>2, <2>2
<1>5. 1 \in 1 .. 2 + Len(data) /\ 2 \in 1 .. 2 + Len(data) /\ 1 <= 2 /\ 2 <= 2
  BY <1>1
<1>6. \A i \in 1 .. Len(data) : 2 + i \in 1 .. 2 + Len(data) /\ ~ (2 + i <= 2) /\ (2 + i) - 2 = i
  BY <1>1
<1> QED
  BY <1>1, <1>2, <1>3, <1>4, <1>5, <1>6 DEF IsChunk

(* Arrays that are written to a file. *)
Arrays(t, S) ==
  /\ Int \subseteq S /\ t.n \in S
  /\ t.table \in Seq(S) /\ t.da \in Seq(S) /\ t.tail \in Seq(S)
  /\ Len(t.table) = NumChars

(* The words of an image I: a chunk for each array, one behind the other.  *)
Holds(I, t, d, l) ==
  /\ Len(I) = NumChars + d + l + 10
  /\ I[1] = File!SDAT /\ I[2] = Len(I) /\ I[3] = 4
  /\ I[5] = File!TBLU /\ I[6] = 2 + NumChars
  /\ \A i \in 1 .. NumChars : I[6 + i] = t.table[i]
  /\ I[7 + NumChars] = File!SDA5 /\ I[8 + NumChars] = 2 + d
  /\ \A i \in 1 .. d : I[8 + NumChars + i] = t.da[i]
  /\ I[9 + NumChars + d] = File!TAIL /\ I[10 + NumChars + d] = 2 + l
  /\ \A i \in 1 .. l : I[10 + NumChars + d + i] = t.tail[i]

(* What builder::write puts to the file, word by word. *)
LEMMA ImageIs ==
  ASSUME NEW t, NEW S, Arrays(t, S)
  PROVE  /\ File!Image(t) \in Seq(S) /\ Len(t.da) \in Nat /\ Len(t.tail) \in Nat
         /\ Holds(File!Image(t), t, Len(t.da), Len(t.tail))
<1> DEFINE A == File!Chunk(File!TBLU, t.table)
           B == File!Chunk(File!SDA5, t.da)
           C == File!Chunk(File!TAIL, t.tail)
           R == A \o B \o C
           head == <<File!SDAT, 4 + Len(R), 4, t.n>>
           I == File!Image(t)
           M == NumChars
           d == Len(t.da)
           l == Len(t.tail)
<1>1. /\ Int \subseteq S /\ t.n \in S /\ t.table \in Seq(S) /\ t.da \in Seq(S) /\ t.tail \in Seq(S)
      /\ Len(t.table) = M /\ File!TBLU \in S /\ File!SDA5 \in S /\ File!TAIL \in S /\ File!SDAT \in S
  BY DEF Arrays, File!TBLU, File!SDA5, File!TAIL, File!SDAT
<1>2. /\ A \in Seq(S) /\ M \in Nat /\ Len(A) = 2 + M /\ A[1] = File!TBLU /\ A[2] = 2 + M
      /\ \A i \in 1 .. M : A[2 + i] = t.table[i]
  <2>1. File!TBLU \in S /\ t.table \in Seq(S) /\ Int \subseteq S
    BY <1>1
  <2>2. IsChunk(A, File!TBLU, t.table, S)
    BY <2>1, ChunkIs
  <2> HIDE DEF A
  <2> QED
    BY <1>1, <2>2 DEF IsChunk
<1>3. /\ B \in Seq(S) /\ d \in Nat /\ Len(B) = 2 + d /\ B[1] = File!SDA5 /\ B[2] = 2 + d
      /\ \A i \in 1 .. d : B[2 + i] = t.da[i]
  <2>1. File!SDA5 \in S /\ t.da \in Seq(S) /\ Int \subseteq S
    BY <1>1
  <2>2. IsChunk(B, File!SDA5, t.da, S)
    BY <2>1, ChunkIs
  <2> HIDE DEF B
  <2> QED
    BY <1>1, <2>2 DEF IsChunk
<1>4. /\ C \in Seq(S) /\ l \in Nat /\ Len(C) = 2 + l /\ C[1] = File!TAIL /\ C[2] = 2 + l
      /\ \A i \in 1 .. l : C[2 + i] = t.tail[i]
  <2>1. File!TAIL \in S /\ t.tail \in Seq(S) /\ Int \subseteq S
    BY <1>1
  <2>2. IsChunk(C, File!TAIL, t.tail, S)
    BY <2>1, ChunkIs
  <2> HIDE DEF C
  <2> QED
    BY <1>1, <2>2 DEF IsChunk
<1>5. I = head \o R
  BY DEF File!Image, File!SDAT_CHUNKSIZE
<1> HIDE DEF A, B, C, I, M, d, l
<1>17. M \in Nat /\ d \in Nat /\ l \in Nat
  BY <1>2, <1>3, <1>4
<1>6. /\ A \o B \in Seq(S) /\ Len(A \o B) = 4 + M + d
      /\ \A i \in 1 .. 2 + M : (A \o B)[i] = A[i]
      /\ \A i \in 1 .. 2 + d : (A \o B)[2 + M + i] = B[i]
  <2>1. /\ A \o B \in Seq(S) /\ Len(A \o B) = Len(A) + Len(B)
        /\ \A i \in 1 .. Len(A) + Len(B) : (A \o B)[i] = IF i <= Len(A) THEN A[i] ELSE B[i - Len(A)]
    BY <1>2, <1>3, ConcatProperties
  <2>2. (2 + M) + (2 + d) = 4 + M + d
    BY <1>2, <1>3
  <2>3. \A i \in 1 .. 2 + M : i \in 1 .. (2 + M) + (2 + d) /\ i <= 2 + M
    BY <1>2, <1>3
  <2>4. \A i \in 1 .. 2 + d : /\ 2 + M + i \in 1 .. (2 + M) + (2 + d)
                              /\ ~ (2 + M + i <= 2 + M) /\ (2 + M + i) - (2 + M) = i
    BY <1>2, <1>3
  <2> QED
    BY <1>2, <1>3, <2>1, <2>2, <2>3, <2>4
<1>7. /\ R \in Seq(S) /\ Len(R) = 6 + M + d + l
      /\ \A i \in 1 .. 4 + M + d : R[i] = (A \o B)[i]
      /\ \A i \in 1 .. 2 + l : R[4 + M + d + i] = C[i]
  <2> DEFINE X == A \o B
  <2>1. X \in Seq(S) /\ Len(X) = 4 + M + d /\ R = X \o C
    BY <1>6
  <2> HIDE DEF X, R
  <2>2. /\ X \o C \in Seq(S) /\ Len(X \o C) = Len(X) + Len(C)
        /\ \A i \in 1 .. Len(X) + Len(C) : (X \o C)[i] = IF i <= Len(X) THEN X[i] ELSE C[i - Len(X)]
    BY <1>4, <2>1, ConcatProperties
  <2>3. (4 + M + d) + (2 + l) = 6 + M + d + l
    BY <1>2, <1>3, <1>4
  <2>4. \A i \in 1 .. 4 + M + d : i \in 1 .. (4 + M + d) + (2 + l) /\ i <= 4 + M + d
    BY <1>2, <1>3, <1>4
  <2>5. \A i \in 1 .. 2 + l : /\ 4 + M + d + i \in 1 .. (4 + M + d) + (2 + l)
                              /\ ~ (4 + M + d + i <= 4 + M + d)
                              /\ (4 + M + d + i) - (4 + M + d) = i
    BY <1>2, <1>3, <1>4
  <2>6. /\ R \in Seq(S) /\ Len(R) = 6 + M + d + l
        /\ \A i \in 1 .. 4 + M + d : R[i] = X[i]
        /\ \A i \in 1 .. 2 + l : R[4 + M + d + i] = C[i]
    <3>1. /\ R \in Seq(S) /\ Len(R) = 6 + M + d + l
          /\ \A i \in 1 .. (4 + M + d) + (2 + l) : R[i] = IF i <= 4 + M + d THEN X[i] ELSE C[i - (4 + M + d)]
      BY Zenon, <1>4, <2>1, <2>2, <2>3
    <3>2. \A i \in 1 .. 4 + M + d : R[i] = X[i]
      BY <2>4, <3>1
    <3>3. ASSUME NEW i \in 1 .. 2 + l PROVE R[4 + M + d + i] = C[i]
      BY Zenon, <2>5, <3>1
    <3> QED
      BY <3>1, <3>2, <3>3
  <2> QED
    BY <2>6 DEF X
<1> HIDE DEF R
<1>8. /\ head \in Seq(S) /\ Len(head) = 4 /\ head[1] = File!SDAT /\ head[2] = 4 + Len(R)
      /\ head[3] = 4
  <2>1. Len(R) \in Nat
    BY <1>7
  <2>2. 4 + Len(R) \in S /\ 4 \in S
    BY <1>1, <2>1
  <2> QED
    BY <1>1, <2>2
<1> HIDE DEF head
<1>9. /\ I \in Seq(S) /\ Len(I) = M + d + l + 10
      /\ \A i \in 1 .. 4 : I[i] = head[i]
      /\ \A i \in 1 .. 6 + M + d + l : I[4 + i] = R[i]
  <2>1. /\ head \o R \in Seq(S) /\ Len(head \o R) = Len(head) + Len(R)
        /\ \A i \in 1 .. Len(head) + Len(R) :
              (head \o R)[i] = IF i <= Len(head) THEN head[i] ELSE R[i - Len(head)]
    BY <1>7, <1>8, ConcatProperties
  <2>2. 4 + (6 + M + d + l) = M + d + l + 10
    BY <1>2, <1>3, <1>4
  <2>3. \A i \in 1 .. 4 : i \in 1 .. 4 + (6 + M + d + l) /\ i <= 4
    BY <1>2, <1>3, <1>4
  <2>4. \A i \in 1 .. 6 + M + d + l : /\ 4 + i \in 1 .. 4 + (6 + M + d + l)
                                      /\ ~ (4 + i <= 4) /\ (4 + i) - 4 = i
    BY <1>17
  <2> QED
    BY <1>5, <1>7, <1>8, <2>1, <2>2, <2>3, <2>4
<1>10. I[1] = File!SDAT /\ I[2] = Len(I) /\ I[3] = 4
  <2>1. 4 + Len(R) = Len(I)
    <3>1. 4 + (6 + M + d + l) = M + d + l + 10
      BY <1>17
    <3> QED
      BY <1>7, <1>9, <3>1
  <2>2. 1 \in 1 .. 4 /\ 2 \in 1 .. 4 /\ 3 \in 1 .. 4
    OBVIOUS
  <2> QED
    BY <1>8, <1>9, <2>1, <2>2
<1>11. \A i \in 1 .. 2 + M : I[4 + i] = A[i]
  <2>1. \A i \in 1 .. 2 + M : i \in 1 .. 6 + M + d + l /\ i \in 1 .. 4 + M + d
    BY <1>17
  <2> QED
    BY <1>6, <1>7, <1>9, <2>1
<1>12. \A i \in 1 .. 2 + d : I[6 + M + i] = B[i]
  <2>1. ASSUME NEW i \in 1 .. 2 + d
        PROVE  /\ 2 + M + i \in 1 .. 6 + M + d + l /\ 2 + M + i \in 1 .. 4 + M + d
               /\ 4 + (2 + M + i) = 6 + M + i
    BY <1>17
  <2>2. ASSUME NEW i \in 1 .. 2 + d PROVE I[6 + M + i] = B[i]
    <3>1. I[6 + M + i] = R[2 + M + i] /\ R[2 + M + i] = (A \o B)[2 + M + i]
      BY Zenon, <1>7, <1>9, <2>1
    <3> QED
      BY Zenon, <1>6, <3>1
  <2> QED
    BY <2>2
<1>13. \A i \in 1 .. 2 + l : I[8 + M + d + i] = C[i]
  <2>1. \A i \in 1 .. 2 + l : /\ 4 + M + d + i \in 1 .. 6 + M + d + l
                              /\ 4 + (4 + M + d + i) = 8 + M + d + i
    BY <1>17
  <2> QED
    BY <1>7, <1>9, <2>1
<1>14. /\ I[5] = File!TBLU /\ I[6] = 2 + M /\ \A i \in 1 .. M : I[6 + i] = t.table[i]
  <2>1. 1 \in 1 .. 2 + M /\ 2 \in 1 .. 2 + M
    BY <1>2
  <2>2. \A i \in 1 .. M : 2 + i \in 1 .. 2 + M /\ 4 + (2 + i) = 6 + i
    BY <1>2
  <2>3. 4 + 1 = 5 /\ 4 + 2 = 6
    OBVIOUS
  <2> QED
    BY <1>2, <1>11, <2>1, <2>2, <2>3
<1>15. /\ I[7 + M] = File!SDA5 /\ I[8 + M] = 2 + d /\ \A i \in 1 .. d : I[8 + M + i] = t.da[i]
  <2>1. 1 \in 1 .. 2 + d /\ 2 \in 1 .. 2 + d /\ 6 + M + 1 = 7 + M /\ 6 + M + 2 = 8 + M
    BY <1>2, <1>3
  <2>2. \A i \in 1 .. d : 2 + i \in 1 .. 2 + d /\ 6 + M + (2 + i) = 8 + M + i
    BY <1>2, <1>3
  <2> QED
    BY <1>3, <1>12, <2>1, <2>2
<1>16. /\ I[9 + M + d] = File!TAIL /\ I[10 + M + d] = 2 + l
       /\ \A i \in 1 .. l : I[10 + M + d + i] = t.tail[i]
  <2>1. 1 \in 1 .. 2 + l /\ 2 \in 1 .. 2 + l /\ 8 + M + d + 1 = 9 + M + d /\ 8 + M + d + 2 = 10 + M + d
    BY <1>2, <1>3, <1>4
  <2>2. \A i \in 1 .. l : 2 + i \in 1 .. 2 + l /\ 8 + M + d + (2 + i) = 10 + M + d + i
    BY <1>17
  <2> QED
    BY <1>4, <1>13, <2>1, <2>2
<1> QED
  BY <1>3, <1>4, <1>9, <1>10, <1>14, <1>15, <1>16 DEF Holds, I, M, d, l

(* The turns of the loop over the chunks of I, as far as the K-th. *)
Begun(total) ==
  [p |-> File!SDAT_CHUNKSIZE,
   t |-> [kind |-> "loaded", table |-> <<>>, da |-> <<>>, tail |-> <<>>, total |-> total]]

TurnsFor(I, total, K, after) ==
  after = [k \in 0 .. K |-> IF k = 0 THEN Begun(total) ELSE File!Turn(I, after[k - 1])]

(* There are as many turns as the loop wants. *)
LEMMA TurnsExist ==
  ASSUME NEW I, NEW total, NEW K \in Nat
  PROVE  \E after : TurnsFor(I, total, K, after)
<1> DEFINE S == {k \in Nat : \E after : TurnsFor(I, total, k, after)}
<1>1. 0 \in S
  <2> DEFINE z == [k \in 0 .. 0 |-> Begun(total)]
  <2>1. \A k \in 0 .. 0 : k = 0
    OBVIOUS
  <2>2. TurnsFor(I, total, 0, z)
    BY <2>1 DEF TurnsFor
  <2> QED
    BY <2>2
<1>2. ASSUME NEW k \in Nat, k \in S PROVE k + 1 \in S
  <2>1. PICK f : TurnsFor(I, total, k, f)
    BY <1>2
  <2>2. \A j \in 0 .. k : f[j] = IF j = 0 THEN Begun(total) ELSE File!Turn(I, f[j - 1])
    BY <2>1 DEF TurnsFor
  <2> DEFINE g == [j \in 0 .. k + 1 |-> IF j = k + 1 THEN File!Turn(I, f[k]) ELSE f[j]]
  <2>3. \A j \in 0 .. k : g[j] = f[j]
    <3>1. \A j \in 0 .. k : j \in 0 .. k + 1 /\ j # k + 1
      OBVIOUS
    <3> QED
      BY <3>1
  <2>4. g[k + 1] = File!Turn(I, f[k])
    OBVIOUS
  <2>5. DOMAIN g = 0 .. k + 1 /\ g = [j \in 0 .. k + 1 |-> g[j]]
    OBVIOUS
  <2> HIDE DEF g
  <2>6. ASSUME NEW j \in 0 .. k + 1
        PROVE  g[j] = IF j = 0 THEN Begun(total) ELSE File!Turn(I, g[j - 1])
    <3>1. CASE j = k + 1
      <4>1. j # 0 /\ j - 1 = k /\ k \in 0 .. k
        BY <3>1
      <4> QED
        BY <2>3, <2>4, <3>1, <4>1
    <3>2. CASE j # k + 1
      <4>1. j \in 0 .. k /\ (j # 0 => j - 1 \in 0 .. k)
        BY <3>2
      <4> QED
        BY <2>2, <2>3, <4>1
    <3> QED
      BY <3>1, <3>2
  <2>7. TurnsFor(I, total, k + 1, g)
    BY <2>5, <2>6 DEF TurnsFor
  <2> QED
    BY <2>7
<1>3. Nat \subseteq S
  <2> HIDE DEF S
  <2> QED
    BY <1>1, <1>2, SetInduction
<1> QED
  BY <1>3

(* The loop has made its last turn. *)
LEMMA ChunksAre ==
  ASSUME NEW I, NEW total \in Nat
  PROVE  \E after : TurnsFor(I, total, total, after) /\ File!Chunks(I, total) = after[total].t
<1> DEFINE after == CHOOSE f : f = [k \in 0 .. total |->
                                      IF k = 0
                                      THEN [p |-> File!SDAT_CHUNKSIZE,
                                            t |-> [kind |-> "loaded", table |-> <<>>, da |-> <<>>,
                                                   tail |-> <<>>, total |-> total]]
                                      ELSE File!Turn(I, f[k - 1])]
<1>1. File!Chunks(I, total) = after[total].t
  BY Zenon DEF File!Chunks
<1>2. \E f : f = [k \in 0 .. total |->
                    IF k = 0
                    THEN [p |-> File!SDAT_CHUNKSIZE,
                          t |-> [kind |-> "loaded", table |-> <<>>, da |-> <<>>,
                                 tail |-> <<>>, total |-> total]]
                    ELSE File!Turn(I, f[k - 1])]
  <2>1. PICK f : TurnsFor(I, total, total, f)
    BY TurnsExist
  <2> QED
    BY <2>1 DEF TurnsFor, Begun
<1>3. TurnsFor(I, total, total, after)
  BY <1>2 DEF TurnsFor, Begun
<1> HIDE DEF after
<1> QED
  BY <1>1, <1>3

(* A mapping shows at least the file. *)
LEMMA FileReadable ==
  ASSUME NEW I, Len(I) \in Nat, NEW a \in Int, a < Len(I)
  PROVE  File!Readable(I, a)
<1> DEFINE m == Len(I)
           b == m + Page - 1
           q == b \div Page
           r == b % Page
           k == Page * q
<1>1. Page \in Nat \ {0} /\ m \in Nat /\ b \in Nat
  BY PageAssumption
<1>2. q \in Int /\ r \in 0 .. Page - 1 /\ b = k + r
  BY <1>1
<1>3. k = q * Page /\ k \in Int
  BY <1>1, <1>2
<1>4. File!PageEnd(I) = k
  BY <1>3 DEF File!PageEnd
<1>5. b = m + Page - 1 /\ a < m
  OBVIOUS
<1> HIDE DEF k, q, r, b, m
<1>6. a < k
  BY <1>1, <1>2, <1>3, <1>5
<1> QED
  BY <1>4, <1>6 DEF File!Readable

(* What a reader has: it is at p, with these arrays. *)
HasRead(s, p, table_, da_, tail_, total) ==
  s = [p |-> p, t |-> [kind |-> "loaded", table |-> table_, da |-> da_, tail |-> tail_, total |-> total]]

(* A turn of the loop takes the chunk it is at, and comes to the end of it. *)
LEMMA ChunkTaken ==
  ASSUME NEW I, NEW s, NEW p \in Nat, NEW x, NEW y, NEW z, NEW total \in Nat,
         HasRead(s, p, x, y, z, total), p < total, Len(I) = total,
         NEW n \in Nat, p + 2 + n <= total, I[p + 2] = 2 + n,
         NEW X, NEW Y, NEW Z,
         NEW data, data = File!Words(I, p + 2, n),
         \/ I[p + 1] = File!TBLU /\ n = NumChars /\ X = data /\ Y = y /\ Z = z
         \/ I[p + 1] = File!SDA5 /\ X = x /\ Y = data /\ Z = z
         \/ I[p + 1] = File!TAIL /\ X = x /\ Y = y /\ Z = data
  PROVE  HasRead(File!Turn(I, s), p + 2 + n, X, Y, Z, total)
<1> DEFINE t == [kind |-> "loaded", table |-> x, da |-> y, tail |-> z, total |-> total]
           u == File!Take(I, p, t)
<1>1. s = [p |-> p, t |-> t]
  BY DEF HasRead
<1>2. s.p = p /\ s.t = t /\ t.kind = "loaded" /\ t.total = total /\ ~ (p >= total)
  BY <1>1
<1>3. p + 1 < total
  OBVIOUS
<1>4. File!Word(I, p) = I[p + 1] /\ File!Word(I, p + 1) = 2 + n
  <2>1. (p + 1) + 1 = p + 2
    OBVIOUS
  <2> QED
    BY <1>3, <2>1 DEF File!Word
<1>5. File!Turn(I, s) = [p |-> p + (2 + n), t |-> u]
  <2> HIDE DEF u, t
  <2>1. s.t.kind = "loaded" /\ ~ (s.p >= s.t.total)
    BY <1>2
  <2>2. File!Turn(I, s) = [p |-> s.p + File!Word(I, s.p + 1), t |-> File!Take(I, s.p, s.t)]
    BY <2>1 DEF File!Turn
  <2> QED
    BY <1>2, <1>4, <2>2 DEF u
<1>6. p + (2 + n) = p + 2 + n /\ (2 + n) - 2 = n /\ 2 + n # 0
  OBVIOUS
<1>7. File!Readable(I, p + 1) /\ File!Readable(I, p + (2 + n) - 1)
  <2>1. p + 1 \in Int /\ p + (2 + n) - 1 \in Int /\ p + (2 + n) - 1 < total
    OBVIOUS
  <2> QED
    BY <1>3, <2>1, FileReadable
<1>8. u = [kind |-> "loaded", table |-> X, da |-> Y, tail |-> Z, total |-> total]
  <2>1. CASE I[p + 1] = File!TBLU /\ n = NumChars /\ X = data /\ Y = y /\ Z = z
    <3>1. u = [t EXCEPT !.table = data]
      BY <1>4, <1>6, <1>7, <2>1 DEF File!Take, File!CHUNKSIZE
    <3> QED
      BY <2>1, <3>1
  <2>2. CASE I[p + 1] = File!SDA5 /\ X = x /\ Y = data /\ Z = z
    <3>1. File!Word(I, p) = File!SDA5 /\ File!SDA5 # File!TBLU
      BY <1>4, <2>2 DEF File!TBLU, File!SDA5
    <3>2. u = [t EXCEPT !.da = data]
      BY <1>4, <1>6, <1>7, <2>2, <3>1 DEF File!Take, File!CHUNKSIZE
    <3> QED
      BY <2>2, <3>2
  <2>3. CASE I[p + 1] = File!TAIL /\ X = x /\ Y = y /\ Z = data
    <3>1. u = [t EXCEPT !.tail = data]
      BY <1>4, <1>6, <1>7, <2>3 DEF File!Take, File!CHUNKSIZE, File!TBLU, File!SDA5, File!TAIL
    <3> QED
      BY <2>3, <3>1
  <2> QED
    BY <2>1, <2>2, <2>3
<1> HIDE DEF u
<1> QED
  BY <1>5, <1>6, <1>8 DEF HasRead

(* The data of a chunk, read back. *)
LEMMA WordsAre ==
  ASSUME NEW I, NEW p \in Nat, NEW n \in Nat, NEW S, NEW data \in Seq(S), Len(data) = n,
         Len(I) \in Nat, p + 2 + n <= Len(I), \A i \in 1 .. n : I[p + 2 + i] = data[i]
  PROVE  File!Words(I, p + 2, n) = data
<1>1. ASSUME NEW i \in 1 .. n PROVE File!Word(I, p + 2 + i - 1) = data[i]
  <2> DEFINE m == Len(I)
  <2>1. m \in Nat /\ p + 2 + n <= m
    OBVIOUS
  <2> HIDE DEF m
  <2>2. p + 2 + i - 1 < m /\ (p + 2 + i - 1) + 1 = p + 2 + i
    BY ONLY <2>1, p \in Nat, n \in Nat, i \in 1 .. n
  <2> QED
    BY <2>2 DEF File!Word, m
<1>2. File!Words(I, p + 2, n) = [i \in 1 .. n |-> File!Word(I, p + 2 + i - 1)]
  BY DEF File!Words
<1>3. data = [i \in 1 .. n |-> data[i]]
  OBVIOUS
<1> QED
  BY <1>1, <1>2, <1>3

(* A block that assign() looks into. *)
Enough(size) == ~ (size < File!SDAT_CHUNKSIZE)

(* An image that is whole gives back its arrays. *)
LEMMA ImageReadBack ==
  ASSUME NEW t, NEW S, Arrays(t, S), NEW size, NEW r, r = File!Assign(File!Image(t), size),
         Enough(size), t.da # <<>>, t.tail # <<>>
  PROVE  r.kind = "loaded" /\ r.table = t.table /\ r.da = t.da /\ r.tail = t.tail
<1> DEFINE I == File!Image(t)
           M == NumChars
           d == Len(t.da)
           l == Len(t.tail)
           N == Len(I)
<1>1. /\ I \in Seq(S) /\ M \in Nat /\ d \in Nat /\ l \in Nat /\ N = M + d + l + 10
      /\ t.table \in Seq(S) /\ t.da \in Seq(S) /\ t.tail \in Seq(S) /\ Len(t.table) = M
  <2>1. I \in Seq(S) /\ d \in Nat /\ l \in Nat /\ N = M + d + l + 10
    BY ImageIs DEF Holds
  <2> QED
    BY <2>1, NumCharsAssumption DEF Arrays
<1>2. Holds(I, t, d, l)
  BY ImageIs
<1> HIDE DEF I, M, d, l, N
<1>3. /\ N \in Nat /\ 2 <= N
      /\ M \in Nat /\ d \in Nat /\ l \in Nat /\ N = M + d + l + 10
  BY <1>1
<1>4. File!Word(I, 1) = N
  <2>1. 1 < N /\ 1 + 1 = 2
    BY <1>3
  <2>2. I[2] = N
    BY <1>2 DEF Holds, N
  <2> QED
    BY <2>1, <2>2 DEF File!Word, N
<1>6. PICK after : TurnsFor(I, N, N, after) /\ File!Chunks(I, N) = after[N].t
  BY <1>3, ChunksAre
<1>7. /\ after[0] = Begun(N)
      /\ \A k \in 1 .. N : after[k] = File!Turn(I, after[k - 1])
  <2>1. \A k \in 0 .. N : after[k] = IF k = 0 THEN Begun(N) ELSE File!Turn(I, after[k - 1])
    BY <1>6 DEF TurnsFor
  <2>2. 0 \in 0 .. N /\ \A k \in 1 .. N : k \in 0 .. N /\ k # 0
    BY <1>3
  <2> QED
    BY <2>1, <2>2
<1>8. HasRead(after[0], 4, <<>>, <<>>, <<>>, N)
  <2>1. Begun(N) = [p |-> 4, t |-> [kind |-> "loaded", table |-> <<>>, da |-> <<>>,
                                    tail |-> <<>>, total |-> N]]
    BY DEF Begun, File!SDAT_CHUNKSIZE
  <2> QED
    BY <1>7, <2>1 DEF HasRead
<1>9. 1 \in 1 .. N /\ 2 \in 1 .. N /\ 3 \in 1 .. N /\ 1 - 1 = 0 /\ 2 - 1 = 1 /\ 3 - 1 = 2
  BY <1>1
<1>10. HasRead(after[1], 6 + M, t.table, <<>>, <<>>, N)
  <2> DEFINE p == 4
             data == File!Words(I, p + 2, M)
  <2>1. p \in Nat /\ p < N /\ p + 2 + M <= N
        /\ p + 1 = 5 /\ p + 2 = 6 /\ p + 2 + M = 6 + M
    BY <1>1
  <2>2. I[p + 1] = File!TBLU /\ I[p + 2] = 2 + M
    BY <1>2, <2>1 DEF Holds, M
  <2>3. \A i \in 1 .. M : I[p + 2 + i] = t.table[i]
    BY <1>2, <2>1 DEF Holds, M
  <2>4. HasRead(after[0], p, <<>>, <<>>, <<>>, N)
    BY <1>8
  <2> HIDE DEF p
  <2>5. data = t.table
    BY <1>1, <1>3, <2>1, <2>3, WordsAre DEF N
  <2> HIDE DEF data
  <2>6. HasRead(File!Turn(I, after[0]), p + 2 + M, data, <<>>, <<>>, N)
    BY <1>1, <1>3, <2>1, <2>2, <2>4, ChunkTaken DEF data, M, N
  <2> QED
    BY <1>7, <1>9, <2>1, <2>5, <2>6
<1>11. HasRead(after[2], 8 + M + d, t.table, t.da, <<>>, N)
  <2> DEFINE p == 6 + M
             data == File!Words(I, p + 2, d)
  <2>1. p \in Nat /\ p < N /\ p + 2 + d <= N
        /\ p + 1 = 7 + M /\ p + 2 = 8 + M /\ p + 2 + d = 8 + M + d
    BY <1>1
  <2>2. I[p + 1] = File!SDA5 /\ I[p + 2] = 2 + d
    BY <1>2, <2>1 DEF Holds, M
  <2>3. \A i \in 1 .. d : I[p + 2 + i] = t.da[i]
    BY <1>2, <2>1 DEF Holds, M
  <2>4. HasRead(after[1], p, t.table, <<>>, <<>>, N)
    BY <1>10
  <2> HIDE DEF p
  <2>5. data = t.da
    BY <1>1, <1>3, <2>1, <2>3, WordsAre DEF N, d
  <2> HIDE DEF data
  <2>6. HasRead(File!Turn(I, after[1]), p + 2 + d, t.table, data, <<>>, N)
    BY <1>1, <1>3, <2>1, <2>2, <2>4, ChunkTaken DEF data, N
  <2> QED
    BY <1>7, <1>9, <2>1, <2>5, <2>6
<1>12. HasRead(after[3], N, t.table, t.da, t.tail, N)
  <2> DEFINE p == 8 + M + d
             data == File!Words(I, p + 2, l)
  <2>1. p \in Nat /\ p < N /\ p + 2 + l <= N
        /\ p + 1 = 9 + M + d /\ p + 2 = 10 + M + d /\ p + 2 + l = N
    BY <1>3
  <2>2. I[p + 1] = File!TAIL /\ I[p + 2] = 2 + l
    BY <1>2, <2>1 DEF Holds, M
  <2>3. \A i \in 1 .. l : I[p + 2 + i] = t.tail[i]
    BY <1>2, <2>1 DEF Holds, M
  <2>4. HasRead(after[2], p, t.table, t.da, <<>>, N)
    BY <1>11
  <2> HIDE DEF p
  <2>5. data = t.tail
    BY <1>1, <1>3, <2>1, <2>3, WordsAre DEF N, l
  <2> HIDE DEF data
  <2>6. HasRead(File!Turn(I, after[2]), p + 2 + l, t.table, t.da, data, N)
    BY <1>1, <1>3, <2>1, <2>2, <2>4, ChunkTaken DEF data, N
  <2> QED
    BY <1>7, <1>9, <2>1, <2>5, <2>6
(* The chunks end where the file does, and so does the loop. *)
<1>13. File!Turn(I, after[3]) = after[3]
  <2>1. after[3].p = N /\ after[3].t.total = N
    BY <1>12 DEF HasRead
  <2>2. after[3].p >= after[3].t.total
    BY <1>3, <2>1
  <2> QED
    BY <2>2 DEF File!Turn
<1>14. after[N] = after[3]
  <2> DEFINE Z == {k \in Nat : 3 + k <= N => after[3 + k] = after[3]}
  <2>1. 0 \in Z
    OBVIOUS
  <2>2. ASSUME NEW k \in Nat, k \in Z PROVE k + 1 \in Z
    <3>1. 3 + (k + 1) <= N => /\ 3 + k <= N /\ 3 + (k + 1) \in 1 .. N
                             /\ (3 + (k + 1)) - 1 = 3 + k
      BY <1>3
    <3> QED
      BY <1>7, <1>13, <2>2, <3>1
  <2>3. Nat \subseteq Z
    <3> HIDE DEF Z
    <3> QED
      BY <2>1, <2>2, SetInduction
  <2>4. N - 3 \in Nat /\ 3 + (N - 3) = N /\ N <= N
    BY <1>1
  <2> QED
    BY <2>3, <2>4
<1>15. LET c == File!Chunks(I, N)
       IN  c.kind = "loaded" /\ c.table = t.table /\ c.da = t.da /\ c.tail = t.tail
  BY <1>6, <1>12, <1>14 DEF HasRead
<1>16. File!Word(I, 0) = File!SDAT /\ File!Word(I, 2) = 4
  <2>1. 0 < N /\ 2 < N /\ 0 + 1 = 1 /\ 2 + 1 = 3
    BY <1>1
  <2>2. I[1] = File!SDAT /\ I[3] = 4
    BY <1>2 DEF Holds
  <2> QED
    BY <2>1, <2>2 DEF File!Word, N
<1>17. r = File!Chunks(I, N)
  <2>1. r = File!Assign(I, size)
    BY DEF I
  <2>2. LET c == File!Chunks(I, N) IN ~ (c.da = <<>> \/ c.tail = <<>>)
    BY <1>15
  <2> QED
    BY <1>4, <1>16, <2>1, <2>2 DEF File!Assign, File!SDAT_CHUNKSIZE, Enough
<1> QED
  BY <1>15, <1>17

(* The arrays of a trie that is built. *)
Cells == Int \cup [base : Int, check : Int] \cup {Len(recs)}

(* What a builder writes are arrays of words. *)
LEMMA BuiltArrays ==
  ASSUME BuilderInv, pc = "built"
  PROVE  Arrays(Built, Cells)
<1>1. TableOk(table) /\ tail \in Seq(Int) /\ DaOk(da)
  BY DEF BuilderInv, CallsInv, ListInv
<1>2. Int \subseteq Cells /\ Len(recs) \in Cells /\ [base : Int, check : Int] \subseteq Cells
  BY DEF Cells
<1>3. /\ [i \in 1 .. NumChars |-> table[i - 1]] \in Seq(Cells)
      /\ Len([i \in 1 .. NumChars |-> table[i - 1]]) = NumChars
  <2>1. \A i \in 1 .. NumChars : table[i - 1] \in Cells
    <3>1. \A i \in 1 .. NumChars : i - 1 \in Chars
      BY NumCharsAssumption DEF Chars
    <3>2. Chars \subseteq Int
      BY DEF Chars
    <3> QED
      BY <1>1, <1>2, <3>1, <3>2 DEF TableOk
  <2> QED
    BY <2>1, NumCharsAssumption
<1>4. [i \in 1 .. Size(da) |-> da[i - 1]] \in Seq(Cells)
  <2> DEFINE n == Size(da)
  <2>1. n \in Nat /\ da \in [0 .. n - 1 -> [base : Int, check : Int]]
    BY <1>1 DEF DaOk
  <2> HIDE DEF n
  <2>2. \A i \in 1 .. n : da[i - 1] \in Cells
    BY <1>2, <2>1
  <2>3. [i \in 1 .. n |-> da[i - 1]] \in Seq(Cells)
    BY <2>1, <2>2
  <2> QED
    BY <2>3 DEF n
<1>5. tail \in Seq(Cells)
  BY <1>1, <1>2
<1> QED
  BY <1>2, <1>3, <1>4, <1>5 DEF Arrays, Built

(* A beginning of a file. *)
Begins(f, I) == \E n \in 0 .. Len(I) : f = SubSeq(I, 1, n)

(* read() refuses a file that is not whole. *)
LEMMA ReadTakesAll ==
  ASSUME NEW t, NEW S, Arrays(t, S), NEW f, Begins(f, File!Image(t))
  PROVE  \/ File!Read(f).kind = "refused" /\ f # File!Image(t)
         \/ f = File!Image(t) /\ File!Read(f) = File!Assign(f, Len(f)) /\ Enough(Len(f))
<1> DEFINE I == File!Image(t)
           N == Len(I)
<1>1. I \in Seq(S) /\ N \in Nat /\ I[1] = File!SDAT /\ I[2] = N /\ 10 <= N
  <2>1. Holds(I, t, Len(t.da), Len(t.tail)) /\ I \in Seq(S) /\ Len(t.da) \in Nat /\ Len(t.tail) \in Nat
    BY ImageIs
  <2> DEFINE d == Len(t.da)
             l == Len(t.tail)
  <2>2. Holds(I, t, d, l) /\ d \in Nat /\ l \in Nat /\ NumChars \in Nat
    BY <2>1, NumCharsAssumption
  <2> HIDE DEF I, N, d, l
  <2>3. N = NumChars + d + l + 10 /\ I[1] = File!SDAT /\ I[2] = N
    BY <2>2 DEF Holds, N
  <2>4. N \in Nat /\ 10 <= N
    BY <2>2, <2>3
  <2> QED
    BY <2>1, <2>3, <2>4
<1>2. PICK n \in 0 .. N : f = SubSeq(I, 1, n)
  BY DEF Begins
<1> HIDE DEF I, N
<1>3. Len(f) = n /\ \A i \in 1 .. n : f[i] = I[i]
  BY <1>1, <1>2 DEF N
<1>4. File!Refused.kind = "refused"
  BY DEF File!Refused, File!Nothing
<1>5. CASE Len(f) < 2 \/ File!Word(f, 0) # File!SDAT \/ Len(f) < File!Word(f, 1)
  <2>1. File!Read(f) = File!Refused
    BY <1>5 DEF File!Read, File!CHUNKSIZE
  <2>2. ASSUME f = I PROVE FALSE
    <3>1. ~ (Len(f) < 2) /\ Len(f) = N /\ 0 < Len(f) /\ 1 < Len(f) /\ 0 + 1 = 1 /\ 1 + 1 = 2
      BY <1>1, <2>2 DEF N
    <3>2. File!Word(f, 0) = File!SDAT /\ File!Word(f, 1) = N
      BY <1>1, <2>2, <3>1 DEF File!Word
    <3> QED
      BY <1>1, <1>5, <3>1, <3>2
  <2> QED
    BY <1>4, <2>1, <2>2 DEF I
<1>6. CASE ~ (Len(f) < 2 \/ File!Word(f, 0) # File!SDAT \/ Len(f) < File!Word(f, 1))
  <2>1. File!Read(f) = File!Assign(f, File!Word(f, 1))
    BY <1>6 DEF File!Read, File!CHUNKSIZE
  <2>2. File!Word(f, 1) = N
    <3>1. 1 < Len(f) /\ 1 + 1 = 2 /\ 2 \in 1 .. n
      BY <1>3, <1>6
    <3> QED
      BY <1>1, <1>3, <3>1 DEF File!Word
  <2>3. n = N
    BY <1>1, <1>3, <1>6, <2>2
  <2>4. f = I /\ Len(f) = N
    BY <1>1, <1>2, <1>3, <2>3 DEF N
  <2>5. Enough(Len(f))
    BY <1>1, <2>4 DEF Enough, File!SDAT_CHUNKSIZE
  <2> QED
    BY <2>1, <2>2, <2>4, <2>5 DEF I
<1> QED
  BY <1>5, <1>6

-----------------------------------------------------------------------------
(* The inductive invariant of the index file. *)
FileInv ==
  /\ BuilderInv
  /\ pc = "built" => tail # <<>>
  /\ file # <<>> => pc = "built" /\ Begins(file, File!Image(Built))
  /\ mapped.kind = "none" => ~ stream

(* Writing and reading leave the builder alone. *)
LEMMA FileSame ==
  ASSUME UNCHANGED buildervars, BuilderInv
  PROVE  BuilderInv' /\ pc' = pc /\ tail' = tail /\ Built' = Built
<1>1. BuilderInv'
  BY BuilderInductive
<1> QED
  BY <1>1 DEF buildervars, Built

(* Before build() returns it has begun the tail. *)
LEMMA TailBegun ==
  ASSUME BuilderInv, BuilderNext, pc' = "built"
  PROVE  tail' # <<>>
<1>1. ReturnToBuild
  BY DEF BuilderNext, BuilderStep, Build, ArrangeLeaf, ArrangeNode, SearchOn, SearchTry,
         Reserve, EnterChild, LeaveNode, ReturnToParent, Throw
<1>2. pc = "return" /\ tail' = tail
  BY <1>1 DEF ReturnToBuild
<1> QED
  BY <1>2 DEF BuilderInv, CallsInv, Working

(* A reader of a whole file, or of something else. *)
LEMMA WholeFileTaken ==
  ASSUME BuilderInv, pc = "built", tail # <<>>, NEW r, NEW size, Enough(size),
         r = File!Assign(File!Image(Built), size)
  PROVE  r.kind = "loaded" /\ r.table = Built.table /\ r.da = Built.da /\ r.tail = Built.tail
<1>1. Arrays(Built, Cells)
  BY BuiltArrays
<1>2. Built.tail # <<>>
  BY DEF Built
<1>3. Built.da # <<>>
  <2> DEFINE n == Size(da)
  <2>1. n \in Nat /\ n >= 2
    BY DEF BuilderInv, ListInv, DaOk
  <2>2. Built.da = [i \in 1 .. n |-> da[i - 1]]
    BY DEF Built
  <2> HIDE DEF n
  <2>3. 1 \in DOMAIN Built.da
    BY <2>1, <2>2
  <2> QED
    BY <2>3
<1> QED
  BY <1>1, <1>2, <1>3, ImageReadBack

(* What the step of a reader does. *)
ReadsWell ==
  /\ Complete => /\ Loaded' /\ mapped'.table = Built.table
                 /\ mapped'.da = Built.da /\ mapped'.tail = Built.tail
  /\ Loaded' /\ stream' => Complete

(* At first there is no file. *)
LEMMA FileStarts == FileInit => FileInv
<1>1. FileInit => BuilderInit /\ pc = "idle" /\ file = <<>> /\ stream = FALSE
  BY DEF FileInit, BuilderInit
<1> QED
  BY <1>1, BuilderInductive DEF FileInv

(* While there is no file and no reader, the builder may do what it wants. *)
LEMMA FileBuilds ==
  ASSUME FileInv, BuilderNext, file = <<>>, UNCHANGED filevars
  PROVE  FileInv'
<1>1. BuilderInv' /\ (pc' = "built" => tail' # <<>>)
  BY BuilderInductive, TailBegun DEF FileInv
<1>2. file' = <<>> /\ mapped' = mapped /\ stream' = stream
  BY DEF filevars
<1> QED
  BY <1>1, <1>2 DEF FileInv

(* The file is written, or some beginning of it. *)
LEMMA FileWritten ==
  ASSUME FileInv, WriteIndex
  PROVE  FileInv'
<1>1. /\ pc = "built" /\ Begins(file', File!Image(Built))
      /\ UNCHANGED buildervars /\ mapped' = mapped /\ stream' = stream
  BY DEF WriteIndex, Begins
<1>2. BuilderInv' /\ pc' = pc /\ tail' = tail /\ Built' = Built
  BY <1>1, FileSame DEF FileInv
<1> QED
  BY <1>1, <1>2 DEF FileInv

(* A file that is whole is mapped as it was written. *)
LEMMA FileMapped ==
  ASSUME FileInv, MapIndex
  PROVE  FileInv' /\ ReadsWell
<1>1. /\ pc = "built" /\ mapped.kind = "none"
      /\ mapped' = IF file = <<>> THEN File!Refused ELSE File!Assign(file, Len(file))
      /\ UNCHANGED buildervars /\ file' = file /\ stream' = stream
  BY DEF MapIndex
<1>2. BuilderInv' /\ pc' = pc /\ tail' = tail /\ Built' = Built
  BY <1>1, FileSame DEF FileInv
<1>3. ~ stream /\ tail # <<>> /\ BuilderInv
  BY <1>1 DEF FileInv
<1>4. FileInv'
  BY <1>1, <1>2, <1>3 DEF FileInv
<1>5. ASSUME Complete
      PROVE  /\ Loaded' /\ mapped'.table = Built.table
             /\ mapped'.da = Built.da /\ mapped'.tail = Built.tail
  <2>1. file = File!Image(Built) /\ Enough(Len(file)) /\ file # <<>>
    <3> DEFINE I == File!Image(Built)
               d == Len(Built.da)
               l == Len(Built.tail)
    <3>1. Holds(I, Built, d, l) /\ d \in Nat /\ l \in Nat
      BY <1>1, <1>3, BuiltArrays, ImageIs
    <3>2. file = I
      BY <1>5 DEF Complete
    <3> HIDE DEF I, d, l
    <3>3. ~ (Len(I) < 4)
      <4>1. Len(I) = NumChars + d + l + 10
        BY <3>1 DEF Holds
      <4> QED
        BY <3>1, <4>1, NumCharsAssumption
    <3>4. Len(<<>>) = 0 /\ 0 < 4
      OBVIOUS
    <3> QED
      BY <3>2, <3>3, <3>4 DEF I, Enough, File!SDAT_CHUNKSIZE
  <2>2. mapped' = File!Assign(File!Image(Built), Len(file))
    BY <1>1, <2>1
  <2> QED
    BY <1>1, <1>3, <2>1, <2>2, WholeFileTaken DEF Loaded
<1> QED
  BY <1>1, <1>3, <1>4, <1>5 DEF ReadsWell

(* A file is read from a stream only if it is whole. *)
LEMMA FileRead ==
  ASSUME FileInv, ReadIndex
  PROVE  FileInv' /\ ReadsWell
<1>1. /\ pc = "built" /\ mapped' = File!Read(file)
      /\ UNCHANGED buildervars /\ file' = file
  BY DEF ReadIndex
<1>2. BuilderInv' /\ pc' = pc /\ tail' = tail /\ Built' = Built
  BY <1>1, FileSame DEF FileInv
<1>3. tail # <<>> /\ BuilderInv
  BY <1>1 DEF FileInv
<1>4. Arrays(Built, Cells)
  BY <1>1, <1>3, BuiltArrays
<1>5. Begins(file, File!Image(Built))
  <2>1. CASE file # <<>>
    BY <2>1 DEF FileInv
  <2>2. CASE file = <<>>
    <3>1. File!Image(Built) \in Seq(Cells)
      BY <1>4, ImageIs
    <3>2. Len(File!Image(Built)) \in Nat /\ SubSeq(File!Image(Built), 1, 0) = <<>>
      BY <3>1
    <3> QED
      BY <2>2, <3>2 DEF Begins
  <2> QED
    BY <2>1, <2>2
<1>6. \/ mapped'.kind = "refused" /\ ~ Complete
      \/ /\ Complete
         /\ mapped'.kind = "loaded" /\ mapped'.table = Built.table
         /\ mapped'.da = Built.da /\ mapped'.tail = Built.tail
  <2>1. \/ File!Read(file).kind = "refused" /\ file # File!Image(Built)
        \/ /\ file = File!Image(Built) /\ File!Read(file) = File!Assign(file, Len(file))
           /\ Enough(Len(file))
    BY <1>4, <1>5, ReadTakesAll
  <2> QED
    BY <1>1, <1>3, <2>1, WholeFileTaken DEF Complete
<1>7. mapped'.kind # "none"
  BY <1>6
<1>8. FileInv'
  BY <1>1, <1>2, <1>3, <1>7 DEF FileInv
<1> QED
  BY <1>6, <1>8 DEF ReadsWell, Loaded

(* Every step of the builder, the indexer and the reader keeps it.         *)
THEOREM FileInductive ==
  /\ FileInit => FileInv
  /\ FileInv /\ [FileNext]_<<buildervars, filevars>> => FileInv'
<1>1. ASSUME FileInv, UNCHANGED <<buildervars, filevars>>
      PROVE  FileInv'
  <2>1. UNCHANGED buildervars /\ file' = file /\ mapped' = mapped /\ stream' = stream
    BY <1>1 DEF filevars
  <2>2. BuilderInv' /\ pc' = pc /\ tail' = tail /\ Built' = Built
    BY <1>1, <2>1, FileSame DEF FileInv
  <2> QED
    BY <1>1, <2>1, <2>2 DEF FileInv
<1> QED
  BY <1>1, FileStarts, FileBuilds, FileWritten, FileMapped, FileRead DEF FileNext

(* builder::write, trie::assign and trie::read: a reader of a whole file   *)
(* gets the arrays of the builder, mapped or from a stream, without a look *)
(* beyond the mapping; and from a stream no reader takes a file that       *)
(* create_index left unfinished.                                           *)
THEOREM WhatIsWrittenIsRead == FileSpec => ReadsWhatWasWritten
<1>1. ASSUME FileInv, [FileNext]_<<buildervars, filevars>>, mapped' # mapped
      PROVE  ReadsWell
  <2>1. MapIndex \/ ReadIndex
    BY <1>1 DEF FileNext, WriteIndex, filevars
  <2> QED
    BY <1>1, <2>1, FileMapped, FileRead
<1>2. FileInv /\ [FileNext]_<<buildervars, filevars>> =>
        [mapped' # mapped =>
            /\ Complete => /\ Loaded'
                           /\ mapped'.table = Built.table
                           /\ mapped'.da = Built.da
                           /\ mapped'.tail = Built.tail
            /\ Loaded' /\ stream' => Complete]_<<buildervars, filevars>>
  BY <1>1 DEF ReadsWell
<1> QED
  BY <1>2, FileInductive, PTL DEF FileSpec, ReadsWhatWasWritten
=============================================================================
