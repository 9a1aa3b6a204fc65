------------------------- MODULE ConnMachine_proofs -------------------------
(***************************************************************************)
(* A connection, for requests, buffers, replies and limits of any size.    *)
(* The invariants build on one another:                                    *)
(*   BInv     the read buffer: BufferBounds and InputIntact together with  *)
(*            what try_read_network knows between its reads (ReadInv);     *)
(*   StepInv  the place in the stream of requests: InStep;                 *)
(*   OutInv   the bytes sent and the bytes left, together the replies;     *)
(*   MemInv   the memory of a reply: ReplyMemory;                          *)
(*   WaitInv  where the machine stops: WaitingOwesNothing.                 *)
(* The last part shows that the connection implements ReplyStream.         *)
(***************************************************************************)
EXTENDS ConnMachine, FiniteSetTheorems, SequenceTheorems, WellFoundedInduction, TLAPS

-----------------------------------------------------------------------------
(* Induction over the natural numbers for sets, and the functions that a    *)
(* recursive equation determines: Framing defines EndOf that way, and the   *)
(* community modules FlattenSeq.                                            *)

Below == {ss \in Nat \X Nat : ss[1] < ss[2]}

(* A set with 0 and with the successor of each of its numbers has them     *)
(* all: the least number outside of it would have a predecessor in it.     *)
LEMMA SetInduction ==
  ASSUME NEW S, 0 \in S, \A n \in Nat : n \in S => n + 1 \in S
  PROVE  Nat \subseteq S
<1> SUFFICES ASSUME Nat \ S # {} PROVE FALSE
  OBVIOUS
<1>1. PICK x \in Nat \ S : \A y \in Nat \ S : ~(<<y, x>> \in Below)
  <2>1. IsWellFoundedOn(Below, Nat)
    BY NatLessThanWellFounded DEF OpToRel, Below
  <2>2. Nat \ S \subseteq Nat
    OBVIOUS
  <2> QED
    BY ONLY <2>1, <2>2, WFMin, Nat \ S # {}
<1>2. x # 0 /\ x - 1 \in Nat /\ x - 1 < x /\ x = (x - 1) + 1
  OBVIOUS
<1>3. <<x - 1, x>> \in Below
  BY <1>2 DEF Below
<1>4. x - 1 \in S
  BY <1>1, <1>2, <1>3
<1> QED
  BY <1>2, <1>4

(* f goes on from start by one step function per index. *)
StepFunctions(n, D) == [1 .. n -> [D -> D]]

Follows(f, n, D, start, Step) ==
  /\ f \in [0 .. n -> D] /\ f[0] = start
  /\ \A i \in 1 .. n : f[i] = Step[i][f[i - 1]]

(* Step functions can be followed up to any index. *)
LEMMA FunctionByRecursion ==
  ASSUME NEW n \in Nat, NEW D, NEW start \in D, NEW Step \in StepFunctions(n, D)
  PROVE  \E f : Follows(f, n, D, start, Step)
<1> USE DEF StepFunctions
<1> DEFINE Ok(f, m) == f[0] = start /\ \A i \in 1 .. m : f[i] = Step[i][f[i - 1]]
           S == {m \in Nat : m <= n => \E f \in [0 .. m -> D] : Ok(f, m)}
<1>1. 0 \in S
  <2> DEFINE z == [i \in 0 .. 0 |-> start]
  <2>1. z \in [0 .. 0 -> D] /\ z[0] = start
    OBVIOUS
  <2>2. Ok(z, 0)
    BY <2>1
  <2> QED
    BY <2>1, <2>2
<1>2. ASSUME NEW m \in Nat, m \in S PROVE m + 1 \in S
  <2>1. SUFFICES ASSUME m + 1 <= n PROVE \E f \in [0 .. m + 1 -> D] : Ok(f, m + 1)
    <3> HIDE DEF Ok
    <3> QED
      OBVIOUS
  <2>2. PICK f \in [0 .. m -> D] : Ok(f, m)
    <3> HIDE DEF Ok
    <3> QED
      BY <1>2, <2>1
  <2>3. f[m] \in D /\ Step[m + 1] \in [D -> D] /\ Step[m + 1][f[m]] \in D
    BY <2>1
  <2> DEFINE g == [i \in 0 .. m + 1 |-> IF i = m + 1 THEN Step[m + 1][f[m]] ELSE f[i]]
  <2>4. g \in [0 .. m + 1 -> D]
    BY <2>3
  <2>5. g[0] = start /\ \A i \in 0 .. m : g[i] = f[i]
    BY <2>2
  <2>6. ASSUME NEW i \in 1 .. m + 1 PROVE g[i] = Step[i][g[i - 1]]
    <3>1. CASE i = m + 1
      <4>1. g[i] = Step[m + 1][f[m]] /\ g[i - 1] = f[m]
        BY <2>5, <3>1
      <4> QED
        BY <3>1, <4>1
    <3>2. CASE i \in 1 .. m
      BY <2>2, <2>5, <3>2
    <3> QED
      BY <3>1, <3>2
  <2>7. Ok(g, m + 1)
    BY <2>5, <2>6
  <2> HIDE DEF g, Ok
  <2> QED
    BY <2>4, <2>7
<1>3. n \in S
  <2> HIDE DEF S
  <2>1. Nat \subseteq S
    BY <1>1, <1>2, SetInduction
  <2> QED
    BY <2>1
<1>4. PICK f \in [0 .. n -> D] : Ok(f, n)
  <2> HIDE DEF Ok
  <2> QED
    BY <1>3
<1> QED
  BY <1>4 DEF Follows

-----------------------------------------------------------------------------
(* FlattenSeq.  Concatenation is given a name of its own here: its          *)
(* definition by elements is of no use for what follows.                   *)
Joined(a, b) == a \o b

LEMMA JoinedProperties ==
  ASSUME NEW D, NEW a \in Seq(D), NEW b \in Seq(D)
  PROVE  Joined(a, b) \in Seq(D) /\ Joined(a, << >>) = a /\ Joined(<< >>, a) = a
BY ConcatProperties, ConcatEmptySeq DEF Joined

LEMMA JoinedAssociative ==
  ASSUME NEW D, NEW a \in Seq(D), NEW b \in Seq(D), NEW c \in Seq(D)
  PROVE  Joined(Joined(a, b), c) = Joined(a, Joined(b, c))
BY ConcatAssociative DEF Joined

(* f[k] is what the first k sequences of s make together. *)
Flattens(f, s, D) ==
  /\ f \in [0 .. Len(s) -> Seq(D)] /\ f[0] = << >>
  /\ \A i \in 1 .. Len(s) : f[i] = Joined(f[i - 1], s[i])

LEMMA FlattenEquation ==
  ASSUME NEW D, NEW s \in Seq(Seq(D))
  PROVE  \E f : Flattens(f, s, D) /\ FlattenSeq(s) = f[Len(s)]
<1> DEFINE n == Len(s)
           Step == [i \in 1 .. n |-> [x \in Seq(D) |-> Joined(x, s[i])]]
           Def(g) == [i \in 1 .. Len(s) |-> IF i = 1 THEN s[i] ELSE g[i - 1] \o s[i]]
<1>0. n \in Nat /\ \A i \in 1 .. n : s[i] \in Seq(D)
  OBVIOUS
<1>9. /\ \A x \in Seq(D) : Joined(<< >>, x) = x
      /\ \A x, y \in Seq(D) : Joined(x, y) \in Seq(D)
      /\ << >> \in Seq(D)
  <2>1. << >> \in Seq(D)
    OBVIOUS
  <2>2. ASSUME NEW x \in Seq(D), NEW y \in Seq(D)
        PROVE  Joined(x, y) \in Seq(D) /\ Joined(<< >>, x) = x
    BY JoinedProperties
  <2> QED
    BY <2>1, <2>2
<1>1. Step \in StepFunctions(n, Seq(D))
  <2> HIDE DEF n
  <2> QED
    BY <1>0, <1>9 DEF StepFunctions
<1>2. PICK f : Follows(f, n, Seq(D), << >>, Step)
  <2> HIDE DEF Step, n
  <2> QED
    BY ONLY <1>0, <1>1, <1>9, FunctionByRecursion
<1>3. ASSUME NEW i \in 1 .. n
      PROVE  f[i - 1] \in Seq(D) /\ f[i] = Joined(f[i - 1], s[i])
  <2> HIDE DEF n
  <2>1. i - 1 \in 0 .. n
    BY <1>0
  <2>2. f[i - 1] \in Seq(D) /\ f[i] = Step[i][f[i - 1]]
    <3> HIDE DEF Step
    <3> QED
      BY <1>2, <2>1 DEF Follows
  <2> QED
    BY <2>2
<1>4. Flattens(f, s, D)
  <2> HIDE DEF Step
  <2> QED
    BY <1>2, <1>3 DEF Flattens, Follows
<1> HIDE DEF Step
<1>5. CASE n = 0
  <2>1. FlattenSeq(s) = s
    BY <1>5 DEF FlattenSeq
  <2>2. s = << >>
    BY <1>5
  <2>3. f[0] = << >>
    BY <1>4 DEF Flattens
  <2> QED
    BY <1>4, <1>5, <2>1, <2>2, <2>3
<1>6. CASE n # 0
  <2>n. n >= 1
    <3> HIDE DEF n
    <3> QED
      BY <1>0, <1>6
  <2>0. f[1] = s[1]
    <3> HIDE DEF n
    <3>1. 1 \in 1 .. n /\ 1 - 1 = 0
      BY <1>0, <2>n
    <3>2. f[1] = Joined(f[0], s[1])
      BY <1>3, <3>1
    <3>3. f[0] = << >> /\ s[1] \in Seq(D)
      BY <1>0, <1>2, <3>1 DEF Follows
    <3> QED
      BY <1>9, <3>2, <3>3
  <2> DEFINE g == [i \in 1 .. n |-> f[i]]
  <2>1. ASSUME NEW i \in 1 .. n PROVE f[i] = IF i = 1 THEN s[i] ELSE g[i - 1] \o s[i]
    <3> HIDE DEF n
    <3>1. CASE i = 1
      BY <2>0, <3>1
    <3>2. CASE i # 1
      <4>1. i - 1 \in 1 .. n
        BY <1>0, <3>2
      <4>2. g[i - 1] = f[i - 1]
        BY <4>1
      <4>3. f[i] = g[i - 1] \o s[i]
        BY <1>3, <4>2, Zenon DEF Joined
      <4> QED
        BY <3>2, <4>3, Zenon
    <3> QED
      BY <3>1, <3>2
  <2>2. g = Def(g)
    BY <2>1
  <2> DEFINE h == CHOOSE h : h = Def(h)
  <2>3. FlattenSeq(s) = h[Len(s)]
    BY <1>6, Zenon DEF FlattenSeq
  <2>4. h = Def(h)
    <3> HIDE DEF Def, g
    <3> QED
      BY <2>2
  <2> HIDE DEF h, g
  <2>5. ASSUME NEW i \in 1 .. n
        PROVE  h[i] = IF i = 1 THEN s[i] ELSE Joined(h[i - 1], s[i])
    BY <2>4, Zenon DEF Joined
  <2> HIDE DEF n, Def
  <2>6. \A i \in 1 .. n : h[i] = f[i]
    <3> DEFINE S == {m \in Nat : m + 1 <= n => h[m + 1] = f[m + 1]}
    <3>1. 0 \in S
      <4>1. h[1] = s[1]
        BY <1>0, <2>n, <2>5
      <4> QED
        BY <2>0, <4>1
    <3>2. ASSUME NEW m \in Nat, m \in S PROVE m + 1 \in S
      <4> DEFINE j == m + 2
      <4>1. SUFFICES ASSUME j <= n PROVE h[j] = f[j]
        <5>1. j = (m + 1) + 1
          OBVIOUS
        <5> HIDE DEF j
        <5> QED
          BY <5>1
      <4>2. h[m + 1] = f[m + 1]
        BY <1>0, <3>2, <4>1
      <4>3. j \in 1 .. n /\ j - 1 = m + 1 /\ j # 1
        BY <1>0, <4>1
      <4> HIDE DEF j
      <4>4. h[j] = Joined(h[j - 1], s[j])
        BY <2>5, <4>3
      <4>5. f[j] = Joined(f[j - 1], s[j])
        BY <1>3, <4>3
      <4> QED
        BY <4>2, <4>3, <4>4, <4>5
    <3>3. Nat \subseteq S
      <4> HIDE DEF S
      <4> QED
        BY <3>1, <3>2, SetInduction
    <3>4. ASSUME NEW i \in 1 .. n PROVE h[i] = f[i]
      <4>1. i - 1 \in Nat /\ (i - 1) + 1 = i /\ i <= n
        BY <1>0
      <4>2. i - 1 \in S
        BY <3>3, <4>1
      <4> QED
        BY <4>1, <4>2
    <3> QED
      BY <3>4
  <2>7. h[n] = f[n]
    BY <1>0, <2>n, <2>6
  <2> QED
    BY <1>4, <2>3, <2>7 DEF n
<1> QED
  BY <1>5, <1>6

(* What the first sequences make together depends on them alone. *)
StartsWith(t, s) == Len(s) <= Len(t) /\ \A i \in 1 .. Len(s) : s[i] = t[i]

LEMMA FlattensUnique ==
  ASSUME NEW D, NEW s \in Seq(Seq(D)), NEW t \in Seq(Seq(D)), NEW f, NEW g,
         Flattens(f, s, D), Flattens(g, t, D), StartsWith(t, s)
  PROVE  \A i \in 0 .. Len(s) : f[i] = g[i]
<1> DEFINE n == Len(s)
<1>0. n \in Nat /\ Len(t) \in Nat
  OBVIOUS
<1>f. ASSUME NEW i \in 1 .. n
      PROVE  f[i] = Joined(f[i - 1], s[i]) /\ g[i] = Joined(g[i - 1], s[i])
  <2>1. s[i] = t[i] /\ n <= Len(t)
    BY DEF StartsWith
  <2>2. i \in 1 .. Len(t)
    <3> HIDE DEF n
    <3> QED
      BY <1>0, <2>1
  <2> QED
    BY <2>1, <2>2 DEF Flattens
<1>g. f[0] = g[0]
  BY DEF Flattens
<1> HIDE DEF n
<1> DEFINE S == {m \in Nat : m <= n => f[m] = g[m]}
<1>1. 0 \in S
  BY <1>g
<1>2. ASSUME NEW m \in Nat, m \in S PROVE m + 1 \in S
  <2> DEFINE j == m + 1
  <2>1. SUFFICES ASSUME j <= n PROVE f[j] = g[j]
    OBVIOUS
  <2>2. f[m] = g[m] /\ j \in 1 .. n /\ j - 1 = m
    BY <1>0, <1>2, <2>1
  <2> HIDE DEF j
  <2>3. f[j] = Joined(f[j - 1], s[j]) /\ g[j] = Joined(g[j - 1], s[j])
    BY <1>f, <2>2
  <2> QED
    BY <2>2, <2>3
<1>3. Nat \subseteq S
  <2> HIDE DEF S
  <2> QED
    BY <1>1, <1>2, SetInduction
<1>4. \A i \in 0 .. n : f[i] = g[i]
  BY <1>0, <1>3
<1> QED
  BY <1>4 DEF n

LEMMA FlattenType ==
  ASSUME NEW D, NEW s \in Seq(Seq(D))
  PROVE  FlattenSeq(s) \in Seq(D)
<1>1. PICK f : Flattens(f, s, D) /\ FlattenSeq(s) = f[Len(s)]
  BY FlattenEquation
<1>2. Len(s) \in 0 .. Len(s)
  OBVIOUS
<1> QED
  BY <1>1, <1>2 DEF Flattens

LEMMA FlattenEmpty == FlattenSeq(<< >>) = << >>
BY DEF FlattenSeq

LEMMA FlattenConcat ==
  ASSUME NEW D, NEW s \in Seq(Seq(D)), NEW t \in Seq(Seq(D))
  PROVE  FlattenSeq(s \o t) = FlattenSeq(s) \o FlattenSeq(t)
<1> DEFINE u == s \o t
           n == Len(s)
           k == Len(t)
<1>0. /\ n \in Nat /\ k \in Nat /\ Len(u) = n + k
      /\ u \in Seq(Seq(D))
      /\ \A i \in 1 .. n : s[i] = u[i]
  OBVIOUS
<1>t. \A i \in 1 .. k : t[i] \in Seq(D)
  OBVIOUS
<1>u. \A i \in 1 .. k : t[i] = u[n + i]
  BY ConcatProperties
<1> HIDE DEF u
<1>1. PICK f : Flattens(f, s, D) /\ FlattenSeq(s) = f[Len(s)]
  BY FlattenEquation
<1>2. PICK g : Flattens(g, t, D) /\ FlattenSeq(t) = g[Len(t)]
  BY FlattenEquation
<1>3. PICK h : Flattens(h, u, D) /\ FlattenSeq(u) = h[Len(u)]
  BY <1>0, FlattenEquation
<1>g. /\ g[0] = << >> /\ \A i \in 0 .. k : g[i] \in Seq(D)
      /\ \A i \in 1 .. k : g[i] = Joined(g[i - 1], t[i])
  BY <1>2 DEF Flattens
<1>h. \A i \in 1 .. n + k : h[i] = Joined(h[i - 1], u[i])
  BY <1>0, <1>3 DEF Flattens
<1> DEFINE first == f[n]
<1>4. first = h[n] /\ first \in Seq(D)
  <2>1. Len(s) <= Len(u) /\ n \in 0 .. Len(s)
    <3> HIDE DEF n, k
    <3>1. n <= n + k /\ n \in 0 .. n
      BY <1>0
    <3> QED
      BY <1>0, <3>1 DEF n
  <2>2. \A i \in 0 .. Len(s) : f[i] = h[i]
    <3>1. StartsWith(u, s)
      BY <1>0, <2>1 DEF StartsWith
    <3> QED
      BY <1>0, <1>1, <1>3, <3>1, FlattensUnique
  <2>3. f[n] \in Seq(D)
    BY <1>1, <2>1 DEF Flattens
  <2> QED
    BY <2>1, <2>2, <2>3
<1>e. FlattenSeq(s) = first /\ FlattenSeq(t) = g[k] /\ FlattenSeq(u) = h[n + k]
  BY <1>0, <1>1, <1>2, <1>3
<1> HIDE DEF n, k, first
<1> DEFINE S == {m \in Nat : m <= k => h[n + m] = Joined(first, g[m])}
<1>5. 0 \in S
  <2>1. Joined(first, << >>) = first
    BY <1>4, JoinedProperties
  <2>2. n + 0 = n
    BY <1>0
  <2> QED
    BY <1>4, <1>g, <2>1, <2>2
<1>6. ASSUME NEW m \in Nat, m \in S PROVE m + 1 \in S
  <2> DEFINE j == m + 1
             i == n + j
  <2>1. SUFFICES ASSUME j <= k PROVE h[i] = Joined(first, g[j])
    OBVIOUS
  <2>2. n \in Nat /\ k \in Nat /\ m \in Nat /\ j <= k
    BY <1>0, <2>1
  <2>a. h[n + m] = Joined(first, g[m])
    BY <1>6, <2>2
  <2>b. j \in 1 .. k /\ j - 1 = m /\ m \in 0 .. k
    BY ONLY <2>2
  <2>c. i \in 1 .. n + k /\ i - 1 = n + m
    BY ONLY <2>2
  <2>d. i = n + j
    OBVIOUS
  <2> HIDE DEF i, j
  <2>3. h[i] = Joined(h[i - 1], u[i])
    BY <1>h, <2>c
  <2>4. g[j] = Joined(g[j - 1], t[j]) /\ g[m] \in Seq(D)
    BY <1>g, <2>b
  <2>5. u[i] = t[j] /\ t[j] \in Seq(D)
    BY <1>u, <1>t, <2>b, <2>d
  <2>6. Joined(Joined(first, g[m]), t[j]) = Joined(first, Joined(g[m], t[j]))
    BY <1>4, <2>4, <2>5, JoinedAssociative
  <2> QED
    BY <2>a, <2>b, <2>c, <2>3, <2>4, <2>5, <2>6
<1>7. Nat \subseteq S
  <2> HIDE DEF S
  <2> QED
    BY <1>5, <1>6, SetInduction
<1>8. h[n + k] = Joined(first, g[k])
  BY <1>0, <1>7
<1> QED
  BY <1>e, <1>8, Zenon DEF Joined, u

LEMMA FlattenOne ==
  ASSUME NEW D, NEW x \in Seq(D)
  PROVE  FlattenSeq(<<x>>) = x
BY DEF FlattenSeq

LEMMA FlattenAppend ==
  ASSUME NEW D, NEW s \in Seq(Seq(D)), NEW x \in Seq(D)
  PROVE  FlattenSeq(Append(s, x)) = FlattenSeq(s) \o x
<1>1. Append(s, x) = s \o <<x>>
  BY AppendIsConcat
<1>2. <<x>> \in Seq(Seq(D))
  OBVIOUS
<1>3. FlattenSeq(s \o <<x>>) = FlattenSeq(s) \o FlattenSeq(<<x>>)
  BY <1>2, FlattenConcat, Zenon
<1>4. FlattenSeq(<<x>>) = x
  BY FlattenOne
<1> QED
  BY <1>1, <1>3, <1>4, Zenon

LEMMA FlattenPrefix ==
  ASSUME NEW D, NEW s \in Seq(Seq(D)), NEW f, Flattens(f, s, D), NEW k \in 0 .. Len(s)
  PROVE  FlattenSeq(SubSeq(s, 1, k)) = f[k]
<1> DEFINE t == SubSeq(s, 1, k)
<1>1. t \in Seq(Seq(D)) /\ Len(t) = k /\ StartsWith(s, t)
  <2>1. t \in Seq(Seq(D)) /\ Len(t) = k /\ \A i \in 1 .. k : t[i] = s[i]
    BY SubSeqProperties
  <2>2. k <= Len(s)
    OBVIOUS
  <2> HIDE DEF t
  <2> QED
    BY <2>1, <2>2 DEF StartsWith
<1> HIDE DEF t
<1>2. PICK g : Flattens(g, t, D) /\ FlattenSeq(t) = g[Len(t)]
  BY <1>1, FlattenEquation
<1>3. \A i \in 0 .. Len(t) : g[i] = f[i]
  BY <1>1, <1>2, FlattensUnique
<1>4. k \in 0 .. k
  OBVIOUS
<1> QED
  BY <1>1, <1>2, <1>3, <1>4 DEF t

-----------------------------------------------------------------------------
(* Parts of a sequence made of two *)

LEMMA TakeAll ==
  ASSUME NEW D, NEW s \in Seq(D)
  PROVE  SubSeq(s, 1, Len(s)) = s
BY SubSeqFull

LEMMA TakeAndDrop ==
  ASSUME NEW D, NEW s \in Seq(D), NEW p \in 0 .. Len(s)
  PROVE  /\ SubSeq(s, 1, p) \in Seq(D) /\ Len(SubSeq(s, 1, p)) = p
         /\ SubSeq(s, p + 1, Len(s)) \in Seq(D) /\ Len(SubSeq(s, p + 1, Len(s))) = Len(s) - p
         /\ SubSeq(s, 1, p) \o SubSeq(s, p + 1, Len(s)) = s
<1>1. SubSeq(s, 1, p) \in Seq(D) /\ Len(SubSeq(s, 1, p)) = p
  BY SubSeqProperties
<1>2. SubSeq(s, p + 1, Len(s)) \in Seq(D) /\ Len(SubSeq(s, p + 1, Len(s))) = Len(s) - p
  BY SubSeqProperties
<1>3. SubSeq(s, 1, p) \o SubSeq(s, p + 1, Len(s)) = SubSeq(s, 1, Len(s))
  <2>1. /\ 1 \in 1 .. Len(s) + 1 /\ p \in 1 - 1 .. Len(s) /\ Len(s) \in p .. Len(s)
    OBVIOUS
  <2> QED
    BY <2>1, ConcatAdjacentSubSeq
<1> QED
  BY <1>1, <1>2, <1>3, SubSeqFull, Zenon

LEMMA TakeWithin ==
  ASSUME NEW D, NEW a \in Seq(D), NEW b \in Seq(D), NEW p \in 0 .. Len(a)
  PROVE  SubSeq(a \o b, 1, p) = SubSeq(a, 1, p)
<1>1. a \o b \in Seq(D) /\ Len(a \o b) = Len(a) + Len(b)
      /\ \A i \in 1 .. Len(a) : (a \o b)[i] = a[i]
  BY ConcatProperties
<1> QED
  BY <1>1

LEMMA CutMiddle ==
  ASSUME NEW D, NEW s \in Seq(D), NEW a \in 0 .. Len(s), NEW b \in a .. Len(s)
  PROVE  /\ SubSeq(s, a + 1, b) \in Seq(D) /\ Len(SubSeq(s, a + 1, b)) = b - a
         /\ SubSeq(s, b + 1, Len(s)) \in Seq(D) /\ Len(SubSeq(s, b + 1, Len(s))) = Len(s) - b
         /\ SubSeq(s, a + 1, b) \o SubSeq(s, b + 1, Len(s)) = SubSeq(s, a + 1, Len(s))
<1>1. SubSeq(s, a + 1, b) \in Seq(D) /\ Len(SubSeq(s, a + 1, b)) = b - a
  <2>1. a + 1 \in Int /\ b \in Int /\ \A i \in a + 1 .. b : s[i] \in D
    OBVIOUS
  <2>2. b - (a + 1) + 1 = b - a /\ (a + 1 > b => b - a = 0)
    OBVIOUS
  <2> QED
    BY <2>1, <2>2, SubSeqProperties
<1>2. SubSeq(s, b + 1, Len(s)) \in Seq(D) /\ Len(SubSeq(s, b + 1, Len(s))) = Len(s) - b
  BY TakeAndDrop
<1>3. SubSeq(s, a + 1, b) \o SubSeq(s, b + 1, Len(s)) = SubSeq(s, a + 1, Len(s))
  <2> DEFINE m == a + 1
  <2>1. m \in 1 .. Len(s) + 1 /\ b \in m - 1 .. Len(s) /\ Len(s) \in b .. Len(s)
    OBVIOUS
  <2> HIDE DEF m
  <2>2. SubSeq(s, m, b) \o SubSeq(s, b + 1, Len(s)) = SubSeq(s, m, Len(s))
    BY <2>1, ConcatAdjacentSubSeq
  <2> QED
    BY <2>2 DEF m
<1> QED
  BY <1>1, <1>2, <1>3

LEMMA FlattenTwo ==
  ASSUME NEW D, NEW x \in Seq(D), NEW y \in Seq(D)
  PROVE  <<x, y>> \in Seq(Seq(D)) /\ FlattenSeq(<<x, y>>) = x \o y
<1>1. <<x, y>> = Append(<<x>>, y) /\ <<x>> \in Seq(Seq(D)) /\ <<x, y>> \in Seq(Seq(D))
  OBVIOUS
<1>2. FlattenSeq(Append(<<x>>, y)) = FlattenSeq(<<x>>) \o y
  BY <1>1, FlattenAppend
<1>3. FlattenSeq(<<x>>) = x
  BY FlattenOne
<1> QED
  BY <1>1, <1>2, <1>3, Zenon

LEMMA Prepend ==
  ASSUME NEW D, NEW c \in D, NEW r \in Seq(D)
  PROVE  <<c>> \o r = [k \in 1 .. Len(r) + 1 |-> IF k = 1 THEN c ELSE r[k - 1]]
<1> DEFINE n == Len(r)
           g == [k \in 1 .. n + 1 |-> IF k = 1 THEN c ELSE r[k - 1]]
<1>1. <<c>> \in Seq(D) /\ Len(<<c>>) = 1 /\ <<c>>[1] = c
  OBVIOUS
<1>2. /\ <<c>> \o r \in Seq(D) /\ Len(<<c>> \o r) = 1 + n /\ n \in Nat
      /\ \A i \in 1 .. 1 + n : (<<c>> \o r)[i] = IF i <= 1 THEN <<c>>[i] ELSE r[i - 1]
  BY <1>1, ConcatProperties
<1>3. \A i \in 1 .. n : r[i] \in D
  OBVIOUS
<1> HIDE DEF n
<1>4. g \in Seq(D) /\ Len(g) = 1 + n
  <2>1. \A k \in 1 .. n + 1 : (IF k = 1 THEN c ELSE r[k - 1]) \in D
    BY <1>2, <1>3
  <2>2. n + 1 \in Nat /\ n + 1 = 1 + n
    BY <1>2
  <2> QED
    BY <2>1, <2>2
<1>5. \A i \in 1 .. 1 + n : (<<c>> \o r)[i] = g[i]
  BY <1>1, <1>2
<1> HIDE DEF g
<1>6. <<c>> \o r = g
  BY <1>2, <1>4, <1>5, SeqEqual
<1> QED
  BY <1>6 DEF g, n

(* \o is associative, in a form that can be applied to terms with \o.      *)
Associates(D) ==
  \A r \in Seq(D) : \A s \in Seq(D) : \A t \in Seq(D) : (r \o s) \o t = r \o (s \o t)

LEMMA ConcatAssociates == ASSUME NEW D PROVE Associates(D)
BY ConcatAssociative DEF Associates

(* What one cuts from s after a and b is what follows them.                *)
SplitsAt(s, a, b, c, d) ==
  s = (a \o (b \o c)) \o d => s = SubSeq(s, 1, Len(a) + Len(b)) \o (c \o d)

Splits(D) ==
  \A a \in Seq(D) : \A b \in Seq(D) : \A c \in Seq(D) : \A d \in Seq(D) : \A s :
    SplitsAt(s, a, b, c, d)

LEMMA ConcatSplits == ASSUME NEW D PROVE Splits(D)
<1>1. ASSUME NEW a \in Seq(D), NEW b \in Seq(D), NEW c \in Seq(D), NEW d \in Seq(D)
      PROVE  \A s : SplitsAt(s, a, b, c, d)
  <2>1. b \o c \in Seq(D)
    BY ConcatProperties
  <2>9. a \o b \in Seq(D)
    BY ConcatProperties
  <2>10. c \o d \in Seq(D)
    BY ConcatProperties
  <2>2. Associates(D)
    BY ConcatAssociates
  <2>3. (a \o (b \o c)) \o d = a \o ((b \o c) \o d)
    <3>1. \A t \in Seq(D) : (a \o (b \o c)) \o t = a \o ((b \o c) \o t)
      <4>1. \A s \in Seq(D) : \A t \in Seq(D) : (a \o s) \o t = a \o (s \o t)
        BY <2>2, Zenon DEF Associates
      <4> QED
        BY <4>1, <2>1, Zenon
    <3> QED
      BY <3>1, Zenon
  <2>4. (b \o c) \o d = b \o (c \o d)
    BY <2>2, Zenon DEF Associates
  <2>5. (a \o b) \o (c \o d) = a \o (b \o (c \o d))
    BY <2>10, <2>2, Zenon DEF Associates
  <2>6. Len(a \o b) = Len(a) + Len(b)
    BY ConcatProperties
  <2>7. ASSUME NEW u \in Seq(D), NEW w \in Seq(D) PROVE SubSeq(u \o w, 1, Len(u)) = u
    <3>1. Len(u) \in 0 .. Len(u)
      OBVIOUS
    <3>2. SubSeq(u \o w, 1, Len(u)) = SubSeq(u, 1, Len(u))
      BY <3>1, TakeWithin
    <3> QED
      BY <3>2, TakeAll
  <2>8. SubSeq((a \o b) \o (c \o d), 1, Len(a \o b)) = a \o b
    BY <2>9, <2>10, <2>7, Zenon
  <2> QED
    BY <2>3, <2>4, <2>5, <2>6, <2>8, Zenon DEF SplitsAt
<1> QED
  BY <1>1, Zenon DEF Splits

(* What is put in front of a sequence is a prefix of the whole.            *)
LEMMA ConcatIsPrefix ==
  ASSUME NEW D, NEW a \in Seq(D), NEW b \in Seq(D)
  PROVE  IsPrefix(a, a \o b)
<1> DEFINE c == a \o b
<1>1. Len(c) = Len(a) + Len(b) /\ c \in Seq(D) /\ Len(a) \in Nat /\ Len(b) \in Nat
  BY ConcatProperties
<1>2. Len(a) \in 0 .. Len(a)
  BY <1>1
<1>3. SubSeq(c, 1, Len(a)) = SubSeq(a, 1, Len(a))
  BY <1>2, TakeWithin
<1> HIDE DEF c
<1>4. Len(a) <= Len(c)
  <2> DEFINE m == Len(a)
             n == Len(b)
  <2>1. Len(c) = m + n /\ m \in Nat /\ n \in Nat
    BY <1>1
  <2> HIDE DEF m, n
  <2>2. m <= Len(c)
    BY <2>1
  <2> QED
    BY <2>2 DEF m
<1>5. IsPrefix(a, c)
  BY <1>3, <1>4, Zenon DEF IsPrefix
<1> QED
  BY <1>5 DEF c

(* A message whose first part has a byte has one.                          *)
LEMMA FlattenNotEmpty ==
  ASSUME NEW D, NEW s \in Seq(Seq(D)), Len(s) > 0, Len(s[1]) > 0
  PROVE  Len(FlattenSeq(s)) > 0
<1> DEFINE one == SubSeq(s, 1, 1)
           others == SubSeq(s, 1 + 1, Len(s))
<1>1. 1 \in 0 .. Len(s) /\ Len(s) \in Nat /\ s[1] \in Seq(D)
  OBVIOUS
<1>2. one \in Seq(Seq(D)) /\ Len(one) = 1 /\ others \in Seq(Seq(D)) /\ one \o others = s
  BY <1>1, TakeAndDrop
<1>3. one = <<s[1]>>
  <2>1. SubSeq(s, 1, 1)[1] = s[1]
    BY <1>1, SubSeqProperties
  <2> DEFINE x == s[1]
  <2>2. one \in Seq(Seq(D)) /\ Len(one) = 1 /\ one[1] = x /\ x \in Seq(D)
    BY <1>1, <1>2, <2>1
  <2> HIDE DEF one, x
  <2>3. <<x>> \in Seq(Seq(D)) /\ Len(<<x>>) = 1 /\ <<x>>[1] = x
    BY <2>2
  <2>4. \A i \in 1 .. 1 : one[i] = <<x>>[i]
    BY <2>2, <2>3
  <2>5. one = <<x>>
    BY <2>2, <2>3, <2>4, SeqEqual
  <2> QED
    BY <2>5 DEF x
<1> HIDE DEF one, others
<1>4. FlattenSeq(s) = FlattenSeq(one) \o FlattenSeq(others)
  BY <1>2, FlattenConcat, Zenon
<1>5. FlattenSeq(one) = s[1]
  BY <1>1, <1>3, FlattenOne
<1>6. FlattenSeq(others) \in Seq(D)
  BY <1>2, FlattenType
<1> DEFINE r == FlattenSeq(others)
           x == s[1]
<1>7. FlattenSeq(s) = x \o r /\ x \in Seq(D) /\ r \in Seq(D) /\ Len(x) > 0
  BY <1>1, <1>4, <1>5, <1>6, Zenon
<1> HIDE DEF r, x
<1>8. Len(x \o r) = Len(x) + Len(r) /\ Len(x) \in Nat /\ Len(r) \in Nat
  BY <1>7, ConcatProperties
<1>9. Len(x \o r) > 0
  <2> DEFINE m == Len(x)
             n == Len(r)
             t == Len(x \o r)
  <2>1. t = m + n /\ m \in Nat /\ n \in Nat /\ m > 0
    BY <1>7, <1>8, Zenon
  <2> HIDE DEF m, n, t
  <2>2. t > 0
    BY <2>1
  <2> QED
    BY <2>2 DEF t
<1> QED
  BY <1>7, <1>9, Zenon

-----------------------------------------------------------------------------
(* The read buffer. *)

(* Inside try_read_network the unparsed bytes are at the front, and data   *)
(* that were got are there.                                                *)
ReadInv ==
  /\ state = "conn_read" /\ num_allocs >= 0 => rcurr = 0
  /\ num_allocs >= 0 /\ gotdata => rbytes > 0
  /\ num_allocs >= 0 => state = "conn_read"

BInv == BufferTypeOK /\ BufferBounds /\ InputIntact /\ ReadInv

(* The variables of the read buffer's invariant. *)
bvars == <<input, arrived, taken, num_allocs, gotdata, state, write_and_go, input_buffer>>

LEMMA Limits ==
  /\ HeaderLen \in Nat \ {0} /\ DataBufferSize \in Nat \ {0} /\ MaxReallocs \in Nat \ {0}
  /\ StartSizes \subseteq Nat \ {0}
BY HeaderAssumption, SizesAssumption, LimitsAssumption

LEMMA RequestLen ==
  ASSUME BufferTypeOK, NEW i \in 1 .. Len(input)
  PROVE  input[i].bodylen \in Nat
<1>1. input \in Seq(Request)
  BY InputsAssumption DEF BufferTypeOK
<1>2. input[i] \in Request
  BY <1>1
<1> QED
  BY <1>2 DEF Request

LEMMA NsizeIsEnough ==
  ASSUME NEW n, NEW i, IsNsize(n, i)
  PROVE  input[i].bodylen + HeaderLen <= n
BY DEF IsNsize

(* memmove to the front of a buffer of n bytes *)
LEMMA MovedToFront ==
  ASSUME NEW n \in Nat, NEW b \in [0 .. n - 1 -> Nat],
         NEW from \in Nat, NEW len \in Nat, from + len <= n
  PROVE  /\ Moved(b, from, 0, len) \in [0 .. n - 1 -> Nat]
         /\ \A k \in 0 .. len - 1 : Moved(b, from, 0, len)[k] = b[from + k]
BY DEF Moved

LEMMA BInvInit == Init => BInv
<1> SUFFICES ASSUME Init PROVE BInv
  OBVIOUS
<1>1. rsize \in Nat \ {0}
  BY Limits DEF Init
<1>a. rbuf \in [0 .. rsize - 1 -> Nat]
  BY <1>1 DEF Init
<1>b. num_allocs \in -1 .. MaxReallocs /\ gotdata \in BOOLEAN
  <2>1. num_allocs = -1 /\ gotdata = FALSE
    BY DEF Init
  <2>2. MaxReallocs \in Nat
    BY LimitsAssumption
  <2>3. -1 \in -1 .. MaxReallocs
    BY ONLY <2>2
  <2> QED
    BY ONLY <2>1, <2>3
<1>2. BufferTypeOK
  <2>1. input \in Inputs /\ arrived \in Nat /\ taken \in Nat
    BY DEF Init
  <2>2. state \in States /\ write_and_go \in {"conn_new_cmd", "conn_closing"}
    BY DEF Init, States
  <2>3. /\ rcurr \in Nat /\ rbytes \in Nat
        /\ ritem \in Nat /\ rlbytes \in Nat /\ bodylen \in Nat
    BY DEF Init
  <2> QED
    BY <1>1, <1>a, <1>b, <2>1, <2>2, <2>3 DEF BufferTypeOK
<1>3. BufferBounds /\ InputIntact /\ ReadInv
  BY <1>1 DEF Init, BufferBounds, InputIntact, Intact, ReadInv, BytesOfBody, Consumed
<1> QED
  BY <1>2, <1>3 DEF BInv

(* Steps that leave the buffer alone. *)
LEMMA BufferUnchanged ==
  ASSUME BInv, UNCHANGED input_buffer, UNCHANGED <<input, taken>>,
         arrived' \in Nat, num_allocs' \in -1 .. MaxReallocs, gotdata' \in BOOLEAN,
         state' \in States, write_and_go' \in {"conn_new_cmd", "conn_closing"},
         state' = "conn_nread" => state = "conn_nread",
         state' = "conn_parse_cmd" => rbytes > 0,
         ReadInv'
  PROVE  BInv'
<1>1. BufferTypeOK'
  BY DEF BInv, BufferTypeOK, input_buffer
<1>2. BufferBounds'
  BY DEF BInv, BufferBounds, input_buffer
<1>3. InputIntact'
  BY DEF BInv, InputIntact, Intact, Consumed, BytesOfBody, input_buffer
<1> QED
  BY <1>1, <1>2, <1>3 DEF BInv

-----------------------------------------------------------------------------
(* The steps that change the buffer *)

LEMMA StepNewCmd == ASSUME BInv, ConnNewCmd PROVE BInv'
<1> USE DEF BInv, BufferTypeOK
<1>0. /\ rsize \in Nat /\ rbuf \in [0 .. rsize - 1 -> Nat] /\ taken \in Nat
      /\ rcurr \in Nat /\ rbytes \in Nat
  OBVIOUS
<1>1. rcurr + rbytes <= rsize
  BY DEF BufferBounds
<1>2. state' \in {"conn_parse_cmd", "conn_waiting"} /\ (state' = "conn_parse_cmd" => rbytes > 0)
  BY DEF ConnNewCmd
<1>3. num_allocs = -1 /\ num_allocs' = -1
  BY DEF ConnNewCmd, In, ReadInv
<1>4. /\ input' = input /\ arrived' = arrived /\ taken' = taken /\ gotdata' = gotdata
      /\ write_and_go' = write_and_go /\ rbytes' = rbytes /\ ritem' = ritem
      /\ rlbytes' = rlbytes /\ bodylen' = bodylen
  BY DEF ConnNewCmd, client
<1>5. /\ rsize' \in Nat \ {0} /\ rcurr' \in Nat /\ rcurr' + rbytes <= rsize'
      /\ rbuf' \in [0 .. rsize' - 1 -> Nat]
      /\ \A k \in 0 .. rbytes - 1 : rbuf'[rcurr' + k] = rbuf[rcurr + k]
  <2> DEFINE front == Moved(rbuf, rcurr, 0, rbytes)
  <2>1. front \in [0 .. rsize - 1 -> Nat] /\ \A k \in 0 .. rbytes - 1 : front[k] = rbuf[rcurr + k]
    BY <1>0, <1>1 DEF Moved
  <2>2. CASE rsize > HighWat /\ rbytes < DataBufferSize
    <3>1. CASE rbuf' = Resized(front, DataBufferSize) /\ rsize' = DataBufferSize
      <4>1. /\ rbuf' \in [0 .. DataBufferSize - 1 -> Nat]
            /\ \A k \in 0 .. DataBufferSize - 1 : k < rsize => rbuf'[k] = front[k]
        <5> HIDE DEF front
        <5>1. DataBufferSize \in Nat
          BY Limits
        <5> QED
          BY <1>0, <2>1, <3>1, <5>1 DEF Resized
      <4>2. rcurr' = 0
        BY <2>2 DEF ConnNewCmd, ConnShrink
      <4> HIDE DEF front
      <4>3. DataBufferSize \in Nat \ {0} /\ rbytes < DataBufferSize
        BY <2>2, Limits
      <4>4. \A k \in 0 .. rbytes - 1 : rbuf'[k] = rbuf[rcurr + k]
        <5> TAKE k \in 0 .. rbytes - 1
        <5>1. k \in 0 .. DataBufferSize - 1 /\ k < rsize
          BY <1>0, <1>1, <4>3
        <5> QED
          BY <2>1, <4>1, <5>1
      <4> QED
        BY <1>0, <3>1, <4>1, <4>2, <4>3, <4>4
    <3>2. CASE rbuf' = front /\ rsize' = rsize
      <4>1. rcurr' = 0
        BY <2>2 DEF ConnNewCmd, ConnShrink
      <4> HIDE DEF front
      <4> QED
        BY <1>1, <2>1, <3>2, <4>1
    <3> QED
      BY <2>2, <3>1, <3>2 DEF ConnNewCmd, ConnShrink
  <2>3. CASE ~(rsize > HighWat /\ rbytes < DataBufferSize)
    BY <1>1, <2>3 DEF ConnNewCmd, ConnShrink
  <2> QED
    BY <2>2, <2>3
<1>6. BufferTypeOK'
  BY <1>2, <1>3, <1>4, <1>5, Limits DEF States
<1>7. BufferBounds'
  BY <1>2, <1>4, <1>5 DEF BufferBounds
<1>8. InputIntact'
  BY <1>2, <1>4, <1>5 DEF InputIntact, Intact, Consumed
<1>9. ReadInv'
  BY <1>3 DEF ReadInv
<1> QED
  BY <1>6, <1>7, <1>8, <1>9

LEMMA StepTryReadNetwork == ASSUME BInv, TryReadNetwork PROVE BInv'
<1> USE DEF BInv, BufferTypeOK
<1>0. /\ rsize \in Nat /\ rbuf \in [0 .. rsize - 1 -> Nat] /\ taken \in Nat
      /\ rcurr \in Nat /\ rbytes \in Nat
  OBVIOUS
<1>1. rcurr + rbytes <= rsize
  BY DEF BufferBounds
<1>2. /\ rbuf' = Moved(rbuf, rcurr, 0, rbytes) /\ rcurr' = 0
      /\ state = "conn_read" /\ state' = state /\ num_allocs' = 0 /\ gotdata' = FALSE
      /\ input' = input /\ arrived' = arrived /\ taken' = taken
      /\ write_and_go' = write_and_go /\ rsize' = rsize /\ rbytes' = rbytes
      /\ ritem' = ritem /\ rlbytes' = rlbytes /\ bodylen' = bodylen
  BY DEF TryReadNetwork, In, client
<1>3. /\ rbuf' \in [0 .. rsize - 1 -> Nat]
      /\ \A k \in 0 .. rbytes - 1 : rbuf'[k] = rbuf[rcurr + k]
  BY <1>0, <1>1, <1>2 DEF Moved
<1>4. BufferTypeOK'
  <2>1. num_allocs' \in -1 .. MaxReallocs
    BY <1>2, Limits
  <2> QED
    BY <1>2, <1>3, <2>1
<1>5. BufferBounds'
  BY <1>1, <1>2 DEF BufferBounds
<1>6. InputIntact'
  <2>1. \A k \in 0 .. rbytes - 1 : rbuf[rcurr + k] = taken - rbytes + 1 + k
    BY DEF InputIntact, Intact, Consumed
  <2>2. \A k \in 0 .. rbytes - 1 : rbuf'[k] = taken - rbytes + 1 + k
    BY <1>3, <2>1
  <2>3. Intact(rcurr, rbytes, Consumed + 1)'
    <3>1. \A k \in 0 .. rbytes - 1 : 0 + k = k
      BY <1>0
    <3> QED
      BY <1>2, <2>2, <3>1 DEF Intact, Consumed
  <2> QED
    BY <1>2, <2>3 DEF InputIntact
<1>7. ReadInv'
  BY <1>2 DEF ReadInv
<1> QED
  BY <1>4, <1>5, <1>6, <1>7

LEMMA StepEnlarge == ASSUME BInv, Enlarge PROVE BInv'
<1> USE DEF BInv, BufferTypeOK
<1>0. /\ rsize \in Nat /\ rbuf \in [0 .. rsize - 1 -> Nat] /\ taken \in Nat
      /\ rcurr \in Nat /\ rbytes \in Nat
  OBVIOUS
<1>1. rcurr = 0 /\ rbytes <= rsize /\ state = "conn_read" /\ num_allocs \in 0 .. MaxReallocs - 1
  BY Limits DEF BufferBounds, ReadInv, Enlarge, Reading, In
<1>2. /\ rbuf' = Resized(rbuf, 2 * rsize) /\ rsize' = 2 * rsize /\ rcurr' = 0
      /\ state' = state /\ num_allocs' = num_allocs + 1 /\ gotdata' = gotdata
      /\ input' = input /\ arrived' = arrived /\ taken' = taken
      /\ write_and_go' = write_and_go /\ rbytes' = rbytes
      /\ ritem' = ritem /\ rlbytes' = rlbytes /\ bodylen' = bodylen
  BY DEF Enlarge, client
<1>3. /\ rbuf' \in [0 .. rsize' - 1 -> Nat]
      /\ \A k \in 0 .. rsize' - 1 : k < rsize => rbuf'[k] = rbuf[k]
  <2>1. 2 * rsize \in Nat
    BY <1>0
  <2> QED
    BY <1>0, <1>2, <2>1 DEF Resized
<1>4. BufferTypeOK'
  BY <1>1, <1>2, <1>3, Limits
<1>5. BufferBounds'
  BY <1>1, <1>2 DEF BufferBounds
<1>6. InputIntact'
  BY <1>1, <1>2, <1>3 DEF InputIntact, Intact, Consumed
<1>7. ReadInv'
  BY <1>1, <1>2 DEF ReadInv
<1> QED
  BY <1>4, <1>5, <1>6, <1>7

LEMMA StepReadSome == ASSUME BInv, ReadSome PROVE BInv'
<1> USE DEF BInv, BufferTypeOK
<1>0. /\ rsize \in Nat /\ rbuf \in [0 .. rsize - 1 -> Nat] /\ taken \in Nat
      /\ rcurr \in Nat /\ rbytes \in Nat
  OBVIOUS
<1> DEFINE res == Least(rsize - rbytes, Waiting)
<1>1. rcurr = 0 /\ rbytes < rsize /\ state = "conn_read" /\ num_allocs \in 0 .. MaxReallocs
  BY Limits DEF ReadInv, ReadSome, Reading, In
<1>2. /\ rbuf' = Received(rbuf, rbytes, res) /\ rbytes' = rbytes + res /\ taken' = taken + res
      /\ gotdata' = TRUE /\ input' = input /\ arrived' = arrived
      /\ write_and_go' = write_and_go /\ rsize' = rsize /\ rcurr' = rcurr
      /\ ritem' = ritem /\ rlbytes' = rlbytes /\ bodylen' = bodylen
  BY DEF ReadSome, client
<1>3. res \in Nat /\ res > 0 /\ rbytes + res <= rsize
  BY <1>1 DEF ReadSome, Least, Waiting
<1>4. \/ num_allocs' = num_allocs /\ state' = "conn_read"
      \/ num_allocs' = -1 /\ state' = "conn_parse_cmd"
  BY <1>1 DEF ReadSome, ReadReturns
<1> HIDE DEF res
<1>5. /\ rbuf' \in [0 .. rsize - 1 -> Nat]
      /\ \A k \in 0 .. rbytes - 1 : rbuf'[k] = rbuf[k]
      /\ \A k \in rbytes .. rbytes + res - 1 : rbuf'[k] = taken + 1 + k - rbytes
  BY <1>0, <1>2, <1>3 DEF Received
<1>6. BufferTypeOK'
  <2>1. num_allocs' \in -1 .. MaxReallocs /\ state' \in States
    BY <1>1, <1>4, Limits DEF States
  <2> QED
    BY <1>2, <1>3, <1>5, <2>1
<1>7. BufferBounds'
  BY <1>1, <1>2, <1>3, <1>4 DEF BufferBounds
<1>8. InputIntact'
  <2>1. \A k \in 0 .. rbytes - 1 : rbuf[k] = taken - rbytes + 1 + k
    BY <1>1 DEF InputIntact, Intact, Consumed
  <2>2. \A k \in 0 .. rbytes + res - 1 : rbuf'[k] = taken - rbytes + 1 + k
    BY <1>0, <1>3, <1>5, <2>1
  <2> QED
    BY <1>1, <1>2, <1>3, <1>4, <2>2 DEF InputIntact, Intact, Consumed
<1>9. ReadInv'
  BY <1>1, <1>2, <1>3, <1>4 DEF ReadInv
<1> QED
  BY <1>6, <1>7, <1>8, <1>9

LEMMA StepEnlargeFails == ASSUME BInv, EnlargeFails PROVE BInv'
<1> USE DEF BInv, BufferTypeOK
<1>1. /\ rbytes' = 0 /\ num_allocs' = -1 /\ state' = "conn_write"
      /\ write_and_go' = "conn_closing" /\ gotdata' = gotdata
      /\ input' = input /\ arrived' = arrived /\ taken' = taken
      /\ rbuf' = rbuf /\ rsize' = rsize /\ rcurr' = rcurr
      /\ ritem' = ritem /\ rlbytes' = rlbytes /\ bodylen' = bodylen
  BY DEF EnlargeFails, client
<1>2. BufferTypeOK'
  <2>1. num_allocs' \in -1 .. MaxReallocs /\ state' \in States
    BY <1>1, Limits DEF States
  <2> QED
    BY <1>1, <2>1
<1>3. BufferBounds'
  BY <1>1 DEF BufferBounds
<1>4. InputIntact' /\ ReadInv'
  BY <1>1 DEF InputIntact, Intact, ReadInv
<1> QED
  BY <1>2, <1>3, <1>4

(* What all ways to accept a header have in common. *)
HeaderFacts(i) ==
  /\ rsize \in Nat \ {0} /\ rbuf \in [0 .. rsize - 1 -> Nat] /\ taken \in Nat
  /\ rcurr \in Nat /\ rbytes \in Nat /\ rcurr + rbytes <= rsize
  /\ HeaderLen \in Nat \ {0} /\ HeaderLen <= rbytes
  /\ rbytes' = rbytes - HeaderLen
  /\ input[i].bodylen \in Nat
  /\ bodylen' = input[i].bodylen /\ rlbytes' = input[i].bodylen
  /\ \A k \in 0 .. rbytes - 1 : rbuf[rcurr + k] = taken - rbytes + 1 + k
  /\ input' \in Inputs /\ arrived' \in Nat /\ taken' = taken
  /\ num_allocs' = -1 /\ num_allocs' \in -1 .. MaxReallocs /\ gotdata' \in BOOLEAN
  /\ write_and_go' \in {"conn_new_cmd", "conn_closing"} /\ ritem \in Nat

LEMMA Header ==
  ASSUME BInv, NEW i \in 1 .. Len(input), ParseHeader(i)
  PROVE  HeaderFacts(i)
<1> USE DEF BInv, BufferTypeOK
<1>1. input[i].bodylen \in Nat
  BY RequestLen
<1>2. state = "conn_parse_cmd" /\ num_allocs = -1
  BY DEF ParseHeader, In, ReadInv
<1>3. /\ HeaderLen <= rbytes /\ rbytes' = rbytes - HeaderLen
      /\ bodylen' = input[i].bodylen /\ rlbytes' = input[i].bodylen
      /\ input' = input /\ arrived' = arrived /\ taken' = taken
      /\ num_allocs' = num_allocs /\ gotdata' = gotdata /\ write_and_go' = write_and_go
  BY Limits DEF ParseHeader, client, loop
<1>4. rcurr + rbytes <= rsize
  BY DEF BufferBounds
<1>5. \A k \in 0 .. rbytes - 1 : rbuf[rcurr + k] = taken - rbytes + 1 + k
  BY DEF InputIntact, Intact, Consumed
<1> QED
  BY <1>1, <1>2, <1>3, <1>4, <1>5, Limits DEF HeaderFacts

(* A body is expected right behind its header, with room for all of it. *)
LEMMA NreadStarts ==
  ASSUME BInv, NEW i \in 1 .. Len(input), ParseHeader(i),
         state' = "conn_nread", ritem' = rcurr', rcurr' \in Nat,
         rsize' \in Nat \ {0}, rbuf' \in [0 .. rsize' - 1 -> Nat],
         rcurr' + input[i].bodylen <= rsize', rcurr' + rbytes' <= rsize',
         \A k \in 0 .. rbytes - HeaderLen - 1 :
            rbuf'[rcurr' + k] = taken - rbytes + HeaderLen + 1 + k
  PROVE  BInv'
<1>0. HeaderFacts(i)
  BY Header
<1>n. /\ rsize \in Nat /\ rcurr \in Nat /\ rbytes \in Nat /\ rcurr + rbytes <= rsize
      /\ HeaderLen \in Nat /\ HeaderLen <= rbytes /\ rbytes' = rbytes - HeaderLen
      /\ input[i].bodylen \in Nat /\ taken \in Nat /\ taken' = taken
      /\ bodylen' = input[i].bodylen /\ rlbytes' = input[i].bodylen
  BY <1>0 DEF HeaderFacts
<1>m. \A k \in 0 .. rbytes - 1 : rbuf[rcurr + k] = taken - rbytes + 1 + k
  BY <1>0 DEF HeaderFacts
<1>t. /\ input' \in Inputs /\ arrived' \in Nat /\ gotdata' \in BOOLEAN
      /\ num_allocs' = -1 /\ num_allocs' \in -1 .. MaxReallocs
      /\ write_and_go' \in {"conn_new_cmd", "conn_closing"} /\ ritem \in Nat
      /\ rsize \in Nat \ {0} /\ rbuf \in [0 .. rsize - 1 -> Nat]
  BY <1>0 DEF HeaderFacts
<1>1. BufferTypeOK'
  <2>1. rbytes' \in Nat /\ taken' \in Nat /\ rlbytes' \in Nat /\ bodylen' \in Nat
    BY <1>n
  <2>2. state' \in States
    BY DEF States
  <2>3. ritem' \in Nat
    OBVIOUS
  <2> QED
    BY <1>t, <2>1, <2>2, <2>3 DEF BufferTypeOK
<1>2. BufferBounds'
  BY <1>n DEF BufferBounds
<1>3. InputIntact'
  <2>1. Intact(rcurr, rbytes, Consumed + 1)'
    <3>1. \A k \in 0 .. rbytes' - 1 : rbuf'[rcurr' + k] = taken' - rbytes' + 1 + k
      <4> TAKE k \in 0 .. rbytes' - 1
      <4>1. k \in 0 .. rbytes - HeaderLen - 1
        BY <1>n
      <4>2. taken' - rbytes' + 1 + k = taken - rbytes + HeaderLen + 1 + k
        BY <1>n, <4>1
      <4> QED
        BY <4>1, <4>2
    <3>2. (Consumed + 1)' = taken' - rbytes' + 1
      BY DEF Consumed
    <3>3. \A k \in 0 .. rbytes' - 1 : rbuf'[rcurr' + k] = (Consumed + 1)' + k
      BY <3>1, <3>2
    <3> QED
      BY <3>3 DEF Intact
  <2>2. Intact(ritem - BytesOfBody, BytesOfBody, Consumed - BytesOfBody + 1)'
    <3>1. BytesOfBody' = 0
      BY <1>n DEF BytesOfBody
    <3> QED
      BY <3>1 DEF Intact
  <2> QED
    BY <2>1, <2>2 DEF InputIntact
<1>4. ReadInv'
  BY <1>n, <1>t DEF ReadInv
<1> QED
  BY <1>1, <1>2, <1>3, <1>4 DEF BInv

LEMMA StepParseFits ==
  ASSUME BInv, NEW i \in 1 .. Len(input), ParseFits(i) PROVE BInv'
<1>1. ParseHeader(i) /\ input[i].bodylen <= rsize - (rcurr + HeaderLen)
  BY DEF ParseFits, Fits
<1>0. HeaderFacts(i)
  BY <1>1, Header
<1>n. /\ rsize \in Nat /\ rcurr \in Nat /\ rbytes \in Nat /\ rcurr + rbytes <= rsize
      /\ HeaderLen \in Nat /\ HeaderLen <= rbytes /\ rbytes' = rbytes - HeaderLen
      /\ input[i].bodylen \in Nat /\ taken \in Nat /\ taken' = taken
      /\ bodylen' = input[i].bodylen /\ rlbytes' = input[i].bodylen
  BY <1>0 DEF HeaderFacts
<1>m. \A k \in 0 .. rbytes - 1 : rbuf[rcurr + k] = taken - rbytes + 1 + k
  BY <1>0 DEF HeaderFacts
<1>t. /\ input' \in Inputs /\ arrived' \in Nat /\ gotdata' \in BOOLEAN
      /\ num_allocs' = -1 /\ num_allocs' \in -1 .. MaxReallocs
      /\ write_and_go' \in {"conn_new_cmd", "conn_closing"} /\ ritem \in Nat
      /\ rsize \in Nat \ {0} /\ rbuf \in [0 .. rsize - 1 -> Nat]
  BY <1>0 DEF HeaderFacts
<1>2. /\ ritem' = rcurr + HeaderLen /\ rcurr' = rcurr + HeaderLen
      /\ state' = "conn_nread" /\ rbuf' = rbuf /\ rsize' = rsize
  BY DEF ParseFits
<1>3. /\ rcurr' \in Nat /\ rsize' \in Nat \ {0} /\ rbuf' \in [0 .. rsize' - 1 -> Nat]
      /\ rcurr' + input[i].bodylen <= rsize' /\ rcurr' + rbytes' <= rsize'
  BY <1>1, <1>2, <1>n, <1>t
<1>4. \A k \in 0 .. rbytes - HeaderLen - 1 :
         rbuf'[rcurr' + k] = taken - rbytes + HeaderLen + 1 + k
  <2> TAKE k \in 0 .. rbytes - HeaderLen - 1
  <2>1. HeaderLen + k \in 0 .. rbytes - 1
    BY <1>1, <1>n
  <2>2. rbuf[rcurr + (HeaderLen + k)] = taken - rbytes + 1 + (HeaderLen + k)
    BY <1>1, <2>1, <1>n, <1>m
  <2>3. rcurr' + k = rcurr + (HeaderLen + k)
    BY <1>1, <1>2, <1>n
  <2> QED
    BY <1>1, <1>2, <2>2, <2>3, <1>n
<1> QED
  BY <1>1, <1>2, <1>3, <1>4, NreadStarts

LEMMA StepParseMakesRoom ==
  ASSUME BInv, NEW i \in 1 .. Len(input), ParseMakesRoom(i) PROVE BInv'
<1>1. ParseHeader(i) /\ ritem' = HeaderLen /\ rcurr' = HeaderLen /\ state' = "conn_nread"
  BY DEF ParseMakesRoom
<1>0. HeaderFacts(i)
  BY <1>1, Header
<1>n. /\ rsize \in Nat /\ rcurr \in Nat /\ rbytes \in Nat /\ rcurr + rbytes <= rsize
      /\ HeaderLen \in Nat /\ HeaderLen <= rbytes /\ rbytes' = rbytes - HeaderLen
      /\ input[i].bodylen \in Nat /\ taken \in Nat /\ taken' = taken
      /\ bodylen' = input[i].bodylen /\ rlbytes' = input[i].bodylen
  BY <1>0 DEF HeaderFacts
<1>m. \A k \in 0 .. rbytes - 1 : rbuf[rcurr + k] = taken - rbytes + 1 + k
  BY <1>0 DEF HeaderFacts
<1>t. /\ input' \in Inputs /\ arrived' \in Nat /\ gotdata' \in BOOLEAN
      /\ num_allocs' = -1 /\ num_allocs' \in -1 .. MaxReallocs
      /\ write_and_go' \in {"conn_new_cmd", "conn_closing"} /\ ritem \in Nat
      /\ rsize \in Nat \ {0} /\ rbuf \in [0 .. rsize - 1 -> Nat]
  BY <1>0 DEF HeaderFacts
<1>2. PICK n \in rsize .. 2 * (rsize + input[i].bodylen + HeaderLen) :
         /\ IsNsize(n, i)
         /\ rbuf' = Moved(Resized(rbuf, n), rcurr, 0, rbytes) /\ rsize' = n
  BY DEF ParseMakesRoom
<1>3. n \in Nat \ {0} /\ rsize <= n /\ input[i].bodylen + HeaderLen <= n
  BY <1>1, <1>2, <1>n, <1>t, NsizeIsEnough
<1>4. /\ rbuf' \in [0 .. n - 1 -> Nat]
      /\ \A k \in 0 .. rbytes - 1 : rbuf'[k] = rbuf[rcurr + k]
  <2> DEFINE grown == Resized(rbuf, n)
  <2>1. grown \in [0 .. n - 1 -> Nat] /\ \A k \in 0 .. rsize - 1 : grown[k] = rbuf[k]
    <3>1. n \in Nat /\ rsize \in Nat /\ rsize <= n /\ rbuf \in [0 .. rsize - 1 -> Nat]
      BY <1>3, <1>n, <1>t
    <3>2. \A k \in 0 .. rsize - 1 : k \in 0 .. n - 1
      BY <3>1
    <3> QED
      BY ONLY <3>1, <3>2 DEF Resized, grown
  <2>2. rbuf' = Moved(grown, rcurr, 0, rbytes)
    BY <1>2
  <2> HIDE DEF grown
  <2>3. rcurr + rbytes <= n
    BY <1>3, <1>n
  <2>4. /\ rbuf' \in [0 .. n - 1 -> Nat]
        /\ \A k \in 0 .. rbytes - 1 : rbuf'[k] = grown[rcurr + k]
    <3>1. n \in Nat /\ rcurr \in Nat /\ rbytes \in Nat /\ grown \in [0 .. n - 1 -> Nat]
      BY <1>3, <1>n, <2>1
    <3> QED
      BY <2>2, <2>3, <3>1, MovedToFront
  <2>5. \A k \in 0 .. rbytes - 1 : rcurr + k \in 0 .. rsize - 1
    <3>1. rsize \in Nat /\ rcurr \in Nat /\ rbytes \in Nat /\ rcurr + rbytes <= rsize
      BY <1>n
    <3> TAKE k \in 0 .. rbytes - 1
    <3>2. k \in Nat /\ k + 1 <= rbytes
      BY <3>1
    <3> QED
      BY <3>1, <3>2
  <2> QED
    BY <2>1, <2>4, <2>5
<1>5. \A k \in 0 .. rbytes - HeaderLen - 1 :
         rbuf'[rcurr' + k] = taken - rbytes + HeaderLen + 1 + k
  <2> TAKE k \in 0 .. rbytes - HeaderLen - 1
  <2>1. HeaderLen + k \in 0 .. rbytes - 1
    BY <1>1, <1>n
  <2>2. rbuf[rcurr + (HeaderLen + k)] = taken - rbytes + 1 + (HeaderLen + k)
    BY <1>1, <2>1, <1>n, <1>m
  <2>3. rbuf'[HeaderLen + k] = rbuf[rcurr + (HeaderLen + k)]
    BY <1>4, <2>1
  <2>4. rcurr' + k = HeaderLen + k
    BY <1>1
  <2>5. taken - rbytes + 1 + (HeaderLen + k) = taken - rbytes + HeaderLen + 1 + k
    <3>1. taken \in Int /\ rbytes \in Int /\ HeaderLen \in Int /\ k \in Int
      BY <1>n
    <3> QED
      BY ONLY <3>1
  <2> QED
    BY <2>2, <2>3, <2>4, <2>5
<1>6. /\ rcurr' \in Nat /\ rsize' \in Nat \ {0} /\ rbuf' \in [0 .. rsize' - 1 -> Nat]
      /\ rcurr' + input[i].bodylen <= rsize' /\ rcurr' + rbytes' <= rsize'
  <2>0. HeaderLen + rbytes' = rbytes /\ rbytes <= rsize
    BY <1>n
  <2>1. rcurr' \in Nat
    BY <1>1, <1>n
  <2>2. rcurr' + input[i].bodylen <= n
    BY <1>1, <1>3, <1>n
  <2>3. rcurr' + rbytes' <= n
    <3>1. rcurr' + rbytes' = rbytes
      BY <1>1, <2>0
    <3>2. rbytes <= n
      BY <1>3, <1>n
    <3> QED
      BY <3>1, <3>2
  <2> QED
    BY <1>2, <1>3, <1>4, <2>1, <2>2, <2>3
<1> QED
  BY <1>1, <1>5, <1>6, NreadStarts

LEMMA StepParseFindsNoRoom ==
  ASSUME BInv, NEW i \in 1 .. Len(input), ParseFindsNoRoom(i) PROVE BInv'
<1>1. /\ ParseHeader(i) /\ state' = "conn_closing" /\ rcurr' = rcurr + HeaderLen
      /\ rbuf' = rbuf /\ rsize' = rsize /\ ritem' = ritem
  BY DEF ParseFindsNoRoom, Close
<1>0. HeaderFacts(i)
  BY <1>1, Header
<1>n. /\ rsize \in Nat /\ rcurr \in Nat /\ rbytes \in Nat /\ rcurr + rbytes <= rsize
      /\ HeaderLen \in Nat /\ HeaderLen <= rbytes /\ rbytes' = rbytes - HeaderLen
      /\ input[i].bodylen \in Nat /\ taken \in Nat /\ taken' = taken
      /\ bodylen' = input[i].bodylen /\ rlbytes' = input[i].bodylen
  BY <1>0 DEF HeaderFacts
<1>m. \A k \in 0 .. rbytes - 1 : rbuf[rcurr + k] = taken - rbytes + 1 + k
  BY <1>0 DEF HeaderFacts
<1>t. /\ input' \in Inputs /\ arrived' \in Nat /\ gotdata' \in BOOLEAN
      /\ num_allocs' = -1 /\ num_allocs' \in -1 .. MaxReallocs
      /\ write_and_go' \in {"conn_new_cmd", "conn_closing"} /\ ritem \in Nat
      /\ rsize \in Nat \ {0} /\ rbuf \in [0 .. rsize - 1 -> Nat]
  BY <1>0 DEF HeaderFacts
<1>2. BufferTypeOK'
  <2>1. state' \in States /\ rcurr' \in Nat /\ ritem' \in Nat
    BY <1>1, <1>n, <1>t DEF States
  <2> QED
    BY <1>1, <2>1, <1>n, <1>t DEF BufferTypeOK
<1>3. BufferBounds'
  BY <1>1, <1>n DEF BufferBounds
<1>4. InputIntact'
  <2>1. \A k \in 0 .. rbytes' - 1 : rbuf'[rcurr' + k] = taken' - rbytes' + 1 + k
    <3> TAKE k \in 0 .. rbytes' - 1
    <3>1. HeaderLen + k \in 0 .. rbytes - 1
      BY <1>1, <1>n
    <3>2. rbuf[rcurr + (HeaderLen + k)] = taken - rbytes + 1 + (HeaderLen + k)
      BY <1>1, <3>1, <1>n, <1>m
    <3>3. rcurr' + k = rcurr + (HeaderLen + k)
      BY <1>1, <1>n
    <3> QED
      BY <1>1, <3>2, <3>3, <1>n
  <2>2. Consumed' + 1 = taken' - rbytes' + 1
    BY DEF Consumed
  <2> QED
    BY <1>1, <2>1 DEF InputIntact, Intact, Consumed
<1>5. ReadInv'
  BY <1>1, <1>n, <1>t DEF ReadInv
<1> QED
  BY <1>2, <1>3, <1>4, <1>5 DEF BInv

LEMMA StepNreadCopy == ASSUME BInv, NreadCopy PROVE BInv'
<1> USE DEF BInv, BufferTypeOK
<1> DEFINE n == Least(rbytes, rlbytes)
<1>1. /\ state = "conn_nread" /\ rlbytes > 0 /\ rbytes > 0
      /\ ritem = rcurr /\ rcurr + rbytes <= rsize /\ ritem + rlbytes <= rsize
      /\ rlbytes <= bodylen /\ bodylen - rlbytes <= ritem
  BY DEF NreadCopy, In, BufferBounds
<1>2. n \in Nat /\ n <= rbytes /\ n <= rlbytes
  BY <1>1 DEF Least
<1>3. /\ rbuf' = rbuf /\ ritem' = ritem + n /\ rlbytes' = rlbytes - n
      /\ rcurr' = rcurr + n /\ rbytes' = rbytes - n
      /\ input' = input /\ arrived' = arrived /\ taken' = taken
      /\ num_allocs' = num_allocs /\ gotdata' = gotdata /\ state' = state
      /\ write_and_go' = write_and_go /\ rsize' = rsize /\ bodylen' = bodylen
  BY <1>1 DEF NreadCopy, client, loop
<1> HIDE DEF n
<1>4. BufferTypeOK'
  <2>1. /\ ritem' \in Nat /\ rlbytes' \in Nat /\ rcurr' \in Nat /\ rbytes' \in Nat
    BY <1>1, <1>2, <1>3
  <2> QED
    BY <1>3, <2>1
<1>5. BufferBounds'
  BY <1>1, <1>2, <1>3 DEF BufferBounds
<1>6. InputIntact'
  <2>1. /\ \A k \in 0 .. rbytes - 1 : rbuf[rcurr + k] = taken - rbytes + 1 + k
        /\ \A k \in 0 .. bodylen - rlbytes - 1 :
             rbuf[ritem - (bodylen - rlbytes) + k]
               = taken - rbytes - (bodylen - rlbytes) + 1 + k
    BY <1>1 DEF InputIntact, Intact, Consumed, BytesOfBody
  <2>2. \A k \in 0 .. rbytes' - 1 : rbuf'[rcurr' + k] = taken' - rbytes' + 1 + k
    <3> TAKE k \in 0 .. rbytes' - 1
    <3>1. n + k \in 0 .. rbytes - 1
      BY <1>2, <1>3
    <3>2. rbuf[rcurr + (n + k)] = taken - rbytes + 1 + (n + k)
      BY <2>1, <3>1
    <3>3. /\ rcurr' + k = rcurr + (n + k)
          /\ taken' - rbytes' + 1 + k = taken - rbytes + 1 + (n + k)
      BY <1>2, <1>3, <3>1
    <3> QED
      BY <1>3, <3>2, <3>3
  <2>3. \A k \in 0 .. bodylen' - rlbytes' - 1 :
          rbuf'[ritem' - (bodylen' - rlbytes') + k]
            = taken' - rbytes' - (bodylen' - rlbytes') + 1 + k
    <3> TAKE k \in 0 .. bodylen' - rlbytes' - 1
    <3>1. /\ ritem' - (bodylen' - rlbytes') + k = ritem - (bodylen - rlbytes) + k
          /\ taken' - rbytes' - (bodylen' - rlbytes') + 1 + k
               = taken - rbytes - (bodylen - rlbytes) + 1 + k
      BY <1>1, <1>2, <1>3
    <3>2. CASE k \in 0 .. bodylen - rlbytes - 1
      BY <1>3, <2>1, <3>1, <3>2
    <3>3. CASE k >= bodylen - rlbytes
      <4> DEFINE j == k - (bodylen - rlbytes)
      <4>1. j \in 0 .. rbytes - 1
        BY <1>1, <1>2, <1>3, <3>3
      <4>2. rbuf[rcurr + j] = taken - rbytes + 1 + j
        <5> HIDE DEF j
        <5> QED
          BY <2>1, <4>1
      <4>3. /\ rcurr + j = ritem - (bodylen - rlbytes) + k
            /\ taken - rbytes + 1 + j = taken - rbytes - (bodylen - rlbytes) + 1 + k
        BY <1>1, <1>2, <1>3
      <4> HIDE DEF j
      <4> QED
        BY <1>3, <3>1, <4>2, <4>3
    <3> QED
      BY <1>1, <3>2, <3>3
  <2> QED
    BY <2>2, <2>3 DEF InputIntact, Intact, Consumed, BytesOfBody
<1>7. ReadInv'
  BY <1>1, <1>3 DEF ReadInv
<1> QED
  BY <1>4, <1>5, <1>6, <1>7

LEMMA StepNreadRead == ASSUME BInv, NreadRead PROVE BInv'
<1> USE DEF BInv, BufferTypeOK
<1> DEFINE n == Least(rlbytes, Waiting)
<1>1. /\ state = "conn_nread" /\ rlbytes > 0 /\ rbytes = 0
      /\ ritem = rcurr /\ ritem + rlbytes <= rsize
      /\ rlbytes <= bodylen /\ bodylen - rlbytes <= ritem
  BY DEF NreadRead, In, BufferBounds
<1>2. n \in Nat /\ n > 0 /\ n <= rlbytes
  BY <1>1 DEF NreadRead, Least, Waiting
<1>3. /\ rbuf' = Received(rbuf, ritem, n) /\ ritem' = ritem + n /\ rlbytes' = rlbytes - n
      /\ rcurr' = rcurr + n /\ rbytes' = 0 /\ taken' = taken + n
      /\ input' = input /\ arrived' = arrived
      /\ num_allocs' = num_allocs /\ gotdata' = gotdata /\ state' = state
      /\ write_and_go' = write_and_go /\ rsize' = rsize /\ bodylen' = bodylen
  BY <1>1 DEF NreadRead, client, loop
<1> HIDE DEF n
<1>4. /\ rbuf' \in [0 .. rsize - 1 -> Nat]
      /\ \A k \in 0 .. ritem - 1 : rbuf'[k] = rbuf[k]
      /\ \A k \in ritem .. ritem + n - 1 : rbuf'[k] = taken + 1 + k - ritem
  BY <1>1, <1>2, <1>3 DEF Received
<1>5. BufferTypeOK'
  <2>1. /\ ritem' \in Nat /\ rlbytes' \in Nat /\ rcurr' \in Nat /\ rbytes' \in Nat
        /\ taken' \in Nat
    BY <1>1, <1>2, <1>3
  <2> QED
    BY <1>3, <1>4, <2>1
<1>6. BufferBounds'
  BY <1>1, <1>2, <1>3 DEF BufferBounds
<1>7. InputIntact'
  <2>1. \A k \in 0 .. bodylen - rlbytes - 1 :
          rbuf[ritem - (bodylen - rlbytes) + k] = taken - (bodylen - rlbytes) + 1 + k
    <3>1. \A k \in 0 .. bodylen - rlbytes - 1 :
            rbuf[ritem - (bodylen - rlbytes) + k]
              = taken - rbytes - (bodylen - rlbytes) + 1 + k
      BY <1>1 DEF InputIntact, Intact, Consumed, BytesOfBody
    <3>2. taken - rbytes - (bodylen - rlbytes) = taken - (bodylen - rlbytes)
      BY <1>1
    <3> QED
      BY <3>1, <3>2
  <2>2. \A k \in 0 .. bodylen' - rlbytes' - 1 :
          rbuf'[ritem' - (bodylen' - rlbytes') + k]
            = taken' - rbytes' - (bodylen' - rlbytes') + 1 + k
    <3> TAKE k \in 0 .. bodylen' - rlbytes' - 1
    <3> DEFINE p == ritem - (bodylen - rlbytes) + k
    <3>1. /\ ritem' - (bodylen' - rlbytes') + k = p
          /\ taken' - rbytes' - (bodylen' - rlbytes') + 1 + k
               = taken - (bodylen - rlbytes) + 1 + k
      BY <1>1, <1>2, <1>3
    <3>2. CASE k \in 0 .. bodylen - rlbytes - 1
      <4>1. p \in 0 .. ritem - 1
        BY <1>1, <3>2
      <4>2. rbuf'[p] = rbuf[p]
        BY <1>4, <4>1
      <4>3. rbuf[p] = taken - (bodylen - rlbytes) + 1 + k
        BY <2>1, <3>2
      <4> QED
        BY <3>1, <4>2, <4>3
    <3>3. CASE k >= bodylen - rlbytes
      <4>1. p \in ritem .. ritem + n - 1
        BY <1>1, <1>2, <1>3, <3>3
      <4>2. rbuf'[p] = taken + 1 + p - ritem
        BY <1>4, <4>1
      <4>3. taken + 1 + p - ritem = taken - (bodylen - rlbytes) + 1 + k
        BY <1>1, <3>3
      <4> QED
        BY <3>1, <4>2, <4>3
    <3> QED
      BY <1>1, <3>2, <3>3
  <2>3. \A k \in 0 .. rbytes' - 1 : rbuf'[rcurr' + k] = taken' - rbytes' + 1 + k
    BY <1>3
  <2> QED
    BY <2>2, <2>3 DEF InputIntact, Intact, Consumed, BytesOfBody
<1>8. ReadInv'
  BY <1>1, <1>3 DEF ReadInv
<1> QED
  BY <1>5, <1>6, <1>7, <1>8

-----------------------------------------------------------------------------
(* The steps that leave the buffer alone *)

LEMMA StepClient == ASSUME BInv, Client PROVE BInv'
<1>t. /\ arrived \in Nat /\ num_allocs \in -1 .. MaxReallocs /\ gotdata \in BOOLEAN
      /\ state \in States /\ write_and_go \in {"conn_new_cmd", "conn_closing"}
      /\ ReadInv /\ (state = "conn_parse_cmd" => rbytes > 0)
  BY DEF BInv, BufferTypeOK, BufferBounds
<1>1. /\ UNCHANGED input_buffer /\ UNCHANGED <<input, taken>>
      /\ UNCHANGED <<num_allocs, gotdata, state, write_and_go>>
  BY DEF Client, ClientSends, ClientHangsUp, ClientReads, Idle, client, loop
<1>2. arrived' \in Nat
  <2>1. ASSUME NEW n \in 1 .. Total(input), ClientSends(n) PROVE arrived' \in Nat
    <3>1. n \in Nat /\ arrived' = arrived + n
      BY <2>1 DEF ClientSends
    <3> QED
      BY <1>t, <3>1
  <2>2. CASE ClientHangsUp
    BY <1>t, <2>2 DEF ClientHangsUp
  <2>3. ASSUME NEW n \in 1 .. SendCap, ClientReads(n) PROVE arrived' \in Nat
    BY <1>t, <2>3 DEF ClientReads, client
  <2> QED
    BY <2>1, <2>2, <2>3 DEF Client
<1>3. ReadInv'
  BY <1>1, <1>t DEF ReadInv, input_buffer
<1> QED
  BY <1>1, <1>2, <1>3, <1>t, BufferUnchanged

(* Steps that call none of the network functions: the machine goes from    *)
(* one state to another, or stops.                                         *)
LEMMA StepsOfState ==
  ASSUME BInv, UNCHANGED input_buffer, UNCHANGED <<client, taken, num_allocs, gotdata>>,
         state' \in States, write_and_go' \in {"conn_new_cmd", "conn_closing"},
         state' = "conn_nread" => state = "conn_nread",
         state' = "conn_parse_cmd" => state = "conn_parse_cmd",
         state # "conn_read" \/ state' = state,
         state' = "conn_read" => state \in {"conn_read", "conn_waiting"}
  PROVE  BInv'
<1>t. /\ arrived \in Nat /\ num_allocs \in -1 .. MaxReallocs /\ gotdata \in BOOLEAN
      /\ ReadInv /\ (state = "conn_parse_cmd" => rbytes > 0)
  BY DEF BInv, BufferTypeOK, BufferBounds
<1>1. arrived' \in Nat /\ num_allocs' \in -1 .. MaxReallocs /\ gotdata' \in BOOLEAN
  BY <1>t DEF client
<1>2. ReadInv'
  BY <1>t DEF ReadInv, input_buffer
<1> QED
  BY <1>t, <1>1, <1>2, BufferUnchanged DEF client

LEMMA StepReadReturns ==
  ASSUME BInv, EnlargedEnough \/ ReadAgain \/ ReadEnds
  PROVE  BInv'
<1>t. /\ arrived \in Nat /\ gotdata \in BOOLEAN
      /\ write_and_go \in {"conn_new_cmd", "conn_closing"}
      /\ ReadInv
  BY DEF BInv, BufferTypeOK
<1>1. UNCHANGED input_buffer /\ UNCHANGED <<client, taken, gotdata, write_and_go>>
  BY DEF EnlargedEnough, ReadAgain, ReadEnds
<1>2. /\ num_allocs' = -1
      /\ state' \in {"conn_parse_cmd", "conn_waiting", "conn_closing"}
      /\ state' = "conn_parse_cmd" => rbytes > 0
  BY <1>t DEF EnlargedEnough, ReadAgain, ReadEnds, ReadReturns, Reading, ReadInv, Close
<1>3. num_allocs' \in -1 .. MaxReallocs /\ state' \in States
  BY <1>2, Limits DEF States
<1>4. ReadInv'
  BY <1>2 DEF ReadInv
<1> QED
  BY <1>t, <1>1, <1>2, <1>3, <1>4, BufferUnchanged DEF client

(* event_handler, conn_waiting, the yields of conn_new_cmd and conn_close *)
LEMMA StepEvents ==
  ASSUME BInv,
         EventHandler \/ ConnWaiting \/ ConnWaitingFails \/ ConnYields \/ ConnYieldsFails
           \/ ConnClose
  PROVE  BInv'
<1>t. state \in States /\ write_and_go \in {"conn_new_cmd", "conn_closing"}
  BY DEF BInv, BufferTypeOK
<1>1. /\ UNCHANGED input_buffer
      /\ UNCHANGED <<client, taken, num_allocs, gotdata, write_and_go>>
  BY DEF EventHandler, ConnWaiting, ConnWaitingFails, ConnYields, ConnYieldsFails,
         ConnClose, UpdateEventFails, loop
<1>2. \/ state' = state
      \/ state = "conn_waiting" /\ state' \in {"conn_read", "conn_closing"}
      \/ state = "conn_new_cmd" /\ state' = "conn_closing"
      \/ state = "conn_closing" /\ state' = "closed"
  BY DEF EventHandler, ConnWaiting, ConnWaitingFails, ConnYields, ConnYieldsFails,
         ConnClose, UpdateEventFails, In, Close
<1>3. state' \in States
  BY <1>t, <1>2 DEF States
<1> QED
  BY <1>t, <1>1, <1>2, <1>3, StepsOfState

LEMMA StepParseRefuses == ASSUME BInv, ParseNeedsMore \/ ParseBadMagic PROVE BInv'
<1>1. /\ UNCHANGED input_buffer
      /\ UNCHANGED <<client, taken, num_allocs, gotdata, write_and_go>>
      /\ write_and_go \in {"conn_new_cmd", "conn_closing"}
  BY DEF ParseNeedsMore, ParseBadMagic, loop, BInv, BufferTypeOK
<1>2. state = "conn_parse_cmd" /\ state' \in {"conn_waiting", "conn_closing"}
  BY DEF ParseNeedsMore, ParseBadMagic, In, Close
<1>3. state' \in States
  BY <1>2 DEF States
<1> QED
  BY <1>1, <1>2, <1>3, StepsOfState

(* conn_nread when it waits, ends, or has the whole body *)
LEMMA StepNreadLeaves ==
  ASSUME BInv, \/ NreadWaits \/ NreadWaitsFails \/ NreadEnds \/ GetFails
               \/ \E len \in ReplyLens : GetSucceeds(len)
  PROVE  BInv'
<1>1. UNCHANGED input_buffer /\ UNCHANGED <<client, taken, num_allocs, gotdata>>
  BY DEF NreadWaits, NreadWaitsFails, NreadEnds, GetFails, GetSucceeds, CompleteNread,
         UpdateEventFails, loop
<1>2. state = "conn_nread" /\ state' \in {"conn_nread", "conn_closing", "conn_mwrite"}
  BY DEF NreadWaits, NreadWaitsFails, NreadEnds, GetFails, GetSucceeds, CompleteNread,
         BinReply, NreadMustWait, UpdateEventFails, In, Close
<1>3. write_and_go' \in {"conn_new_cmd", "conn_closing"}
  <2>1. write_and_go' = write_and_go \/ write_and_go' = "conn_new_cmd"
    BY DEF NreadWaits, NreadWaitsFails, NreadEnds, GetFails, GetSucceeds, BinReply,
           UpdateEventFails
  <2> QED
    BY <2>1 DEF BInv, BufferTypeOK
<1>4. state' \in States
  BY <1>2 DEF States
<1> QED
  BY <1>1, <1>2, <1>3, <1>4, StepsOfState

(* conn_write and conn_mwrite *)
LEMMA StepWrite == ASSUME BInv, WriteStep PROVE BInv'
<1>t. state \in States /\ write_and_go \in {"conn_new_cmd", "conn_closing"}
  BY DEF BInv, BufferTypeOK
<1> USE DEF WriteStep, Assemble, Transmit, TransmitWaits, TransmitWaitsFails, TransmitFails,
            FreeReply, ReplyDone, LineDone
<1>1. /\ UNCHANGED input_buffer
      /\ UNCHANGED <<client, taken, num_allocs, gotdata, write_and_go>>
  BY DEF UpdateEventFails, loop
<1>2. /\ state \in {"conn_write", "conn_mwrite"}
      /\ state' \in {state, "conn_closing", "conn_new_cmd", write_and_go}
  BY DEF Transmitting, Transmitted, Writing, UpdateEventFails, In, Close
<1>3. state' \in States
  BY <1>t, <1>2 DEF States
<1> QED
  BY <1>t, <1>1, <1>2, <1>3, StepsOfState

-----------------------------------------------------------------------------
LEMMA BInvStep == BInv /\ [Next]_vars => BInv'
<1> SUFFICES ASSUME BInv, [Next]_vars PROVE BInv'
  OBVIOUS
<1>1. CASE Client
  BY <1>1, StepClient
<1>2. CASE EventHandler \/ ConnWaiting \/ ConnWaitingFails \/ ConnYields \/ ConnYieldsFails
             \/ ConnClose
  BY <1>2, StepEvents
<1>3. CASE ConnNewCmd
  BY <1>3, StepNewCmd
<1>4. CASE TryReadStep
  BY <1>4, StepTryReadNetwork, StepEnlarge, StepEnlargeFails, StepReadSome, StepReadReturns
     DEF TryReadStep
<1>5. CASE ParseStep
  BY <1>5, StepParseRefuses, StepParseFits, StepParseMakesRoom, StepParseFindsNoRoom
     DEF ParseStep
<1>6. CASE NreadStep
  BY <1>6, StepNreadCopy, StepNreadRead, StepNreadLeaves DEF NreadStep
<1>7. CASE WriteStep
  BY <1>7, StepWrite
<1>8. CASE UNCHANGED vars
  <2>1. UNCHANGED bvars
    BY <1>8 DEF vars, bvars, client, loop
  <2> QED
    BY <2>1 DEF bvars, input_buffer, BInv, BufferTypeOK, BufferBounds, InputIntact, Intact,
                Consumed, BytesOfBody, ReadInv
<1> QED
  BY <1>1, <1>2, <1>3, <1>4, <1>5, <1>6, <1>7, <1>8 DEF Next, DriveMachine

(* The values of the read buffer's variables have their types. *)
THEOREM BufferTypeIsInvariant == Spec => []BufferTypeOK
<1>1. BInv => BufferTypeOK
  BY DEF BInv
<1> QED
  BY BInvInit, BInvStep, <1>1, PTL DEF Spec

(* Whatever the requests, the sizes of the buffer and the limits are, and  *)
(* however the bytes arrive: drive_machine reads, moves and writes inside  *)
(* the read buffer only, and parses a command only when bytes are there.   *)
THEOREM BuffersAreInBounds == Spec => []BufferBounds
<1>1. BInv => BufferBounds
  BY DEF BInv
<1> QED
  BY BInvInit, BInvStep, <1>1, PTL DEF Spec

(* Under the same conditions the read buffer holds the bytes of the client *)
(* that are not parsed yet, and those of the body being read, complete and *)
(* in order.                                                               *)
THEOREM InputStaysIntact == Spec => []InputIntact
<1>1. BInv => InputIntact
  BY DEF BInv
<1> QED
  BY BInvInit, BInvStep, <1>1, PTL DEF Spec

-----------------------------------------------------------------------------
(* The positions where the requests end *)

LEMMA RequestLens ==
  ASSUME NEW s \in Seq(Request)
  PROVE  /\ Len(s) \in Nat /\ HeaderLen \in Nat \ {0}
         /\ \A i \in 1 .. Len(s) : s[i].bodylen \in Nat
<1>1. \A i \in 1 .. Len(s) : s[i] \in Request
  OBVIOUS
<1>2. \A r \in Request : r.bodylen \in Nat
  BY DEF Request
<1> QED
  BY <1>1, <1>2, HeaderAssumption

LEMMA EndOfEquation ==
  ASSUME NEW s \in Seq(Request)
  PROVE  /\ EndOf(s) \in [0 .. Len(s) -> Nat] /\ EndOf(s)[0] = 0
         /\ \A i \in 1 .. Len(s) : EndOf(s)[i] = EndOf(s)[i - 1] + HeaderLen + s[i].bodylen
<1>0. /\ Len(s) \in Nat /\ HeaderLen \in Nat
      /\ \A i \in 1 .. Len(s) : s[i].bodylen \in Nat
  BY RequestLens
<1> DEFINE Step == [i \in 1 .. Len(s) |-> [x \in Nat |-> x + HeaderLen + s[i].bodylen]]
           Def(g) == [i \in 0 .. Len(s) |->
                        IF i = 0 THEN 0 ELSE g[i - 1] + HeaderLen + s[i].bodylen]
<1>1. Step \in [1 .. Len(s) -> [Nat -> Nat]]
  BY <1>0
<1>2. PICK f : Follows(f, Len(s), Nat, 0, Step)
  <2> HIDE DEF Step
  <2>1. Len(s) \in Nat /\ 0 \in Nat /\ Step \in StepFunctions(Len(s), Nat)
    BY <1>0, <1>1 DEF StepFunctions
  <2> QED
    BY ONLY <2>1, FunctionByRecursion
<1>3. f = Def(f)
  <2>1. \A i \in 1 .. Len(s) : f[i] = f[i - 1] + HeaderLen + s[i].bodylen
    <3> TAKE i \in 1 .. Len(s)
    <3>1. f[i] = Step[i][f[i - 1]]
      BY <1>2 DEF Follows
    <3>2. i - 1 \in 0 .. Len(s)
      BY <1>0
    <3>3. f[i - 1] \in Nat
      BY <1>2, <3>2 DEF Follows
    <3> QED
      BY <3>1, <3>3
  <2> HIDE DEF Step
  <2> QED
    BY <1>0, <1>2, <2>1 DEF Follows
<1>4. EndOf(s) = CHOOSE g : g = Def(g)
  BY Zenon DEF EndOf
<1>5. EndOf(s) = Def(EndOf(s))
  <2> HIDE DEF Def
  <2> QED
    BY <1>3, <1>4
<1>6. EndOf(s)[0] = 0
  BY <1>0, <1>5
<1>7. ASSUME NEW i \in 1 .. Len(s)
      PROVE  EndOf(s)[i] = EndOf(s)[i - 1] + HeaderLen + s[i].bodylen
  BY <1>0, <1>5
<1>8. \A i \in 0 .. Len(s) : EndOf(s)[i] \in Nat
  <2> DEFINE S == {m \in Nat : m <= Len(s) => EndOf(s)[m] \in Nat}
  <2>1. 0 \in S
    BY <1>6
  <2>2. ASSUME NEW m \in Nat, m \in S PROVE m + 1 \in S
    <3> SUFFICES ASSUME m + 1 <= Len(s) PROVE EndOf(s)[m + 1] \in Nat
      OBVIOUS
    <3>1. EndOf(s)[m] \in Nat /\ m + 1 \in 1 .. Len(s)
      BY <1>0, <2>2
    <3>2. EndOf(s)[m + 1] = EndOf(s)[m] + HeaderLen + s[m + 1].bodylen
      BY <1>7, <3>1
    <3> QED
      BY <1>0, <3>1, <3>2
  <2>3. Nat \subseteq S
    <3> HIDE DEF S
    <3> QED
      BY <2>1, <2>2, SetInduction
  <2> QED
    BY <1>0, <2>3
<1>9. EndOf(s) \in [0 .. Len(s) -> Nat]
  BY <1>5, <1>8
<1> QED
  BY <1>6, <1>7, <1>9

LEMMA EndOfIncreases ==
  ASSUME NEW s \in Seq(Request), NEW i \in 0 .. Len(s), NEW j \in 0 .. Len(s), i < j
  PROVE  EndOf(s)[i] < EndOf(s)[j]
<1>0. /\ Len(s) \in Nat /\ HeaderLen \in Nat \ {0}
      /\ \A k \in 1 .. Len(s) : s[k].bodylen \in Nat
  BY RequestLens
<1>e. \A k \in 0 .. Len(s) : EndOf(s)[k] \in Nat
  BY EndOfEquation
<1>1. \A k \in 1 .. Len(s) : EndOf(s)[k - 1] < EndOf(s)[k]
  <2> TAKE k \in 1 .. Len(s)
  <2>1. EndOf(s)[k] = EndOf(s)[k - 1] + HeaderLen + s[k].bodylen
    BY EndOfEquation
  <2>2. EndOf(s)[k - 1] \in Nat
    BY <1>0, <1>e
  <2> QED
    BY <1>0, <2>1, <2>2
<1> DEFINE S == {m \in Nat : i + 1 + m <= Len(s) => EndOf(s)[i] < EndOf(s)[i + 1 + m]}
<1>2. 0 \in S
  <2>1. i + 1 <= Len(s) => i + 1 \in 1 .. Len(s)
    BY <1>0
  <2> QED
    BY <1>1, <2>1
<1>3. ASSUME NEW m \in Nat, m \in S PROVE m + 1 \in S
  <2> SUFFICES ASSUME i + 1 + (m + 1) <= Len(s)
               PROVE  EndOf(s)[i] < EndOf(s)[i + 1 + (m + 1)]
    OBVIOUS
  <2>1. EndOf(s)[i] < EndOf(s)[i + 1 + m]
    BY <1>0, <1>3
  <2>2. i + 1 + (m + 1) \in 1 .. Len(s) /\ i + 1 + (m + 1) - 1 = i + 1 + m
    BY <1>0
  <2>3. EndOf(s)[i + 1 + m] < EndOf(s)[i + 1 + (m + 1)]
    BY <1>1, <2>2
  <2>4. /\ EndOf(s)[i] \in Nat /\ EndOf(s)[i + 1 + m] \in Nat
        /\ EndOf(s)[i + 1 + (m + 1)] \in Nat
    BY <1>0, <1>e, <2>2
  <2> QED
    BY <2>1, <2>3, <2>4
<1>4. Nat \subseteq S
  <2> HIDE DEF S
  <2> QED
    BY <1>2, <1>3, SetInduction
<1>5. j - i - 1 \in Nat /\ i + 1 + (j - i - 1) = j
  BY <1>0
<1>6. j - i - 1 \in S
  BY <1>4, <1>5
<1> QED
  BY <1>0, <1>5, <1>6

(* Two requests that end at the same place are the same. *)
LEMMA EndOfTellsRequests ==
  ASSUME NEW s \in Seq(Request), NEW i \in 0 .. Len(s), NEW j \in 0 .. Len(s),
         EndOf(s)[i] = EndOf(s)[j]
  PROVE  i = j
<1>1. EndOf(s)[i] \in Nat /\ EndOf(s)[j] \in Nat /\ i \in Nat /\ j \in Nat
  BY EndOfEquation
<1>2. ~(i < j) /\ ~(j < i)
  BY <1>1, EndOfIncreases
<1> QED
  BY <1>1, <1>2

-----------------------------------------------------------------------------
(* The place in the stream of requests *)

(* The machine between two requests, in InStep. *)
Between == {"conn_new_cmd", "conn_waiting", "conn_read", "conn_parse_cmd", "conn_mwrite"}

(* InStep, with what it rests on: a body is read only for a request that   *)
(* the client sends, and a line is written only before the connection is   *)
(* closed.                                                                 *)
StepInv ==
  /\ evaluated \in Seq(Seq(Nat)) /\ Len(evaluated) <= Len(input)
  /\ state = "conn_nread" => Len(evaluated) < Len(input)
  /\ state = "conn_write" => write_and_go = "conn_closing"
  /\ InStep

LEMMA InputIsRequests == ASSUME BInv PROVE input \in Seq(Request) /\ Len(input) \in Nat
BY InputsAssumption DEF BInv, BufferTypeOK

LEMMA StepInvInit == Init => StepInv
<1> SUFFICES ASSUME Init PROVE StepInv
  OBVIOUS
<1>1. input \in Seq(Request) /\ evaluated = << >> /\ state = "conn_new_cmd" /\ Consumed = 0
  BY InputsAssumption DEF Init, Consumed
<1>2. EndOf(input)[0] = 0
  BY <1>1, EndOfEquation
<1> QED
  BY <1>1, <1>2 DEF StepInv, InStep

(* Steps that consume nothing and read no body. *)
LEMMA StepInvKept ==
  ASSUME StepInv, UNCHANGED <<input, evaluated>>,
         state' \in Between => state \in Between /\ Consumed' = Consumed,
         state' = "conn_nread" => state = "conn_nread" /\ Consumed' = Consumed
                                    /\ UNCHANGED <<bodylen, rlbytes>>,
         state' = "conn_write" => write_and_go' = "conn_closing"
  PROVE  StepInv'
<1>1. InStep'
  BY DEF StepInv, InStep, Between, BytesOfBody
<1> QED
  BY <1>1 DEF StepInv

LEMMA StepInvOutside ==
  ASSUME BInv, StepInv,
         Client \/ EventHandler \/ ConnWaiting \/ ConnWaitingFails \/ ConnNewCmd
           \/ ConnYields \/ ConnYieldsFails \/ ConnClose
  PROVE  StepInv'
<1>1. UNCHANGED <<input, evaluated, taken, rbytes, bodylen, rlbytes, write_and_go>>
  BY DEF Client, ClientSends, ClientHangsUp, ClientReads, Idle, EventHandler, ConnWaiting,
         ConnWaitingFails, UpdateEventFails, ConnNewCmd, ConnYields, ConnYieldsFails,
         ConnClose, client, input_buffer, history
<1>2. \/ state' = state
      \/ state \in Between /\ state' \in Between
      \/ state' \in {"conn_closing", "closed"}
  BY DEF Client, ClientSends, ClientHangsUp, ClientReads, Idle, EventHandler, ConnWaiting,
         ConnWaitingFails, UpdateEventFails, ConnNewCmd, ConnYields, ConnYieldsFails,
         ConnClose, In, Close, Between
<1>3. Consumed' = Consumed
  BY <1>1 DEF Consumed
<1>4. state' = "conn_write" => write_and_go' = "conn_closing"
  BY <1>1, <1>2 DEF StepInv, Between
<1> QED
  BY <1>1, <1>2, <1>3, <1>4, StepInvKept DEF Between

LEMMA StepInvRead == ASSUME BInv, StepInv, TryReadStep PROVE StepInv'
<1>1. UNCHANGED <<input, evaluated>> /\ state = "conn_read"
  BY DEF TryReadStep, TryReadNetwork, Enlarge, EnlargeFails, EnlargedEnough, ReadSome,
         ReadAgain, ReadEnds, Reading, In, client, history
<1>2. CASE EnlargeFails
  <2>1. state' = "conn_write" /\ write_and_go' = "conn_closing"
    BY <1>2 DEF EnlargeFails
  <2> QED
    BY <1>1, <2>1, StepInvKept DEF Between
<1>3. CASE ReadSome
  <2>1. state' \in {"conn_read", "conn_parse_cmd"}
    BY <1>1, <1>3 DEF ReadSome, ReadReturns
  <2>2. Consumed' = Consumed
    <3> DEFINE n == Least(rsize - rbytes, Waiting)
    <3>1. rbytes' = rbytes + n /\ taken' = taken + n
      BY <1>3 DEF ReadSome
    <3>2. n \in Int /\ rbytes \in Int /\ taken \in Int
      BY DEF BInv, BufferTypeOK, Least, Waiting
    <3> HIDE DEF n
    <3> QED
      BY <3>1, <3>2 DEF Consumed
  <2> QED
    BY <1>1, <2>1, <2>2, StepInvKept DEF Between
<1>4. CASE ~EnlargeFails /\ ~ReadSome
  <2>1. UNCHANGED <<taken, rbytes>>
    BY <1>4 DEF TryReadStep, TryReadNetwork, Enlarge, EnlargedEnough, ReadAgain, ReadEnds,
                input_buffer
  <2>2. state' \in {"conn_read", "conn_parse_cmd", "conn_waiting", "conn_closing"}
    BY <1>1, <1>4 DEF TryReadStep, TryReadNetwork, Enlarge, EnlargedEnough, ReadAgain,
                      ReadEnds, ReadReturns, Close
  <2>3. Consumed' = Consumed
    BY <2>1 DEF Consumed
  <2> QED
    BY <1>1, <2>2, <2>3, StepInvKept DEF Between
<1> QED
  BY <1>2, <1>3, <1>4

(* A header is found only where the next request begins. *)
LEMMA HeaderOfNext ==
  ASSUME BInv, StepInv, NEW i \in 1 .. Len(input), ParseHeader(i)
  PROVE  i = Len(evaluated) + 1
<1>1. HeaderFacts(i) /\ input \in Seq(Request) /\ Len(input) \in Nat
  BY Header, InputIsRequests
<1>2. /\ rcurr \in Nat /\ rbytes \in Nat /\ taken \in Nat
      /\ HeaderLen \in Nat \ {0} /\ HeaderLen <= rbytes
      /\ \A k \in 0 .. rbytes - 1 : rbuf[rcurr + k] = taken - rbytes + 1 + k
  BY <1>1 DEF HeaderFacts
<1>3. rbuf[rcurr + 0] = taken - rbytes + 1 + 0
  BY <1>2
<1>4. rbuf[rcurr + 0] = EndOf(input)[i - 1] + 1 + 0
  BY <1>2 DEF ParseHeader, Headers, IsHeader
<1>5. taken - rbytes = EndOf(input)[Len(evaluated)]
  BY DEF StepInv, InStep, ParseHeader, In, Consumed
<1>6. Len(evaluated) \in 0 .. Len(input) /\ i - 1 \in 0 .. Len(input)
  BY <1>1 DEF StepInv
<1>7. EndOf(input)[i - 1] \in Nat /\ EndOf(input)[Len(evaluated)] \in Nat
  BY <1>1, <1>6, EndOfEquation
<1>8. EndOf(input)[i - 1] = EndOf(input)[Len(evaluated)]
  BY <1>2, <1>3, <1>4, <1>5, <1>7
<1>9. i - 1 = Len(evaluated)
  BY <1>1, <1>6, <1>8, EndOfTellsRequests
<1> QED
  BY <1>9

LEMMA StepInvParse == ASSUME BInv, StepInv, ParseStep PROVE StepInv'
<1>1. CASE ParseNeedsMore \/ ParseBadMagic
  <2>1. /\ UNCHANGED <<input, evaluated, taken, rbytes>> /\ state \in Between
        /\ state' \in {"conn_waiting", "conn_closing"}
    BY <1>1 DEF ParseNeedsMore, ParseBadMagic, In, Close, Between, client, history,
                input_buffer
  <2>2. Consumed' = Consumed
    BY <2>1 DEF Consumed
  <2> QED
    BY <2>1, <2>2, StepInvKept DEF Between
<1>2. ASSUME NEW i \in 1 .. Len(input), ParseFits(i) \/ ParseMakesRoom(i)
      PROVE  StepInv'
  <2>1. ParseHeader(i) /\ state' = "conn_nread"
    BY <1>2 DEF ParseFits, ParseMakesRoom
  <2>2. i = Len(evaluated) + 1 /\ HeaderFacts(i)
    BY <2>1, Header, HeaderOfNext
  <2>3. UNCHANGED <<input, evaluated>>
    BY <2>1 DEF ParseHeader, client, history
  <2>4. Consumed = EndOf(input)[Len(evaluated)]
    BY <2>1 DEF StepInv, InStep, ParseHeader, In
  <2>5. /\ taken \in Nat /\ rbytes \in Nat /\ HeaderLen \in Nat
        /\ input[i].bodylen \in Nat /\ taken' = taken /\ rbytes' = rbytes - HeaderLen
        /\ bodylen' = input[i].bodylen /\ rlbytes' = input[i].bodylen
    BY <2>2 DEF HeaderFacts
  <2>6. Consumed' = EndOf(input)[Len(evaluated)] + HeaderLen + BytesOfBody'
    BY <2>4, <2>5 DEF Consumed, BytesOfBody
  <2>7. Len(evaluated) < Len(input)
    BY <2>2 DEF StepInv
  <2>8. InStep'
    BY <2>1, <2>2, <2>3, <2>5, <2>6 DEF InStep
  <2> QED
    BY <2>1, <2>3, <2>7, <2>8 DEF StepInv
<1>3. ASSUME NEW i \in 1 .. Len(input), ParseFindsNoRoom(i) PROVE StepInv'
  <2>1. UNCHANGED <<input, evaluated>> /\ state' = "conn_closing"
    BY <1>3 DEF ParseFindsNoRoom, ParseHeader, Close, client, history
  <2> QED
    BY <2>1, StepInvKept DEF Between
<1> QED
  BY <1>1, <1>2, <1>3 DEF ParseStep

(* The bytes of the body are those that the read buffer got for it. *)
LEMMA StepInvBody == ASSUME BInv, StepInv, NreadCopy \/ NreadRead PROVE StepInv'
<1>0. /\ rbytes \in Nat /\ taken \in Nat /\ rlbytes \in Nat /\ bodylen \in Nat
      /\ arrived \in Nat /\ HeaderLen \in Nat
      /\ EndOf(input)[Len(evaluated)] \in Nat
  <2>1. Len(evaluated) \in 0 .. Len(input) /\ input \in Seq(Request)
    BY InputIsRequests DEF StepInv
  <2> QED
    BY <2>1, Limits, EndOfEquation DEF BInv, BufferTypeOK
<1>1. /\ UNCHANGED <<input, evaluated, bodylen, state>> /\ state = "conn_nread"
  BY DEF NreadCopy, NreadRead, In, client, history
<1>2. Consumed' - Consumed = BytesOfBody' - BytesOfBody
  <2>1. CASE NreadCopy
    <3>1. Least(rbytes, rlbytes) \in Nat
      BY <1>0 DEF Least
    <3>2. /\ rlbytes' = rlbytes - Least(rbytes, rlbytes)
          /\ rbytes' = rbytes - Least(rbytes, rlbytes) /\ taken' = taken
      BY <2>1 DEF NreadCopy
    <3> QED
      BY <1>0, <1>1, <3>1, <3>2 DEF Consumed, BytesOfBody
  <2>2. CASE NreadRead
    <3>1. Least(rlbytes, Waiting) \in Int
      BY <1>0 DEF Least, Waiting
    <3>2. /\ rlbytes' = rlbytes - Least(rlbytes, Waiting)
          /\ taken' = taken + Least(rlbytes, Waiting) /\ rbytes' = rbytes
      BY <2>2 DEF NreadRead
    <3> QED
      BY <1>0, <1>1, <3>1, <3>2 DEF Consumed, BytesOfBody
  <2> QED
    BY <2>1, <2>2
<1>3. BytesOfBody \in Int /\ BytesOfBody' \in Int /\ Consumed \in Int /\ Consumed' \in Int
  <2>1. rlbytes' \in Int /\ rbytes' \in Int /\ taken' \in Int
    BY <1>0 DEF NreadCopy, NreadRead, Least, Waiting
  <2> QED
    BY <1>0, <1>1, <2>1 DEF BytesOfBody, Consumed
<1>4. /\ Consumed = EndOf(input)[Len(evaluated)] + HeaderLen + BytesOfBody
      /\ bodylen = input[Len(evaluated) + 1].bodylen
  BY <1>1 DEF StepInv, InStep
<1>5. Consumed' = EndOf(input)[Len(evaluated)] + HeaderLen + BytesOfBody'
  <2>1. EndOf(input)[Len(evaluated)] + HeaderLen \in Int
    BY <1>0
  <2>2. Consumed = EndOf(input)[Len(evaluated)] + HeaderLen + BytesOfBody
    BY <1>4
  <2> QED
    BY ONLY <1>2, <1>3, <2>1, <2>2
<1>6. InStep'
  BY <1>1, <1>4, <1>5 DEF InStep
<1> QED
  BY <1>1, <1>6 DEF StepInv

(* complete_nread evaluates the body of the next request, byte for byte.   *)
LEMMA EvaluatesTheBody ==
  ASSUME BInv, StepInv, CompleteNread
  PROVE  /\ evaluated' = Append(evaluated, Body(input, Len(evaluated) + 1))
         /\ Len(evaluated) < Len(input) /\ input' = input
         /\ Body(input, Len(evaluated) + 1) \in Seq(Nat)
         /\ Consumed' = EndOf(input)[Len(evaluated) + 1]
<1> DEFINE i == Len(evaluated) + 1
           start == EndOf(input)[i - 1] + HeaderLen
<1>1. input \in Seq(Request) /\ Len(input) \in Nat /\ Len(evaluated) \in Nat
  BY InputIsRequests DEF StepInv
<1>2. state = "conn_nread" /\ rlbytes = 0 /\ UNCHANGED <<input, taken, rbytes>>
  BY DEF CompleteNread, In, client, input_buffer
<1>3. i \in 1 .. Len(input) /\ i - 1 \in 0 .. Len(input) /\ i - 1 = Len(evaluated)
  BY <1>1, <1>2 DEF StepInv
<1>4. EndOf(input)[i - 1] \in Nat /\ HeaderLen \in Nat
      /\ EndOf(input)[i] = EndOf(input)[i - 1] + HeaderLen + input[i].bodylen
  BY <1>1, <1>3, Limits, EndOfEquation
<1>s. start \in Nat
  BY <1>4
<1>5. /\ bodylen = input[i].bodylen /\ bodylen \in Nat /\ ritem \in Nat /\ bodylen <= ritem
      /\ Consumed = start + bodylen
  BY <1>2, <1>3 DEF BInv, BufferTypeOK, BufferBounds, StepInv, InStep, BytesOfBody
<1>6. \A k \in 1 .. bodylen : rbuf[ritem - bodylen + k - 1] = start + k
  <2> TAKE k \in 1 .. bodylen
  <2>1. \A j \in 0 .. bodylen - 1 :
          rbuf[ritem - bodylen + j] = Consumed - bodylen + 1 + j
    BY <1>2, <1>5 DEF BInv, InputIntact, Intact, BytesOfBody
  <2>2. k - 1 \in 0 .. bodylen - 1 /\ ritem - bodylen + (k - 1) = ritem - bodylen + k - 1
    BY <1>5
  <2>3. rbuf[ritem - bodylen + k - 1] = Consumed - bodylen + 1 + (k - 1)
    BY <2>1, <2>2
  <2>4. Consumed - bodylen + 1 + (k - 1) = start + k
    <3>1. Consumed = start + bodylen /\ bodylen \in Nat /\ start \in Nat /\ k \in Nat
      BY <1>s, <1>5
    <3> HIDE DEF start
    <3>2. Consumed - bodylen = start
      BY ONLY <3>1
    <3> QED
      BY ONLY <3>1, <3>2
  <2> QED
    BY <2>3, <2>4
<1>7. [k \in 1 .. bodylen |-> rbuf[ritem - bodylen + k - 1]] = Body(input, i)
  BY <1>5, <1>6 DEF Body
<1>8. Body(input, i) \in Seq(Nat)
  BY <1>4, <1>5 DEF Body
<1>9. Consumed' = EndOf(input)[i]
  BY <1>2, <1>4, <1>5 DEF Consumed
<1> QED
  BY <1>1, <1>2, <1>3, <1>7, <1>8, <1>9 DEF CompleteNread

LEMMA StepInvNread == ASSUME BInv, StepInv, NreadStep PROVE StepInv'
<1>1. CASE NreadCopy \/ NreadRead
  BY <1>1, StepInvBody
<1>2. CASE NreadWaits \/ NreadWaitsFails \/ NreadEnds
  <2>1. /\ UNCHANGED <<input, evaluated, taken, rbytes, bodylen, rlbytes>>
        /\ state' = state \/ state' = "conn_closing"
        /\ state = "conn_nread"
    BY <1>2 DEF NreadWaits, NreadWaitsFails, NreadEnds, NreadMustWait, UpdateEventFails, In,
                Close, client, history, input_buffer
  <2>2. Consumed' = Consumed
    BY <2>1 DEF Consumed
  <2> QED
    BY <2>1, <2>2, StepInvKept DEF Between
<1>3. CASE GetFails \/ \E len \in ReplyLens : GetSucceeds(len)
  <2>1. CompleteNread /\ state' = "conn_mwrite"
    BY <1>3 DEF GetFails, GetSucceeds, BinReply
  <2>2. Len(evaluated) \in Nat /\ Len(input) \in Nat /\ evaluated \in Seq(Seq(Nat))
    BY InputIsRequests DEF StepInv
  <2>3. /\ evaluated' \in Seq(Seq(Nat)) /\ Len(evaluated') = Len(evaluated) + 1
        /\ Len(evaluated') <= Len(input')
    <3> DEFINE b == Body(input, Len(evaluated) + 1)
    <3>1. b \in Seq(Nat) /\ evaluated' = Append(evaluated, b) /\ input' = input
          /\ Len(evaluated) < Len(input)
      BY <2>1, EvaluatesTheBody
    <3> HIDE DEF b
    <3> QED
      BY <2>2, <3>1
  <2>4. InStep'
    BY <2>1, <2>3, EvaluatesTheBody DEF InStep
  <2> QED
    BY <2>1, <2>3, <2>4 DEF StepInv
<1> QED
  BY <1>1, <1>2, <1>3 DEF NreadStep

LEMMA StepInvWrite == ASSUME BInv, StepInv, WriteStep PROVE StepInv'
<1> USE DEF WriteStep, Assemble, Transmit, TransmitWaits, TransmitWaitsFails, TransmitFails,
            FreeReply, ReplyDone, LineDone
<1>1. UNCHANGED <<input, evaluated, taken, rbytes, write_and_go>>
  BY DEF UpdateEventFails, client, history, input_buffer
<1>2. \/ state' = state /\ state \in {"conn_write", "conn_mwrite"}
      \/ state = "conn_mwrite" /\ state' = "conn_new_cmd"
      \/ state = "conn_write" /\ state' = write_and_go
      \/ state' = "conn_closing"
  BY DEF Transmitting, Transmitted, Writing, UpdateEventFails, In, Close
<1>3. state = "conn_write" => write_and_go = "conn_closing"
  BY DEF StepInv
<1>4. Consumed' = Consumed
  BY <1>1 DEF Consumed
<1> QED
  BY <1>1, <1>2, <1>3, <1>4, StepInvKept DEF Between

LEMMA StepInvStep == BInv /\ StepInv /\ [Next]_vars => StepInv'
<1> SUFFICES ASSUME BInv, StepInv, [Next]_vars PROVE StepInv'
  OBVIOUS
<1>1. CASE Client \/ EventHandler \/ ConnWaiting \/ ConnWaitingFails \/ ConnNewCmd
             \/ ConnYields \/ ConnYieldsFails \/ ConnClose
  BY <1>1, StepInvOutside
<1>2. CASE TryReadStep
  BY <1>2, StepInvRead
<1>3. CASE ParseStep
  BY <1>3, StepInvParse
<1>4. CASE NreadStep
  BY <1>4, StepInvNread
<1>5. CASE WriteStep
  BY <1>5, StepInvWrite
<1>6. CASE UNCHANGED vars
  <2>1. UNCHANGED <<input, evaluated, state, write_and_go, taken, rbytes, bodylen, rlbytes>>
    BY <1>6 DEF vars, client, history, input_buffer
  <2>2. Consumed' = Consumed
    BY <2>1 DEF Consumed
  <2>3. state = "conn_write" => write_and_go = "conn_closing"
    BY DEF StepInv
  <2> QED
    BY <2>1, <2>2, <2>3, StepInvKept
<1> QED
  BY <1>1, <1>2, <1>3, <1>4, <1>5, <1>6 DEF Next, DriveMachine

(* Whatever the requests and however their bytes arrive: between two       *)
(* requests drive_machine has consumed those evaluated and nothing else,   *)
(* and in a request's body it goes by the length in that request's header. *)
THEOREM RequestsStayInStep == Spec => []InStep
<1>1. StepInv => InStep
  BY DEF StepInv
<1> QED
  BY BInvInit, BInvStep, StepInvInit, StepInvStep, <1>1, PTL DEF Spec

-----------------------------------------------------------------------------
(* The bytes of replies and lines *)
Byte == [reply : Nat, part : {"head", "line", "results", "error"}, k : Nat]

Reply == [status : Int, part : {"results", "error"}, bodylen : Nat]

LEMMA BytesType ==
  ASSUME NEW r \in Nat, NEW part \in {"head", "line", "results", "error"}, NEW n \in Nat
  PROVE  Bytes(r, part, n) \in Seq(Byte) /\ Len(Bytes(r, part, n)) = n
<1>1. \A k \in 1 .. n : [reply |-> r, part |-> part, k |-> k] \in Byte
  BY DEF Byte
<1> QED
  BY <1>1 DEF Bytes

ReplyBytes(r, reply) ==
  Bytes(r, "head", RespHeaderLen) \o Bytes(r, reply.part, reply.bodylen)

LEMMA ReplyBytesType ==
  ASSUME NEW r \in Nat, NEW reply \in Reply
  PROVE  ReplyBytes(r, reply) \in Seq(Byte)
<1>1. reply.part \in {"head", "line", "results", "error"} /\ reply.bodylen \in Nat
  BY DEF Reply
<1>2. RespHeaderLen \in Nat
  BY HeaderAssumption
<1> QED
  BY <1>1, <1>2, BytesType, ConcatProperties DEF ReplyBytes

LEMMA StreamType ==
  ASSUME NEW rs \in Seq(Reply)
  PROVE  Stream(rs) \in Seq(Byte)
<1>1. \A r \in 1 .. Len(rs) : ReplyBytes(r, rs[r]) \in Seq(Byte)
  BY ReplyBytesType
<1>2. [r \in 1 .. Len(rs) |-> ReplyBytes(r, rs[r])] \in Seq(Seq(Byte))
  BY <1>1
<1>3. Stream(rs) = FlattenSeq([r \in 1 .. Len(rs) |-> ReplyBytes(r, rs[r])])
  BY Zenon DEF Stream, ReplyBytes
<1> QED
  BY <1>2, <1>3, FlattenType

LEMMA StreamAppend ==
  ASSUME NEW rs \in Seq(Reply), NEW reply \in Reply
  PROVE  Stream(Append(rs, reply)) = Stream(rs) \o ReplyBytes(Len(rs) + 1, reply)
<1> DEFINE n == Len(rs)
           new == Append(rs, reply)
           F == [r \in 1 .. n |-> ReplyBytes(r, rs[r])]
           G == [r \in 1 .. n + 1 |-> ReplyBytes(r, new[r])]
           x == ReplyBytes(n + 1, reply)
<1>1. /\ n \in Nat /\ Len(new) = n + 1 /\ new \in Seq(Reply)
      /\ (\A r \in 1 .. n : new[r] = rs[r]) /\ new[n + 1] = reply
      /\ \A r \in 1 .. n : rs[r] \in Reply
  BY AppendProperties
<1>2. F \in Seq(Seq(Byte)) /\ x \in Seq(Byte) /\ Len(F) = n
  <2> HIDE DEF n, new
  <2>1. ASSUME NEW r \in 1 .. n PROVE ReplyBytes(r, rs[r]) \in Seq(Byte)
    <3>1. r \in Nat /\ rs[r] \in Reply
      BY <1>1
    <3> QED
      BY <3>1, ReplyBytesType
  <2> QED
    BY <1>1, <2>1, ReplyBytesType
<1>3. G = Append(F, x)
  <2> HIDE DEF n, new
  <2>1. \A r \in 1 .. n : ReplyBytes(r, new[r]) = ReplyBytes(r, rs[r])
    BY <1>1
  <2>2. ReplyBytes(n + 1, new[n + 1]) = x
    BY <1>1
  <2> QED
    BY <1>1, <2>1, <2>2
<1>4. Stream(rs) = FlattenSeq(F)
  BY Zenon DEF Stream, ReplyBytes
<1>5. Stream(new) = FlattenSeq(G)
  <2>1. Stream(new) = FlattenSeq([r \in 1 .. Len(new) |-> ReplyBytes(r, new[r])])
    BY Zenon DEF Stream, ReplyBytes
  <2> HIDE DEF new, n
  <2> QED
    BY <1>1, <2>1
<1>6. FlattenSeq(Append(F, x)) = FlattenSeq(F) \o x
  <2> HIDE DEF F, x
  <2> QED
    BY <1>2, FlattenAppend
<1> QED
  BY <1>3, <1>4, <1>5, <1>6, Zenon

-----------------------------------------------------------------------------
(* The lists of messages *)

(* The bytes of at most two messages. *)
LeftOf(msgs) ==
  IF Len(msgs) = 0 THEN << >>
  ELSE IF Len(msgs) = 1 THEN FlattenSeq(msgs[1])
  ELSE FlattenSeq(msgs[1]) \o FlattenSeq(msgs[2])

Messages == {msgs \in Seq(Seq(Seq(Byte))) : Len(msgs) <= 2}

LEMMA LeftType == ASSUME NEW msgs \in Messages PROVE LeftOf(msgs) \in Seq(Byte)
<1>1. \A i \in 1 .. Len(msgs) : msgs[i] \in Seq(Seq(Byte))
  BY DEF Messages
<1>2. Len(msgs) \in Nat /\ Len(msgs) <= 2
  BY LenProperties DEF Messages
<1>3. \A i \in 1 .. Len(msgs) : FlattenSeq(msgs[i]) \in Seq(Byte)
  BY <1>1, FlattenType
<1>4. CASE Len(msgs) = 0
  BY <1>4 DEF LeftOf
<1>5. CASE Len(msgs) = 1
  BY <1>3, <1>5 DEF LeftOf
<1>6. CASE Len(msgs) = 2
  <2>1. FlattenSeq(msgs[1]) \in Seq(Byte) /\ FlattenSeq(msgs[2]) \in Seq(Byte)
    BY <1>3, <1>6
  <2> QED
    BY <1>6, <2>1, ConcatProperties DEF LeftOf
<1>7. Len(msgs) = 0 \/ Len(msgs) = 1 \/ Len(msgs) = 2
  <2> DEFINE n == Len(msgs)
  <2>1. n \in Nat /\ n <= 2
    BY <1>2
  <2> HIDE DEF n
  <2>2. n = 0 \/ n = 1 \/ n = 2
    BY <2>1
  <2> QED
    BY <2>2 DEF n
<1> QED
  BY <1>4, <1>5, <1>6, <1>7

(* add_iov adds the data behind what the message has. *)
LEMMA AddIovAdds ==
  ASSUME NEW m \in Seq(Seq(Byte)), Len(FlattenSeq(m)) < MaxPayload, NEW data \in Seq(Byte)
  PROVE  /\ AddIov(<<m>>, data) \in Messages
         /\ LeftOf(AddIov(<<m>>, data)) = FlattenSeq(m) \o data
         /\ Len(AddIov(<<m>>, data)) > 0 /\ Len(AddIov(<<m>>, data)[1]) > 0
         /\ Len(FlattenSeq(m)) + Len(data) <= MaxPayload
              => AddIov(<<m>>, data) = <<Append(m, data)>>
<1> DEFINE space == MaxPayload - Len(FlattenSeq(m))
           Piece(from, n) == SubSeq(data, from, Least(from + n - 1, Len(data)))
           first  == Piece(1, space)
           second == Piece(space + 1, MaxPayload)
           rest   == Piece(space + MaxPayload + 1, Len(data))
           msgs   == AddIov(<<m>>, data)
           M      == Append(m, first)
<1>0. /\ FlattenSeq(m) \in Seq(Byte) /\ Len(FlattenSeq(m)) \in Nat /\ Len(data) \in Nat
      /\ MaxPayload \in Nat /\ space \in Nat \ {0} /\ space <= MaxPayload
  <2>1. FlattenSeq(m) \in Seq(Byte) /\ MaxPayload \in Nat
    BY FlattenType, RepliesAssumption
  <2>2. Len(FlattenSeq(m)) \in Nat /\ Len(data) \in Nat
    BY <2>1
  <2> QED
    BY ONLY <2>1, <2>2, Len(FlattenSeq(m)) < MaxPayload
<1>n. space \in Nat \ {0} /\ MaxPayload \in Nat /\ Len(data) \in Nat
  BY <1>0
<1>1. msgs = <<M>> \o (IF Len(data) <= space THEN << >>
                       ELSE IF rest = << >> THEN <<<<second>>>> ELSE <<<<second, rest>>>>)
  BY DEF AddIov
<1> HIDE DEF space, msgs
<1>2. CASE Len(data) <= space
  <2>1. first = data
    <3>1. Least(1 + space - 1, Len(data)) = Len(data)
      BY <1>0, <1>2 DEF Least
    <3> QED
      BY <3>1, TakeAll
  <2>2. msgs = <<Append(m, data)>> /\ Append(m, data) \in Seq(Seq(Byte))
    <3> HIDE DEF first
    <3>1. msgs = <<Append(m, first)>> \o << >>
      BY <1>1, <1>2
    <3> QED
      BY <2>1, <3>1
  <2>3. FlattenSeq(Append(m, data)) = FlattenSeq(m) \o data
    BY FlattenAppend
  <2>4. Len(msgs) = 1 /\ msgs[1] = Append(m, data)
    BY <2>2
  <2>5. LeftOf(msgs) = FlattenSeq(m) \o data
    BY <2>3, <2>4 DEF LeftOf
  <2>6. msgs \in Messages
    <3> HIDE DEF first
    <3> QED
      BY <2>2, <2>4 DEF Messages
  <2>7. Len(msgs) > 0 /\ Len(msgs[1]) > 0
    <3>1. Len(Append(m, data)) = Len(m) + 1 /\ Len(m) \in Nat
      OBVIOUS
    <3>2. Len(Append(m, data)) > 0
      <4> DEFINE k == Len(m)
      <4>1. Len(Append(m, data)) = k + 1 /\ k \in Nat
        BY <3>1
      <4> HIDE DEF k
      <4> QED
        BY <4>1
    <3> QED
      BY <2>4, <3>2
  <2> QED
    BY <2>2, <2>5, <2>6, <2>7 DEF msgs
<1>3. CASE ~(Len(data) <= space)
  <2>1. /\ first = SubSeq(data, 1, space)
        /\ first \in Seq(Byte) /\ SubSeq(data, space + 1, Len(data)) \in Seq(Byte)
        /\ first \o SubSeq(data, space + 1, Len(data)) = data
    <3>1. Least(1 + space - 1, Len(data)) = space /\ space \in 0 .. Len(data)
      BY <1>0, <1>3 DEF Least
    <3> QED
      BY <3>1, TakeAndDrop
  <2> DEFINE tail == SubSeq(data, space + 1, Len(data))
             two  == IF rest = << >> THEN <<second>> ELSE <<second, rest>>
  <2>2. two \in Seq(Seq(Byte)) /\ FlattenSeq(two) = tail
    <3>1. CASE Len(data) <= space + MaxPayload
      <4>1. Least(space + 1 + MaxPayload - 1, Len(data)) = Len(data)
        BY ONLY <1>n, <3>1 DEF Least
      <4>2. second = tail
        BY <4>1
      <4>3. Least(space + MaxPayload + 1 + Len(data) - 1, Len(data)) = Len(data)
        BY ONLY <1>n, <3>1 DEF Least
      <4>4. rest = << >>
        <5>1. rest = SubSeq(data, space + MaxPayload + 1, Len(data))
          BY <4>3
        <5>2. space + MaxPayload + 1 > Len(data)
          BY <1>0, <3>1
        <5> QED
          <6> DEFINE at == space + MaxPayload + 1
          <6>1. at \in Int /\ Len(data) \in Int /\ Len(data) < at
            BY ONLY <1>n, <5>2
          <6> HIDE DEF at
          <6>2. SubSeq(data, at, Len(data)) = << >>
            BY ONLY <6>1, SubSeqEmpty
          <6> HIDE DEF rest
          <6> QED
            BY <5>1, <6>2 DEF at
      <4>5. two = <<tail>>
        BY <4>2, <4>4
      <4> HIDE DEF two, tail
      <4>6. tail \in Seq(Byte)
        BY <2>1 DEF tail
      <4> QED
        BY <4>5, <4>6, FlattenOne
    <3>2. CASE ~(Len(data) <= space + MaxPayload)
      <4>1. Least(space + 1 + MaxPayload - 1, Len(data)) = space + MaxPayload
        BY ONLY <1>n, <3>2 DEF Least
      <4>2. second = SubSeq(data, space + 1, space + MaxPayload)
        BY <4>1
      <4>3. Least(space + MaxPayload + 1 + Len(data) - 1, Len(data)) = Len(data)
        BY ONLY <1>n, <3>2 DEF Least
      <4>4. rest = SubSeq(data, space + MaxPayload + 1, Len(data))
        BY <4>3
      <4>5. space \in 0 .. Len(data) /\ space + MaxPayload \in space .. Len(data)
            /\ Len(data) - (space + MaxPayload) # 0
        BY ONLY <1>n, <3>2
      <4> HIDE DEF second, rest
      <4>6. second \in Seq(Byte) /\ rest \in Seq(Byte) /\ second \o rest = tail
            /\ Len(rest) = Len(data) - (space + MaxPayload)
        BY <4>2, <4>4, <4>5, CutMiddle
      <4>7. rest # << >>
        BY <4>5, <4>6
      <4>8. two = <<second, rest>>
        BY <4>7
      <4> HIDE DEF two, tail
      <4> QED
        BY <4>6, <4>8, FlattenTwo
    <3> QED
      BY <3>1, <3>2
  <2>3. msgs = <<M>> \o <<two>>
    <3> HIDE DEF M, rest, second
    <3>1. msgs = <<M>> \o (IF rest = << >> THEN <<<<second>>>> ELSE <<<<second, rest>>>>)
      BY <1>1, <1>3
    <3> QED
      BY <3>1
  <2> HIDE DEF two, first
  <2>4. M \in Seq(Seq(Byte)) /\ FlattenSeq(M) = FlattenSeq(m) \o first
    BY <2>1, FlattenAppend, AppendProperties, Zenon
  <2> HIDE DEF M
  <2>5. msgs = <<M, two>>
    <3>1. <<M>> \o <<two>> = Append(<<M>>, two) /\ <<M, two>> = Append(<<M>>, two)
      <4>1. M \in Seq(Seq(Byte)) /\ two \in Seq(Seq(Byte))
        BY <2>2, <2>4
      <4>2. <<M>> \o <<two>> = Append(<<M>>, two)
        BY ONLY <4>1
      <4>3. <<M, two>> = Append(<<M>>, two)
        BY ONLY <4>1
      <4> QED
        BY <4>2, <4>3
    <3> QED
      BY <2>3, <3>1, Zenon
  <2>6. msgs \in Messages /\ Len(msgs) = 2 /\ msgs[1] = M /\ msgs[2] = two
    <3>1. <<M, two>> \in Seq(Seq(Seq(Byte)))
      BY <2>2, <2>4
    <3> QED
      BY ONLY <2>5, <3>1 DEF Messages
  <2>7. LeftOf(msgs) = (FlattenSeq(m) \o first) \o tail
    <3> HIDE DEF tail
    <3>1. LeftOf(msgs) = FlattenSeq(M) \o FlattenSeq(two)
      <4> 2 # 0 /\ 2 # 1
        OBVIOUS
      <4> QED
        BY <2>6, Zenon DEF LeftOf
    <3> QED
      BY <2>2, <2>4, <3>1, Zenon
  <2> HIDE DEF tail
  <2>8. (FlattenSeq(m) \o first) \o tail = FlattenSeq(m) \o (first \o tail)
    <3>1. FlattenSeq(m) \in Seq(Byte) /\ first \in Seq(Byte) /\ tail \in Seq(Byte)
      BY <1>0, <2>1 DEF tail
    <3> QED
      BY ONLY <3>1, ConcatAssociative
  <2>9. LeftOf(msgs) = FlattenSeq(m) \o data
    BY <2>1, <2>7, <2>8, Zenon DEF tail
  <2>10. ~(Len(FlattenSeq(m)) + Len(data) <= MaxPayload)
    BY <1>0, <1>3 DEF space
  <2>11. Len(msgs) > 0 /\ Len(msgs[1]) > 0
    <3>1. Len(M) > 0
      <4> DEFINE k == Len(m)
      <4>1. Len(M) = k + 1 /\ k \in Nat
        BY <2>1 DEF M
      <4> HIDE DEF k
      <4> QED
        BY <4>1
    <3> QED
      BY <2>6, <3>1
  <2> QED
    BY <2>6, <2>9, <2>10, <2>11 DEF msgs
<1> QED
  BY <1>2, <1>3

(* What is left of a message when n bytes are gone is what follows them.   *)
LEMMA RemainingFollows ==
  ASSUME NEW m \in Seq(Seq(Byte)), NEW n \in 0 .. Len(FlattenSeq(m))
  PROVE  /\ Remaining(m, n) \in Seq(Seq(Byte))
         /\ FlattenSeq(m) = SubSeq(FlattenSeq(m), 1, n) \o FlattenSeq(Remaining(m, n))
<1> DEFINE L == Len(m)
           all == FlattenSeq(m)
           gone(k) == Len(FlattenSeq(SubSeq(m, 1, k)))
           D == {k \in 1 .. Len(m) : gone(k) <= n}
           done == Cardinality(D)
           part == n - gone(done)
           rem == [k \in 1 .. Len(m) - done |->
                     IF k = 1 THEN SubSeq(m[done + 1], part + 1, Len(m[done + 1]))
                     ELSE m[done + k]]
<1>1. PICK f : Flattens(f, m, Byte) /\ all = f[L]
  BY FlattenEquation
<1>2. \A k \in 0 .. L : gone(k) = Len(f[k])
  BY <1>1, FlattenPrefix
<1>3. Remaining(m, n) = rem
  BY DEF Remaining
<1>4. /\ L \in Nat /\ all \in Seq(Byte) /\ Len(all) \in Nat /\ n \in Nat /\ n <= Len(all)
      /\ \A k \in 1 .. L : m[k] \in Seq(Byte)
  BY FlattenType
<1>5. /\ f[0] = << >> /\ \A k \in 0 .. L : f[k] \in Seq(Byte)
      /\ \A k \in 1 .. L : f[k] = Joined(f[k - 1], m[k])
  BY <1>1 DEF Flattens
<1>6. PICK size \in [0 .. L -> Nat] : \A k \in 0 .. L : size[k] = gone(k) /\ size[k] = Len(f[k])
  <2> DEFINE size == [k \in 0 .. L |-> Len(f[k])]
  <2> HIDE DEF L, gone
  <2>1. \A k \in 0 .. L : Len(f[k]) \in Nat
    BY <1>5
  <2>2. size \in [0 .. L -> Nat]
    BY <2>1
  <2>3. \A k \in 0 .. L : size[k] = gone(k) /\ size[k] = Len(f[k])
    BY <1>2
  <2> QED
    BY <2>2, <2>3
<1> HIDE DEF L, gone, all
<1>7. size[0] = 0 /\ size[L] = Len(all)
  <2>1. f[0] = << >> /\ 0 \in 0 .. L /\ L \in 0 .. L
    BY <1>4, <1>5
  <2> QED
    BY <1>1, <1>6, <2>1
<1>8. ASSUME NEW k \in 1 .. L PROVE size[k - 1] <= size[k]
  <2>1. k \in 0 .. L /\ k - 1 \in 0 .. L
    BY <1>4
  <2>2. f[k] = f[k - 1] \o m[k]
    BY <1>5, Zenon DEF Joined
  <2>3. f[k - 1] \in Seq(Byte) /\ m[k] \in Seq(Byte)
    BY <1>4, <1>5, <2>1
  <2>4. Len(f[k]) = Len(f[k - 1]) + Len(m[k]) /\ Len(f[k - 1]) \in Nat /\ Len(m[k]) \in Nat
    BY <2>2, <2>3, ConcatProperties
  <2>5. size[k] = Len(f[k]) /\ size[k - 1] = Len(f[k - 1])
    BY <1>6, <2>1
  <2> DEFINE added == Len(m[k])
  <2>6. size[k] = size[k - 1] + added /\ added \in Nat /\ size[k - 1] \in Nat
    BY <1>6, <2>1, <2>4, <2>5, Zenon
  <2> HIDE DEF added
  <2> QED
    BY ONLY <2>6
(* The sizes grow, so the iovecs that are gone are the first ones. *)
<1>9. PICK d \in 0 .. L : size[d] <= n /\ \A k \in 0 .. L : size[k] <= n <=> k <= d
  <2> DEFINE S == {j \in Nat : j <= L =>
                     \E d \in 0 .. j : \A k \in 0 .. j : size[k] <= n <=> k <= d}
  <2>1. 0 \in S
    <3>1. \A k \in 0 .. 0 : size[k] <= n <=> k <= 0
      BY <1>4, <1>7
    <3>2. 0 \in 0 .. 0
      OBVIOUS
    <3> QED
      BY <3>1, <3>2
  <2>2. ASSUME NEW j \in Nat, j \in S PROVE j + 1 \in S
    <3>1. SUFFICES ASSUME j + 1 <= L
                   PROVE  \E d \in 0 .. j + 1 : \A k \in 0 .. j + 1 : size[k] <= n <=> k <= d
      OBVIOUS
    <3>2. PICK d \in 0 .. j : \A k \in 0 .. j : size[k] <= n <=> k <= d
      BY <1>4, <2>2, <3>1
    <3>3. size[j] <= size[j + 1] /\ size[j] \in Nat /\ size[j + 1] \in Nat
      <4>1. j + 1 \in 1 .. L /\ j + 1 - 1 = j /\ j \in 0 .. L /\ j + 1 \in 0 .. L
        BY <1>4, <3>1
      <4>2. size[j + 1 - 1] <= size[j + 1]
        BY <1>8, <4>1
      <4> QED
        BY <1>6, <4>1, <4>2
    <3>4. CASE size[j + 1] <= n
      <4>1. size[j] <= n
        BY <1>4, <3>3, <3>4
      <4>2. d = j
        BY <3>2, <4>1
      <4>3. \A k \in 0 .. j + 1 : size[k] <= n <=> k <= j + 1
        BY <3>2, <3>4, <4>2
      <4> QED
        BY <4>3
    <3>5. CASE ~(size[j + 1] <= n)
      <4>1. \A k \in 0 .. j + 1 : size[k] <= n <=> k <= d
        BY <3>2, <3>5
      <4>2. d \in 0 .. j + 1
        OBVIOUS
      <4> QED
        BY <4>1, <4>2
    <3> QED
      BY <3>4, <3>5
  <2>3. Nat \subseteq S
    <3> HIDE DEF S
    <3> QED
      BY <2>1, <2>2, SetInduction
  <2>4. PICK d \in 0 .. L : \A k \in 0 .. L : size[k] <= n <=> k <= d
    <3>1. L \in S
      BY <1>4, <2>3
    <3>2. L <= L
      BY <1>4
    <3> QED
      BY <3>1, <3>2
  <2>5. size[d] <= n
    BY <1>4, <2>4
  <2> QED
    BY <2>4, <2>5
<1>10. done = d
  <2>1. D = {k \in 1 .. L : size[k] <= n}
    BY <1>4, <1>6 DEF L
  <2>2. {k \in 1 .. L : size[k] <= n} = 1 .. d
    BY <1>4, <1>9
  <2> HIDE DEF D
  <2>3. Cardinality(D) = d
    <3>1. d \in Nat /\ 1 \in Int /\ d \in Int /\ (IF 1 > d THEN 0 ELSE d - 1 + 1) = d
      BY <1>4
    <3>2. Cardinality(1 .. d) = d
      BY <3>1, FS_Interval
    <3> QED
      BY <2>1, <2>2, <3>2
  <2> QED
    BY <2>3
<1> HIDE DEF D, done
<1>11. gone(done) = size[d] /\ size[d] \in Nat /\ size[d] <= n /\ size[d] = Len(f[d])
  BY <1>6, <1>9, <1>10
<1>12. CASE d = L
  <2>1. n = Len(all)
    BY <1>4, <1>7, <1>11, <1>12
  <2>2. rem = << >>
    <3>1. Len(m) - done = 0
      BY <1>4, <1>10, <1>12 DEF L
    <3> QED
      BY <3>1
  <2>3. SubSeq(all, 1, n) = all /\ all \o << >> = all
    BY <1>4, <2>1, TakeAll, ConcatEmptySeq
  <2>4. rem \in Seq(Seq(Byte))
    <3> HIDE DEF rem
    <3> QED
      BY ONLY <2>2
  <2> HIDE DEF rem
  <2> QED
    BY <1>3, <2>2, <2>3, <2>4, FlattenEmpty DEF all
<1>13. CASE d < L
  <2> DEFINE p == n - size[d]
             x == m[d + 1]
             rest == SubSeq(m, d + 2, L)
             cut == SubSeq(x, p + 1, Len(x))
  <2>0. d \in Nat /\ d + 1 \in 1 .. L /\ d + 1 \in 0 .. L /\ p \in Nat /\ part = p
    BY <1>4, <1>11, <1>13
  <2>1. x \in Seq(Byte) /\ f[d] \in Seq(Byte) /\ f[d + 1] = f[d] \o x
    <3>1. f[d + 1] = Joined(f[d + 1 - 1], m[d + 1]) /\ d + 1 - 1 = d
      BY <1>5, <2>0
    <3> QED
      BY <1>4, <1>5, <2>0, <3>1, Zenon DEF Joined
  <2>2. p \in 0 .. Len(x)
    <3>1. size[d + 1] = Len(f[d + 1]) /\ size[d + 1] \in Nat /\ ~(size[d + 1] <= n)
      BY <1>6, <1>9, <2>0
    <3>2. Len(f[d + 1]) = Len(f[d]) + Len(x) /\ Len(x) \in Nat /\ Len(f[d]) \in Nat
      BY <2>1, ConcatProperties
    <3> HIDE DEF x, L
    <3> QED
      BY <1>4, <1>11, <2>0, <3>1, <3>2
  <2>3. /\ SubSeq(x, 1, p) \in Seq(Byte) /\ cut \in Seq(Byte)
        /\ SubSeq(x, 1, p) \o cut = x
    BY <2>1, <2>2, TakeAndDrop
  <2>4. /\ rest \in Seq(Seq(Byte)) /\ Len(rest) = L - (d + 1)
        /\ SubSeq(m, 1, d + 1) \in Seq(Seq(Byte)) /\ SubSeq(m, 1, d + 1) \o rest = m
        /\ \A k \in 1 .. L - (d + 1) : rest[k] = m[d + 1 + k]
    <3>1. d + 1 + 1 = d + 2 /\ d + 1 \in 0 .. Len(m)
      BY <2>0 DEF L
    <3>2. /\ SubSeq(m, d + 2, Len(m)) \in Seq(Seq(Byte))
          /\ Len(SubSeq(m, d + 2, Len(m))) = Len(m) - (d + 1)
          /\ SubSeq(m, 1, d + 1) \in Seq(Seq(Byte))
          /\ SubSeq(m, 1, d + 1) \o SubSeq(m, d + 2, Len(m)) = m
      BY <3>1, TakeAndDrop
    <3>3. \A k \in 1 .. Len(m) - (d + 1) : SubSeq(m, d + 2, Len(m))[k] = m[d + 1 + k]
      <4>1. d + 2 \in Int /\ Len(m) \in Int /\ \A i \in d + 2 .. Len(m) : m[i] \in Seq(Byte)
        BY <1>4, <2>0 DEF L
      <4>2. \A k \in 1 .. Len(m) - (d + 2) + 1 : SubSeq(m, d + 2, Len(m))[k] = m[d + 2 + k - 1]
        BY <4>1, SubSeqProperties
      <4>3. /\ Len(m) - (d + 2) + 1 = Len(m) - (d + 1)
            /\ \A k \in 1 .. Len(m) - (d + 1) : d + 2 + k - 1 = d + 1 + k
        BY <2>0, <4>1
      <4> QED
        BY <4>2, <4>3
    <3> QED
      BY <3>2, <3>3 DEF L
  <2> HIDE DEF cut, rest, x, p
  <2>5. rem = <<cut>> \o rest
    <3>1. rem = [k \in 1 .. L - d |-> IF k = 1 THEN cut ELSE m[d + k]]
      BY <1>10, <2>0 DEF L, x, cut, part
    <3>2. L - d \in Nat /\ L - d = 1 + (L - (d + 1))
      BY <1>4, <2>0
    <3>3. <<cut>> \o rest = [k \in 1 .. Len(rest) + 1 |-> IF k = 1 THEN cut ELSE rest[k - 1]]
      <4>1. cut \in Seq(Byte) /\ rest \in Seq(Seq(Byte))
        BY <2>3, <2>4
      <4> QED
        BY ONLY <4>1, Prepend
    <3>4. Len(rest) + 1 = L - d
      BY <1>4, <2>0, <2>4
    <3>5. ASSUME NEW k \in 1 .. L - d
          PROVE  (IF k = 1 THEN cut ELSE m[d + k]) = IF k = 1 THEN cut ELSE rest[k - 1]
      <4>1. CASE k = 1
        BY <4>1
      <4>2. CASE k # 1
        <5>1. k - 1 \in 1 .. L - (d + 1) /\ d + 1 + (k - 1) = d + k
          BY <1>4, <2>0, <4>2
        <5>2. rest[k - 1] = m[d + k]
          BY <2>4, <5>1
        <5> QED
          BY <4>2, <5>2
      <4> QED
        BY <4>1, <4>2
    <3> HIDE DEF rem
    <3> QED
      BY <3>1, <3>3, <3>4, <3>5
  <2>6. rem \in Seq(Seq(Byte)) /\ FlattenSeq(rem) = cut \o FlattenSeq(rest)
    <3>1. <<cut>> \in Seq(Seq(Byte)) /\ FlattenSeq(<<cut>>) = cut
      BY <2>3, FlattenOne
    <3> HIDE DEF rem
    <3> QED
      BY <2>4, <2>5, <3>1, FlattenConcat, ConcatProperties, Zenon
  <2>7. all = (f[d] \o x) \o FlattenSeq(rest) /\ FlattenSeq(rest) \in Seq(Byte)
    <3>1. FlattenSeq(SubSeq(m, 1, d + 1)) = f[d + 1]
      BY <1>1, <2>0, FlattenPrefix DEF L
    <3>2. FlattenSeq(SubSeq(m, 1, d + 1) \o rest)
            = FlattenSeq(SubSeq(m, 1, d + 1)) \o FlattenSeq(rest)
      BY <2>4, FlattenConcat, Zenon
    <3>3. FlattenSeq(rest) \in Seq(Byte)
      BY <2>4, FlattenType
    <3> QED
      BY <2>1, <2>4, <3>1, <3>2, <3>3, Zenon DEF all
  <2>8. all = SubSeq(all, 1, n) \o (cut \o FlattenSeq(rest))
    <3>1. n = Len(f[d]) + Len(SubSeq(x, 1, p))
      <4>1. Len(SubSeq(x, 1, p)) = p
        BY <2>1, <2>2, TakeAndDrop
      <4>2. n = size[d] + p
        BY ONLY n \in Nat, <1>11 DEF p
      <4> QED
        BY <1>11, <4>1, <4>2, Zenon
    <3>2. all = (f[d] \o (SubSeq(x, 1, p) \o cut)) \o FlattenSeq(rest)
      BY <2>3, <2>7, Zenon
    <3>3. /\ f[d] \in Seq(Byte) /\ SubSeq(x, 1, p) \in Seq(Byte) /\ cut \in Seq(Byte)
          /\ FlattenSeq(rest) \in Seq(Byte)
      BY <2>1, <2>3, <2>7
    <3>4. Splits(Byte)
      BY ConcatSplits
    <3>5. PICK a \in Seq(Byte) : a = f[d]
      BY <3>3, Zenon
    <3>6. PICK b \in Seq(Byte) : b = SubSeq(x, 1, p)
      BY <3>3, Zenon
    <3>7. PICK r \in Seq(Byte) : r = FlattenSeq(rest)
      BY <3>3, Zenon
    <3>8. all = (a \o (b \o cut)) \o r
      BY <3>2, <3>5, <3>6, <3>7, Zenon
    <3>9. cut \in Seq(Byte)
      BY <3>3
    <3>10. all = SubSeq(all, 1, Len(a) + Len(b)) \o (cut \o r)
      <4>1. \A s : SplitsAt(s, a, b, cut, r)
        BY <3>4, <3>9, Zenon DEF Splits
      <4> QED
        BY <3>8, <4>1, Zenon DEF SplitsAt
    <3> QED
      BY <3>1, <3>5, <3>6, <3>7, <3>10, Zenon
  <2> HIDE DEF rem
  <2>9. all = SubSeq(all, 1, n) \o FlattenSeq(rem)
    BY <2>6, <2>8, Zenon
  <2> QED
    BY <1>3, <2>6, <2>9 DEF all
<1>14. d = L \/ d < L
  BY <1>4, <1>9
<1> QED
  BY <1>12, <1>13, <1>14

-----------------------------------------------------------------------------
(* What is sent and what is left *)

Left == LeftOf(msglist)

(* The states in which no reply is being sent. *)
Quiet == {"conn_new_cmd", "conn_waiting", "conn_read", "conn_parse_cmd", "conn_nread"}

OutType ==
  /\ msglist \in Messages
  /\ msgcurr \in 0 .. Len(msglist) /\ \A m \in 1 .. msgcurr : msglist[m] = << >>
  /\ iovused \in Nat
  /\ replies \in Seq(Reply) /\ Len(replies) = Len(evaluated) /\ sent \in Seq(Byte)

(* What is sent and what is left are the replies, then perhaps the line.   *)
OutInv ==
  /\ OutType
  /\ state \in Quiet => Left = << >> /\ sent = Stream(replies)
  /\ state = "conn_mwrite" => sent \o Left = Stream(replies)
  /\ state = "conn_write" => /\ iovused = 0 => /\ msglist = << << >> >> /\ msgcurr = 0
                                                 /\ sent = Stream(replies)
                             /\ iovused # 0 => sent \o Left = Stream(replies) \o Line

LEMMA EmptyMessages == << >> \in Messages /\ LeftOf(<< >>) = << >>
                         /\ <<<< >>>> \in Messages /\ LeftOf(<<<< >>>>) = << >>
<1>1. << >> \in Seq(Seq(Seq(Byte))) /\ <<<< >>>> \in Seq(Seq(Seq(Byte)))
      /\ Len(<< >>) = 0 /\ Len(<<<< >>>>) = 1 /\ <<<< >>>>[1] = << >>
  OBVIOUS
<1>2. LeftOf(<< >>) = << >> /\ LeftOf(<<<< >>>>) = << >>
  BY <1>1, FlattenEmpty DEF LeftOf
<1> QED
  BY <1>1, <1>2 DEF Messages

LEMMA MessagesLen == ASSUME NEW msgs \in Messages
                     PROVE  /\ Len(msgs) \in {0, 1, 2}
                            /\ \A i \in 1 .. Len(msgs) : msgs[i] \in Seq(Seq(Byte))
<1>1. msgs \in Seq(Seq(Seq(Byte))) /\ Len(msgs) <= 2
  BY DEF Messages
<1> DEFINE n == Len(msgs)
<1>2. n \in Nat /\ n <= 2
  BY <1>1
<1>3. \A i \in 1 .. Len(msgs) : msgs[i] \in Seq(Seq(Byte))
  BY <1>1
<1> HIDE DEF n
<1>4. n \in {0, 1, 2}
  BY <1>2
<1> QED
  BY <1>3, <1>4 DEF n

LEMMA NothingLeft ==
  ASSUME NEW msgs \in Messages, \A m \in 1 .. Len(msgs) : msgs[m] = << >>
  PROVE  LeftOf(msgs) = << >>
<1>1. Len(msgs) \in {0, 1, 2}
  BY MessagesLen
<1>2. CASE Len(msgs) = 0
  BY <1>2 DEF LeftOf
<1>3. CASE Len(msgs) = 1
  <2>1. msgs[1] = << >>
    BY <1>3
  <2> QED
    BY <1>3, <2>1, FlattenEmpty DEF LeftOf
<1>4. CASE Len(msgs) = 2
  <2>1. msgs[1] = << >> /\ msgs[2] = << >>
    BY <1>4
  <2>2. LeftOf(msgs) = FlattenSeq(<< >>) \o FlattenSeq(<< >>)
    BY <1>4, <2>1 DEF LeftOf
  <2>3. << >> \o << >> = << >>
    OBVIOUS
  <2> QED
    BY <2>2, <2>3, FlattenEmpty, Zenon
<1> QED
  BY <1>1, <1>2, <1>3, <1>4

LEMMA CurrentInside ==
  ASSUME OutType
  PROVE  /\ Current \in 0 .. Len(msglist) /\ \A m \in 1 .. Current : msglist[m] = << >>
         /\ Len(msglist) \in Nat
<1>1. Len(msglist) \in Nat /\ msgcurr \in 0 .. Len(msglist)
  BY MessagesLen DEF OutType
<1>2. \A m \in 1 .. msgcurr : msglist[m] = << >>
  BY DEF OutType
<1> QED
  BY <1>1, <1>2 DEF Current

(* Sending n bytes of the current message takes them off what is left.     *)
TakenOff(msgs, c, n, new) ==
  /\ new \in Messages /\ Len(new) = Len(msgs)
  /\ \A m \in 1 .. c - 1 : new[m] = << >>
  /\ SubSeq(FlattenSeq(msgs[c]), 1, n) \in Seq(Byte)
  /\ LeftOf(msgs) = SubSeq(FlattenSeq(msgs[c]), 1, n) \o LeftOf(new)

LEMMA SendingTakes ==
  ASSUME NEW msgs \in Messages, NEW c \in 1 .. Len(msgs),
         \A m \in 1 .. c - 1 : msgs[m] = << >>,
         NEW n \in 0 .. Len(FlattenSeq(msgs[c])),
         NEW new, new = [msgs EXCEPT ![c] = Remaining(msgs[c], n)]
  PROVE  TakenOff(msgs, c, n, new)
<1> DEFINE x == FlattenSeq(msgs[c])
           p == SubSeq(x, 1, n)
           r == Remaining(msgs[c], n)
<1>1. Len(msgs) \in {0, 1, 2} /\ c \in {1, 2} /\ msgs \in Seq(Seq(Seq(Byte)))
      /\ \A i \in 1 .. Len(msgs) : msgs[i] \in Seq(Seq(Byte))
  <2>1. Len(msgs) \in {0, 1, 2}
    BY MessagesLen
  <2> QED
    BY <2>1, MessagesLen DEF Messages
<1>2. r \in Seq(Seq(Byte)) /\ x = p \o FlattenSeq(r)
  BY <1>1, RemainingFollows
<1>3. x \in Seq(Byte) /\ p \in Seq(Byte) /\ FlattenSeq(r) \in Seq(Byte)
  <2>1. x \in Seq(Byte)
    BY <1>1, FlattenType
  <2> QED
    BY <1>2, <2>1, TakeAndDrop, FlattenType
<1> HIDE DEF x, p, r
<1>4. /\ new \in Seq(Seq(Seq(Byte))) /\ Len(new) = Len(msgs) /\ new[c] = r
      /\ \A i \in 1 .. Len(msgs) : i # c => new[i] = msgs[i]
  BY <1>1, <1>2 DEF r
<1>5. new \in Messages
  BY <1>4 DEF Messages
<1>6. \A m \in 1 .. c - 1 : new[m] = << >>
  BY <1>1, <1>4
<1>7. LeftOf(msgs) = p \o LeftOf(new)
  <2>1. CASE Len(msgs) = 1
    <3>1. c = 1
      BY <2>1
    <3>2. LeftOf(msgs) = x /\ LeftOf(new) = FlattenSeq(r)
      BY <1>4, <2>1, <3>1 DEF LeftOf, x
    <3> QED
      BY <1>2, <3>2, Zenon
  <2>2. CASE Len(msgs) = 2 /\ c = 1
    <3> DEFINE q == FlattenSeq(msgs[2])
    <3>1. LeftOf(msgs) = x \o q /\ LeftOf(new) = FlattenSeq(r) \o q
      <4>1. /\ Len(msgs) = 2 /\ Len(new) = 2 /\ msgs[c] = msgs[1] /\ new[1] = r
            /\ new[2] = msgs[2]
        BY <1>4, <2>2
      <4>2. 2 # 0 /\ 2 # 1
        OBVIOUS
      <4> QED
        BY <4>1, <4>2, Zenon DEF LeftOf, x
    <3>2. q \in Seq(Byte)
      BY <1>1, <2>2, FlattenType
    <3>3. Associates(Byte)
      BY ConcatAssociates
    <3> HIDE DEF q
    <3>4. (p \o FlattenSeq(r)) \o q = p \o (FlattenSeq(r) \o q)
      BY <1>3, <3>2, <3>3, Zenon DEF Associates
    <3> QED
      BY <1>2, <3>1, <3>4, Zenon
  <2>3. CASE Len(msgs) = 2 /\ c = 2
    <3>1. msgs[1] = << >> /\ new[1] = << >>
      BY <1>6, <2>3
    <3>2. LeftOf(msgs) = << >> \o x /\ LeftOf(new) = << >> \o FlattenSeq(r)
      <4>1. /\ Len(msgs) = 2 /\ Len(new) = 2 /\ msgs[c] = msgs[2] /\ new[2] = r
        BY <1>4, <2>3
      <4>2. 2 # 0 /\ 2 # 1
        OBVIOUS
      <4> QED
        BY <3>1, <4>1, <4>2, FlattenEmpty, Zenon DEF LeftOf, x
    <3>3. << >> \o x = x /\ << >> \o FlattenSeq(r) = FlattenSeq(r)
      BY <1>3, ConcatEmptySeq
    <3> QED
      BY <1>2, <3>2, <3>3, Zenon
  <2>4. Len(msgs) # 0
    BY <1>1
  <2> QED
    BY <1>1, <2>1, <2>2, <2>3, <2>4, Zenon
<1> QED
  BY <1>3, <1>4, <1>5, <1>6, <1>7, Zenon DEF p, x, TakenOff

LEMMA OutInvInit == Init => OutInv
<1> SUFFICES ASSUME Init PROVE OutInv
  OBVIOUS
<1>1. /\ msglist = << >> /\ msgcurr = 0 /\ iovused = 0 /\ replies = << >> /\ evaluated = << >>
      /\ sent = << >> /\ state = "conn_new_cmd"
  BY DEF Init
<1>2. Stream(<< >>) = << >>
  BY FlattenEmpty DEF Stream
<1>3. OutType
  BY <1>1, EmptyMessages DEF OutType
<1> QED
  BY <1>1, <1>2, <1>3, EmptyMessages DEF OutInv, Left

(* Steps that send nothing and make no reply. *)
LEMMA OutInvKept ==
  ASSUME OutInv, UNCHANGED <<msglist, iovused, evaluated, replies, sent>>,
         msgcurr' \in {msgcurr, Current},
         state = "conn_write" /\ iovused = 0 => msgcurr' = msgcurr,
         state' \in Quiet => state \in Quiet \/ (Left = << >> /\ sent = Stream(replies)),
         state' \in {"conn_write", "conn_mwrite"} => state' = state
  PROVE  OutInv'
<1>1. OutType'
  BY CurrentInside DEF OutInv, OutType
<1>2. Left' = Left
  BY DEF Left
<1> QED
  BY <1>1, <1>2 DEF OutInv, Quiet

(* Steps that begin a new message, or an error line. *)
LEMMA OutInvReset ==
  ASSUME OutInv, UNCHANGED <<evaluated, replies, sent>>, state \in Quiet,
         msglist' = << << >> >>, msgcurr' = 0, iovused' = 0, state' # "conn_mwrite"
  PROVE  OutInv'
<1>1. Left' = << >> /\ msglist' \in Messages
  BY EmptyMessages DEF Left
<1>2. OutType'
  BY <1>1 DEF OutInv, OutType
<1>3. sent = Stream(replies)
  BY DEF OutInv
<1> QED
  BY <1>1, <1>2, <1>3 DEF OutInv, Quiet

(* Outside the output, and where a connection waits for it. *)
LEMMA OutInvOutside ==
  ASSUME OutInv,
         Client \/ EventHandler \/ ConnWaiting \/ ConnWaitingFails \/ ConnNewCmd
           \/ ConnYields \/ ConnYieldsFails \/ ConnClose
  PROVE  OutInv'
<1>1. /\ UNCHANGED <<msglist, iovused, evaluated, replies, sent>>
      /\ msgcurr' = msgcurr
  BY DEF Client, ClientSends, ClientHangsUp, ClientReads, Idle, EventHandler, ConnWaiting,
         ConnWaitingFails, UpdateEventFails, ConnNewCmd, ConnYields, ConnYieldsFails,
         ConnClose, output, history
<1>2. \/ state' = state
      \/ state \in Quiet /\ state' \in Quiet
      \/ state' \in {"conn_closing", "closed"}
  BY DEF Client, ClientSends, ClientHangsUp, ClientReads, Idle, EventHandler, ConnWaiting,
         ConnWaitingFails, UpdateEventFails, ConnNewCmd, ConnYields, ConnYieldsFails,
         ConnClose, In, Close, Quiet
<1>3. /\ state' \in Quiet => state \in Quiet
      /\ state' \in {"conn_write", "conn_mwrite"} => state' = state
  BY <1>2 DEF Quiet
<1> QED
  BY <1>1, <1>3, OutInvKept

LEMMA OutInvRead == ASSUME OutInv, TryReadStep PROVE OutInv'
<1>1. UNCHANGED <<evaluated, replies, sent>> /\ state \in Quiet
  BY DEF TryReadStep, TryReadNetwork, Enlarge, EnlargeFails, EnlargedEnough, ReadSome,
         ReadAgain, ReadEnds, Reading, In, history, Quiet
<1>2. CASE EnlargeFails
  <2>1. /\ msglist' = << << >> >> /\ msgcurr' = 0 /\ iovused' = 0 /\ state' # "conn_mwrite"
    BY <1>2 DEF EnlargeFails
  <2> QED
    BY <1>1, <2>1, OutInvReset
<1>3. CASE ~EnlargeFails
  <2>1. /\ UNCHANGED <<msglist, msgcurr, iovused>>
        /\ state' \in {"conn_read", "conn_parse_cmd", "conn_waiting", "conn_closing"}
    BY <1>3 DEF TryReadStep, TryReadNetwork, Enlarge, EnlargedEnough, ReadSome, ReadAgain,
                ReadEnds, Reading, In, ReadReturns, Close, output
  <2> QED
    BY <1>1, <2>1, OutInvKept
<1> QED
  BY <1>2, <1>3

LEMMA OutInvParse == ASSUME OutInv, ParseStep PROVE OutInv'
<1>1. UNCHANGED <<evaluated, replies, sent>> /\ state \in Quiet
  BY DEF ParseStep, ParseNeedsMore, ParseBadMagic, ParseFits, ParseMakesRoom,
         ParseFindsNoRoom, ParseHeader, In, history, Quiet
<1>2. CASE ParseNeedsMore \/ ParseBadMagic
  <2>1. UNCHANGED <<msglist, msgcurr, iovused>> /\ state' \in {"conn_waiting", "conn_closing"}
    BY <1>2 DEF ParseNeedsMore, ParseBadMagic, Close, output
  <2> QED
    BY <1>1, <2>1, OutInvKept
<1>3. ASSUME NEW i \in 1 .. Len(input), ParseFits(i) \/ ParseMakesRoom(i) \/ ParseFindsNoRoom(i)
      PROVE  OutInv'
  <2>1. /\ msglist' = << << >> >> /\ msgcurr' = 0 /\ iovused' = 0 /\ state' # "conn_mwrite"
    BY <1>3 DEF ParseFits, ParseMakesRoom, ParseFindsNoRoom, ParseHeader, Close
  <2> QED
    BY <1>1, <2>1, OutInvReset
<1> QED
  BY <1>2, <1>3 DEF ParseStep

(* A reply of one part and a header: what add_bin_header and add_iov leave *)
(* to be sent are its bytes.                                               *)
Assembled(r, part, len) ==
  AddIov(AddIov(<< << >> >>, Bytes(r, "head", RespHeaderLen)), Bytes(r, part, len))

AssembledFrom(msgs, r, part, len) ==
  /\ msgs \in Messages /\ Len(FlattenSeq(msgs)) \in Nat
  /\ LeftOf(msgs) = Bytes(r, "head", RespHeaderLen) \o Bytes(r, part, len)

LEMMA ReplyMessages ==
  ASSUME NEW r \in Nat, NEW part \in {"results", "error"}, NEW len \in Nat
  PROVE  AssembledFrom(Assembled(r, part, len), r, part, len)
<1> DEFINE msgs == Assembled(r, part, len)
<1> DEFINE head == Bytes(r, "head", RespHeaderLen)
           body == Bytes(r, part, len)
           m == Append(<< >>, head)
<1>1. RespHeaderLen \in Nat /\ RespHeaderLen < MaxPayload /\ MaxPayload \in Nat
  BY HeaderAssumption, RepliesAssumption
<1>2. head \in Seq(Byte) /\ Len(head) = RespHeaderLen /\ body \in Seq(Byte)
  BY <1>1, BytesType
<1> HIDE DEF head, body
<1>3. << >> \in Seq(Seq(Byte)) /\ m \in Seq(Seq(Byte)) /\ m = <<head>>
  BY <1>2
<1> HIDE DEF m
<1>4. FlattenSeq(<< >>) = << >> /\ FlattenSeq(m) = head /\ Len(<< >>) = 0
  BY <1>2, <1>3, FlattenEmpty, FlattenOne
<1>5. AddIov(<< << >> >>, head) = <<m>>
  <2>1. Len(FlattenSeq(<< >>)) = 0 /\ Len(FlattenSeq(<< >>)) < MaxPayload
        /\ Len(FlattenSeq(<< >>)) + Len(head) <= MaxPayload
    BY <1>1, <1>2, <1>4
  <2> QED
    BY <1>2, <1>3, <2>1, AddIovAdds DEF m
<1>6. Len(FlattenSeq(m)) < MaxPayload
  BY <1>1, <1>2, <1>4
<1>7. AddIov(<<m>>, body) \in Messages /\ LeftOf(AddIov(<<m>>, body)) = FlattenSeq(m) \o body
  BY <1>2, <1>3, <1>6, AddIovAdds
<1>8. msgs = AddIov(<<m>>, body)
  BY <1>5, Zenon DEF head, body, Assembled
<1> HIDE DEF msgs
<1>9. Len(FlattenSeq(msgs)) \in Nat
  <2>1. msgs \in Seq(Seq(Seq(Byte)))
    BY <1>7, <1>8 DEF Messages
  <2>2. FlattenSeq(msgs) \in Seq(Seq(Byte))
    BY <2>1, FlattenType
  <2> QED
    BY <2>2
<1> QED
  BY <1>4, <1>7, <1>8, <1>9, Zenon DEF head, body, msgs, AssembledFrom

LEMMA OutInvReply ==
  ASSUME BInv, StepInv, OutInv, NEW err \in Nat, NEW part \in {"results", "error"},
         NEW len \in Nat, CompleteNread, BinReply(err, part, len)
  PROVE  OutInv'
<1> DEFINE reply == [status |-> Htons(err) % 256, part |-> part, bodylen |-> len]
           r == Len(replies) + 1
           msgs == AddIov(AddIov(<< << >> >>, Bytes(r, "head", RespHeaderLen)),
                          Bytes(r, part, len))
<1>1. /\ msglist' = msgs /\ msgcurr' = 0 /\ iovused' = Len(FlattenSeq(msgs))
      /\ replies' = Append(replies, reply) /\ state' = "conn_mwrite"
  BY DEF BinReply
<1>2. /\ replies \in Seq(Reply) /\ Len(replies) \in Nat /\ Len(replies) = Len(evaluated)
      /\ sent \in Seq(Byte)
  BY DEF OutInv, OutType
<1>3. reply \in Reply
  BY DEF Reply, Htons
<1>4. sent' = sent /\ sent = Stream(replies)
  BY DEF CompleteNread, In, OutInv, Quiet
<1>5. evaluated' = Append(evaluated, Body(input, Len(evaluated) + 1))
      /\ Body(input, Len(evaluated) + 1) \in Seq(Nat) /\ evaluated \in Seq(Seq(Nat))
  BY EvaluatesTheBody DEF StepInv
<1>6. /\ msgs \in Messages /\ Len(FlattenSeq(msgs)) \in Nat
      /\ LeftOf(msgs) = Bytes(r, "head", RespHeaderLen) \o Bytes(r, part, len)
  <2>1. r \in Nat
    BY <1>2
  <2>2. msgs = Assembled(r, part, len)
    BY DEF Assembled
  <2> HIDE DEF r, msgs
  <2>3. AssembledFrom(Assembled(r, part, len), r, part, len)
    BY <2>1, ReplyMessages
  <2> QED
    BY <2>2, <2>3, Zenon DEF AssembledFrom
<1>7. Stream(Append(replies, reply)) = Stream(replies) \o ReplyBytes(r, reply)
  BY <1>2, <1>3, StreamAppend
<1>8. ReplyBytes(r, reply) = Bytes(r, "head", RespHeaderLen) \o Bytes(r, part, len)
  BY Zenon DEF ReplyBytes
<1>9. Len(evaluated') = Len(evaluated) + 1
  <2> DEFINE b == Body(input, Len(evaluated) + 1)
  <2>1. b \in Seq(Nat) /\ evaluated' = Append(evaluated, b) /\ evaluated \in Seq(Seq(Nat))
    BY <1>5
  <2> HIDE DEF b
  <2> QED
    BY <2>1
<1> HIDE DEF reply, msgs
<1>10. replies' \in Seq(Reply) /\ Len(replies') = Len(evaluated')
  BY <1>1, <1>2, <1>3, <1>9
<1>11. OutType'
  <2>1. msglist' \in Messages /\ iovused' \in Nat
    BY <1>1, <1>6
  <2>2. Len(msglist') \in Nat
    BY <2>1, MessagesLen
  <2>3. msgcurr' \in 0 .. Len(msglist') /\ \A m \in 1 .. msgcurr' : msglist'[m] = << >>
    BY <1>1, <2>2
  <2>4. sent' \in Seq(Byte)
    BY <1>2, <1>4
  <2> QED
    BY <1>10, <2>1, <2>3, <2>4 DEF OutType
<1>12. sent' \o Left' = Stream(replies')
  BY <1>1, <1>4, <1>6, <1>7, <1>8, Zenon DEF Left
<1> QED
  BY <1>1, <1>11, <1>12 DEF OutInv, Quiet

LEMMA OutInvNread == ASSUME BInv, StepInv, OutInv, NreadStep PROVE OutInv'
<1>1. CASE NreadCopy \/ NreadRead \/ NreadWaits \/ NreadWaitsFails \/ NreadEnds
  <2>1. /\ UNCHANGED <<msglist, msgcurr, iovused, evaluated, replies, sent>>
        /\ state' = state \/ state' = "conn_closing"
    BY <1>1 DEF NreadCopy, NreadRead, NreadWaits, NreadWaitsFails, NreadEnds,
                UpdateEventFails, Close, output, history
  <2> QED
    BY <2>1, OutInvKept DEF Quiet
<1>2. CASE GetFails
  <2>1. CompleteNread /\ BinReply(ResponseEnomem, "error", ErrorLen)
    BY <1>2 DEF GetFails
  <2>2. ErrorLen \in Nat /\ ResponseEnomem \in Nat
    BY RepliesAssumption DEF ResponseEnomem
  <2> QED
    BY <2>1, <2>2, OutInvReply
<1>3. ASSUME NEW len \in ReplyLens, GetSucceeds(len) PROVE OutInv'
  <2>1. CompleteNread /\ BinReply(ResponseSuccess, "results", len)
    BY <1>3 DEF GetSucceeds
  <2>2. len \in Nat /\ ResponseSuccess \in Nat
    BY RepliesAssumption DEF ResponseSuccess
  <2> QED
    BY <2>1, <2>2, OutInvReply
<1> QED
  BY <1>1, <1>2, <1>3 DEF NreadStep

LEMMA OutInvAssemble == ASSUME OutInv, Assemble PROVE OutInv'
<1> DEFINE msgs == AddIov(<< << >> >>, Line)
<1>1. /\ state = "conn_write" /\ state' = state /\ iovused = 0
      /\ msglist' = AddIov(msglist, Line) /\ iovused' = Len(FlattenSeq(AddIov(msglist, Line)))
      /\ UNCHANGED <<evaluated, replies, sent, msgcurr>>
  BY DEF Assemble, In, history
<1>2. msglist = << << >> >> /\ msgcurr = 0 /\ sent = Stream(replies)
  BY <1>1 DEF OutInv
<1>3. Line \in Seq(Byte)
  <2> LineLen \in Nat /\ 0 \in Nat
    BY RepliesAssumption
  <2> QED
    BY BytesType DEF Line
<1>4. << >> \in Seq(Seq(Byte)) /\ FlattenSeq(<< >>) = << >> /\ Len(FlattenSeq(<< >>)) < MaxPayload
  <2>1. Len(<< >>) = 0 /\ 0 < MaxPayload
    BY HeaderAssumption, RepliesAssumption
  <2> QED
    BY <2>1, FlattenEmpty
<1>5. /\ msgs \in Messages /\ LeftOf(msgs) = FlattenSeq(<< >>) \o Line
      /\ Len(msgs) > 0 /\ Len(msgs[1]) > 0
  BY <1>3, <1>4, AddIovAdds
<1>6. LeftOf(msgs) = Line
  BY <1>3, <1>4, <1>5, ConcatEmptySeq
<1>7. msglist' = msgs /\ iovused' = Len(FlattenSeq(msgs))
  BY <1>1, <1>2
<1> HIDE DEF msgs
<1>8. iovused' \in Nat /\ iovused' # 0
  <2>1. msgs \in Seq(Seq(Seq(Byte)))
    BY <1>5 DEF Messages
  <2>2. Len(FlattenSeq(msgs)) > 0
    BY <1>5, <2>1, FlattenNotEmpty
  <2>3. FlattenSeq(msgs) \in Seq(Seq(Byte))
    BY <2>1, FlattenType
  <2>4. Len(FlattenSeq(msgs)) \in Nat
    BY <2>3
  <2> QED
    BY <1>7, <2>2, <2>4
<1>9. msgcurr' \in 0 .. Len(msglist') /\ \A m \in 1 .. msgcurr' : msglist'[m] = << >>
  <2>1. Len(msgs) \in Nat
    BY <1>5, MessagesLen
  <2> QED
    BY <1>1, <1>2, <1>7, <2>1
<1>10. OutType'
  BY <1>1, <1>5, <1>7, <1>8, <1>9 DEF OutInv, OutType
<1>11. sent' \o Left' = Stream(replies') \o Line
  BY <1>1, <1>2, <1>6, <1>7, Zenon DEF Left
<1> QED
  BY <1>1, <1>8, <1>10, <1>11 DEF OutInv, Quiet

LEMMA TransmitBytes ==
  ASSUME OutInv, Transmit, room \in Nat
  PROVE  /\ OutType' /\ (iovused # 0 \/ state = "conn_mwrite")
         /\ state' = state /\ state \in {"conn_write", "conn_mwrite"}
         /\ sent' \o Left' = sent \o Left
         /\ \E p \in Seq(Byte) : sent' = sent \o p /\ Left = p \o Left'
<1> DEFINE c == Current + 1
           x == FlattenSeq(msglist[c])
           n == Least(room, Len(x))
           p == SubSeq(x, 1, n)
<1>1. /\ Current < Len(msglist) /\ state \in {"conn_write", "conn_mwrite"}
      /\ ~(state = "conn_write" /\ iovused = 0)
      /\ sent' = sent \o p /\ msglist' = [msglist EXCEPT ![c] = Remaining(msglist[c], n)]
      /\ msgcurr' = Current /\ UNCHANGED <<state, iovused, evaluated, replies>>
  BY DEF Transmit, Transmitting, Writing, history
<1>2. /\ Current \in 0 .. Len(msglist) /\ \A m \in 1 .. Current : msglist[m] = << >>
      /\ Len(msglist) \in Nat /\ msglist \in Messages /\ sent \in Seq(Byte)
  BY CurrentInside DEF OutInv, OutType
<1>3. /\ c \in 1 .. Len(msglist) /\ c - 1 = Current
  BY <1>1, <1>2
<1>4. x \in Seq(Byte) /\ n \in 0 .. Len(x)
  <2>1. x \in Seq(Byte)
    BY <1>2, <1>3, MessagesLen, FlattenType
  <2>2. Len(x) \in Nat
    BY <2>1
  <2> HIDE DEF x
  <2>3. n \in 0 .. Len(x)
    <3> DEFINE l == Len(x)
    <3>1. l \in Nat
      BY <2>2
    <3> HIDE DEF l
    <3>2. Least(room, l) \in 0 .. l
      BY <3>1 DEF Least
    <3> QED
      BY <3>2 DEF l
  <2> QED
    BY <2>1, <2>3
<1>5. \A m \in 1 .. c - 1 : msglist[m] = << >>
  BY <1>2, <1>3
<1>6. /\ msglist' \in Messages /\ Len(msglist') = Len(msglist)
      /\ \A m \in 1 .. c - 1 : msglist'[m] = << >>
      /\ p \in Seq(Byte) /\ LeftOf(msglist) = p \o LeftOf(msglist')
  <2>1. msglist \in Messages /\ c \in 1 .. Len(msglist) /\ n \in 0 .. Len(FlattenSeq(msglist[c]))
    BY <1>2, <1>3, <1>4
  <2>2. msglist' = [msglist EXCEPT ![c] = Remaining(msglist[c], n)]
    BY <1>1
  <2> HIDE DEF c, n
  <2> QED
    <3>1. TakenOff(msglist, c, n, msglist')
      BY ONLY <1>5, <2>1, <2>2, SendingTakes
    <3> QED
      BY <3>1, Zenon DEF TakenOff, p, x
<1>7. LeftOf(msglist') \in Seq(Byte)
  BY <1>6, LeftType
<1> HIDE DEF p, n, x
<1>8. (sent \o p) \o LeftOf(msglist') = sent \o (p \o LeftOf(msglist'))
  <2>1. Associates(Byte)
    BY ConcatAssociates
  <2> DEFINE l == LeftOf(msglist')
  <2>2. l \in Seq(Byte) /\ p \in Seq(Byte) /\ sent \in Seq(Byte)
    BY <1>2, <1>6, <1>7
  <2> HIDE DEF l
  <2>3. (sent \o p) \o l = sent \o (p \o l)
    BY <2>1, <2>2, Zenon DEF Associates
  <2> QED
    BY <2>3 DEF l
<1>9. sent' \in Seq(Byte)
  BY <1>1, <1>2, <1>6, ConcatProperties
<1>10. OutType'
  <2>1. msgcurr' \in 0 .. Len(msglist') /\ \A m \in 1 .. msgcurr' : msglist'[m] = << >>
    BY <1>1, <1>2, <1>3, <1>6
  <2> QED
    BY <1>1, <1>6, <1>9, <2>1 DEF OutInv, OutType
<1>11. sent' \o Left' = sent \o Left /\ sent' = sent \o p /\ Left = p \o Left'
  BY <1>1, <1>6, <1>8, Zenon DEF Left
<1> QED
  BY <1>1, <1>6, <1>10, <1>11

LEMMA OutInvTransmit == ASSUME OutInv, Transmit, room \in Nat PROVE OutInv'
<1>1. /\ OutType' /\ (iovused # 0 \/ state = "conn_mwrite")
      /\ state' = state /\ state \in {"conn_write", "conn_mwrite"}
      /\ sent' \o Left' = sent \o Left
  BY TransmitBytes
<1>2. UNCHANGED <<iovused, replies>>
  BY DEF Transmit, history
<1>3. CASE state = "conn_mwrite"
  <2>1. sent' \o Left' = Stream(replies')
    BY <1>1, <1>2, <1>3 DEF OutInv
  <2> QED
    BY <1>1, <1>3, <2>1 DEF OutInv, Quiet
<1>4. CASE state = "conn_write" /\ iovused # 0
  <2>1. sent \o Left = Stream(replies) \o Line
    BY <1>4 DEF OutInv
  <2>2. sent' \o Left' = Stream(replies') \o Line
    BY <1>1, <1>2, <2>1, Zenon
  <2> QED
    BY <1>1, <1>2, <1>4, <2>2 DEF OutInv, Quiet
<1> QED
  BY <1>1, <1>3, <1>4, Zenon

(* A message that is out leaves nothing. *)
LEMMA TransmittedAll ==
  ASSUME OutInv, Transmitted
  PROVE  /\ Left = << >>
         /\ state = "conn_mwrite" => sent = Stream(replies)
<1>1. /\ Current \in 0 .. Len(msglist) /\ \A m \in 1 .. Current : msglist[m] = << >>
      /\ Len(msglist) \in Nat /\ msglist \in Messages /\ sent \in Seq(Byte)
  BY CurrentInside DEF OutInv, OutType
<1>2. Current = Len(msglist)
  BY <1>1 DEF Transmitted
<1>3. Left = << >>
  BY <1>1, <1>2, NothingLeft DEF Left
<1>4. sent \o Left = sent
  BY <1>1, <1>3, ConcatEmptySeq
<1> QED
  BY <1>3, <1>4, Zenon DEF OutInv

LEMMA OutInvWrite == ASSUME StepInv, OutInv, room \in Nat, WriteStep PROVE OutInv'
<1>1. CASE Assemble
  BY <1>1, OutInvAssemble
<1>2. CASE Transmit
  BY <1>2, OutInvTransmit
<1>3. CASE TransmitWaits \/ TransmitWaitsFails \/ TransmitFails
  <2>1. /\ UNCHANGED <<msglist, iovused, evaluated, replies, sent>> /\ msgcurr' = Current
        /\ state' = state \/ state' = "conn_closing"
        /\ state \in {"conn_write", "conn_mwrite"}
        /\ ~(state = "conn_write" /\ iovused = 0)
    BY <1>3 DEF TransmitWaits, TransmitWaitsFails, TransmitFails, Transmitting, Writing,
                UpdateEventFails, Close, history
  <2> QED
    BY <2>1, OutInvKept DEF Quiet
<1>4. CASE FreeReply \/ ReplyDone \/ LineDone
  <2>1. /\ UNCHANGED <<msglist, iovused, evaluated, replies, sent>> /\ msgcurr' = Current
        /\ state \in {"conn_write", "conn_mwrite"} /\ iovused > 0 /\ Transmitted
        /\ \/ FreeReply /\ state' = state
           \/ ReplyDone /\ state = "conn_mwrite" /\ state' = "conn_new_cmd"
           \/ LineDone /\ state = "conn_write" /\ state' = write_and_go
    BY <1>4 DEF FreeReply, ReplyDone, LineDone, Transmitted, Writing, history
  <2>2. state = "conn_write" => write_and_go = "conn_closing"
    BY DEF StepInv
  <2>3. state = "conn_mwrite" => Left = << >> /\ sent = Stream(replies)
    BY <2>1, TransmittedAll
  <2>4. ~(state = "conn_write" /\ iovused = 0)
    BY <2>1
  <2>5. /\ state' \in Quiet => Left = << >> /\ sent = Stream(replies)
        /\ state' \in {"conn_write", "conn_mwrite"} => state' = state
    BY <2>1, <2>2, <2>3 DEF Quiet
  <2> QED
    BY <2>1, <2>4, <2>5, OutInvKept
<1> QED
  BY <1>1, <1>2, <1>3, <1>4 DEF WriteStep

(* The room in the kernel's send buffer is never negative. *)
RoomOK == room \in 0 .. SendCap

LEMMA RoomInit == Init => RoomOK
BY LimitsAssumption DEF Init, RoomOK

LEMMA RoomStep == OutInv /\ RoomOK /\ [Next]_vars => RoomOK'
<1> SUFFICES ASSUME OutInv, RoomOK, [Next]_vars PROVE RoomOK'
  OBVIOUS
<1>1. room \in Nat /\ room <= SendCap /\ SendCap \in Nat
  BY LimitsAssumption DEF RoomOK
<1>2. CASE Transmit
  <2> DEFINE m == msglist[Current + 1]
             l == Len(FlattenSeq(m))
  <2>1. room' = room - Least(room, l)
    BY <1>2 DEF Transmit
  <2>2. l \in Nat
    <3>1. Current + 1 \in 1 .. Len(msglist) /\ msglist \in Messages
      BY <1>2, CurrentInside DEF Transmit, Transmitting, OutInv, OutType
    <3>2. FlattenSeq(m) \in Seq(Byte)
      BY <3>1, MessagesLen, FlattenType
    <3> QED
      BY <3>2
  <2> HIDE DEF l
  <2> QED
    BY <1>1, <2>1, <2>2 DEF Least, RoomOK
<1>3. CASE \E n \in 1 .. SendCap : ClientReads(n)
  BY <1>1, <1>3 DEF ClientReads, RoomOK
<1>4. CASE ~Transmit /\ ~(\E n \in 1 .. SendCap : ClientReads(n))
  <2>1. CASE Client \/ EventHandler \/ ConnWaiting \/ ConnWaitingFails \/ ConnNewCmd
              \/ ConnYields \/ ConnYieldsFails \/ ConnClose
    BY <1>1, <1>4, <2>1
       DEF Client, ClientSends, ClientHangsUp, EventHandler, ConnWaiting, ConnWaitingFails,
           UpdateEventFails, ConnNewCmd, ConnYields, ConnYieldsFails, ConnClose, RoomOK
  <2>2. CASE TryReadStep
    BY <1>1, <2>2 DEF TryReadStep, TryReadNetwork, Enlarge, EnlargeFails, EnlargedEnough,
                      ReadSome, ReadAgain, ReadEnds, RoomOK
  <2>3. CASE ParseStep
    BY <1>1, <2>3 DEF ParseStep, ParseNeedsMore, ParseBadMagic, ParseFits, ParseMakesRoom,
                      ParseFindsNoRoom, ParseHeader, RoomOK
  <2>4. CASE NreadStep
    BY <1>1, <2>4 DEF NreadStep, NreadCopy, NreadRead, NreadWaits, NreadWaitsFails, NreadEnds,
                      GetFails, GetSucceeds, CompleteNread, UpdateEventFails, RoomOK
  <2>5. CASE WriteStep
    BY <1>1, <1>4, <2>5 DEF WriteStep, Assemble, TransmitWaits, TransmitWaitsFails,
                      TransmitFails, FreeReply, ReplyDone, LineDone, UpdateEventFails, RoomOK
  <2>6. CASE UNCHANGED vars
    BY <1>1, <2>6 DEF vars, RoomOK
  <2> QED
    BY <2>1, <2>2, <2>3, <2>4, <2>5, <2>6 DEF Next, DriveMachine
<1> QED
  BY <1>2, <1>3, <1>4

LEMMA OutInvStep == BInv /\ StepInv /\ OutInv /\ RoomOK /\ [Next]_vars => OutInv'
<1> SUFFICES ASSUME BInv, StepInv, OutInv, RoomOK, [Next]_vars PROVE OutInv'
  OBVIOUS
<1>1. room \in Nat
  BY LimitsAssumption DEF RoomOK
<1>2. CASE Client \/ EventHandler \/ ConnWaiting \/ ConnWaitingFails \/ ConnNewCmd
             \/ ConnYields \/ ConnYieldsFails \/ ConnClose
  BY <1>2, OutInvOutside
<1>3. CASE TryReadStep
  BY <1>3, OutInvRead
<1>4. CASE ParseStep
  BY <1>4, OutInvParse
<1>5. CASE NreadStep
  BY <1>5, OutInvNread
<1>6. CASE WriteStep
  BY <1>1, <1>6, OutInvWrite
<1>7. CASE UNCHANGED vars
  <2>1. UNCHANGED <<msglist, iovused, evaluated, replies, sent, msgcurr, state>>
    BY <1>7 DEF vars, output, history
  <2> QED
    BY <2>1, OutInvKept
<1> QED
  BY <1>2, <1>3, <1>4, <1>5, <1>6, <1>7 DEF Next, DriveMachine

-----------------------------------------------------------------------------
(* The memory of a reply *)

(* Every byte that is left. *)
LEMMA UnsentIsLeft ==
  ASSUME NEW msgs \in Messages
  PROVE  UNION {Range(FlattenSeq(msgs[m])) : m \in 1 .. Len(msgs)} = Range(LeftOf(msgs))
<1>1. Len(msgs) \in {0, 1, 2}
  BY MessagesLen
<1>2. CASE Len(msgs) = 0
  BY <1>2 DEF LeftOf, Range
<1>3. CASE Len(msgs) = 1
  <2>1. LeftOf(msgs) = FlattenSeq(msgs[1]) /\ 1 .. Len(msgs) = {1}
    BY <1>3 DEF LeftOf
  <2> QED
    BY <2>1, Zenon
<1>4. CASE Len(msgs) = 2
  <2> DEFINE a == FlattenSeq(msgs[1])
             b == FlattenSeq(msgs[2])
  <2>1. LeftOf(msgs) = a \o b
    BY <1>4 DEF LeftOf
  <2>2. a \in Seq(Byte) /\ b \in Seq(Byte)
    BY <1>4, MessagesLen, FlattenType
  <2>3. UNION {Range(FlattenSeq(msgs[m])) : m \in 1 .. Len(msgs)} = Range(a) \cup Range(b)
    <3>1. 1 .. Len(msgs) = {1, 2}
      BY <1>4
    <3> QED
      BY <3>1, Zenon
  <2> HIDE DEF a, b
  <2>4. Range(a \o b) = Range(a) \cup Range(b)
    BY <2>2, RangeConcatenation
  <2> QED
    BY <2>1, <2>3, <2>4, Zenon
<1> QED
  BY <1>1, <1>2, <1>3, <1>4

Held(bytes, header, bodies) ==
  \A b \in bytes : /\ b.part \in {"head", "line"} => header = b.reply
                   /\ b.part = "results" => b.reply \in bodies

(* ReplyMemory over the bytes that are left, with what the states know of  *)
(* the buffers of a reply.                                                 *)
MemInv ==
  /\ heap = {write_and_free} \ {0} /\ write_and_free \in Nat
  /\ state = "closed" => heap = {}
  /\ state # "closed" => Held(Range(Left), wbuf, heap)
  /\ state \in Quiet \cup {"conn_write"} => write_and_free = 0
  /\ state = "conn_write" => wbuf = 0

LEMMA MemInvInit == Init => MemInv
<1> SUFFICES ASSUME Init PROVE MemInv
  OBVIOUS
<1>1. msglist = << >> /\ write_and_free = 0 /\ heap = {} /\ state = "conn_new_cmd"
  BY DEF Init
<1>2. Range(Left) = {}
  BY <1>1, EmptyMessages DEF Left, Range
<1> QED
  BY <1>1, <1>2 DEF MemInv, Held

(* Steps that leave the memory of replies alone. *)
LEMMA MemInvKept ==
  ASSUME MemInv, UNCHANGED <<wbuf, write_and_free, heap>>, Range(Left') \subseteq Range(Left),
         state # "closed", state' # "closed",
         state' \in Quiet => write_and_free = 0,
         state' = "conn_write" => state = "conn_write"
  PROVE  MemInv'
BY DEF MemInv, Held

(* Steps after which nothing is left of a message, and no reply is held.   *)
LEMMA MemInvEmpty ==
  ASSUME MemInv, Left' = << >>, heap' = heap \ {write_and_free}, write_and_free' = 0,
         state' = "conn_write" => wbuf' = 0
  PROVE  MemInv'
<1>1. Range(Left') = {} /\ heap' = {}
  BY DEF Range, MemInv
<1> QED
  BY <1>1 DEF MemInv, Held

LEMMA MemInvOutside ==
  ASSUME MemInv,
         Client \/ EventHandler \/ ConnWaiting \/ ConnWaitingFails \/ ConnNewCmd
           \/ ConnYields \/ ConnYieldsFails
  PROVE  MemInv'
<1>1. /\ UNCHANGED <<msglist, wbuf, write_and_free, heap>>
  BY DEF Client, ClientSends, ClientHangsUp, ClientReads, Idle, EventHandler, ConnWaiting,
         ConnWaitingFails, UpdateEventFails, ConnNewCmd, ConnYields, ConnYieldsFails,
         output, memory
<1>2. /\ state # "closed" /\ state' # "closed"
      /\ \/ state' = state
         \/ state \in Quiet /\ state' \in Quiet
         \/ state' = "conn_closing"
  BY DEF Client, ClientSends, ClientHangsUp, ClientReads, Idle, EventHandler, ConnWaiting,
         ConnWaitingFails, UpdateEventFails, ConnNewCmd, ConnYields, ConnYieldsFails,
         In, Close, Quiet
<1>3. /\ state' \in Quiet => write_and_free = 0
      /\ state' = "conn_write" => state = "conn_write"
      /\ Left' = Left
  BY <1>1, <1>2 DEF MemInv, Quiet, Left
<1> QED
  BY <1>1, <1>2, <1>3, MemInvKept

LEMMA MemInvRead == ASSUME MemInv, TryReadStep PROVE MemInv'
<1>1. UNCHANGED <<write_and_free, heap>> /\ state = "conn_read" /\ write_and_free = 0
  BY DEF TryReadStep, TryReadNetwork, Enlarge, EnlargeFails, EnlargedEnough, ReadSome,
         ReadAgain, ReadEnds, Reading, In, memory, MemInv, Quiet
<1>2. CASE EnlargeFails
  <2>1. msglist' = << << >> >> /\ wbuf' = 0
    BY <1>2 DEF EnlargeFails
  <2>2. Left' = << >> /\ heap' = heap \ {write_and_free}
    BY <1>1, <2>1, EmptyMessages DEF Left, MemInv
  <2> QED
    BY <1>1, <2>1, <2>2, MemInvEmpty
<1>3. CASE ~EnlargeFails
  <2>1. /\ UNCHANGED <<msglist, wbuf>>
        /\ state' \in {"conn_read", "conn_parse_cmd", "conn_waiting", "conn_closing"}
    BY <1>3 DEF TryReadStep, TryReadNetwork, Enlarge, EnlargedEnough, ReadSome, ReadAgain,
                ReadEnds, Reading, In, ReadReturns, Close, output
  <2>2. Left' = Left
    BY <2>1 DEF Left
  <2> QED
    BY <1>1, <2>1, <2>2, MemInvKept
<1> QED
  BY <1>2, <1>3

LEMMA MemInvParse == ASSUME MemInv, ParseStep PROVE MemInv'
<1>1. /\ UNCHANGED <<wbuf, write_and_free, heap>> /\ state = "conn_parse_cmd"
      /\ write_and_free = 0 /\ state' \in {"conn_waiting", "conn_closing", "conn_nread"}
  BY DEF ParseStep, ParseNeedsMore, ParseBadMagic, ParseFits, ParseMakesRoom,
         ParseFindsNoRoom, ParseHeader, In, Close, output, memory, MemInv, Quiet
<1>2. CASE ParseNeedsMore \/ ParseBadMagic
  <2>1. Left' = Left
    BY <1>2 DEF ParseNeedsMore, ParseBadMagic, output, Left
  <2> QED
    BY <1>1, <2>1, MemInvKept
<1>3. ASSUME NEW i \in 1 .. Len(input), ParseFits(i) \/ ParseMakesRoom(i) \/ ParseFindsNoRoom(i)
      PROVE  MemInv'
  <2>1. msglist' = << << >> >>
    BY <1>3 DEF ParseFits, ParseMakesRoom, ParseFindsNoRoom, ParseHeader
  <2>2. Left' = << >> /\ heap' = heap \ {write_and_free}
    BY <1>1, <2>1, EmptyMessages DEF Left, MemInv
  <2> QED
    BY <1>1, <2>2, MemInvEmpty
<1> QED
  BY <1>2, <1>3 DEF ParseStep

LEMMA BytesRange ==
  ASSUME NEW r, NEW part, NEW n
  PROVE  \A b \in Range(Bytes(r, part, n)) : b.reply = r /\ b.part = part
BY DEF Range, Bytes

LEMMA MemInvReply ==
  ASSUME OutInv, MemInv, NEW err \in Nat, NEW part \in {"results", "error"}, NEW len \in Nat,
         CompleteNread, BinReply(err, part, len),
         \/ heap' = heap \cup {Len(replies) + 1} /\ write_and_free' = Len(replies) + 1
         \/ part = "error" /\ UNCHANGED <<heap, write_and_free>>
  PROVE  MemInv'
<1> DEFINE r == Len(replies) + 1
           head == Bytes(r, "head", RespHeaderLen)
           body == Bytes(r, part, len)
<1>1. /\ msglist' = Assembled(r, part, len) /\ wbuf' = r /\ state' = "conn_mwrite"
      /\ state = "conn_nread"
  BY DEF BinReply, Assembled, CompleteNread, In
<1>2. r \in Nat /\ r # 0
  BY DEF OutInv, OutType
<1>3. head \in Seq(Byte) /\ body \in Seq(Byte)
  BY <1>2, HeaderAssumption, BytesType
<1>4. Left' = head \o body
  <2> HIDE DEF r
  <2>1. AssembledFrom(Assembled(r, part, len), r, part, len)
    BY <1>2, ReplyMessages
  <2> QED
    BY <1>1, <2>1, Zenon DEF AssembledFrom, Left
<1>5. \A b \in Range(head) : b.reply = r /\ b.part = "head"
  BY BytesRange
<1>6. \A b \in Range(body) : b.reply = r /\ b.part = part
  BY BytesRange
<1> HIDE DEF head, body, r
<1>7. Range(Left') = Range(head) \cup Range(body)
  <2>1. Range(head \o body) = Range(head) \cup Range(body)
    BY <1>3, RangeConcatenation
  <2> QED
    BY <1>4, <2>1, Zenon
<1>8. write_and_free = 0 /\ heap = {}
  BY <1>1 DEF MemInv, Quiet
<1>9. \/ heap' = {r} /\ write_and_free' = r
      \/ part = "error" /\ heap' = {} /\ write_and_free' = 0
  BY <1>8 DEF r
<1>10. Held(Range(Left'), wbuf', heap')
  BY <1>1, <1>5, <1>6, <1>7, <1>9 DEF Held
<1> QED
  BY <1>1, <1>2, <1>9, <1>10 DEF MemInv, Quiet

LEMMA MemInvNread == ASSUME OutInv, MemInv, NreadStep PROVE MemInv'
<1>1. CASE NreadCopy \/ NreadRead \/ NreadWaits \/ NreadWaitsFails \/ NreadEnds
  <2>1. /\ UNCHANGED <<msglist, wbuf, write_and_free, heap>> /\ state = "conn_nread"
        /\ state' = state \/ state' = "conn_closing"
    BY <1>1 DEF NreadCopy, NreadRead, NreadWaits, NreadWaitsFails, NreadEnds, NreadMustWait,
                UpdateEventFails, Close, In, output, memory
  <2>2. Left' = Left /\ write_and_free = 0
    BY <2>1 DEF Left, MemInv, Quiet
  <2> QED
    BY <2>1, <2>2, MemInvKept
<1>2. CASE GetFails
  <2>1. CompleteNread /\ BinReply(ResponseEnomem, "error", ErrorLen)
        /\ UNCHANGED <<heap, write_and_free>>
    BY <1>2 DEF GetFails, memory
  <2>2. ErrorLen \in Nat /\ ResponseEnomem \in Nat
    BY RepliesAssumption DEF ResponseEnomem
  <2> QED
    BY <2>1, <2>2, MemInvReply
<1>3. ASSUME NEW len \in ReplyLens, GetSucceeds(len) PROVE MemInv'
  <2>1. CompleteNread /\ BinReply(ResponseSuccess, "results", len)
        /\ heap' = heap \cup {Len(replies) + 1} /\ write_and_free' = Len(replies) + 1
    BY <1>3 DEF GetSucceeds
  <2>2. len \in Nat /\ ResponseSuccess \in Nat
    BY RepliesAssumption DEF ResponseSuccess
  <2> QED
    BY <2>1, <2>2, MemInvReply
<1> QED
  BY <1>1, <1>2, <1>3 DEF NreadStep

LEMMA MemInvWrite == ASSUME StepInv, OutInv, MemInv, room \in Nat, WriteStep PROVE MemInv'
<1>1. CASE Assemble
  <2>1. /\ UNCHANGED <<wbuf, write_and_free, heap, state>> /\ state = "conn_write"
        /\ iovused = 0 /\ msglist' = AddIov(msglist, Line)
    BY <1>1 DEF Assemble, In, memory
  <2>2. wbuf = 0 /\ write_and_free = 0 /\ heap = {} /\ msglist = << << >> >>
    BY <2>1 DEF MemInv, OutInv
  <2>3. Line \in Seq(Byte) /\ << >> \in Seq(Seq(Byte)) /\ Len(FlattenSeq(<< >>)) < MaxPayload
    <3>1. LineLen \in Nat /\ 0 < MaxPayload /\ Len(<< >>) = 0
      BY HeaderAssumption, RepliesAssumption
    <3> QED
      BY <3>1, BytesType, FlattenEmpty DEF Line
  <2>4. Left' = FlattenSeq(<< >>) \o Line
    <3>1. LeftOf(AddIov(<< << >> >>, Line)) = FlattenSeq(<< >>) \o Line
      BY <2>3, AddIovAdds
    <3> QED
      BY <2>1, <2>2, <3>1, Zenon DEF Left
  <2>5. Left' = Line
    BY <2>3, <2>4, FlattenEmpty, ConcatEmptySeq
  <2>6. \A b \in Range(Left') : b.reply = 0 /\ b.part = "line"
    BY <2>5, BytesRange DEF Line
  <2>7. Held(Range(Left'), wbuf', heap')
    BY <2>1, <2>2, <2>6 DEF Held
  <2> QED
    BY <2>1, <2>2, <2>7 DEF MemInv, Quiet
<1>2. CASE Transmit
  <2>1. UNCHANGED <<wbuf, write_and_free, heap, state>>
        /\ state \in {"conn_write", "conn_mwrite"}
    BY <1>2 DEF Transmit, Transmitting, Writing, memory
  <2>2. PICK p \in Seq(Byte) : Left = p \o Left'
    BY <1>2, TransmitBytes
  <2>3. Left' \in Seq(Byte)
    <3>1. msglist' \in Messages
      BY <1>2, TransmitBytes DEF OutType
    <3> QED
      BY <3>1, LeftType DEF Left
  <2>4. Range(Left') \subseteq Range(Left)
    <3> DEFINE l == Left'
    <3>1. l \in Seq(Byte)
      BY <2>3
    <3> HIDE DEF l
    <3>2. Range(p \o l) = Range(p) \cup Range(l)
      BY <3>1, RangeConcatenation
    <3> QED
      BY <2>2, <3>2, Zenon DEF l
  <2> QED
    BY <2>1, <2>4, MemInvKept DEF Quiet
<1>3. CASE TransmitWaits \/ TransmitWaitsFails \/ TransmitFails
  <2>1. /\ UNCHANGED <<msglist, wbuf, write_and_free, heap>>
        /\ state' = state \/ state' = "conn_closing"
        /\ state \in {"conn_write", "conn_mwrite"}
    BY <1>3 DEF TransmitWaits, TransmitWaitsFails, TransmitFails, Transmitting, Writing,
                UpdateEventFails, Close, memory
  <2>2. Left' = Left
    BY <2>1 DEF Left
  <2> QED
    BY <2>1, <2>2, MemInvKept DEF Quiet
<1>4. CASE FreeReply \/ LineDone
  <2>1. /\ UNCHANGED msglist /\ Transmitted
        /\ heap' = heap \ {write_and_free} /\ write_and_free' = 0
        /\ \/ state' = "conn_mwrite"
           \/ state = "conn_write" /\ state' = write_and_go
    BY <1>4 DEF FreeReply, LineDone
  <2>2. state' # "conn_write"
    BY <2>1 DEF StepInv
  <2>3. Left' = << >>
    <3>1. Left = << >>
      BY <2>1, TransmittedAll
    <3> QED
      BY <2>1, <3>1 DEF Left
  <2> QED
    BY <2>1, <2>2, <2>3, MemInvEmpty
<1>5. CASE ReplyDone
  <2>1. /\ UNCHANGED <<msglist, wbuf, write_and_free, heap>> /\ write_and_free = 0
        /\ state = "conn_mwrite" /\ state' = "conn_new_cmd"
    BY <1>5 DEF ReplyDone, memory
  <2>2. Left' = Left
    BY <2>1 DEF Left
  <2> QED
    BY <2>1, <2>2, MemInvKept
<1> QED
  BY <1>1, <1>2, <1>3, <1>4, <1>5 DEF WriteStep

LEMMA MemInvStep == StepInv /\ OutInv /\ RoomOK /\ MemInv /\ [Next]_vars => MemInv'
<1> SUFFICES ASSUME StepInv, OutInv, RoomOK, MemInv, [Next]_vars PROVE MemInv'
  OBVIOUS
<1>1. room \in Nat
  BY LimitsAssumption DEF RoomOK
<1>2. CASE Client \/ EventHandler \/ ConnWaiting \/ ConnWaitingFails \/ ConnNewCmd
             \/ ConnYields \/ ConnYieldsFails
  BY <1>2, MemInvOutside
<1>3. CASE TryReadStep
  BY <1>3, MemInvRead
<1>4. CASE ParseStep
  BY <1>4, MemInvParse
<1>5. CASE NreadStep
  BY <1>5, MemInvNread
<1>6. CASE WriteStep
  BY <1>1, <1>6, MemInvWrite
<1>7. CASE ConnClose
  BY <1>7 DEF ConnClose, MemInv, Quiet
<1>8. CASE UNCHANGED vars
  <2>1. UNCHANGED <<msglist, wbuf, write_and_free, heap, state>>
    BY <1>8 DEF vars, output, memory
  <2>2. Left' = Left
    BY <2>1 DEF Left
  <2> QED
    BY <2>1, <2>2 DEF MemInv
<1> QED
  BY <1>2, <1>3, <1>4, <1>5, <1>6, <1>7, <1>8 DEF Next, DriveMachine

LEMMA MemInvImplies == OutInv /\ MemInv => ReplyMemory
<1>1. ASSUME OutInv, MemInv PROVE ReplyMemory
  <2>1. Unsent = Range(Left)
    BY <1>1, UnsentIsLeft DEF Unsent, Left, OutInv, OutType
  <2> QED
    BY <1>1, <2>1 DEF ReplyMemory, MemInv, Held
<1> QED
  BY <1>1

(* The memory of a reply: for replies of any length, however sendmsg cuts  *)
(* them into pieces, what transmit still has to send is in wbuf and in an  *)
(* allocated body, and a body is allocated only while write_and_free       *)
(* points to it.                                                           *)
THEOREM ReplyMemoryIsSound == Spec => []ReplyMemory
BY BInvInit, BInvStep, StepInvInit, StepInvStep, OutInvInit, OutInvStep, RoomInit, RoomStep,
   MemInvInit, MemInvStep, MemInvImplies, PTL DEF Spec

-----------------------------------------------------------------------------
(* The promise to the client *)

(* What the promise says of a step, over the variables of ConnMachine.     *)
PromisedAnswer ==
  /\ state # "closed" /\ state' # "closed"
  /\ sent = Stream(replies)
  /\ Len(evaluated) < Len(input)
  /\ evaluated' = Append(evaluated, Body(input, Len(evaluated) + 1))
  /\ Len(replies') = Len(replies) + 1 /\ IsPrefix(replies, replies')
  /\ UNCHANGED <<input, sent>>

PromisedSend ==
  /\ state # "closed" /\ state' # "closed"
  /\ IsStrictPrefix(sent, sent')
  /\ IsPrefix(sent', Stream(replies) \o Line)
  /\ UNCHANGED <<input, evaluated, replies>>

PromisedEnd ==
  /\ state # "closed" /\ state' = "closed"
  /\ UNCHANGED <<input, evaluated, replies, sent>>

PromisedStutter ==
  /\ UNCHANGED <<input, evaluated, replies, sent>>
  /\ (state' = "closed") = (state = "closed")

LEMMA PromisedTerms ==
  /\ \A rs : Promise!Stream(rs) = Stream(rs)
  /\ \A s, i : Promise!Body(s, i) = Body(s, i)
<1>1. \A rs : Promise!Stream(rs) = Stream(rs)
  BY Zenon DEF Promise!Stream, Promise!Bytes, Promise!FlattenSeq, Stream, Bytes, FlattenSeq
<1>2. \A s : Promise!EndOf(s) = EndOf(s)
  BY Zenon DEF Promise!EndOf, EndOf
<1>3. \A s, i : Promise!Body(s, i) = Body(s, i)
  BY <1>2, Zenon DEF Promise!Body, Body
<1> QED
  BY <1>1, <1>3

LEMMA PromisedInit == Init => Promise!Init
BY DEF Init, Promise!Init

LEMMA PromisedIsPromise ==
  ASSUME PromisedAnswer \/ PromisedSend \/ PromisedEnd \/ PromisedStutter
  PROVE  [Promise!Next]_(Promise!vars)
<1>1. CASE PromisedAnswer
  <2>1. Promise!Answer
    BY <1>1, PromisedTerms DEF PromisedAnswer, Promise!Answer, Promise!IsPrefix, IsPrefix
  <2> QED
    BY <2>1 DEF Promise!Next
<1>2. CASE PromisedSend
  <2>1. Promise!Send
    BY <1>2, PromisedTerms DEF PromisedSend, Promise!Send, Promise!IsStrictPrefix,
                Promise!IsPrefix, IsStrictPrefix, IsPrefix
  <2> QED
    BY <2>1 DEF Promise!Next
<1>3. CASE PromisedEnd
  <2>1. Promise!End
    BY <1>3 DEF PromisedEnd, Promise!End
  <2> QED
    BY <2>1 DEF Promise!Next
<1>4. CASE PromisedStutter
  BY <1>4 DEF PromisedStutter, Promise!vars
<1> QED
  BY <1>1, <1>2, <1>3, <1>4

LEMMA PrefixOfAppend ==
  ASSUME NEW D, NEW s \in Seq(D), NEW e \in D
  PROVE  IsPrefix(s, Append(s, e))
<1>1. Append(s, e) = s \o <<e>> /\ <<e>> \in Seq(D)
  BY AppendIsConcat
<1>2. IsPrefix(s, s \o <<e>>)
  BY <1>1, ConcatIsPrefix
<1> QED
  BY <1>1, <1>2, Zenon

LEMMA GetIsAnswer ==
  ASSUME BInv, StepInv, OutInv, NEW err \in Nat, NEW part \in {"results", "error"},
         NEW len \in Nat, CompleteNread, BinReply(err, part, len)
  PROVE  PromisedAnswer
<1> DEFINE reply == [status |-> Htons(err) % 256, part |-> part, bodylen |-> len]
<1>1. /\ replies' = Append(replies, reply) /\ state' = "conn_mwrite" /\ state = "conn_nread"
      /\ sent' = sent /\ input' = input
  BY DEF BinReply, CompleteNread, In, client
<1>2. replies \in Seq(Reply) /\ reply \in Reply
  BY DEF OutInv, OutType, Reply, Htons
<1>3. sent = Stream(replies)
  BY <1>1 DEF OutInv, Quiet
<1>4. /\ evaluated' = Append(evaluated, Body(input, Len(evaluated) + 1))
      /\ Len(evaluated) < Len(input)
  BY EvaluatesTheBody
<1> HIDE DEF reply
<1>5. Len(replies') = Len(replies) + 1
  BY <1>1, <1>2
<1>6. IsPrefix(replies, replies')
  BY <1>1, <1>2, PrefixOfAppend
<1> QED
  BY <1>1, <1>3, <1>4, <1>5, <1>6 DEF PromisedAnswer

LEMMA TransmitIsSend ==
  ASSUME OutInv, Transmit, room \in Nat
  PROVE  PromisedSend \/ PromisedStutter
<1>1. /\ OutType' /\ (iovused # 0 \/ state = "conn_mwrite")
      /\ state' = state /\ state \in {"conn_write", "conn_mwrite"}
      /\ sent' \o Left' = sent \o Left
  BY TransmitBytes
<1>2. PICK p \in Seq(Byte) : sent' = sent \o p
  BY TransmitBytes
<1>3. UNCHANGED <<input, evaluated, replies>>
  BY DEF Transmit, client, history
<1>4. sent \in Seq(Byte) /\ sent' \in Seq(Byte) /\ replies \in Seq(Reply)
  BY <1>1 DEF OutInv, OutType
<1>5. IsPrefix(sent, sent')
  BY <1>2, <1>4, ConcatIsPrefix
<1>6. Left' \in Seq(Byte) /\ Stream(replies) \in Seq(Byte) /\ Line \in Seq(Byte)
  <2>1. msglist' \in Messages
    BY <1>1 DEF OutType
  <2>2. LineLen \in Nat
    BY RepliesAssumption
  <2> QED
    BY <1>4, <2>1, <2>2, LeftType, StreamType, BytesType DEF Left, Line
<1>7. IsPrefix(sent', Stream(replies) \o Line)
  <2> DEFINE l == Left'
             now == sent'
             all == Stream(replies)
             line == Line
  <2>1. l \in Seq(Byte) /\ all \in Seq(Byte) /\ line \in Seq(Byte) /\ now \in Seq(Byte)
    BY <1>4, <1>6
  <2>2. \/ now \o l = all
        \/ now \o l = all \o line
    <3>1. CASE state = "conn_mwrite"
      <4>1. sent \o Left = Stream(replies)
        BY <3>1 DEF OutInv
      <4> QED
        BY <1>1, <4>1, Zenon
    <3>2. CASE state = "conn_write" /\ iovused # 0
      <4>1. sent \o Left = Stream(replies) \o Line
        BY <3>2 DEF OutInv
      <4> QED
        BY <1>1, <4>1, Zenon
    <3> QED
      BY <1>1, <3>1, <3>2
  <2> HIDE DEF l, now, all, line
  <2>3. CASE now \o l = all \o line
    <3>1. IsPrefix(now, now \o l)
      BY <2>1, ConcatIsPrefix
    <3> QED
      BY <2>3, <3>1, Zenon DEF now, all, line
  <2>4. CASE now \o l = all
    <3>1. l \o line \in Seq(Byte)
      BY <2>1, ConcatProperties
    <3>2. Associates(Byte)
      BY ConcatAssociates
    <3>3. (now \o l) \o line = now \o (l \o line)
      BY <2>1, <3>2, Zenon DEF Associates
    <3>4. PICK r \in Seq(Byte) : r = l \o line
      BY <3>1, Zenon
    <3>5. IsPrefix(now, now \o r)
      BY <2>1, ConcatIsPrefix
    <3>6. now \o r = all \o line
      BY <2>4, <3>3, <3>4, Zenon
    <3> QED
      BY <3>5, <3>6, Zenon DEF now, all, line
  <2> QED
    BY <2>2, <2>3, <2>4
<1>8. state # "closed" /\ state' # "closed"
  BY <1>1
<1>9. CASE sent' = sent
  BY <1>3, <1>8, <1>9 DEF PromisedStutter
<1>10. CASE sent' # sent
  <2>1. IsStrictPrefix(sent, sent')
    BY <1>5, <1>10 DEF IsStrictPrefix
  <2> QED
    BY <1>3, <1>7, <1>8, <2>1, Zenon DEF PromisedSend
<1> QED
  BY <1>9, <1>10

LEMMA PromisedStep ==
  BInv /\ StepInv /\ OutInv /\ RoomOK /\ [Next]_vars => [Promise!Next]_(Promise!vars)
<1> SUFFICES ASSUME BInv, StepInv, OutInv, RoomOK, [Next]_vars
             PROVE  PromisedAnswer \/ PromisedSend \/ PromisedEnd \/ PromisedStutter
  BY PromisedIsPromise
<1>1. room \in Nat
  BY LimitsAssumption DEF RoomOK
<1>2. CASE Client \/ EventHandler \/ ConnWaiting \/ ConnWaitingFails \/ ConnNewCmd
             \/ ConnYields \/ ConnYieldsFails
  <2>1. UNCHANGED <<input, evaluated, replies, sent>> /\ state # "closed" /\ state' # "closed"
    BY <1>2 DEF Client, ClientSends, ClientHangsUp, ClientReads, Idle, EventHandler,
         ConnWaiting, ConnWaitingFails, UpdateEventFails, ConnNewCmd, ConnYields,
         ConnYieldsFails, In, Close, client, history
  <2> QED
    BY <2>1 DEF PromisedStutter
<1>3. CASE TryReadStep
  <2>1. UNCHANGED <<input, evaluated, replies, sent>> /\ state # "closed" /\ state' # "closed"
    BY <1>3 DEF TryReadStep, TryReadNetwork, Enlarge, EnlargeFails, EnlargedEnough, ReadSome,
         ReadAgain, ReadEnds, ReadReturns, Reading, In, Close, client, history
  <2> QED
    BY <2>1 DEF PromisedStutter
<1>4. CASE ParseStep
  <2>1. UNCHANGED <<input, evaluated, replies, sent>> /\ state # "closed" /\ state' # "closed"
    BY <1>4 DEF ParseStep, ParseNeedsMore, ParseBadMagic, ParseFits, ParseMakesRoom,
         ParseFindsNoRoom, ParseHeader, In, Close, client, history
  <2> QED
    BY <2>1 DEF PromisedStutter
<1>5. CASE NreadCopy \/ NreadRead \/ NreadWaits \/ NreadWaitsFails \/ NreadEnds
  <2>1. UNCHANGED <<input, evaluated, replies, sent>> /\ state # "closed" /\ state' # "closed"
    BY <1>5 DEF NreadCopy, NreadRead, NreadWaits, NreadWaitsFails, NreadEnds, NreadMustWait,
                UpdateEventFails, In, Close, client, history
  <2> QED
    BY <2>1 DEF PromisedStutter
<1>6. CASE GetFails \/ \E len \in ReplyLens : GetSucceeds(len)
  <2>1. CASE GetFails
    <3>1. CompleteNread /\ BinReply(ResponseEnomem, "error", ErrorLen)
      BY <2>1 DEF GetFails
    <3>2. ErrorLen \in Nat /\ ResponseEnomem \in Nat
      BY RepliesAssumption DEF ResponseEnomem
    <3> QED
      BY <3>1, <3>2, GetIsAnswer
  <2>2. ASSUME NEW len \in ReplyLens, GetSucceeds(len)
        PROVE  PromisedAnswer
    <3>1. CompleteNread /\ BinReply(ResponseSuccess, "results", len)
      BY <2>2 DEF GetSucceeds
    <3>2. len \in Nat /\ ResponseSuccess \in Nat
      BY RepliesAssumption DEF ResponseSuccess
    <3> QED
      BY <3>1, <3>2, GetIsAnswer
  <2> QED
    BY <1>6, <2>1, <2>2
<1>7. CASE Transmit
  BY <1>1, <1>7, TransmitIsSend
<1>8. CASE WriteStep /\ ~Transmit
  <2>1. /\ UNCHANGED <<input, evaluated, replies, sent>> /\ state # "closed"
        /\ \/ state' # "closed"
           \/ state = "conn_write" /\ state' = write_and_go
    BY <1>8 DEF WriteStep, Assemble, TransmitWaits, TransmitWaitsFails, TransmitFails,
                FreeReply, ReplyDone, LineDone, Transmitting, Transmitted, Writing,
                UpdateEventFails, In, Close, client, history
  <2>2. state' # "closed"
    BY <2>1 DEF StepInv
  <2> QED
    BY <2>1, <2>2 DEF PromisedStutter
<1>9. CASE ConnClose
  BY <1>9 DEF ConnClose, In, client, history, PromisedEnd
<1>10. CASE UNCHANGED vars
  BY <1>10 DEF vars, client, history, PromisedStutter
<1> QED
  BY <1>2, <1>3, <1>4, <1>5, <1>6, <1>7, <1>8, <1>9, <1>10
     DEF Next, DriveMachine, NreadStep

(* The connection keeps the promise of ReplyStream: requests evaluated in  *)
(* order, each on its own body, and exactly their replies sent, whole and  *)
(* once - for any requests, sizes, limits and failures.                    *)
THEOREM RepliesAreInOrder == Spec => ImplementsReplyStream
BY BInvInit, BInvStep, StepInvInit, StepInvStep, OutInvInit, OutInvStep, RoomInit, RoomStep,
   PromisedInit, PromisedStep, PTL DEF Spec, ImplementsReplyStream, Promise!Spec

-----------------------------------------------------------------------------
(* The types of all variables *)

(* The variables that the other invariants leave out. *)
OtherTypes ==
  /\ eof \in BOOLEAN /\ faults \in 0 .. MaxFaults
  /\ running \in BOOLEAN /\ nreqs \in 0 .. ReqsPerEvent
  /\ ev_flags \in {"EV_READ", "EV_WRITE"} /\ registered \in BOOLEAN
  /\ wbuf \in -1 .. Len(replies) /\ write_and_free \in 0 .. Len(replies)

LEMMA OtherTypesInit == Init => OtherTypes
<1> SUFFICES ASSUME Init PROVE OtherTypes
  OBVIOUS
<1>1. Len(replies) = 0 /\ MaxFaults \in Nat /\ ReqsPerEvent \in Nat
  BY LimitsAssumption DEF Init
<1>2. /\ eof \in BOOLEAN /\ running \in BOOLEAN
      /\ ev_flags \in {"EV_READ", "EV_WRITE"} /\ registered \in BOOLEAN
  BY DEF Init
<1>3. faults \in 0 .. MaxFaults /\ nreqs \in 0 .. ReqsPerEvent
  BY <1>1 DEF Init
<1>4. wbuf = -1 /\ write_and_free = 0
  BY DEF Init
<1>5. wbuf \in -1 .. Len(replies) /\ write_and_free \in 0 .. Len(replies)
  BY <1>1, <1>4
<1> QED
  BY <1>2, <1>3, <1>5 DEF OtherTypes

(* Outside of the replies a step counts down, or sets a flag. *)
Modest ==
  /\ eof' = eof \/ eof' = TRUE
  /\ running' = running \/ running' = TRUE \/ running' = FALSE
  /\ faults' = faults \/ Fault
  /\ nreqs' = nreqs \/ nreqs' = ReqsPerEvent \/ (nreqs > 0 /\ nreqs' = nreqs - 1)
  /\ ev_flags' = ev_flags \/ ev_flags' = "EV_READ" \/ ev_flags' = "EV_WRITE"
  /\ registered' = registered \/ registered' \in BOOLEAN

LEMMA OtherTypesModest ==
  ASSUME OtherTypes, Modest, replies' = replies,
         wbuf' \in {wbuf, 0}, write_and_free' \in {write_and_free, 0},
         Len(replies) \in Nat
  PROVE  OtherTypes'
<1>1. MaxFaults \in Nat /\ ReqsPerEvent \in Nat
  BY LimitsAssumption
<1>2. faults' \in 0 .. MaxFaults /\ nreqs' \in 0 .. ReqsPerEvent
  BY <1>1 DEF OtherTypes, Modest, Fault
<1>3. wbuf' \in -1 .. Len(replies') /\ write_and_free' \in 0 .. Len(replies')
  BY DEF OtherTypes
<1> QED
  BY <1>2, <1>3 DEF OtherTypes, Modest

LEMMA OtherTypesStep == OutInv /\ OtherTypes /\ [Next]_vars => OtherTypes'
<1> SUFFICES ASSUME OutInv, OtherTypes, [Next]_vars PROVE OtherTypes'
  OBVIOUS
<1>0. /\ Len(replies) \in Nat /\ replies \in Seq(Reply)
      /\ eof \in BOOLEAN /\ running \in BOOLEAN
  BY DEF OutInv, OutType, OtherTypes
<1>1. CASE Client \/ EventHandler \/ ConnWaiting \/ ConnWaitingFails \/ ConnNewCmd
             \/ ConnYields \/ ConnYieldsFails \/ ConnClose
  <2> USE DEF Client, ClientSends, ClientHangsUp, ClientReads, Idle, EventHandler,
              ConnWaiting, ConnWaitingFails, UpdateEventFails, UpdateEvent, ConnNewCmd,
              ConnShrink, ConnYields, ConnYieldsFails, ConnClose, In, Stop,
              client, event, loop, output, memory, history
  <2>1. Modest
    <3>1. eof' = eof \/ eof' = TRUE
      BY <1>1
    <3>2. running' = running \/ running' = TRUE \/ running' = FALSE
      BY <1>1
    <3>3. faults' = faults \/ Fault
      BY <1>1
    <3>4. nreqs' = nreqs \/ nreqs' = ReqsPerEvent \/ (nreqs > 0 /\ nreqs' = nreqs - 1)
      BY <1>1
    <3>5. ev_flags' = ev_flags \/ ev_flags' = "EV_READ" \/ ev_flags' = "EV_WRITE"
      BY <1>1
    <3>6. registered' = registered \/ registered' \in BOOLEAN
      BY <1>1
    <3> QED
      BY <3>1, <3>2, <3>3, <3>4, <3>5, <3>6 DEF Modest
  <2>2. replies' = replies /\ wbuf' = wbuf /\ write_and_free' \in {write_and_free, 0}
    BY <1>1
  <2> QED
    BY <1>0, <2>1, <2>2, OtherTypesModest
<1>2. CASE TryReadStep
  <2> USE DEF TryReadStep, TryReadNetwork, Enlarge, EnlargeFails, EnlargedEnough, ReadSome,
              ReadAgain, ReadEnds, client, event, output, memory, history
  <2>1. Modest
    <3>1. eof' = eof \/ eof' = TRUE
      BY <1>2
    <3>2. running' = running \/ running' = TRUE \/ running' = FALSE
      BY <1>2
    <3>3. faults' = faults \/ Fault
      BY <1>2
    <3>4. nreqs' = nreqs \/ nreqs' = ReqsPerEvent \/ (nreqs > 0 /\ nreqs' = nreqs - 1)
      BY <1>2
    <3>5. ev_flags' = ev_flags \/ ev_flags' = "EV_READ" \/ ev_flags' = "EV_WRITE"
      BY <1>2
    <3>6. registered' = registered \/ registered' \in BOOLEAN
      BY <1>2
    <3> QED
      BY <3>1, <3>2, <3>3, <3>4, <3>5, <3>6 DEF Modest
  <2>2. replies' = replies /\ wbuf' \in {wbuf, 0} /\ write_and_free' = write_and_free
    BY <1>2
  <2> QED
    BY <1>0, <2>1, <2>2, OtherTypesModest
<1>3. CASE ParseStep
  <2> USE DEF ParseStep, ParseNeedsMore, ParseBadMagic, ParseFits, ParseMakesRoom,
              ParseFindsNoRoom, ParseHeader, client, event, loop, output, memory, history
  <2>1. Modest
    <3>1. eof' = eof \/ eof' = TRUE
      BY <1>3
    <3>2. running' = running \/ running' = TRUE \/ running' = FALSE
      BY <1>3
    <3>3. faults' = faults \/ Fault
      BY <1>3
    <3>4. nreqs' = nreqs \/ nreqs' = ReqsPerEvent \/ (nreqs > 0 /\ nreqs' = nreqs - 1)
      BY <1>3
    <3>5. ev_flags' = ev_flags \/ ev_flags' = "EV_READ" \/ ev_flags' = "EV_WRITE"
      BY <1>3
    <3>6. registered' = registered \/ registered' \in BOOLEAN
      BY <1>3
    <3> QED
      BY <3>1, <3>2, <3>3, <3>4, <3>5, <3>6 DEF Modest
  <2>2. replies' = replies /\ wbuf' = wbuf /\ write_and_free' = write_and_free
    BY <1>3
  <2> QED
    BY <1>0, <2>1, <2>2, OtherTypesModest
<1>4. CASE NreadCopy \/ NreadRead \/ NreadWaits \/ NreadWaitsFails \/ NreadEnds
  <2> USE DEF NreadCopy, NreadRead, NreadWaits, NreadWaitsFails, NreadEnds,
              UpdateEventFails, UpdateEvent, Stop, client, event, loop, output, memory, history
  <2>1. Modest
    <3>1. eof' = eof \/ eof' = TRUE
      BY <1>4
    <3>2. running' = running \/ running' = TRUE \/ running' = FALSE
      BY <1>4
    <3>3. faults' = faults \/ Fault
      BY <1>4
    <3>4. nreqs' = nreqs \/ nreqs' = ReqsPerEvent \/ (nreqs > 0 /\ nreqs' = nreqs - 1)
      BY <1>4
    <3>5. ev_flags' = ev_flags \/ ev_flags' = "EV_READ" \/ ev_flags' = "EV_WRITE"
      BY <1>4
    <3>6. registered' = registered \/ registered' \in BOOLEAN
      BY <1>4
    <3> QED
      BY <3>1, <3>2, <3>3, <3>4, <3>5, <3>6 DEF Modest
  <2>2. replies' = replies /\ wbuf' = wbuf /\ write_and_free' = write_and_free
    BY <1>4
  <2> QED
    BY <1>0, <2>1, <2>2, OtherTypesModest
<1>5. CASE GetFails \/ \E len \in ReplyLens : GetSucceeds(len)
  <2>1. /\ UNCHANGED <<eof, faults, running, nreqs, ev_flags, registered>>
        /\ wbuf' = Len(replies) + 1
        /\ write_and_free' \in {write_and_free, Len(replies) + 1}
    BY <1>5 DEF GetFails, GetSucceeds, CompleteNread, BinReply, client, event, loop, memory
  <2>2. PICK status \in Int, part \in {"results", "error"}, len \in Nat :
          replies' = Append(replies, [status |-> status, part |-> part, bodylen |-> len])
    <3>1. CASE GetFails
      <4>1. ErrorLen \in Nat /\ Htons(ResponseEnomem) % 256 \in Int
        BY RepliesAssumption DEF ResponseEnomem, Htons
      <4> QED
        BY <3>1, <4>1 DEF GetFails, BinReply
    <3>2. ASSUME NEW n \in ReplyLens, GetSucceeds(n)
          PROVE  \E status \in Int, part \in {"results", "error"}, len \in Nat :
                   replies' = Append(replies, [status |-> status, part |-> part, bodylen |-> len])
      <4>1. n \in Nat /\ Htons(ResponseSuccess) % 256 \in Int
        BY RepliesAssumption DEF ResponseSuccess, Htons
      <4> QED
        BY <3>2, <4>1 DEF GetSucceeds, BinReply
    <3> QED
      BY <1>5, <3>1, <3>2
  <2>3. Len(replies') = Len(replies) + 1
    <3>1. [status |-> status, part |-> part, bodylen |-> len] \in Reply
      BY DEF Reply
    <3> QED
      BY <1>0, <2>2, <3>1
  <2>4. wbuf' \in -1 .. Len(replies') /\ write_and_free' \in 0 .. Len(replies')
    BY <1>0, <2>1, <2>3 DEF OtherTypes
  <2> QED
    BY <2>1, <2>4 DEF OtherTypes
<1>6. CASE WriteStep
  <2> USE DEF WriteStep, Assemble, Transmit, TransmitWaits, TransmitWaitsFails, TransmitFails,
              FreeReply, ReplyDone, LineDone, UpdateEventFails, UpdateEvent, Stop,
              client, event, loop, memory, history
  <2>1. Modest
    <3>1. eof' = eof \/ eof' = TRUE
      BY <1>6
    <3>2. running' = running \/ running' = TRUE \/ running' = FALSE
      BY <1>6
    <3>3. faults' = faults \/ Fault
      BY <1>6
    <3>4. nreqs' = nreqs \/ nreqs' = ReqsPerEvent \/ (nreqs > 0 /\ nreqs' = nreqs - 1)
      BY <1>6
    <3>5. ev_flags' = ev_flags \/ ev_flags' = "EV_READ" \/ ev_flags' = "EV_WRITE"
      BY <1>6
    <3>6. registered' = registered \/ registered' \in BOOLEAN
      BY <1>6
    <3> QED
      BY <3>1, <3>2, <3>3, <3>4, <3>5, <3>6 DEF Modest
  <2>2. replies' = replies /\ wbuf' = wbuf /\ write_and_free' \in {write_and_free, 0}
    BY <1>6
  <2> QED
    BY <1>0, <2>1, <2>2, OtherTypesModest
<1>7. CASE UNCHANGED vars
  BY <1>7 DEF vars, client, event, loop, output, memory, history, OtherTypes
<1> QED
  BY <1>1, <1>2, <1>3, <1>4, <1>5, <1>6, <1>7 DEF Next, DriveMachine, NreadStep

LEMMA TypesTogether == BInv /\ OutInv /\ RoomOK /\ MemInv /\ OtherTypes => TypeOK
<1> SUFFICES ASSUME BInv, OutInv, RoomOK, MemInv, OtherTypes PROVE TypeOK
  OBVIOUS
<1>1. msgcurr \in Nat /\ iovused \in Nat /\ Len(replies) \in Nat
  <2>1. Len(msglist) \in Nat /\ msgcurr \in 0 .. Len(msglist)
    BY MessagesLen DEF OutInv, OutType
  <2> QED
    BY <2>1 DEF OutInv, OutType
<1>2. heap \subseteq 1 .. Len(replies)
  BY <1>1 DEF MemInv, OtherTypes
<1> QED
  BY <1>1, <1>2 DEF TypeOK, BInv, RoomOK, OtherTypes

(* All variables of the connection have their types. *)
THEOREM TypeIsInvariant == Spec => []TypeOK
BY BInvInit, BInvStep, StepInvInit, StepInvStep, OutInvInit, OutInvStep, RoomInit, RoomStep,
   MemInvInit, MemInvStep, OtherTypesInit, OtherTypesStep, TypesTogether, PTL DEF Spec

-----------------------------------------------------------------------------
(* Where the machine waits *)

(* Where drive_machine has returned to the event loop. *)
Parked ==
  \/ state = "conn_new_cmd" /\ (ev_flags = "EV_READ" => rbytes = 0)
  \/ state = "conn_read" /\ num_allocs = -1
  \/ state = "conn_nread" /\ rlbytes > 0 /\ rbytes = 0
  \/ state \in {"conn_write", "conn_mwrite"} /\ ev_flags = "EV_WRITE"
  \/ state = "conn_closing" /\ faults < MaxFaults
  \/ state = "closed"

(* It waits for input with less than a header in the read buffer, and      *)
(* until the connection is to be closed libevent has its event.            *)
WaitInv ==
  /\ state = "conn_waiting" => rbytes < HeaderLen
  /\ state = "conn_read" /\ (num_allocs = -1 \/ ~gotdata) => rbytes < HeaderLen
  /\ state \notin {"conn_closing", "closed"} => registered
  /\ ~running => Parked

LEMMA WaitInvInit == Init => WaitInv
BY DEF Init, WaitInv, Parked

(* Steps of the machine on which it goes on. *)
LEMMA WaitInvGoesOn ==
  ASSUME WaitInv, running, running' = running, state \notin {"conn_closing", "closed"},
         registered' = registered \/ registered' \/ state' = "conn_closing",
         state' = "conn_waiting" => rbytes' < HeaderLen,
         state' = "conn_read" /\ (num_allocs' = -1 \/ ~gotdata') => rbytes' < HeaderLen
  PROVE  WaitInv'
BY DEF WaitInv

LEMMA NotReading == ASSUME BInv, state # "conn_read" PROVE num_allocs = -1
BY LimitsAssumption DEF BInv, BufferTypeOK, ReadInv

LEMMA WaitInvOutside ==
  ASSUME BInv, WaitInv, OtherTypes,
         Client \/ EventHandler \/ ConnWaiting \/ ConnWaitingFails \/ ConnNewCmd
           \/ ConnYields \/ ConnYieldsFails \/ ConnClose
  PROVE  WaitInv'
<1>1. CASE Client
  <2>1. UNCHANGED <<running, state, ev_flags, registered, faults, rbytes, rlbytes, num_allocs,
                    gotdata>>
    BY <1>1 DEF Client, ClientSends, ClientHangsUp, ClientReads, Idle, event, loop, input_buffer
  <2> QED
    BY <2>1 DEF WaitInv, Parked
<1>2. CASE EventHandler
  <2>1. running' /\ UNCHANGED <<state, registered, rbytes, num_allocs, gotdata>>
    BY <1>2 DEF EventHandler, event, input_buffer
  <2> QED
    BY <2>1 DEF WaitInv
<1>3. CASE ConnWaiting
  <2>1. state = "conn_waiting" /\ state' = "conn_read" /\ registered'
        /\ UNCHANGED <<rbytes, num_allocs, gotdata>>
    BY <1>3 DEF ConnWaiting, In, UpdateEvent, loop, input_buffer, WaitInv
  <2>2. num_allocs = -1
    BY <2>1, NotReading
  <2> QED
    BY <2>1, <2>2 DEF WaitInv, Parked
<1>4. CASE ConnWaitingFails
  <2>1. running /\ running' = running /\ state = "conn_waiting" /\ state' = "conn_closing"
    BY <1>4 DEF ConnWaitingFails, UpdateEventFails, In, Close
  <2> QED
    BY <2>1, WaitInvGoesOn
<1>8. CASE ConnYieldsFails
  <2>1. state' = "conn_closing" /\ faults' = faults - 1
    BY <1>8 DEF ConnYieldsFails, UpdateEventFails, Fault, Close
  <2>2. faults' < MaxFaults
    BY <2>1, LimitsAssumption DEF OtherTypes
  <2>3. Parked'
    BY <2>1, <2>2 DEF Parked
  <2> QED
    BY <2>1, <2>3 DEF WaitInv
<1>5. CASE ConnNewCmd
  <2>1. /\ running /\ state = "conn_new_cmd" /\ UNCHANGED <<running, registered, rbytes>>
        /\ state' = IF rbytes > 0 THEN "conn_parse_cmd" ELSE "conn_waiting"
    BY <1>5 DEF ConnNewCmd, In, event
  <2>2. rbytes \in Nat /\ HeaderLen \in Nat \ {0}
    BY Limits DEF BInv, BufferTypeOK
  <2> QED
    BY <2>1, <2>2, WaitInvGoesOn
<1>6. CASE ConnYields
  <2>1. /\ state = "conn_new_cmd" /\ UNCHANGED <<state, rbytes>>
        /\ rbytes > 0 => ev_flags' = "EV_WRITE"
        /\ registered'
    BY <1>6 DEF ConnYields, In, UpdateEvent, event, input_buffer, WaitInv
  <2>2. rbytes \in Nat
    BY DEF BInv, BufferTypeOK
  <2> QED
    BY <2>1, <2>2 DEF WaitInv, Parked
<1>7. CASE ConnClose
  BY <1>7 DEF ConnClose, WaitInv, Parked
<1> QED
  BY <1>1, <1>2, <1>3, <1>4, <1>5, <1>6, <1>7, <1>8

LEMMA WaitInvRead == ASSUME BInv, WaitInv, TryReadStep PROVE WaitInv'
<1>1. running /\ state = "conn_read" /\ UNCHANGED <<running, registered>>
  BY DEF TryReadStep, TryReadNetwork, Enlarge, EnlargeFails, EnlargedEnough, ReadSome,
         ReadAgain, ReadEnds, Reading, In, event
<1>2. num_allocs \in Int /\ HeaderLen \in Nat \ {0} /\ gotdata \in BOOLEAN
  BY Limits DEF BInv, BufferTypeOK
<1>3. CASE TryReadNetwork
  <2>1. /\ num_allocs = -1 /\ rbytes' = rbytes /\ state' = state
    BY <1>3 DEF TryReadNetwork
  <2>2. rbytes < HeaderLen
    BY <1>1, <2>1 DEF WaitInv
  <2> QED
    BY <1>1, <2>1, <2>2, WaitInvGoesOn
<1>4. CASE Enlarge
  <2>1. /\ num_allocs' = num_allocs + 1 /\ num_allocs >= 0
        /\ UNCHANGED <<gotdata, rbytes, state>>
    BY <1>4 DEF Enlarge, Reading
  <2> QED
    BY <1>1, <1>2, <2>1, WaitInvGoesOn DEF WaitInv
<1>5. CASE EnlargeFails \/ ReadEnds
  <2>1. state' \in {"conn_write", "conn_closing"}
    BY <1>5 DEF EnlargeFails, ReadEnds, Close
  <2> QED
    BY <1>1, <2>1, WaitInvGoesOn
<1>6. CASE EnlargedEnough \/ ReadAgain
  <2>1. /\ UNCHANGED <<gotdata, rbytes>>
        /\ state' = IF gotdata THEN "conn_parse_cmd" ELSE "conn_waiting"
    BY <1>6 DEF EnlargedEnough, ReadAgain, ReadReturns, input_buffer
  <2>2. ~gotdata => rbytes < HeaderLen
    BY <1>1 DEF WaitInv
  <2> QED
    BY <1>1, <1>2, <2>1, <2>2, WaitInvGoesOn
<1>7. CASE ReadSome
  <2>1. /\ num_allocs >= 0 /\ gotdata'
        /\ \/ num_allocs' = num_allocs /\ state' = state
           \/ state' = "conn_parse_cmd"
    BY <1>7 DEF ReadSome, Reading, ReadReturns
  <2> QED
    BY <1>1, <1>2, <2>1, WaitInvGoesOn
<1> QED
  BY <1>3, <1>4, <1>5, <1>6, <1>7 DEF TryReadStep

LEMMA WaitInvParse == ASSUME WaitInv, ParseStep PROVE WaitInv'
<1>1. /\ running /\ state = "conn_parse_cmd" /\ UNCHANGED <<running, registered>>
      /\ \/ state' \in {"conn_nread", "conn_closing"}
         \/ state' = "conn_waiting" /\ rbytes < HeaderLen /\ rbytes' = rbytes
  BY DEF ParseStep, ParseNeedsMore, ParseBadMagic, ParseFits, ParseMakesRoom,
         ParseFindsNoRoom, ParseHeader, In, Close, event, input_buffer
<1> QED
  BY <1>1, WaitInvGoesOn

LEMMA WaitInvNread == ASSUME WaitInv, NreadStep PROVE WaitInv'
<1>1. CASE NreadWaits
  <2>1. /\ state = "conn_nread" /\ rlbytes > 0 /\ rbytes = 0
        /\ UNCHANGED <<state, rbytes, rlbytes>> /\ registered'
    BY <1>1 DEF NreadWaits, NreadMustWait, In, UpdateEvent, input_buffer, WaitInv
  <2> QED
    BY <2>1 DEF WaitInv, Parked
<1>2. CASE ~NreadWaits
  <2>1. /\ running /\ running' = running /\ state = "conn_nread"
        /\ registered' = registered \/ state' = "conn_closing"
        /\ state' \in {"conn_nread", "conn_closing", "conn_mwrite"}
    BY <1>2 DEF NreadStep, NreadCopy, NreadRead, NreadWaitsFails, NreadEnds, NreadMustWait,
                UpdateEventFails, GetFails, GetSucceeds, CompleteNread, BinReply, In, Close,
                event
  <2> QED
    BY <2>1, WaitInvGoesOn
<1> QED
  BY <1>1, <1>2

LEMMA WaitInvWrite == ASSUME StepInv, WaitInv, WriteStep PROVE WaitInv'
<1>1. CASE TransmitWaits
  <2>1. /\ state \in {"conn_write", "conn_mwrite"} /\ state' = state /\ ev_flags' = "EV_WRITE"
        /\ registered'
    BY <1>1 DEF TransmitWaits, Transmitting, Writing, UpdateEvent, WaitInv
  <2> QED
    BY <2>1 DEF WaitInv, Parked
<1>2. CASE ~TransmitWaits
  <2>1. /\ running /\ running' = running /\ state \in {"conn_write", "conn_mwrite"}
        /\ registered' = registered \/ state' = "conn_closing"
        /\ \/ state' \in {"conn_write", "conn_mwrite", "conn_closing", "conn_new_cmd"}
           \/ state = "conn_write" /\ state' = write_and_go
    BY <1>2 DEF WriteStep, Assemble, Transmit, TransmitWaitsFails, TransmitFails, FreeReply,
                ReplyDone, LineDone, Transmitting, Transmitted, Writing, UpdateEventFails,
                In, Close, event
  <2>2. state' \in {"conn_write", "conn_mwrite", "conn_closing", "conn_new_cmd"}
    BY <2>1 DEF StepInv
  <2> QED
    BY <2>1, <2>2, WaitInvGoesOn
<1> QED
  BY <1>1, <1>2

LEMMA WaitInvStep == BInv /\ StepInv /\ OtherTypes /\ WaitInv /\ [Next]_vars => WaitInv'
<1> SUFFICES ASSUME BInv, StepInv, OtherTypes, WaitInv, [Next]_vars PROVE WaitInv'
  OBVIOUS
<1>1. CASE Client \/ EventHandler \/ ConnWaiting \/ ConnWaitingFails \/ ConnNewCmd
             \/ ConnYields \/ ConnYieldsFails \/ ConnClose
  BY <1>1, WaitInvOutside
<1>2. CASE TryReadStep
  BY <1>2, WaitInvRead
<1>3. CASE ParseStep
  BY <1>3, WaitInvParse
<1>4. CASE NreadStep
  BY <1>4, WaitInvNread
<1>5. CASE WriteStep
  BY <1>5, WaitInvWrite
<1>6. CASE UNCHANGED vars
  BY <1>6 DEF vars, event, loop, input_buffer, WaitInv, Parked
<1> QED
  BY <1>1, <1>2, <1>3, <1>4, <1>5, <1>6 DEF Next, DriveMachine

(* Less than a header in the buffer, or less than a body read: the bytes   *)
(* taken end before the request after those evaluated does.                *)
LEMMA NextIsIncomplete ==
  ASSUME BInv, StepInv, OutInv, NEW i \in 1 .. Len(input), EndOf(input)[i] <= taken,
         \/ state \in {"conn_new_cmd", "conn_read"} /\ rbytes < HeaderLen
         \/ state = "conn_nread" /\ rlbytes > 0 /\ rbytes = 0
  PROVE  i <= Len(replies)
<1> DEFINE e == Len(evaluated)
           E == EndOf(input)
<1>1. /\ input \in Seq(Request) /\ Len(input) \in Nat /\ e \in Nat /\ e <= Len(input)
      /\ Len(replies) = e
  BY InputIsRequests DEF StepInv, OutInv, OutType
<1>2. SUFFICES ASSUME i > e PROVE FALSE
  BY <1>1
<1>3. e + 1 \in 1 .. Len(input) /\ e + 1 <= i
  BY <1>1, <1>2
<1>4. /\ E[e + 1] = E[e] + HeaderLen + input[e + 1].bodylen /\ input[e + 1].bodylen \in Nat
      /\ E[e] \in Nat /\ E[e + 1] \in Nat /\ E[i] \in Nat /\ HeaderLen \in Nat \ {0}
  <2>1. /\ E[e + 1] = E[e + 1 - 1] + HeaderLen + input[e + 1].bodylen /\ e + 1 - 1 = e
        /\ E[e + 1] \in Nat /\ E[i] \in Nat
    BY <1>1, <1>3, EndOfEquation
  <2>2. E[e] \in Nat
    BY <1>1, EndOfEquation
  <2>3. input[e + 1].bodylen \in Nat
    BY <1>1, <1>3, RequestLens
  <2> QED
    BY <2>1, <2>2, <2>3, Limits
<1>5. E[e + 1] <= E[i]
  <2>1. CASE e + 1 = i
    BY <1>4, <2>1
  <2>2. CASE e + 1 < i
    BY <1>1, <1>3, <1>4, <2>2, EndOfIncreases
  <2> QED
    BY <1>1, <1>3, <2>1, <2>2
<1>6. rbytes \in Nat /\ rlbytes \in Nat /\ bodylen \in Nat /\ taken \in Nat
  BY DEF BInv, BufferTypeOK
<1>7. CASE state \in {"conn_new_cmd", "conn_read"} /\ rbytes < HeaderLen
  <2>1. taken - rbytes = E[e]
    BY <1>7 DEF StepInv, InStep, Consumed
  <2> HIDE DEF E, e
  <2>2. E[i] <= taken
    BY DEF E
  <2>3. E[e + 1] > taken
    <3> DEFINE b == input[e + 1].bodylen
               h == HeaderLen
    <3>1. /\ E[e + 1] = E[e] + h + b /\ b \in Nat /\ h \in Nat /\ rbytes < h
          /\ E[e] \in Nat /\ rbytes \in Nat /\ taken \in Nat /\ taken - rbytes = E[e]
      BY <1>4, <1>6, <1>7, <2>1
    <3> HIDE DEF b, h
    <3> QED
      BY ONLY <3>1
  <2> QED
    BY ONLY <1>4, <1>5, <1>6, <2>2, <2>3
<1>8. CASE state = "conn_nread" /\ rlbytes > 0 /\ rbytes = 0
  <2>1. taken - rbytes = E[e] + HeaderLen + (bodylen - rlbytes) /\ bodylen = input[e + 1].bodylen
    BY <1>8 DEF StepInv, InStep, Consumed, BytesOfBody
  <2> HIDE DEF E, e
  <2>2. E[i] <= taken
    BY DEF E
  <2> DEFINE b == bodylen
  <2>3. E[e + 1] = E[e] + HeaderLen + b /\ b \in Nat /\ taken - rbytes = E[e] + HeaderLen + (b - rlbytes)
    BY <1>4, <2>1
  <2> HIDE DEF b
  <2>4. E[e + 1] > taken
    <3> DEFINE h == HeaderLen
    <3>1. /\ E[e + 1] = E[e] + h + b /\ b \in Nat /\ h \in Nat /\ rbytes = 0 /\ rlbytes > 0
          /\ E[e] \in Nat /\ taken \in Nat /\ rlbytes \in Nat
          /\ taken - rbytes = E[e] + h + (b - rlbytes)
      BY <1>4, <1>6, <1>8, <2>3
    <3> HIDE DEF h
    <3> QED
      BY ONLY <3>1
  <2> QED
    BY ONLY <1>4, <1>5, <1>6, <2>2, <2>4
<1> QED
  BY <1>7, <1>8

LEMMA WaitInvImplies == BInv /\ StepInv /\ OutInv /\ WaitInv => WaitingOwesNothing
<1> SUFFICES ASSUME BInv, StepInv, OutInv, WaitInv, ~running, state # "closed"
             PROVE  IF state = "conn_closing"
                    THEN faults < MaxFaults
                    ELSE registered /\ (ev_flags = "EV_READ" => OwesNothing)
  BY DEF WaitingOwesNothing
<1>a. Parked
  BY DEF WaitInv
<1>b. state = "conn_closing" => faults < MaxFaults
  BY <1>a DEF Parked
<1>c. state # "conn_closing" => registered
  BY DEF WaitInv
<1> SUFFICES ASSUME state # "conn_closing", ev_flags = "EV_READ" PROVE OwesNothing
  BY <1>b, <1>c
<1>1. \/ state \in {"conn_new_cmd", "conn_read"} /\ rbytes < HeaderLen
      \/ state = "conn_nread" /\ rlbytes > 0 /\ rbytes = 0
  <2>1. Parked /\ ev_flags # "EV_WRITE"
    BY <1>a
  <2>2. CASE state = "conn_new_cmd" /\ rbytes = 0
    BY <2>2, Limits
  <2>3. CASE state = "conn_read" /\ num_allocs = -1
    BY <2>3 DEF WaitInv
  <2> QED
    BY <2>1, <2>2, <2>3 DEF Parked
<1>2. sent = Stream(replies)
  BY <1>1 DEF OutInv, Quiet
<1> QED
  BY <1>1, <1>2, NextIsIncomplete DEF OwesNothing

(* A connection that waits has its event in libevent, and when it waits    *)
(* for its client owes it nothing: whatever was read together, with        *)
(* requests of any length and any reqs_per_event, no request that is       *)
(* complete is left lying in the read buffer.  It waits to be closed only  *)
(* after a call has failed.                                                *)
THEOREM NothingIsOwed == Spec => []WaitingOwesNothing
BY BInvInit, BInvStep, StepInvInit, StepInvStep, OutInvInit, OutInvStep, RoomInit, RoomStep,
   OtherTypesInit, OtherTypesStep, WaitInvInit, WaitInvStep, WaitInvImplies, PTL DEF Spec
=============================================================================
