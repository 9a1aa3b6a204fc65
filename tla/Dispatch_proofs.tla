-------------------------- MODULE Dispatch_proofs --------------------------
(***************************************************************************)
(* Proofs about Dispatch for any number of workers, descriptors and conn   *)
(* objects.                                                                *)
(*                                                                         *)
(* Discipline says what each thread holds at each place of its code.  From *)
(* it follow, one on top of the other: Registration (init_count counts the *)
(* workers that have registered), WakeupPerItem, ConnsApart (the places a  *)
(* conn object can be in exclude each other) and SocketsApart (likewise    *)
(* for the holders of a socket; a conn about to be registered carries its  *)
(* worker's socket).  The two accounts count holders; that there is at     *)
(* most one is what ConnsApart and SocketsApart say.                       *)
(***************************************************************************)
EXTENDS Dispatch, FiniteSetTheorems, SequenceTheorems, TLAPS

Registered == {w \in Workers : wpc[w] \notin {"unborn", "register"}}

(* TypeOK without the bound on init_count, which needs counting. *)
Types ==
  /\ mpc \in MainPCs
  /\ started \in 0 .. NumThreads /\ init_count \in Nat
  /\ last_thread \in {-1} \cup Workers
  /\ msfd \in Fds \cup {None}
  /\ queue \in [Workers -> Seq(Fds)]
  /\ bytes \in [Workers -> 0 .. PipeCap]
  /\ wpc \in [Workers -> WorkerPCs]
  /\ wsfd \in [Workers -> Fds \cup {None}]
  /\ wconn \in [Workers -> Conns \cup {None}]
  /\ open \subseteq Fds /\ conns \subseteq Conns
  /\ csfd \in [Conns -> Fds \cup {None}]
  /\ cthread \in [Conns -> Workers \cup {None}]
  /\ events \subseteq Conns
  /\ freeconns \in Seq(Conns) /\ freetotal \in Nat \ {0}

(* What the threads hold at each place of their code. *)
MainHolds ==
  /\ mpc = "create" => started < NumThreads
  /\ mpc = "accepted" <=> msfd # None
  /\ mpc = "notify" => last_thread \in Workers

WorkerHolds(w) ==
  /\ wsfd[w] # None <=> wpc[w] \in {"new", "event", "refuse"}
  /\ wconn[w] # None <=> wpc[w] \in {"event", "close", "release"}

Discipline == Types /\ MainHolds /\ \A w \in Workers : WorkerHolds(w)

-----------------------------------------------------------------------------
LEMMA AppendOne ==
  ASSUME NEW S, NEW q \in Seq(S), NEW e \in S
  PROVE  /\ Append(q, e) \in Seq(S)
         /\ Len(Append(q, e)) = Len(q) + 1
         /\ \A k \in 1 .. Len(q) : Append(q, e)[k] = q[k]
         /\ Append(q, e)[Len(q) + 1] = e
         /\ Len(q) \in Nat
  OBVIOUS

LEMMA TakeFirst ==
  ASSUME NEW S, NEW q \in Seq(S), q # << >>
  PROVE  /\ Tail(q) \in Seq(S)
         /\ Len(q) \in Nat \ {0} /\ Len(Tail(q)) = Len(q) - 1
         /\ \A k \in 1 .. Len(q) - 1 : Tail(q)[k] = q[k + 1]
         /\ Head(q) = q[1] /\ q[1] \in S
  OBVIOUS

LEMMA TakeLast ==
  ASSUME NEW S, NEW q \in Seq(S), q # << >>
  PROVE  /\ SubSeq(q, 1, Len(q) - 1) \in Seq(S)
         /\ Len(q) \in Nat \ {0} /\ Len(SubSeq(q, 1, Len(q) - 1)) = Len(q) - 1
         /\ \A k \in 1 .. Len(q) - 1 : SubSeq(q, 1, Len(q) - 1)[k] = q[k]
         /\ q[Len(q)] \in S
<1>1. Len(q) \in Nat \ {0} /\ \A i \in 1 .. Len(q) : q[i] \in S
  OBVIOUS
<1>2. \A i \in 1 .. Len(q) - 1 : q[i] \in S
  BY <1>1
<1>3. Len(q) - 1 - 1 + 1 = Len(q) - 1 /\ \A i \in Int : 1 + i - 1 = i
  BY <1>1
<1>4. /\ SubSeq(q, 1, Len(q) - 1) \in Seq(S)
      /\ Len(SubSeq(q, 1, Len(q) - 1)) = Len(q) - 1
      /\ \A i \in 1 .. Len(q) - 1 : SubSeq(q, 1, Len(q) - 1)[i] = q[i]
  BY <1>1, <1>2, <1>3, SubSeqProperties
<1> QED
  BY <1>1, <1>4

LEMMA WorkerFacts ==
  /\ Workers \subseteq Nat /\ 0 \in Workers /\ IsFiniteSet(Workers)
  /\ Cardinality(Workers) = NumThreads
  /\ \A i \in {-1} \cup Workers : (i + 1) % NumThreads \in Workers
<1>1. Workers \subseteq Nat /\ 0 \in Workers
  BY NumThreadsAssumption DEF Workers
<1>2. IsFiniteSet(Workers) /\ Cardinality(Workers) = NumThreads
  BY FS_Interval, NumThreadsAssumption DEF Workers
<1>3. \A i \in {-1} \cup Workers : (i + 1) % NumThreads \in Workers
  BY NumThreadsAssumption DEF Workers
<1> QED
  BY <1>1, <1>2, <1>3
-----------------------------------------------------------------------------
(* Types, and what the threads hold. *)

LEMMA PutIntoFreelist ==
  ASSUME NEW c \in Conns, AddToFreelist(c), freeconns \in Seq(Conns),
         conns \subseteq Conns, freetotal \in Nat \ {0}
  PROVE  /\ conns' \subseteq Conns
         /\ freeconns' \in Seq(Conns) /\ freetotal' \in Nat \ {0}
<1>1. Append(freeconns, c) \in Seq(Conns) /\ 2 * freetotal \in Nat \ {0}
  OBVIOUS
<1> QED
  BY <1>1 DEF AddToFreelist

LEMMA InitDiscipline == Init => Discipline
<1> SUFFICES ASSUME Init PROVE Types /\ MainHolds /\ \A w \in Workers : WorkerHolds(w)
  BY DEF Discipline
<1>1. << >> \in Seq(Fds) /\ << >> \in Seq(Conns)
  OBVIOUS
<1>2. Types
  BY <1>1, NumThreadsAssumption, PipeCapAssumption, FreeTotalAssumption
     DEF Init, Types, MainPCs, WorkerPCs
<1>3. MainHolds
  BY NumThreadsAssumption DEF Init, MainHolds
<1>4. \A w \in Workers : WorkerHolds(w)
  BY DEF Init, WorkerHolds
<1> QED
  BY <1>2, <1>3, <1>4

LEMMA DisciplineStep == Discipline /\ [Next]_vars => Discipline'
<1> SUFFICES ASSUME Discipline, [Next]_vars
             PROVE  /\ Types'
                    /\ MainHolds'
                    /\ \A w \in Workers : WorkerHolds(w)'
  BY DEF Discipline
<1>a. Types /\ MainHolds /\ \A v \in Workers : WorkerHolds(v)
  BY DEF Discipline
<1> USE <1>a, NumThreadsAssumption, PipeCapAssumption, FreeTotalAssumption,
        NoneAssumption, WorkerFacts
    DEF startup, handoff, pool, MainGoes, Goes
<1>1. ASSUME NEW w \in Workers, CreateWorker(w)
      PROVE  Types' /\ MainHolds' /\ \A v \in Workers : WorkerHolds(v)'
  <2>1. Types'
    <3>1. started' \in 0 .. NumThreads
      BY <1>1 DEF CreateWorker, Workers
    <3>2. mpc' \in MainPCs /\ wpc' \in [Workers -> WorkerPCs]
      BY <1>1 DEF CreateWorker, Types, MainPCs, WorkerPCs
    <3> QED
      BY <1>1, <3>1, <3>2 DEF CreateWorker, Types
  <2>2. MainHolds'
    BY <1>1 DEF CreateWorker, MainHolds, Types
  <2>3. \A v \in Workers : WorkerHolds(v)'
    BY <1>1 DEF CreateWorker, WorkerHolds, Types
  <2> QED
    BY <2>1, <2>2, <2>3
<1>2. ASSUME Barrier
      PROVE  Types' /\ MainHolds' /\ \A v \in Workers : WorkerHolds(v)'
  <2>1. Types'
    BY <1>2 DEF Barrier, Types, MainPCs, WorkerPCs, MainHolds, WorkerHolds
  <2>2. MainHolds'
    BY <1>2 DEF Barrier, MainHolds, Types
  <2>3. \A v \in Workers : WorkerHolds(v)'
    BY <1>2 DEF Barrier, WorkerHolds, Types
  <2> QED
    BY <2>1, <2>2, <2>3
<1>3. ASSUME FcntlFails
      PROVE  Types' /\ MainHolds' /\ \A v \in Workers : WorkerHolds(v)'
  <2>1. Types'
    BY <1>3 DEF FcntlFails, Types, MainPCs, WorkerPCs, MainHolds, WorkerHolds
  <2>2. MainHolds'
    BY <1>3 DEF FcntlFails, MainHolds, Types
  <2>3. \A v \in Workers : WorkerHolds(v)'
    BY <1>3 DEF FcntlFails, WorkerHolds, Types
  <2> QED
    BY <2>1, <2>2, <2>3
<1>4. ASSUME DispatchConnNew
      PROVE  Types' /\ MainHolds' /\ \A v \in Workers : WorkerHolds(v)'
  <2>1. Types'
    BY <1>4, AppendOne DEF DispatchConnNew, Types, MainPCs, WorkerPCs, MainHolds, WorkerHolds
  <2>2. MainHolds'
    BY <1>4 DEF DispatchConnNew, MainHolds, Types
  <2>3. \A v \in Workers : WorkerHolds(v)'
    BY <1>4 DEF DispatchConnNew, WorkerHolds, Types
  <2> QED
    BY <2>1, <2>2, <2>3
<1>5. ASSUME WriteNotify
      PROVE  Types' /\ MainHolds' /\ \A v \in Workers : WorkerHolds(v)'
  <2>1. Types'
    <3>1. last_thread \in Workers /\ bytes[last_thread] \in 0 .. PipeCap
      BY <1>5 DEF WriteNotify, MainHolds, Types
    <3>2. bytes' \in [Workers -> 0 .. PipeCap]
      <4>1. bytes[last_thread] + 1 \in 0 .. PipeCap
        BY <1>5, <3>1 DEF WriteNotify
      <4>2. bytes \in [Workers -> 0 .. PipeCap]
        BY DEF Types
      <4>3. bytes' = [bytes EXCEPT ![last_thread] = bytes[last_thread] + 1]
        BY <1>5 DEF WriteNotify
      <4> QED
        BY ONLY <4>1, <4>2, <4>3
    <3> QED
      BY <1>5, <3>2 DEF WriteNotify, Types, MainPCs
  <2>2. MainHolds'
    BY <1>5 DEF WriteNotify, MainHolds, Types
  <2>3. \A v \in Workers : WorkerHolds(v)'
    BY <1>5 DEF WriteNotify, WorkerHolds, Types
  <2> QED
    BY <2>1, <2>2, <2>3
<1>6. ASSUME NEW s \in Fds, Accept(s)
      PROVE  Types' /\ MainHolds' /\ \A v \in Workers : WorkerHolds(v)'
  <2>1. Types'
    BY <1>6 DEF Accept, Types, MainPCs, WorkerPCs, MainHolds, WorkerHolds
  <2>2. MainHolds'
    BY <1>6 DEF Accept, MainHolds, Types
  <2>3. \A v \in Workers : WorkerHolds(v)'
    BY <1>6 DEF Accept, WorkerHolds, Types
  <2> QED
    BY <2>1, <2>2, <2>3
<1>7. ASSUME NEW w \in Workers, Register(w)
      PROVE  Types' /\ MainHolds' /\ \A v \in Workers : WorkerHolds(v)'
  <2>1. Types'
    <3>1. mpc' \in MainPCs /\ wpc' \in [Workers -> WorkerPCs]
      BY <1>7 DEF Register, Types, MainPCs, WorkerPCs
    <3> QED
      <4>1. init_count' \in Nat
        BY <1>7 DEF Register, Types
      <4> QED
        BY <1>7, <3>1, <4>1 DEF Register, Types
  <2>2. MainHolds'
    BY <1>7 DEF Register, MainHolds, Types
  <2>3. \A v \in Workers : WorkerHolds(v)'
    BY <1>7 DEF Register, WorkerHolds, Types
  <2> QED
    BY <2>1, <2>2, <2>3
<1>8. ASSUME NEW w \in Workers, ReadNotify(w)
      PROVE  Types' /\ MainHolds' /\ \A v \in Workers : WorkerHolds(v)'
  <2>1. Types'
    <3>1. bytes[w] \in 0 .. PipeCap
      BY DEF Types
    <3>2. bytes' \in [Workers -> 0 .. PipeCap]
      <4>1. bytes[w] - 1 \in 0 .. PipeCap
        BY <1>8, <3>1 DEF ReadNotify
      <4>2. bytes \in [Workers -> 0 .. PipeCap]
        BY DEF Types
      <4>3. bytes' = [bytes EXCEPT ![w] = bytes[w] - 1]
        BY <1>8 DEF ReadNotify
      <4> QED
        BY ONLY <4>1, <4>2, <4>3
    <3> QED
      BY <1>8, <3>2 DEF ReadNotify, Types, WorkerPCs
  <2>2. MainHolds'
    BY <1>8 DEF ReadNotify, MainHolds, Types
  <2>3. \A v \in Workers : WorkerHolds(v)'
    BY <1>8 DEF ReadNotify, WorkerHolds, Types
  <2> QED
    BY <2>1, <2>2, <2>3
<1>9. ASSUME NEW w \in Workers, PopItem(w)
      PROVE  Types' /\ MainHolds' /\ \A v \in Workers : WorkerHolds(v)'
  <2>1. Types'
    <3>1. CASE queue[w] = << >>
      BY <1>9, <3>1 DEF PopItem, Types, WorkerPCs
    <3>2. CASE queue[w] # << >>
      <4>1. /\ Goes(w, "pop", "new")
            /\ wsfd' = [wsfd EXCEPT ![w] = Head(queue[w])]
            /\ queue' = [queue EXCEPT ![w] = Tail(@)]
        BY <1>9, <3>2 DEF PopItem
      <4>2. Head(queue[w]) \in Fds /\ Tail(queue[w]) \in Seq(Fds)
        <5>1. queue[w] \in Seq(Fds)
          BY DEF Types
        <5> QED
          BY <5>1, <3>2, TakeFirst
      <4> QED
        BY <1>9, <4>1, <4>2 DEF PopItem, Types, WorkerPCs
    <3> QED
      BY <3>1, <3>2
  <2>2. MainHolds'
    BY <1>9 DEF PopItem, MainHolds, Types
  <2>3. \A v \in Workers : WorkerHolds(v)'
    <3>1. CASE queue[w] = << >>
      BY <1>9, <3>1 DEF PopItem, WorkerHolds, Types
    <3>2. CASE queue[w] # << >>
      <4>1. /\ wpc[w] = "pop" /\ wpc' = [wpc EXCEPT ![w] = "new"]
            /\ wsfd' = [wsfd EXCEPT ![w] = Head(queue[w])]
            /\ wconn' = wconn
        BY <1>9, <3>2 DEF PopItem
      <4>2. Head(queue[w]) \in Fds
        <5>1. queue[w] \in Seq(Fds)
          BY DEF Types
        <5> QED
          BY <5>1, <3>2, TakeFirst
      <4> QED
        BY <4>1, <4>2 DEF WorkerHolds, Types
    <3> QED
      BY <3>1, <3>2
  <2> QED
    BY <2>1, <2>2, <2>3
<1>10. ASSUME NEW w \in Workers, ConnFromFreelist(w)
      PROVE  Types' /\ MainHolds' /\ \A v \in Workers : WorkerHolds(v)'
  <2>1. Types'
    BY <1>10, TakeLast DEF ConnFromFreelist, Types, MainPCs, WorkerPCs, MainHolds, WorkerHolds
  <2>2. MainHolds'
    BY <1>10 DEF ConnFromFreelist, MainHolds, Types
  <2>3. \A v \in Workers : WorkerHolds(v)'
    <3>1. freeconns \in Seq(Conns) /\ freeconns # << >>
      BY <1>10 DEF ConnFromFreelist, Types
    <3>2. freeconns[Len(freeconns)] \in Conns
      BY <3>1, TakeLast
    <3> QED
      BY <1>10, <3>2 DEF ConnFromFreelist, WorkerHolds, Types
  <2> QED
    BY <2>1, <2>2, <2>3
<1>11. ASSUME NEW w \in Workers, NEW c \in Conns, ConnFromCalloc(w, c)
      PROVE  Types' /\ MainHolds' /\ \A v \in Workers : WorkerHolds(v)'
  <2>1. Types'
    BY <1>11 DEF ConnFromCalloc, Types, MainPCs, WorkerPCs, MainHolds, WorkerHolds
  <2>2. MainHolds'
    BY <1>11 DEF ConnFromCalloc, MainHolds, Types
  <2>3. \A v \in Workers : WorkerHolds(v)'
    BY <1>11 DEF ConnFromCalloc, WorkerHolds, Types
  <2> QED
    BY <2>1, <2>2, <2>3
<1>12. ASSUME NEW w \in Workers, ConnAllocFails(w)
      PROVE  Types' /\ MainHolds' /\ \A v \in Workers : WorkerHolds(v)'
  <2>1. Types'
    BY <1>12 DEF ConnAllocFails, Types, MainPCs, WorkerPCs, MainHolds, WorkerHolds
  <2>2. MainHolds'
    BY <1>12 DEF ConnAllocFails, MainHolds, Types
  <2>3. \A v \in Workers : WorkerHolds(v)'
    BY <1>12 DEF ConnAllocFails, WorkerHolds, Types
  <2> QED
    BY <2>1, <2>2, <2>3
<1>13. ASSUME NEW w \in Workers, EventAdd(w)
      PROVE  Types' /\ MainHolds' /\ \A v \in Workers : WorkerHolds(v)'
  <2>1. Types'
    BY <1>13 DEF EventAdd, Types, MainPCs, WorkerPCs, MainHolds, WorkerHolds
  <2>2. MainHolds'
    BY <1>13 DEF EventAdd, MainHolds, Types
  <2>3. \A v \in Workers : WorkerHolds(v)'
    BY <1>13 DEF EventAdd, WorkerHolds, Types
  <2> QED
    BY <2>1, <2>2, <2>3
<1>14. ASSUME NEW w \in Workers, EventAddFails(w)
      PROVE  Types' /\ MainHolds' /\ \A v \in Workers : WorkerHolds(v)'
  <2>1. Types'
    <3>1. wconn[w] \in Conns /\ freeconns \in Seq(Conns)
      BY <1>14 DEF EventAddFails, WorkerHolds, Types
    <3>2. /\ conns' \subseteq Conns
          /\ freeconns' \in Seq(Conns) /\ freetotal' \in Nat \ {0}
      BY <1>14, <3>1, PutIntoFreelist DEF EventAddFails, Types
    <3> QED
      BY <1>14, <3>2 DEF EventAddFails, Types, WorkerPCs
  <2>2. MainHolds'
    BY <1>14 DEF EventAddFails, MainHolds, Types
  <2>3. \A v \in Workers : WorkerHolds(v)'
    BY <1>14 DEF EventAddFails, WorkerHolds, Types
  <2> QED
    BY <2>1, <2>2, <2>3
<1>15. ASSUME NEW w \in Workers, Refuse(w)
      PROVE  Types' /\ MainHolds' /\ \A v \in Workers : WorkerHolds(v)'
  <2>1. Types'
    BY <1>15 DEF Refuse, Types, MainPCs, WorkerPCs, MainHolds, WorkerHolds
  <2>2. MainHolds'
    BY <1>15 DEF Refuse, MainHolds, Types
  <2>3. \A v \in Workers : WorkerHolds(v)'
    BY <1>15 DEF Refuse, WorkerHolds, Types
  <2> QED
    BY <2>1, <2>2, <2>3
<1>16. ASSUME NEW w \in Workers, NEW c \in Conns, CloseEvent(w, c)
      PROVE  Types' /\ MainHolds' /\ \A v \in Workers : WorkerHolds(v)'
  <2>1. Types'
    BY <1>16 DEF CloseEvent, Types, MainPCs, WorkerPCs, MainHolds, WorkerHolds
  <2>2. MainHolds'
    BY <1>16 DEF CloseEvent, MainHolds, Types
  <2>3. \A v \in Workers : WorkerHolds(v)'
    BY <1>16 DEF CloseEvent, WorkerHolds, Types
  <2> QED
    BY <2>1, <2>2, <2>3
<1>17. ASSUME NEW w \in Workers, CloseSocket(w)
      PROVE  Types' /\ MainHolds' /\ \A v \in Workers : WorkerHolds(v)'
  <2>1. Types'
    BY <1>17 DEF CloseSocket, Types, MainPCs, WorkerPCs, MainHolds, WorkerHolds
  <2>2. MainHolds'
    BY <1>17 DEF CloseSocket, MainHolds, Types
  <2>3. \A v \in Workers : WorkerHolds(v)'
    BY <1>17 DEF CloseSocket, WorkerHolds, Types
  <2> QED
    BY <2>1, <2>2, <2>3
<1>18. ASSUME NEW w \in Workers, ReleaseConn(w)
      PROVE  Types' /\ MainHolds' /\ \A v \in Workers : WorkerHolds(v)'
  <2>1. Types'
    <3>1. wconn[w] \in Conns /\ freeconns \in Seq(Conns)
      BY <1>18 DEF ReleaseConn, WorkerHolds, Types
    <3>2. CASE AddToFreelist(wconn[w])
      <4>1. /\ conns' \subseteq Conns
            /\ freeconns' \in Seq(Conns) /\ freetotal' \in Nat \ {0}
        BY <3>1, <3>2, PutIntoFreelist DEF Types
      <4> QED
        BY <1>18, <4>1 DEF ReleaseConn, Types, WorkerPCs
    <3>3. CASE conns' = conns \ {wconn[w]} /\ UNCHANGED <<freeconns, freetotal>>
      BY <1>18, <3>3 DEF ReleaseConn, Types, WorkerPCs
    <3> QED
      BY <1>18, <3>2, <3>3 DEF ReleaseConn
  <2>2. MainHolds'
    BY <1>18 DEF ReleaseConn, MainHolds, Types
  <2>3. \A v \in Workers : WorkerHolds(v)'
    BY <1>18 DEF ReleaseConn, WorkerHolds, Types
  <2> QED
    BY <2>1, <2>2, <2>3
<1>19. CASE UNCHANGED vars
  BY <1>19 DEF vars, Types, MainHolds, WorkerHolds
<1> QED
  BY <1>1, <1>2, <1>3, <1>4, <1>5, <1>6, <1>7, <1>8, <1>9, <1>10, <1>11, <1>12, <1>13, <1>14, <1>15, <1>16, <1>17, <1>18, <1>19 DEF Next, MainStep, WorkerStep

LEMMA DisciplineKept == Spec => []Discipline
  BY InitDiscipline, DisciplineStep, PTL DEF Spec

-----------------------------------------------------------------------------
(* Start-up: init_count counts the registered workers. *)

Serving == {"listen", "accepted", "notify"}

Registration ==
  /\ init_count = Cardinality(Registered)
  /\ mpc \in Serving => init_count >= NumThreads

LEMMA RegistrationStep ==
  Discipline /\ Registration /\ [Next]_vars => Registration'
<1> SUFFICES ASSUME Discipline, Registration, [Next]_vars PROVE Registration'
  OBVIOUS
<1> USE DEF startup, handoff, pool, MainGoes, Goes
<1>1. wpc \in [Workers -> WorkerPCs] /\ init_count \in Nat
  BY DEF Discipline, Types
<1>2. ASSUME NEW w \in Workers, Register(w) PROVE Registration'
  <2>1. /\ wpc[w] = "register" /\ wpc' = [wpc EXCEPT ![w] = "loop"]
        /\ init_count' = init_count + 1
        /\ mpc' \in Serving => mpc \in Serving
    BY <1>2 DEF Register, Serving
  <2>2. w \notin Registered /\ Registered' = Registered \cup {w}
    BY <1>1, <2>1 DEF Registered
  <2>3. IsFiniteSet(Registered)
    BY WorkerFacts, FS_Subset DEF Registered
  <2>4. Cardinality(Registered \cup {w}) = Cardinality(Registered) + 1
    BY <2>2, <2>3, FS_AddElement
  <2> QED
    BY <1>1, <2>1, <2>2, <2>4, NumThreadsAssumption DEF Registration
<1>3. CASE Registered' = Registered /\ init_count' = init_count
           /\ (mpc' \in Serving => mpc \in Serving)
  BY <1>3 DEF Registration
<1>4. CASE Barrier
  <2>1. Registered' = Registered /\ init_count' = init_count
    BY <1>4 DEF Barrier, Registered
  <2>2. mpc' \in Serving => init_count >= NumThreads
    BY <1>1, <1>4, NumThreadsAssumption DEF Barrier, Serving
  <2> QED
    BY <2>1, <2>2 DEF Registration
<1>5. ASSUME ~Barrier, \A w \in Workers : ~Register(w)
      PROVE  Registered' = Registered /\ init_count' = init_count
             /\ (mpc' \in Serving => mpc \in Serving)
  <2>1. ASSUME NEW w \in Workers,
               \/ ReadNotify(w) \/ PopItem(w) \/ ConnFromFreelist(w)
               \/ (\E c \in Conns : ConnFromCalloc(w, c) \/ CloseEvent(w, c))
               \/ ConnAllocFails(w) \/ EventAdd(w) \/ EventAddFails(w)
               \/ Refuse(w) \/ CloseSocket(w) \/ ReleaseConn(w)
        PROVE  Registered' = Registered /\ init_count' = init_count /\ mpc' = mpc
    <3>1. /\ init_count' = init_count /\ mpc' = mpc
          /\ wpc[w] \notin {"unborn", "register"}
          /\ \E p \in {"loop", "pop", "new", "event", "refuse", "close", "release"} :
                wpc' = [wpc EXCEPT ![w] = p]
      BY <2>1 DEF ReadNotify, PopItem, ConnFromFreelist, ConnFromCalloc, CloseEvent,
           ConnAllocFails, EventAdd, EventAddFails, Refuse, CloseSocket, ReleaseConn
    <3> QED
      BY <1>1, <3>1 DEF Registered
  <2>2. ASSUME NEW w \in Workers, CreateWorker(w)
        PROVE  Registered' = Registered /\ init_count' = init_count
               /\ mpc' \notin Serving
    BY <1>1, <2>2 DEF CreateWorker, Registered, Serving
  <2>3. CASE FcntlFails \/ DispatchConnNew \/ WriteNotify \/ \E s \in Fds : Accept(s)
    BY <2>3 DEF FcntlFails, DispatchConnNew, WriteNotify, Accept, Registered, Serving
  <2>4. CASE UNCHANGED vars
    BY <2>4 DEF vars, Registered
  <2> QED
    BY <1>5, <2>1, <2>2, <2>3, <2>4 DEF Next, MainStep, WorkerStep
<1> QED
  BY <1>2, <1>3, <1>4, <1>5

LEMMA RegistrationKept == Spec => []Registration
<1>1. Init => Registration
  <2> SUFFICES ASSUME Init PROVE Registration
    OBVIOUS
  <2>1. Registered = {} /\ init_count = 0 /\ mpc \notin Serving
    BY DEF Init, Registered, Serving
  <2> QED
    BY <2>1, FS_EmptySet DEF Registration
<1> QED
  BY <1>1, RegistrationStep, DisciplineKept, PTL DEF Spec

(* The values the variables range over, with no more workers registered    *)
(* than there are and no more bytes in a pipe than it holds.               *)
THEOREM TypeCorrect == Spec => []TypeOK
<1>1. Discipline /\ Registration => TypeOK
  <2> SUFFICES ASSUME Discipline, Registration PROVE TypeOK
    OBVIOUS
  <2>1. Cardinality(Registered) <= NumThreads
    BY WorkerFacts, FS_Subset DEF Registered
  <2>2. init_count \in 0 .. NumThreads
    BY <2>1, NumThreadsAssumption DEF Registration, Discipline, Types
  <2> QED
    BY <2>2 DEF Discipline, Types, TypeOK
<1> QED
  BY <1>1, DisciplineKept, RegistrationKept, PTL

(* thread_init returns only after every worker has registered: no          *)
(* connection is accepted, let alone handed over, before all event loops   *)
(* are about to run.                                                       *)
WorkersFirst ==
  mpc \in Serving => \A w \in Workers : wpc[w] \notin {"unborn", "register"}

(* No connection reaches a worker that has not registered. *)
THEOREM WorkersComeFirst == Spec => []WorkersFirst
<1>1. Discipline /\ Registration => WorkersFirst
  <2> SUFFICES ASSUME Discipline, Registration, mpc \in Serving
               PROVE  \A w \in Workers : wpc[w] \notin {"unborn", "register"}
    BY DEF WorkersFirst
  <2>1. /\ Registered \in SUBSET Workers /\ Cardinality(Registered) <= NumThreads
        /\ Cardinality(Workers) = Cardinality(Registered) => Workers = Registered
    BY WorkerFacts, FS_Subset DEF Registered
  <2>2. Cardinality(Registered) = NumThreads
    BY <2>1, NumThreadsAssumption DEF Registration, Discipline, Types
  <2>3. Workers = Registered
    BY <2>1, <2>2, WorkerFacts
  <2> QED
    BY <2>3 DEF Registered
<1> QED
  BY <1>1, DisciplineKept, RegistrationKept, PTL

-----------------------------------------------------------------------------
(* The queues and their pipes. *)

Woken(w) ==
  Len(queue[w]) = bytes[w] + (IF wpc[w] = "pop" THEN 1 ELSE 0)
                    + (IF mpc = "notify" /\ last_thread = w THEN 1 ELSE 0)

LEMMA WakeupStep ==
  Discipline /\ WakeupPerItem /\ [Next]_vars => WakeupPerItem'
<1> SUFFICES ASSUME Discipline, WakeupPerItem, [Next]_vars,
                    NEW v \in Workers
             PROVE  Woken(v)'
  BY DEF WakeupPerItem, Woken
<1> USE DEF startup, handoff, pool, MainGoes, Goes
<1>a. /\ queue \in [Workers -> Seq(Fds)] /\ bytes \in [Workers -> 0 .. PipeCap]
      /\ wpc \in [Workers -> WorkerPCs]
      /\ mpc = "notify" => last_thread \in Workers
  BY DEF Discipline, Types, MainHolds
<1>b. Woken(v) /\ Len(queue[v]) \in Nat /\ bytes[v] \in Nat
  BY <1>a, PipeCapAssumption DEF WakeupPerItem, Woken
<1>1. CASE DispatchConnNew
  <2>1. /\ mpc = "accepted" /\ mpc' = "notify" /\ last_thread' \in Workers
        /\ queue' = [queue EXCEPT ![last_thread'] = Append(queue[last_thread'], msfd)]
        /\ bytes' = bytes /\ wpc' = wpc /\ msfd \in Fds
    <3>1. last_thread \in {-1} \cup Workers /\ msfd \in Fds
      BY <1>1 DEF DispatchConnNew, Discipline, Types, MainHolds
    <3>2. last_thread' = (last_thread + 1) % NumThreads
      BY <1>1 DEF DispatchConnNew
    <3>3. last_thread' \in Workers
      BY <3>1, <3>2, WorkerFacts
    <3> QED
      BY <1>1, <3>1, <3>3 DEF DispatchConnNew
  <2>2. CASE v = last_thread'
    <3>1. queue'[v] = Append(queue[v], msfd)
      BY <1>a, <2>1, <2>2
    <3>2. Len(queue'[v]) = Len(queue[v]) + 1
      BY <1>a, <2>1, <3>1, AppendOne
    <3> QED
      BY <1>b, <2>1, <2>2, <3>2 DEF Woken
  <2>3. CASE v # last_thread'
    BY <1>a, <1>b, <2>1, <2>3 DEF Woken
  <2> QED
    BY <2>2, <2>3
<1>2. CASE WriteNotify
  <2>1. /\ mpc = "notify" /\ mpc' = "listen" /\ last_thread' = last_thread
        /\ bytes' = [bytes EXCEPT ![last_thread] = bytes[last_thread] + 1]
        /\ queue' = queue /\ wpc' = wpc
    BY <1>2 DEF WriteNotify
  <2>2. CASE v = last_thread
    <3>1. bytes'[v] = bytes[v] + 1
      BY <1>a, <2>1, <2>2
    <3> QED
      BY <1>b, <2>1, <2>2, <3>1 DEF Woken
  <2>3. CASE v # last_thread
    BY <1>a, <1>b, <2>1, <2>3 DEF Woken
  <2> QED
    BY <2>2, <2>3
<1>3. ASSUME NEW w \in Workers, ReadNotify(w) PROVE Woken(v)'
  <2>1. /\ wpc[w] = "loop" /\ wpc' = [wpc EXCEPT ![w] = "pop"]
        /\ bytes' = [bytes EXCEPT ![w] = bytes[w] - 1]
        /\ queue' = queue /\ mpc' = mpc /\ last_thread' = last_thread
    BY <1>3 DEF ReadNotify
  <2>2. CASE v = w
    <3>1. bytes'[v] = bytes[v] - 1 /\ wpc'[v] = "pop" /\ wpc[v] = "loop"
      BY <1>a, <2>1, <2>2
    <3> QED
      BY <1>b, <2>1, <3>1 DEF Woken
  <2>3. CASE v # w
    BY <1>a, <1>b, <2>1, <2>3 DEF Woken
  <2> QED
    BY <2>2, <2>3
<1>4. ASSUME NEW w \in Workers, PopItem(w) PROVE Woken(v)'
  <2>1. wpc[w] = "pop" /\ bytes' = bytes /\ mpc' = mpc /\ last_thread' = last_thread
    BY <1>4 DEF PopItem
  <2>2. queue[w] # << >>
    <3>1. Len(queue[w]) = bytes[w] + 1 + (IF mpc = "notify" /\ last_thread = w THEN 1 ELSE 0)
      BY <2>1 DEF WakeupPerItem
    <3>2. bytes[w] \in Nat
      BY <1>a, PipeCapAssumption
    <3>3. Len(queue[w]) # 0
      BY <3>1, <3>2
    <3> QED
      BY <3>3
  <2>3. /\ wpc' = [wpc EXCEPT ![w] = "new"]
        /\ queue' = [queue EXCEPT ![w] = Tail(queue[w])]
    BY <1>4, <2>2 DEF PopItem
  <2>4. CASE v = w
    <3>1. queue'[v] = Tail(queue[v]) /\ wpc'[v] = "new" /\ wpc[v] = "pop"
      BY <1>a, <2>1, <2>3, <2>4
    <3>2. Len(queue'[v]) = Len(queue[v]) - 1
      BY <1>a, <2>2, <2>4, <3>1, TakeFirst
    <3> QED
      BY <1>b, <2>1, <3>1, <3>2 DEF Woken
  <2>5. CASE v # w
    BY <1>a, <1>b, <2>1, <2>3, <2>5 DEF Woken
  <2> QED
    BY <2>4, <2>5
<1>5. CASE /\ queue' = queue /\ bytes' = bytes
           /\ (mpc' = "notify") = (mpc = "notify") /\ last_thread' = last_thread
           /\ (wpc'[v] = "pop") = (wpc[v] = "pop")
  BY <1>b, <1>5 DEF Woken
<1>6. ASSUME ~DispatchConnNew, ~WriteNotify,
             \A w \in Workers : ~ReadNotify(w) /\ ~PopItem(w)
      PROVE  /\ queue' = queue /\ bytes' = bytes
             /\ (mpc' = "notify") = (mpc = "notify") /\ last_thread' = last_thread
             /\ (wpc'[v] = "pop") = (wpc[v] = "pop")
  <2>1. ASSUME NEW w \in Workers,
               \/ ConnFromFreelist(w)
               \/ (\E c \in Conns : ConnFromCalloc(w, c) \/ CloseEvent(w, c))
               \/ ConnAllocFails(w) \/ EventAdd(w) \/ EventAddFails(w)
               \/ Refuse(w) \/ CloseSocket(w) \/ ReleaseConn(w)
        PROVE  /\ queue' = queue /\ bytes' = bytes /\ mpc' = mpc
               /\ last_thread' = last_thread
               /\ (wpc'[v] = "pop") = (wpc[v] = "pop")
    <3>1. /\ queue' = queue /\ bytes' = bytes /\ mpc' = mpc
          /\ last_thread' = last_thread /\ wpc[w] # "pop"
          /\ \E p \in WorkerPCs \ {"pop"} : wpc' = [wpc EXCEPT ![w] = p]
      BY <2>1 DEF ConnFromFreelist, ConnFromCalloc, CloseEvent, ConnAllocFails,
           EventAdd, EventAddFails, Refuse, CloseSocket, ReleaseConn, WorkerPCs
    <3> QED
      BY <1>a, <3>1
  <2>2. ASSUME NEW w \in Workers, CreateWorker(w) \/ Register(w)
        PROVE  /\ queue' = queue /\ bytes' = bytes /\ last_thread' = last_thread
               /\ (mpc' = "notify") = (mpc = "notify")
               /\ (wpc'[v] = "pop") = (wpc[v] = "pop")
    BY <1>a, <2>2 DEF CreateWorker, Register
  <2>3. CASE Barrier \/ FcntlFails \/ \E s \in Fds : Accept(s)
    BY <2>3 DEF Barrier, FcntlFails, Accept
  <2>4. CASE UNCHANGED vars
    BY <2>4 DEF vars
  <2> QED
    BY <1>6, <2>1, <2>2, <2>3, <2>4 DEF Next, MainStep, WorkerStep
<1> QED
  BY <1>1, <1>2, <1>3, <1>4, <1>5, <1>6

(* A queue holds as many items as its worker has bytes to read, counting   *)
(* the byte it has read and the byte that is about to be written.          *)
THEOREM EveryItemHasAWakeup == Spec => []WakeupPerItem
<1>1. Init => WakeupPerItem
  <2> SUFFICES ASSUME Init, NEW w \in Workers
               PROVE  /\ Len(queue[w]) = 0 /\ bytes[w] = 0 /\ wpc[w] # "pop"
                      /\ mpc # "notify"
    BY DEF WakeupPerItem
  <2> QED
    BY DEF Init
<1> QED
  BY <1>1, WakeupStep, DisciplineKept, PTL DEF Spec

-----------------------------------------------------------------------------
(* Sequences without duplicates, and what the workers hold. *)

Listed(q, x) == \E k \in 1 .. Len(q) : q[k] = x
NoDuplicates(q) == \A k, l \in 1 .. Len(q) : q[k] = q[l] => k = l

Held(f, x) == \E w \in Workers : f[w] = x
HeldOnce(f) == \A v, w \in Workers : f[v] = f[w] /\ f[v] # None => v = w

LEMMA ListedAppend ==
  ASSUME NEW S, NEW q \in Seq(S), NEW e \in S
  PROVE  /\ \A x : Listed(Append(q, e), x) <=> Listed(q, x) \/ x = e
         /\ NoDuplicates(q) /\ ~Listed(q, e) => NoDuplicates(Append(q, e))
<1>1. /\ Len(Append(q, e)) = Len(q) + 1 /\ Len(q) \in Nat
      /\ \A k \in 1 .. Len(q) : Append(q, e)[k] = q[k]
      /\ Append(q, e)[Len(q) + 1] = e
  BY AppendOne
<1>2. 1 .. Len(q) + 1 = (1 .. Len(q)) \cup {Len(q) + 1}
  BY <1>1
<1> QED
  BY <1>1, <1>2 DEF Listed, NoDuplicates

LEMMA ListedTail ==
  ASSUME NEW S, NEW q \in Seq(S), q # << >>, NoDuplicates(q)
  PROVE  /\ \A x : Listed(Tail(q), x) <=> Listed(q, x) /\ x # Head(q)
         /\ NoDuplicates(Tail(q)) /\ Listed(q, Head(q))
<1>1. /\ Len(q) \in Nat \ {0} /\ Len(Tail(q)) = Len(q) - 1
      /\ \A k \in 1 .. Len(q) - 1 : Tail(q)[k] = q[k + 1]
      /\ Head(q) = q[1]
  BY TakeFirst
<1>2. NoDuplicates(Tail(q)) /\ Listed(q, Head(q))
  BY <1>1 DEF NoDuplicates, Listed
<1>3. ASSUME NEW x, Listed(Tail(q), x) PROVE Listed(q, x) /\ x # Head(q)
  <2>1. PICK k \in 1 .. Len(q) - 1 : q[k + 1] = x
    BY <1>1, <1>3 DEF Listed
  <2>2. k + 1 \in 1 .. Len(q) /\ 1 \in 1 .. Len(q) /\ k + 1 # 1
    BY <1>1, <2>1
  <2> QED
    BY <1>1, <2>1, <2>2 DEF Listed, NoDuplicates
<1>4. ASSUME NEW x, Listed(q, x), x # Head(q) PROVE Listed(Tail(q), x)
  <2>1. PICK k \in 1 .. Len(q) : q[k] = x
    BY <1>4 DEF Listed
  <2>2. k # 1
    BY <1>1, <1>4, <2>1
  <2>3. k - 1 \in 1 .. Len(q) - 1 /\ (k - 1) + 1 = k
    BY <1>1, <2>1, <2>2
  <2>4. Tail(q)[k - 1] = x
    BY <1>1, <2>1, <2>3
  <2> QED
    BY <1>1, <2>3, <2>4 DEF Listed
<1> QED
  BY <1>2, <1>3, <1>4

LEMMA ListedFront ==
  ASSUME NEW S, NEW q \in Seq(S), q # << >>, NoDuplicates(q), NEW p,
         p = SubSeq(q, 1, Len(q) - 1)
  PROVE  /\ \A x : Listed(p, x) <=> Listed(q, x) /\ x # q[Len(q)]
         /\ NoDuplicates(p) /\ Listed(q, q[Len(q)])
<1>1. /\ Len(q) \in Nat \ {0} /\ Len(p) = Len(q) - 1
      /\ \A k \in 1 .. Len(q) - 1 : p[k] = q[k]
  BY TakeLast
<1>2. 1 .. Len(q) = (1 .. Len(q) - 1) \cup {Len(q)} /\ Len(q) \notin 1 .. Len(q) - 1
  BY <1>1
<1> QED
  BY <1>1, <1>2 DEF Listed, NoDuplicates

LEMMA TakesUp ==
  ASSUME NEW T, NEW f \in [Workers -> T], NEW w \in Workers, NEW x,
         f[w] = None
  PROVE  /\ \A y : y # None => (Held([f EXCEPT ![w] = x], y) <=> Held(f, y) \/ y = x)
         /\ HeldOnce(f) /\ ~Held(f, x) => HeldOnce([f EXCEPT ![w] = x])
<1> DEFINE g == [f EXCEPT ![w] = x]
<1>1. g[w] = x /\ \A v \in Workers \ {w} : g[v] = f[v]
  OBVIOUS
<1> HIDE DEF g
<1>2. /\ \A y : y # None => (Held(g, y) <=> Held(f, y) \/ y = x)
      /\ HeldOnce(f) /\ ~Held(f, x) => HeldOnce(g)
  BY <1>1 DEF Held, HeldOnce
<1> QED
  BY <1>2 DEF g

LEMMA LetsGo ==
  ASSUME NEW T, NEW f \in [Workers -> T], NEW w \in Workers,
         f[w] # None, HeldOnce(f)
  PROVE  /\ \A y : y # None =>
               (Held([f EXCEPT ![w] = None], y) <=> Held(f, y) /\ y # f[w])
         /\ HeldOnce([f EXCEPT ![w] = None])
<1> DEFINE g == [f EXCEPT ![w] = None]
<1>1. g[w] = None /\ \A v \in Workers \ {w} : g[v] = f[v]
  OBVIOUS
<1> HIDE DEF g
<1>2. /\ \A y : y # None => (Held(g, y) <=> Held(f, y) /\ y # f[w])
      /\ HeldOnce(g)
  BY <1>1 DEF Held, HeldOnce
<1> QED
  BY <1>2 DEF g

-----------------------------------------------------------------------------
(* The conn objects: the free list, the event bases and the hands of the   *)
(* workers exclude each other, and together are the allocated objects.     *)

ConnAt(c) ==
  /\ Listed(freeconns, c) => c \notin events /\ ~Held(wconn, c)
  /\ c \in events => ~Held(wconn, c)
  /\ c \in conns <=> Listed(freeconns, c) \/ c \in events \/ Held(wconn, c)

ConnsApart ==
  /\ NoDuplicates(freeconns) /\ HeldOnce(wconn)
  /\ \A c \in Conns : ConnAt(c)

connvars == <<freeconns, events, wconn, conns>>

LEMMA ConnsSame ==
  ASSUME ConnsApart, UNCHANGED connvars PROVE ConnsApart'
  BY DEF ConnsApart, ConnAt, connvars, Listed, NoDuplicates, Held, HeldOnce

(* A worker lets a conn go that nobody else has: to the free list or to    *)
(* free().                                                                 *)
LEMMA ConnReleased ==
  ASSUME ConnsApart, Discipline, NEW w \in Workers, wconn[w] \in Conns,
         \/ freeconns' = Append(freeconns, wconn[w]) /\ conns' = conns
         \/ freeconns' = freeconns /\ conns' = conns \ {wconn[w]},
         wconn' = [wconn EXCEPT ![w] = None], events' = events
  PROVE  ConnsApart'
<1> DEFINE d == wconn[w]
<1>1. wconn \in [Workers -> Conns \cup {None}] /\ freeconns \in Seq(Conns)
  BY DEF Discipline, Types
<1>2. Held(wconn, d) /\ ~Listed(freeconns, d) /\ d \notin events /\ d \in conns
  BY DEF ConnsApart, ConnAt, Held
<1>3. /\ \A c \in Conns : Held(wconn, c)' <=> Held(wconn, c) /\ c # d
      /\ HeldOnce(wconn)'
  <2>1. HeldOnce(wconn) /\ d # None
    BY NoneAssumption DEF ConnsApart
  <2>2. /\ \A c \in Conns : Held(wconn', c) <=> Held(wconn, c) /\ c # d
        /\ HeldOnce(wconn')
    BY <1>1, <2>1, LetsGo, NoneAssumption
  <2> QED
    BY <2>2 DEF Held, HeldOnce
<1>4. CASE freeconns' = Append(freeconns, d) /\ conns' = conns
  <2>1. /\ \A c : Listed(freeconns', c) <=> Listed(freeconns, c) \/ c = d
        /\ NoDuplicates(freeconns')
    BY <1>1, <1>2, <1>4, ListedAppend DEF ConnsApart
  <2>2. \A c \in Conns : ConnAt(c)'
    <3> SUFFICES ASSUME NEW c \in Conns PROVE ConnAt(c)'
      OBVIOUS
    <3>1. Listed(freeconns, c)' <=> Listed(freeconns, c) \/ c = d
      BY <2>1 DEF Listed
    <3>2. Held(wconn, c)' <=> Held(wconn, c) /\ c # d
      BY <1>3
    <3>3. ConnAt(c)
      BY DEF ConnsApart
    <3> QED
      BY <1>2, <1>4, <3>1, <3>2, <3>3 DEF ConnAt
  <2> QED
    BY <1>3, <2>1, <2>2 DEF ConnsApart, NoDuplicates
<1>5. CASE freeconns' = freeconns /\ conns' = conns \ {d}
  <2>1. \A c \in Conns : ConnAt(c)'
    <3> SUFFICES ASSUME NEW c \in Conns PROVE ConnAt(c)'
      OBVIOUS
    <3>1. Listed(freeconns, c)' <=> Listed(freeconns, c)
      BY <1>5 DEF Listed
    <3>2. Held(wconn, c)' <=> Held(wconn, c) /\ c # d
      BY <1>3
    <3>3. ConnAt(c)
      BY DEF ConnsApart
    <3> QED
      BY <1>2, <1>5, <3>1, <3>2, <3>3 DEF ConnAt
  <2> QED
    BY <1>3, <1>5, <2>1 DEF ConnsApart, NoDuplicates
<1> QED
  BY <1>4, <1>5

LEMMA ConnsStep ==
  Discipline /\ ConnsApart /\ [Next]_vars => ConnsApart'
<1> SUFFICES ASSUME Discipline, ConnsApart, [Next]_vars PROVE ConnsApart'
  OBVIOUS
<1> USE DEF startup, handoff, pool, MainGoes, Goes
<1>a. /\ wconn \in [Workers -> Conns \cup {None}] /\ freeconns \in Seq(Conns)
      /\ \A w \in Workers : WorkerHolds(w)
  BY DEF Discipline, Types
<1>1. ASSUME NEW w \in Workers, ConnFromFreelist(w) PROVE ConnsApart'
  <2> DEFINE d == freeconns[Len(freeconns)]
  <2>1. /\ freeconns # << >> /\ wconn[w] = None
        /\ wconn' = [wconn EXCEPT ![w] = d] /\ events' = events /\ conns' = conns
        /\ freeconns' = SubSeq(freeconns, 1, Len(freeconns) - 1)
    BY <1>a, <1>1 DEF ConnFromFreelist, WorkerHolds
  <2>2. d \in Conns
    BY <1>a, <2>1, TakeLast
  <2>3. /\ \A c : Listed(freeconns', c) <=> Listed(freeconns, c) /\ c # d
        /\ NoDuplicates(freeconns') /\ Listed(freeconns, d)
    BY <1>a, <2>1, ListedFront DEF ConnsApart
  <2>4. ~Held(wconn, d) /\ d \notin events
    BY <2>2, <2>3 DEF ConnsApart, ConnAt
  <2>5. /\ \A c \in Conns : Held(wconn', c) <=> Held(wconn, c) \/ c = d
        /\ HeldOnce(wconn')
    <3>1. wconn[w] = None /\ wconn' = [wconn EXCEPT ![w] = d] /\ None \notin Conns
          /\ HeldOnce(wconn)
      BY <2>1, NoneAssumption DEF ConnsApart
    <3> HIDE DEF d
    <3>2. \A c \in Conns : Held(wconn', c) <=> Held(wconn, c) \/ c = d
      BY <1>a, <2>2, <3>1, TakesUp
    <3>3. HeldOnce(wconn')
      BY <1>a, <2>2, <2>4, <3>1, TakesUp
    <3> QED
      BY <3>2, <3>3
  <2>6. \A c \in Conns : ConnAt(c)'
    <3> SUFFICES ASSUME NEW c \in Conns PROVE ConnAt(c)'
      OBVIOUS
    <3>1. Listed(freeconns, c)' <=> Listed(freeconns, c) /\ c # d
      BY <2>3 DEF Listed
    <3>2. Held(wconn, c)' <=> Held(wconn, c) \/ c = d
      BY <2>5 DEF Held
    <3>3. ConnAt(c)
      BY DEF ConnsApart
    <3> QED
      BY <2>1, <2>3, <2>4, <3>1, <3>2, <3>3 DEF ConnAt
  <2> QED
    BY <2>3, <2>5, <2>6 DEF ConnsApart, NoDuplicates, HeldOnce
<1>2. ASSUME NEW w \in Workers, NEW d \in Conns, ConnFromCalloc(w, d)
      PROVE  ConnsApart'
  <2>1. /\ d \notin conns /\ conns' = conns \cup {d} /\ wconn[w] = None
        /\ wconn' = [wconn EXCEPT ![w] = d] /\ events' = events
        /\ freeconns' = freeconns
    BY <1>a, <1>2 DEF ConnFromCalloc, WorkerHolds
  <2>2. ~Held(wconn, d) /\ d \notin events /\ ~Listed(freeconns, d)
    BY <2>1 DEF ConnsApart, ConnAt
  <2>3. /\ \A c \in Conns : Held(wconn', c) <=> Held(wconn, c) \/ c = d
        /\ HeldOnce(wconn')
    BY <1>a, <2>1, <2>2, TakesUp, NoneAssumption DEF ConnsApart
  <2>4. \A c \in Conns : ConnAt(c)'
    <3> SUFFICES ASSUME NEW c \in Conns PROVE ConnAt(c)'
      OBVIOUS
    <3>1. Listed(freeconns, c)' <=> Listed(freeconns, c)
      BY <2>1 DEF Listed
    <3>2. Held(wconn, c)' <=> Held(wconn, c) \/ c = d
      BY <2>3 DEF Held
    <3>3. ConnAt(c)
      BY DEF ConnsApart
    <3> QED
      BY <2>1, <2>2, <3>1, <3>2, <3>3 DEF ConnAt
  <2> QED
    BY <2>1, <2>3, <2>4 DEF ConnsApart, NoDuplicates, HeldOnce
<1>3. ASSUME NEW w \in Workers, EventAdd(w) PROVE ConnsApart'
  <2> DEFINE d == wconn[w]
  <2>1. /\ d \in Conns /\ events' = events \cup {d}
        /\ wconn' = [wconn EXCEPT ![w] = None]
        /\ conns' = conns /\ freeconns' = freeconns
    BY <1>a, <1>3 DEF EventAdd, WorkerHolds
  <2>2. Held(wconn, d) /\ ~Listed(freeconns, d)
    BY <2>1 DEF ConnsApart, ConnAt, Held
  <2>3. /\ \A c \in Conns : Held(wconn', c) <=> Held(wconn, c) /\ c # d
        /\ HeldOnce(wconn')
    BY <1>a, <2>1, LetsGo, NoneAssumption DEF ConnsApart
  <2>4. \A c \in Conns : ConnAt(c)'
    <3> SUFFICES ASSUME NEW c \in Conns PROVE ConnAt(c)'
      OBVIOUS
    <3>1. Listed(freeconns, c)' <=> Listed(freeconns, c)
      BY <2>1 DEF Listed
    <3>2. Held(wconn, c)' <=> Held(wconn, c) /\ c # d
      BY <2>3 DEF Held
    <3>3. ConnAt(c)
      BY DEF ConnsApart
    <3> QED
      BY <2>1, <2>2, <3>1, <3>2, <3>3 DEF ConnAt
  <2> QED
    BY <2>1, <2>3, <2>4 DEF ConnsApart, NoDuplicates, HeldOnce
<1>4. ASSUME NEW w \in Workers, NEW d \in Conns, CloseEvent(w, d)
      PROVE  ConnsApart'
  <2>1. /\ d \in events /\ events' = events \ {d} /\ wconn[w] = None
        /\ wconn' = [wconn EXCEPT ![w] = d]
        /\ conns' = conns /\ freeconns' = freeconns
    BY <1>a, <1>4 DEF CloseEvent, WorkerHolds
  <2>2. ~Held(wconn, d) /\ ~Listed(freeconns, d)
    BY <2>1 DEF ConnsApart, ConnAt
  <2>3. /\ \A c \in Conns : Held(wconn', c) <=> Held(wconn, c) \/ c = d
        /\ HeldOnce(wconn')
    BY <1>a, <2>1, <2>2, TakesUp, NoneAssumption DEF ConnsApart
  <2>4. \A c \in Conns : ConnAt(c)'
    <3> SUFFICES ASSUME NEW c \in Conns PROVE ConnAt(c)'
      OBVIOUS
    <3>1. Listed(freeconns, c)' <=> Listed(freeconns, c)
      BY <2>1 DEF Listed
    <3>2. Held(wconn, c)' <=> Held(wconn, c) \/ c = d
      BY <2>3 DEF Held
    <3>3. ConnAt(c)
      BY DEF ConnsApart
    <3> QED
      BY <2>1, <2>2, <3>1, <3>2, <3>3 DEF ConnAt
  <2> QED
    BY <2>1, <2>3, <2>4 DEF ConnsApart, NoDuplicates, HeldOnce
<1>5. ASSUME NEW w \in Workers, EventAddFails(w) \/ ReleaseConn(w)
      PROVE  ConnsApart'
  <2>1. \/ freeconns' = Append(freeconns, wconn[w]) /\ conns' = conns
        \/ freeconns' = freeconns /\ conns' = conns \ {wconn[w]}
    BY <1>5 DEF EventAddFails, ReleaseConn, AddToFreelist
  <2>2. /\ wconn[w] \in Conns /\ events' = events
        /\ wconn' = [wconn EXCEPT ![w] = None]
    BY <1>a, <1>5 DEF EventAddFails, ReleaseConn, WorkerHolds
  <2> QED
    BY <2>1, <2>2, ConnReleased
<1>6. ASSUME NEW w \in Workers,
             \/ CreateWorker(w) \/ Register(w) \/ ReadNotify(w) \/ PopItem(w)
             \/ ConnAllocFails(w) \/ Refuse(w) \/ CloseSocket(w)
      PROVE  ConnsApart'
  <2>1. UNCHANGED connvars
    BY <1>6 DEF CreateWorker, Register, ReadNotify, PopItem, ConnAllocFails,
         Refuse, CloseSocket, connvars
  <2> QED
    BY <2>1, ConnsSame
<1>7. CASE \/ Barrier \/ FcntlFails \/ DispatchConnNew \/ WriteNotify
           \/ (\E s \in Fds : Accept(s)) \/ UNCHANGED vars
  <2>1. UNCHANGED connvars
    BY <1>7 DEF Barrier, FcntlFails, DispatchConnNew, WriteNotify, Accept,
         vars, connvars
  <2> QED
    BY <2>1, ConnsSame
<1> QED
  BY <1>1, <1>2, <1>3, <1>4, <1>5, <1>6, <1>7 DEF Next, MainStep, WorkerStep

LEMMA ConnsKept == Spec => []ConnsApart
<1>1. Init => ConnsApart
  <2> SUFFICES ASSUME Init PROVE ConnsApart
    OBVIOUS
  <2>1. /\ Len(freeconns) = 0 /\ events = {} /\ conns = {}
        /\ \A w \in Workers : wconn[w] = None
    BY DEF Init
  <2>2. \A c \in Conns : ~Listed(freeconns, c) /\ ~Held(wconn, c)
    BY <2>1, NoneAssumption DEF Listed, Held
  <2>3. NoDuplicates(freeconns) /\ HeldOnce(wconn)
    BY <2>1 DEF NoDuplicates, HeldOnce
  <2> QED
    BY <2>1, <2>2, <2>3 DEF ConnsApart, ConnAt
<1> QED
  BY <1>1, ConnsStep, DisciplineKept, PTL DEF Spec

-----------------------------------------------------------------------------
(* The sockets: the five kinds of holders exclude each other, no two of a  *)
(* kind hold the same socket, and together they hold the open ones.        *)

Queued(s)  == \E w \in Workers : Listed(queue[w], s)
Served(s)  == \E c \in events : csfd[c] = s
Closing(s) == \E w \in Workers : wpc[w] = "close" /\ csfd[wconn[w]] = s

QueuedOnce ==
  /\ \A w \in Workers : NoDuplicates(queue[w])
  /\ \A v, w \in Workers, s \in Fds :
       Listed(queue[v], s) /\ Listed(queue[w], s) => v = w
ServedOnce ==
  \A b, c \in events : csfd[b] = csfd[c] /\ csfd[b] # None => b = c
ClosingOnce ==
  \A v, w \in Workers :
    /\ wpc[v] = "close" /\ wpc[w] = "close"
    /\ csfd[wconn[v]] = csfd[wconn[w]] /\ csfd[wconn[v]] # None
    => v = w

SocketAt(s) ==
  /\ msfd = s => ~Queued(s) /\ ~Held(wsfd, s) /\ ~Served(s) /\ ~Closing(s)
  /\ Queued(s) => ~Held(wsfd, s) /\ ~Served(s) /\ ~Closing(s)
  /\ Held(wsfd, s) => ~Served(s) /\ ~Closing(s)
  /\ Served(s) => ~Closing(s)
  /\ s \in open <=> \/ msfd = s \/ Queued(s) \/ Held(wsfd, s)
                    \/ Served(s) \/ Closing(s)

(* A conn that is about to be registered carries its worker's socket. *)
Carried == \A w \in Workers : wpc[w] = "event" => csfd[wconn[w]] = wsfd[w]

SocketsApart ==
  /\ QueuedOnce /\ HeldOnce(wsfd) /\ ServedOnce /\ ClosingOnce /\ Carried
  /\ \A s \in Fds : SocketAt(s)

LEMMA QueuedSame ==
  ASSUME queue' = queue
  PROVE  (QueuedOnce => QueuedOnce') /\ \A s : Queued(s)' <=> Queued(s)
  BY DEF QueuedOnce, Queued, Listed, NoDuplicates

LEMMA HeldSame ==
  ASSUME wsfd' = wsfd
  PROVE  (HeldOnce(wsfd) => HeldOnce(wsfd)')
         /\ \A s : Held(wsfd, s)' <=> Held(wsfd, s)
  BY DEF HeldOnce, Held

LEMMA ServedSame ==
  ASSUME events' = events, \A c \in events : csfd'[c] = csfd[c]
  PROVE  (ServedOnce => ServedOnce') /\ \A s : Served(s)' <=> Served(s)
  BY DEF ServedOnce, Served

LEMMA ClosingSame ==
  ASSUME \A v \in Workers :
           /\ wpc'[v] = "close" <=> wpc[v] = "close"
           /\ wpc[v] = "close" => wconn'[v] = wconn[v]
                                  /\ csfd'[wconn[v]] = csfd[wconn[v]]
  PROVE  (ClosingOnce => ClosingOnce') /\ \A s : Closing(s)' <=> Closing(s)
  BY DEF ClosingOnce, Closing

LEMMA CarriedSame ==
  ASSUME Carried,
         \A v \in Workers : wpc'[v] = "event" =>
           /\ wpc[v] = "event" /\ wconn'[v] = wconn[v] /\ wsfd'[v] = wsfd[v]
           /\ csfd'[wconn[v]] = csfd[wconn[v]]
  PROVE  Carried'
  BY DEF Carried

(* Steps that move no socket: only wpc, wconn or csfd change, and those    *)
(* not for a conn that is served or being closed.                          *)
LEMMA SocketsSame ==
  ASSUME SocketsApart, Carried',
         UNCHANGED <<msfd, queue, wsfd, open, events>>,
         \A c \in events : csfd'[c] = csfd[c],
         \A v \in Workers :
           /\ wpc'[v] = "close" <=> wpc[v] = "close"
           /\ wpc[v] = "close" => wconn'[v] = wconn[v]
                                  /\ csfd'[wconn[v]] = csfd[wconn[v]]
  PROVE  SocketsApart'
<1>1. /\ QueuedOnce' /\ HeldOnce(wsfd)' /\ ServedOnce' /\ ClosingOnce'
      /\ \A s : Queued(s)' <=> Queued(s)
      /\ \A s : Held(wsfd, s)' <=> Held(wsfd, s)
      /\ \A s : Served(s)' <=> Served(s)
      /\ \A s : Closing(s)' <=> Closing(s)
  BY QueuedSame, HeldSame, ServedSame, ClosingSame DEF SocketsApart
<1>2. ASSUME NEW s \in Fds PROVE SocketAt(s)'
  <2>1. SocketAt(s)
    BY DEF SocketsApart
  <2> QED
    BY <1>1, <2>1 DEF SocketAt
<1> QED
  BY <1>1, <1>2 DEF SocketsApart

LEMMA MainSocketsStep ==
  ASSUME Discipline, SocketsApart,
         \/ Barrier \/ FcntlFails \/ DispatchConnNew \/ WriteNotify
         \/ (\E s \in Fds : Accept(s)) \/ UNCHANGED vars
  PROVE  SocketsApart'
<1> USE DEF startup, handoff, pool, MainGoes
<1>a. msfd \in Fds \cup {None} /\ queue \in [Workers -> Seq(Fds)] /\ MainHolds
  BY DEF Discipline, Types
<1>1. CASE Barrier \/ WriteNotify \/ UNCHANGED vars
  <2>1. /\ UNCHANGED <<msfd, queue, wsfd, open, events>>
        /\ wpc' = wpc /\ wconn' = wconn /\ csfd' = csfd
    BY <1>1 DEF Barrier, WriteNotify, vars
  <2>2. Carried'
    BY <2>1 DEF Carried, SocketsApart
  <2> QED
    BY <2>1, <2>2, SocketsSame
<1>2. CASE FcntlFails \/ DispatchConnNew \/ \E s \in Fds : Accept(s)
  <2>1. /\ UNCHANGED <<wsfd, events>>
        /\ wpc' = wpc /\ wconn' = wconn /\ csfd' = csfd
    BY <1>2 DEF FcntlFails, DispatchConnNew, Accept
  <2>2. /\ HeldOnce(wsfd)' /\ ServedOnce' /\ ClosingOnce' /\ Carried'
        /\ \A s : Held(wsfd, s)' <=> Held(wsfd, s)
        /\ \A s : Served(s)' <=> Served(s)
        /\ \A s : Closing(s)' <=> Closing(s)
    BY <2>1, HeldSame, ServedSame, ClosingSame, CarriedSame DEF SocketsApart
  <2>3. CASE FcntlFails
    <3>1. /\ queue' = queue /\ msfd \in Fds /\ msfd' = None
          /\ open' = open \ {msfd}
      BY <1>a, <2>3 DEF FcntlFails, MainHolds
    <3>2. QueuedOnce' /\ \A s : Queued(s)' <=> Queued(s)
      BY <3>1, QueuedSame DEF SocketsApart
    <3>3. ASSUME NEW s \in Fds PROVE SocketAt(s)'
      <4>1. SocketAt(s) /\ s # None
        BY NoneAssumption DEF SocketsApart
      <4> QED
        BY <2>2, <3>1, <3>2, <4>1 DEF SocketAt
    <3> QED
      BY <2>2, <3>2, <3>3 DEF SocketsApart
  <2>4. ASSUME NEW t \in Fds, Accept(t) PROVE SocketsApart'
    <3>1. /\ queue' = queue /\ msfd = None /\ msfd' = t
          /\ t \notin open /\ open' = open \cup {t}
      BY <1>a, <2>4 DEF Accept, MainHolds
    <3>2. QueuedOnce' /\ \A s : Queued(s)' <=> Queued(s)
      BY <3>1, QueuedSame DEF SocketsApart
    <3>3. ASSUME NEW s \in Fds PROVE SocketAt(s)'
      <4>1. SocketAt(s) /\ s # None
        BY NoneAssumption DEF SocketsApart
      <4> QED
        BY <2>2, <3>1, <3>2, <4>1 DEF SocketAt
    <3> QED
      BY <2>2, <3>2, <3>3 DEF SocketsApart
  <2>5. CASE DispatchConnNew
    <3>1. last_thread \in {-1} \cup Workers
      BY DEF Discipline, Types
    <3>2. PICK u \in Workers : u = (last_thread + 1) % NumThreads
      BY <3>1, WorkerFacts
    <3>3. /\ msfd \in Fds /\ msfd' = None /\ open' = open
          /\ queue' = [queue EXCEPT ![u] = Append(queue[u], msfd)]
      BY <1>a, <2>5, <3>2 DEF DispatchConnNew, MainHolds
    <3>4. /\ \A w \in Workers \ {u} : queue'[w] = queue[w]
          /\ queue'[u] = Append(queue[u], msfd) /\ queue[u] \in Seq(Fds)
      BY <1>a, <3>3
    <3>5. ~Queued(msfd) /\ \A w \in Workers : ~Listed(queue[w], msfd)
      BY <3>3 DEF SocketsApart, SocketAt, Queued
    <3>6. /\ \A x : Listed(queue'[u], x) <=> Listed(queue[u], x) \/ x = msfd
          /\ NoDuplicates(queue'[u])
      BY <3>3, <3>4, <3>5, ListedAppend DEF SocketsApart, QueuedOnce
    <3>7. QueuedOnce'
      <4>1. \A w \in Workers : NoDuplicates(queue'[w])
        BY <3>4, <3>6 DEF SocketsApart, QueuedOnce
      <4>2. \A v, w \in Workers, s \in Fds :
              Listed(queue'[v], s) /\ Listed(queue'[w], s) => v = w
        BY <3>4, <3>5, <3>6 DEF SocketsApart, QueuedOnce
      <4> QED
        BY <4>1, <4>2 DEF QueuedOnce, NoDuplicates, Listed
    <3>8. ASSUME NEW s \in Fds PROVE SocketAt(s)'
      <4>1. SocketAt(s) /\ s # None
        BY NoneAssumption DEF SocketsApart
      <4>2. Queued(s)' <=> Queued(s) \/ s = msfd
        <5>1. (\E w \in Workers : Listed(queue'[w], s)) <=> Queued(s) \/ s = msfd
          BY <3>4, <3>6 DEF Queued
        <5> QED
          BY <5>1 DEF Queued, Listed
      <4> QED
        BY <2>2, <3>3, <4>1, <4>2 DEF SocketAt
    <3> QED
      BY <2>2, <3>7, <3>8 DEF SocketsApart
  <2> QED
    BY <1>2, <2>3, <2>4, <2>5
<1> QED
  BY <1>1, <1>2

LEMMA WorkerSocketsStep ==
  ASSUME Discipline, ConnsApart, SocketsApart, NEW w \in Workers,
         \/ Register(w) \/ ReadNotify(w) \/ PopItem(w) \/ CreateWorker(w)
         \/ ConnAllocFails(w) \/ EventAddFails(w) \/ Refuse(w)
         \/ ReleaseConn(w)
  PROVE  SocketsApart'
<1> USE DEF startup, handoff, pool, Goes
<1>a. /\ msfd \in Fds \cup {None} /\ queue \in [Workers -> Seq(Fds)]
      /\ wpc \in [Workers -> WorkerPCs] /\ wconn \in [Workers -> Conns \cup {None}]
      /\ wsfd \in [Workers -> Fds \cup {None}]
      /\ \A v \in Workers : WorkerHolds(v)
  BY DEF Discipline, Types
<1>1. CASE \/ Register(w) \/ ReadNotify(w) \/ CreateWorker(w)
           \/ ConnAllocFails(w) \/ EventAddFails(w) \/ ReleaseConn(w)
  <2>1. /\ UNCHANGED <<msfd, queue, wsfd, open, events>>
        /\ csfd' = csfd
    BY <1>1 DEF Register, ReadNotify, CreateWorker, ConnAllocFails,
         EventAddFails, ReleaseConn
  <2>2. /\ wpc[w] \in {"unborn", "register", "loop", "new", "event", "release"}
        /\ \E q \in {"register", "loop", "pop", "refuse"} :
             wpc' = [wpc EXCEPT ![w] = q]
        /\ wconn' = wconn \/ wconn' = [wconn EXCEPT ![w] = None]
    BY <1>1 DEF Register, ReadNotify, CreateWorker, ConnAllocFails,
         EventAddFails, ReleaseConn
  <2>3. \A v \in Workers :
          /\ wpc'[v] = "close" <=> wpc[v] = "close"
          /\ wpc'[v] = "event" => v # w /\ wpc[v] = "event"
          /\ v # w => wconn'[v] = wconn[v]
          /\ wpc[v] = "close" => wconn'[v] = wconn[v]
    BY <1>a, <2>2
  <2>4. Carried'
    BY <2>1, <2>3, CarriedSame DEF SocketsApart
  <2> QED
    BY <2>1, <2>3, <2>4, SocketsSame
<1>2. CASE PopItem(w) \/ Refuse(w)
  <2>1. /\ UNCHANGED <<msfd, events>> /\ csfd' = csfd /\ wconn' = wconn
        /\ wpc[w] \in {"pop", "refuse"}
        /\ \E q \in {"loop", "new"} : wpc' = [wpc EXCEPT ![w] = q]
        /\ wsfd' = wsfd \/ \E x : wsfd' = [wsfd EXCEPT ![w] = x]
    BY <1>2 DEF PopItem, Refuse
  <2>2. \A v \in Workers :
          /\ wpc'[v] = "close" <=> wpc[v] = "close"
          /\ wpc'[v] = "event" => v # w /\ wpc[v] = "event"
          /\ v # w => wsfd'[v] = wsfd[v]
    BY <1>a, <2>1
  <2>3. /\ ServedOnce' /\ ClosingOnce' /\ Carried'
        /\ \A s : Served(s)' <=> Served(s)
        /\ \A s : Closing(s)' <=> Closing(s)
    BY <2>1, <2>2, ServedSame, ClosingSame, CarriedSame DEF SocketsApart
  <2>4. CASE PopItem(w) /\ queue[w] = << >>
    <3>1. UNCHANGED <<msfd, queue, wsfd, open, events>>
      BY <2>4 DEF PopItem
    <3> QED
      BY <2>1, <2>2, <2>3, <3>1, SocketsSame
  <2>5. CASE PopItem(w) /\ queue[w] # << >>
    <3> DEFINE t == Head(queue[w])
    <3>1. /\ wsfd' = [wsfd EXCEPT ![w] = t] /\ wsfd[w] = None
          /\ queue' = [queue EXCEPT ![w] = Tail(queue[w])]
          /\ open' = open /\ msfd' = msfd
      BY <1>a, <2>5 DEF PopItem, WorkerHolds
    <3>2. /\ \A v \in Workers \ {w} : queue'[v] = queue[v]
          /\ queue'[w] = Tail(queue[w]) /\ queue[w] \in Seq(Fds)
      BY <1>a, <3>1
    <3>3. /\ \A x : Listed(queue'[w], x) <=> Listed(queue[w], x) /\ x # t
          /\ NoDuplicates(queue'[w]) /\ Listed(queue[w], t) /\ t \in Fds
      BY <2>5, <3>2, ListedTail, TakeFirst DEF SocketsApart, QueuedOnce
    <3> HIDE DEF t
    <3>4. Queued(t) /\ ~Held(wsfd, t)
      BY <3>3 DEF SocketsApart, SocketAt, Queued
    <3>5. /\ \A s \in Fds : Held(wsfd', s) <=> Held(wsfd, s) \/ s = t
          /\ HeldOnce(wsfd')
      BY <1>a, <3>1, <3>4, TakesUp, NoneAssumption DEF SocketsApart
    <3>6. QueuedOnce'
      <4>1. \A v \in Workers : NoDuplicates(queue'[v])
        BY <3>2, <3>3 DEF SocketsApart, QueuedOnce
      <4>2. \A u, v \in Workers, s \in Fds :
              Listed(queue'[u], s) /\ Listed(queue'[v], s) => u = v
        BY <3>2, <3>3 DEF SocketsApart, QueuedOnce
      <4> QED
        BY <4>1, <4>2 DEF QueuedOnce, NoDuplicates, Listed
    <3>7. ASSUME NEW s \in Fds PROVE SocketAt(s)'
      <4>1. SocketAt(s)
        BY DEF SocketsApart
      <4>2. Queued(s)' <=> Queued(s) /\ s # t
        <5>1. (\E v \in Workers : Listed(queue'[v], s)) <=> Queued(s) /\ s # t
          BY <3>2, <3>3 DEF Queued, SocketsApart, QueuedOnce
        <5> QED
          BY <5>1 DEF Queued, Listed
      <4>3. Held(wsfd, s)' <=> Held(wsfd, s) \/ s = t
        BY <3>5 DEF Held
      <4> QED
        BY <2>3, <3>1, <3>4, <4>1, <4>2, <4>3 DEF SocketAt
    <3> QED
      BY <2>3, <3>5, <3>6, <3>7 DEF SocketsApart, HeldOnce
  <2>6. CASE Refuse(w)
    <3>1. /\ wsfd' = [wsfd EXCEPT ![w] = None] /\ wsfd[w] # None /\ wsfd[w] \in Fds
          /\ queue' = queue /\ msfd' = msfd /\ open' = open \ {wsfd[w]}
      BY <1>a, <2>6 DEF Refuse, WorkerHolds
    <3>2. QueuedOnce' /\ \A s : Queued(s)' <=> Queued(s)
      BY <3>1, QueuedSame DEF SocketsApart
    <3>3. Held(wsfd, wsfd[w])
      BY DEF Held
    <3>4. /\ \A s \in Fds : Held(wsfd', s) <=> Held(wsfd, s) /\ s # wsfd[w]
          /\ HeldOnce(wsfd')
      BY <1>a, <3>1, LetsGo, NoneAssumption DEF SocketsApart
    <3>5. ASSUME NEW s \in Fds PROVE SocketAt(s)'
      <4>1. SocketAt(s)
        BY DEF SocketsApart
      <4>2. Held(wsfd, s)' <=> Held(wsfd, s) /\ s # wsfd[w]
        BY <3>4 DEF Held
      <4> QED
        BY <2>3, <3>1, <3>2, <3>3, <4>1, <4>2 DEF SocketAt
    <3> QED
      BY <2>3, <3>2, <3>4, <3>5 DEF SocketsApart, HeldOnce
  <2> QED
    BY <1>2, <2>4, <2>5, <2>6
<1> QED
  BY <1>1, <1>2

(* A conn on no event base and in no hands gets the socket of worker w. *)
LEMMA ConnGiven ==
  ASSUME Discipline, ConnsApart, SocketsApart,
         NEW w \in Workers, NEW c \in Conns, c \notin events, ~Held(wconn, c),
         wpc[w] = "new", wpc' = [wpc EXCEPT ![w] = "event"],
         wconn' = [wconn EXCEPT ![w] = c], csfd' = [csfd EXCEPT ![c] = wsfd[w]],
         UNCHANGED <<msfd, queue, wsfd, open, events>>
  PROVE  SocketsApart'
<1>1. /\ wpc \in [Workers -> WorkerPCs] /\ wconn \in [Workers -> Conns \cup {None}]
      /\ csfd \in [Conns -> Fds \cup {None}] /\ events \subseteq Conns
      /\ \A v \in Workers : WorkerHolds(v)
  BY DEF Discipline, Types
<1>2. \A v \in Workers :
        /\ wpc[v] \in {"event", "close"} =>
             wconn[v] \in Conns /\ wconn[v] # c /\ v # w
        /\ v # w => wpc'[v] = wpc[v] /\ wconn'[v] = wconn[v]
        /\ wpc'[w] = "event" /\ wconn'[w] = c
  BY <1>1 DEF WorkerHolds, Held
<1>3. csfd'[c] = wsfd[w] /\ \A d \in Conns \ {c} : csfd'[d] = csfd[d]
  BY <1>1
<1>4. \A d \in events : csfd'[d] = csfd[d]
  BY <1>1, <1>3
<1>5. \A v \in Workers :
        /\ wpc'[v] = "close" <=> wpc[v] = "close"
        /\ wpc[v] = "close" => wconn'[v] = wconn[v]
                               /\ csfd'[wconn[v]] = csfd[wconn[v]]
  BY <1>2, <1>3
<1>6. Carried'
  <2> SUFFICES ASSUME NEW v \in Workers, wpc'[v] = "event"
               PROVE  csfd'[wconn'[v]] = wsfd'[v]
    BY DEF Carried
  <2>1. CASE v = w
    BY <1>2, <1>3, <2>1
  <2>2. CASE v # w
    BY <1>2, <1>3, <2>2 DEF SocketsApart, Carried
  <2> QED
    BY <2>1, <2>2
<1> QED
  BY <1>4, <1>5, <1>6, SocketsSame

LEMMA ConnSocketsStep ==
  ASSUME Discipline, ConnsApart, SocketsApart, NEW w \in Workers,
         \/ ConnFromFreelist(w) \/ EventAdd(w) \/ CloseSocket(w)
         \/ \E c \in Conns : ConnFromCalloc(w, c) \/ CloseEvent(w, c)
  PROVE  SocketsApart'
<1> USE DEF startup, handoff, pool, Goes
<1>a. /\ wpc \in [Workers -> WorkerPCs] /\ wconn \in [Workers -> Conns \cup {None}]
      /\ wsfd \in [Workers -> Fds \cup {None}]
      /\ csfd \in [Conns -> Fds \cup {None}] /\ events \subseteq Conns
      /\ freeconns \in Seq(Conns)
      /\ \A v \in Workers : WorkerHolds(v)
  BY DEF Discipline, Types
<1>1. CASE ConnFromFreelist(w)
  <2>1. PICK c : c = freeconns[Len(freeconns)]
    OBVIOUS
  <2>2. freeconns # << >>
    BY <1>1 DEF ConnFromFreelist
  <2>3. c \in Conns /\ Listed(freeconns, c)
    BY <1>a, <2>1, <2>2, TakeLast, ListedFront DEF ConnsApart
  <2>4. c \notin events /\ ~Held(wconn, c)
    BY <2>3 DEF ConnsApart, ConnAt
  <2>5. /\ wpc[w] = "new" /\ wpc' = [wpc EXCEPT ![w] = "event"]
        /\ wconn' = [wconn EXCEPT ![w] = c] /\ csfd' = [csfd EXCEPT ![c] = wsfd[w]]
        /\ UNCHANGED <<msfd, queue, wsfd, open, events>>
    BY <1>1, <2>1 DEF ConnFromFreelist
  <2> QED
    BY <2>3, <2>4, <2>5, ConnGiven
<1>2. ASSUME NEW c \in Conns, ConnFromCalloc(w, c) PROVE SocketsApart'
  <2>1. /\ wpc[w] = "new" /\ wpc' = [wpc EXCEPT ![w] = "event"] /\ c \notin conns
        /\ wconn' = [wconn EXCEPT ![w] = c] /\ csfd' = [csfd EXCEPT ![c] = wsfd[w]]
        /\ UNCHANGED <<msfd, queue, wsfd, open, events>>
    BY <1>2 DEF ConnFromCalloc
  <2>2. c \notin events /\ ~Held(wconn, c)
    BY <2>1 DEF ConnsApart, ConnAt
  <2> QED
    BY <2>1, <2>2, ConnGiven
<1>3. CASE EventAdd(w)
  <2>1. PICK c, t : c = wconn[w] /\ t = wsfd[w]
    OBVIOUS
  <2>2. /\ wpc[w] = "event" /\ wpc' = [wpc EXCEPT ![w] = "loop"]
        /\ wconn' = [wconn EXCEPT ![w] = None] /\ wsfd' = [wsfd EXCEPT ![w] = None]
        /\ events' = events \cup {c} /\ csfd' = csfd
        /\ UNCHANGED <<msfd, queue, open>>
    BY <1>3, <2>1 DEF EventAdd
  <2>3. c \in Conns /\ t \in Fds /\ t # None /\ csfd[c] = t
    BY <1>a, <2>1, <2>2, NoneAssumption DEF WorkerHolds, SocketsApart, Carried
  <2>4. Held(wsfd, t)
    BY <2>1 DEF Held
  <2>5. ~Served(t) /\ ~Closing(t) /\ ~Queued(t) /\ msfd # t
    BY <2>3, <2>4 DEF SocketsApart, SocketAt
  <2>6. /\ \A s \in Fds : Held(wsfd', s) <=> Held(wsfd, s) /\ s # t
        /\ HeldOnce(wsfd')
    <3>1. wsfd[w] # None /\ HeldOnce(wsfd)
      BY <2>1, <2>3 DEF SocketsApart
    <3>2. /\ \A y : y # None =>
               (Held([wsfd EXCEPT ![w] = None], y) <=> Held(wsfd, y) /\ y # wsfd[w])
          /\ HeldOnce([wsfd EXCEPT ![w] = None])
      BY <1>a, <3>1, LetsGo
    <3> QED
      BY <2>1, <2>2, <3>2, NoneAssumption
  <2>7. \A v \in Workers :
          /\ wpc'[v] = "close" <=> wpc[v] = "close"
          /\ wpc'[v] = "event" => v # w /\ wpc[v] = "event"
          /\ v # w => wconn'[v] = wconn[v] /\ wsfd'[v] = wsfd[v]
          /\ wpc[v] = "close" => wconn'[v] = wconn[v]
    BY <1>a, <2>2
  <2>8. /\ QueuedOnce' /\ ClosingOnce' /\ Carried'
        /\ \A s : Queued(s)' <=> Queued(s)
        /\ \A s : Closing(s)' <=> Closing(s)
    BY <2>2, <2>7, QueuedSame, ClosingSame, CarriedSame DEF SocketsApart
  <2>9. ServedOnce' /\ \A s : Served(s)' <=> Served(s) \/ s = t
    <3>1. \A b \in events : csfd[b] # t
      BY <2>5 DEF Served
    <3> QED
      BY <2>2, <2>3, <3>1 DEF ServedOnce, Served, SocketsApart
  <2>10. ASSUME NEW s \in Fds PROVE SocketAt(s)'
    <3>1. SocketAt(s)
      BY DEF SocketsApart
    <3>2. Held(wsfd, s)' <=> Held(wsfd, s) /\ s # t
      BY <2>6 DEF Held
    <3> QED
      BY <2>2, <2>4, <2>5, <2>8, <2>9, <3>1, <3>2 DEF SocketAt
  <2> QED
    BY <2>6, <2>8, <2>9, <2>10 DEF SocketsApart, HeldOnce
<1>4. ASSUME NEW c \in Conns, CloseEvent(w, c) PROVE SocketsApart'
  <2>1. PICK t : t = csfd[c]
    OBVIOUS
  <2>2. /\ wpc[w] = "loop" /\ wpc' = [wpc EXCEPT ![w] = "close"]
        /\ c \in events /\ events' = events \ {c}
        /\ wconn' = [wconn EXCEPT ![w] = c] /\ csfd' = csfd
        /\ UNCHANGED <<msfd, queue, wsfd, open>>
    BY <1>4 DEF CloseEvent
  <2>3. (Served(t) /\ ~Closing(t)) \/ t \notin Fds
    BY <2>1, <2>2 DEF SocketsApart, SocketAt, Served
  <2>4. /\ wpc'[w] = "close" /\ wconn'[w] = c /\ wpc[w] # "close"
        /\ \A v \in Workers \ {w} : wpc'[v] = wpc[v] /\ wconn'[v] = wconn[v]
        /\ \A v \in Workers : wpc'[v] = "event" => v # w /\ wpc[v] = "event"
    BY <1>a, <2>2
  <2>5. /\ QueuedOnce' /\ HeldOnce(wsfd)' /\ Carried'
        /\ \A s : Queued(s)' <=> Queued(s)
        /\ \A s : Held(wsfd, s)' <=> Held(wsfd, s)
    BY <2>2, <2>4, QueuedSame, HeldSame, CarriedSame DEF SocketsApart
  <2>6. /\ ServedOnce'
        /\ \A s \in Fds : Served(s)' <=> Served(s) /\ s # t
    BY <2>1, <2>2, NoneAssumption DEF ServedOnce, Served, SocketsApart
  <2>7. \A s \in Fds : Closing(s)' <=> Closing(s) \/ s = t
    BY <2>1, <2>2, <2>4 DEF Closing
  <2>8. ClosingOnce'
    <3>1. ASSUME NEW v \in Workers, v # w, wpc[v] = "close", csfd[wconn[v]] = t
          PROVE  t = None
      <4>1. Closing(t) /\ t \in Fds \cup {None}
        BY <1>a, <2>1, <3>1 DEF Closing
      <4> QED
        BY <2>3, <4>1
    <3> QED
      BY <2>1, <2>2, <2>4, <3>1 DEF ClosingOnce, SocketsApart
  <2>9. ASSUME NEW s \in Fds PROVE SocketAt(s)'
    <3>1. SocketAt(s)
      BY DEF SocketsApart
    <3> QED
      BY <2>2, <2>3, <2>5, <2>6, <2>7, <3>1 DEF SocketAt
  <2> QED
    BY <2>5, <2>6, <2>8, <2>9 DEF SocketsApart
<1>5. CASE CloseSocket(w)
  <2>1. PICK t : t = csfd[wconn[w]]
    OBVIOUS
  <2>2. /\ wpc[w] = "close" /\ wpc' = [wpc EXCEPT ![w] = "release"]
        /\ wconn' = wconn /\ csfd' = csfd /\ open' = open \ {t}
        /\ UNCHANGED <<msfd, queue, wsfd, events>>
    BY <1>5, <2>1 DEF CloseSocket
  <2>3. Closing(t)
    BY <2>1, <2>2 DEF Closing
  <2>4. \A v \in Workers :
          /\ wpc'[v] = "close" <=> wpc[v] = "close" /\ v # w
          /\ wpc'[v] = "event" <=> wpc[v] = "event"
    BY <1>a, <2>2
  <2>5. /\ QueuedOnce' /\ HeldOnce(wsfd)' /\ ServedOnce' /\ Carried'
        /\ \A s : Queued(s)' <=> Queued(s)
        /\ \A s : Held(wsfd, s)' <=> Held(wsfd, s)
        /\ \A s : Served(s)' <=> Served(s)
    BY <2>2, <2>4, QueuedSame, HeldSame, ServedSame, CarriedSame DEF SocketsApart
  <2>6. ClosingOnce'
    BY <2>2, <2>4 DEF ClosingOnce, SocketsApart
  <2>7. ASSUME NEW s \in Fds PROVE SocketAt(s)'
    <3>1. SocketAt(s) /\ s # None
      BY NoneAssumption DEF SocketsApart
    <3>2. Closing(s)' <=> Closing(s) /\ s # t
      BY <2>1, <2>2, <2>4, <3>1 DEF Closing, ClosingOnce, SocketsApart
    <3> QED
      BY <2>2, <2>3, <2>5, <3>1, <3>2 DEF SocketAt
  <2> QED
    BY <2>5, <2>6, <2>7 DEF SocketsApart
<1> QED
  BY <1>1, <1>2, <1>3, <1>4, <1>5

LEMMA SocketsKept == Spec => []SocketsApart
<1>1. Init => SocketsApart
  <2> SUFFICES ASSUME Init PROVE SocketsApart
    OBVIOUS
  <2>1. /\ msfd = None /\ events = {} /\ open = {}
        /\ \A w \in Workers : Len(queue[w]) = 0 /\ wsfd[w] = None /\ wpc[w] = "unborn"
    BY DEF Init
  <2>2. \A s \in Fds : ~Queued(s) /\ ~Held(wsfd, s) /\ ~Served(s) /\ ~Closing(s)
    BY <2>1, NoneAssumption DEF Queued, Listed, Held, Served, Closing
  <2>3. QueuedOnce /\ HeldOnce(wsfd) /\ ServedOnce /\ ClosingOnce /\ Carried
    BY <2>1 DEF QueuedOnce, HeldOnce, ServedOnce, ClosingOnce, Carried, Listed,
       NoDuplicates
  <2> QED
    BY <2>1, <2>2, <2>3, NoneAssumption DEF SocketsApart, SocketAt
<1>2. Discipline /\ ConnsApart /\ SocketsApart /\ [Next]_vars => SocketsApart'
  BY MainSocketsStep, WorkerSocketsStep, ConnSocketsStep
     DEF Next, MainStep, WorkerStep
<1> QED
  BY <1>1, <1>2, DisciplineKept, ConnsKept, PTL DEF Spec

-----------------------------------------------------------------------------
(* The two accounts. *)

LEMMA OneOrNone ==
  ASSUME NEW H, \A g, h \in H : g = h
  PROVE  Cardinality(H) = IF H # {} THEN 1 ELSE 0
<1>1. CASE H = {}
  BY <1>1, FS_EmptySet
<1>2. CASE H # {}
  <2>1. PICK h : h \in H
    BY <1>2
  <2>2. H = {h}
    BY <2>1
  <2> QED
    BY <1>2, <2>2, FS_Singleton
<1> QED
  BY <1>1, <1>2

(* Every allocated conn object is at one place of the free list, or        *)
(* registered with one event base, or in the hands of one worker; a freed  *)
(* one is nowhere.                                                         *)
THEOREM ConnObjectsAreKept == Spec => []ConnsAccounted
<1>1. Discipline /\ ConnsApart => ConnsAccounted
  <2> SUFFICES ASSUME Discipline, ConnsApart, NEW c \in Conns
               PROVE  Cardinality(HoldersOfConn(c)) = IF c \in conns THEN 1 ELSE 0
    BY DEF ConnsAccounted
  <2>1. ConnAt(c) /\ NoDuplicates(freeconns) /\ HeldOnce(wconn) /\ c # None
    BY NoneAssumption DEF ConnsApart
  <2> DEFINE F == {h \in {"free"} \X (1 .. Len(freeconns)) : freeconns[h[2]] = c}
             E == {<<"event", e>> : e \in events \cap {c}}
             W == {h \in {"hand"} \X Workers : wconn[h[2]] = c}
  <2>2. F # {} <=> Listed(freeconns, c)
    <3>1. \A k \in 1 .. Len(freeconns) : freeconns[k] = c => <<"free", k>> \in F
      OBVIOUS
    <3> QED
      BY <3>1 DEF Listed
  <2>3. W # {} <=> Held(wconn, c)
    <3>1. \A w \in Workers : wconn[w] = c => <<"hand", w>> \in W
      OBVIOUS
    <3> QED
      BY <3>1 DEF Held
  <2>4. E # {} <=> c \in events
    OBVIOUS
  <2>5. \A g, h \in F : g = h
    BY <2>1 DEF NoDuplicates
  <2>6. \A g, h \in W : g = h
    BY <2>1 DEF HeldOnce
  <2>7. \A g, h \in E : g = h
    OBVIOUS
  <2> HIDE DEF F, E, W
  <2>8. \A g, h \in F \cup E \cup W : g = h
    BY <2>1, <2>2, <2>3, <2>4, <2>5, <2>6, <2>7 DEF ConnAt
  <2>9. F \cup E \cup W # {} <=> c \in conns
    BY <2>1, <2>2, <2>3, <2>4 DEF ConnAt
  <2>10. HoldersOfConn(c) = F \cup E \cup W
    BY DEF HoldersOfConn, F, E, W
  <2> QED
    BY <2>8, <2>9, <2>10, OneOrNone
<1> QED
  BY <1>1, DisciplineKept, ConnsKept, PTL

(* Every open client socket has exactly one holder, the thread that        *)
(* accepted or took it, a place in a queue, or a connection; a closed one  *)
(* has none, so that nothing is leaked and nothing is closed twice.        *)
THEOREM SocketsAreKept == Spec => []SocketsAccounted
<1>1. Discipline /\ SocketsApart => SocketsAccounted
  <2> SUFFICES ASSUME Discipline, SocketsApart, NEW s \in Fds
               PROVE  Cardinality(HoldersOfSocket(s)) = IF s \in open THEN 1 ELSE 0
    BY DEF SocketsAccounted
  <2>1. /\ SocketAt(s) /\ QueuedOnce /\ HeldOnce(wsfd) /\ ServedOnce /\ ClosingOnce
        /\ s # None
    BY NoneAssumption DEF SocketsApart
  <2> DEFINE M == {<<"main", msfd>>} \cap {<<"main", s>>}
             U == UNION {{"queue"} \X {w} \X {k \in 1 .. Len(queue[w]) : queue[w][k] = s} :
                           w \in Workers}
             W == {h \in {"hand"} \X Workers : wsfd[h[2]] = s}
             E == {h \in {"served"} \X events : csfd[h[2]] = s}
             C == {h \in {"closing"} \X Workers :
                     wpc[h[2]] = "close" /\ csfd[wconn[h[2]]] = s}
  <2>2. (M # {} <=> msfd = s) /\ \A g, h \in M : g = h
    <3>1. <<"main", msfd>> = <<"main", s>> <=> msfd = s
      OBVIOUS
    <3> QED
      BY <3>1
  <2>3. (U # {} <=> Queued(s)) /\ \A g, h \in U : g = h
    <3>1. ASSUME Queued(s) PROVE U # {}
      <4>1. PICK w \in Workers : Listed(queue[w], s)
        BY <3>1 DEF Queued
      <4>2. PICK k \in 1 .. Len(queue[w]) : queue[w][k] = s
        BY <4>1 DEF Listed
      <4>3. <<"queue", w, k>>
              \in {"queue"} \X {w} \X {i \in 1 .. Len(queue[w]) : queue[w][i] = s}
        BY <4>2
      <4> QED
        BY <4>1, <4>3
    <3>2. ASSUME NEW h \in U
          PROVE  \E w \in Workers : \E k \in 1 .. Len(queue[w]) :
                   queue[w][k] = s /\ h = <<"queue", w, k>>
      <4>1. PICK w \in Workers :
              h \in {"queue"} \X {w} \X {k \in 1 .. Len(queue[w]) : queue[w][k] = s}
        OBVIOUS
      <4> QED
        BY <4>1
    <3> HIDE DEF U
    <3>3. U # {} => Queued(s)
      BY <3>2 DEF Queued, Listed
    <3>4. ASSUME NEW g \in U, NEW h \in U PROVE g = h
      <4>1. PICK v \in Workers : \E k \in 1 .. Len(queue[v]) :
              queue[v][k] = s /\ g = <<"queue", v, k>>
        BY <3>2
      <4>a. PICK k \in 1 .. Len(queue[v]) : queue[v][k] = s /\ g = <<"queue", v, k>>
        BY <4>1
      <4>2. PICK w \in Workers : \E l \in 1 .. Len(queue[w]) :
              queue[w][l] = s /\ h = <<"queue", w, l>>
        BY <3>2
      <4>b. PICK l \in 1 .. Len(queue[w]) : queue[w][l] = s /\ h = <<"queue", w, l>>
        BY <4>2
      <4>3. v = w
        BY <2>1, <4>a, <4>b DEF QueuedOnce, Listed
      <4>4. k = l
        BY <2>1, <4>a, <4>b, <4>3 DEF QueuedOnce, NoDuplicates
      <4> QED
        BY <4>a, <4>b, <4>3, <4>4
    <3> QED
      BY <3>1, <3>3, <3>4
  <2>4. (W # {} <=> Held(wsfd, s)) /\ \A g, h \in W : g = h
    <3>1. \A w \in Workers : wsfd[w] = s => <<"hand", w>> \in W
      OBVIOUS
    <3>2. \A g, h \in W : g = h
      BY <2>1 DEF HeldOnce
    <3> QED
      BY <3>1, <3>2 DEF Held
  <2>5. (E # {} <=> Served(s)) /\ \A g, h \in E : g = h
    <3>1. \A c \in events : csfd[c] = s => <<"served", c>> \in E
      OBVIOUS
    <3>2. \A g, h \in E : g = h
      BY <2>1 DEF ServedOnce
    <3> QED
      BY <3>1, <3>2 DEF Served
  <2>6. (C # {} <=> Closing(s)) /\ \A g, h \in C : g = h
    <3>1. \A w \in Workers :
            wpc[w] = "close" /\ csfd[wconn[w]] = s => <<"closing", w>> \in C
      OBVIOUS
    <3>2. \A g, h \in C : g = h
      BY <2>1 DEF ClosingOnce
    <3> QED
      BY <3>1, <3>2 DEF Closing
  <2> HIDE DEF M, U, W, E, C
  <2>7. HoldersOfSocket(s) = M \cup U \cup W \cup E \cup C
    BY DEF HoldersOfSocket, M, U, W, E, C
  <2>8. \A g, h \in M \cup U \cup W \cup E \cup C : g = h
    BY <2>1, <2>2, <2>3, <2>4, <2>5, <2>6 DEF SocketAt
  <2>9. M \cup U \cup W \cup E \cup C # {} <=> s \in open
    BY <2>1, <2>2, <2>3, <2>4, <2>5, <2>6 DEF SocketAt
  <2> QED
    BY <2>7, <2>8, <2>9, OneOrNone
<1> QED
  BY <1>1, DisciplineKept, SocketsKept, PTL
=============================================================================
