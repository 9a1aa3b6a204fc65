------------------------ MODULE AcceptControl_proofs ------------------------
(***************************************************************************)
(* Proof about AcceptControl for any workers and listening conns.          *)
(*                                                                         *)
(* As long as accept has not been switched off and on at one time, one     *)
(* thread switches (OneSwitches): conn_lock excludes the workers from each *)
(* other, overlapped remembers the rest.  That thread leaves the listening *)
(* conns before at in the state it wants, has not touched those behind,    *)
(* and is midway with the one at hand (Progress).  A call to libevent that *)
(* fails leaves a socket whose flags say "on", watched or not (Told).      *)
(***************************************************************************)
EXTENDS AcceptControl, TLAPS

Places == {"idle", "lock", "test", "del", "set", "flags", "add", "listen", "unlock"}

Types ==
  /\ ev_flags \in [Listeners -> Flags]
  /\ events \in [Listeners -> Flags]
  /\ inserted \in [Listeners -> BOOLEAN]
  /\ watched \in [Listeners -> BOOLEAN]
  /\ backlog \in [Listeners -> Flags]
  /\ failed \in [Listeners -> BOOLEAN]
  /\ corrupt \in BOOLEAN /\ overlapped \in BOOLEAN
  /\ pc \in [Threads -> Places]
  /\ at \in [Threads -> Listeners]
  /\ conn_lock \in Workers \cup {None}

(* conn_lock is held by the worker that switches. *)
LockHeld == \A w \in Workers : Switching(w) => conn_lock = w

OneSwitches ==
  ~overlapped => \A w \in Workers : ~(Switching(w) /\ Switching(Main))

(* update_event has been told to switch listening conn l to f. *)
Told(l, f) ==
  /\ inserted[l] = watched[l]
  /\ ~failed[l] => ev_flags[l] = f /\ watched[l] = (f = "on")
  /\ failed[l] \/ watched[l] => ev_flags[l] = "on"

(* Listening conn l is switched to f. *)
Settled(l, f) == Told(l, f) /\ backlog[l] = f

(* Thread t switches l, which was f before. *)
Midway(t, l, f) ==
  /\ pc[t] \in {"test", "del"} => Settled(l, f)
  /\ pc[t] \in {"set", "flags", "add"} => ~inserted[l] /\ ~watched[l]
  /\ pc[t] \in {"flags", "add"} => events[l] = Want(t)
  /\ pc[t] = "add" => ev_flags[l] = Want(t)
  /\ pc[t] = "listen" => Told(l, Want(t))
  /\ pc[t] = "unlock" => Settled(l, Want(t))

(* Where t has come to, from a state in which all were f *)
Progress(t, f) ==
  /\ \A l \in Listeners : l < at[t] => Settled(l, Want(t))
  /\ \A l \in Listeners : l > at[t] => pc[t] # "unlock" /\ Settled(l, f)
  /\ Midway(t, at[t], f)

Calm == \A t \in Threads : ~Switching(t)

InStep ==
  ~overlapped =>
    /\ ~corrupt
    /\ Calm => \E f \in Flags : \A l \in Listeners : Settled(l, f)
    /\ \A t \in Threads : Switching(t) => \E f \in Flags : Progress(t, f)

(* The steps of a worker before it switches, and of the main thread *)
Serves(w) == ConnNew(w) \/ Refuse(w) \/ Abandon(w) \/ Close(w)
Takes(l) == Accept(l) \/ AcceptNothing(l) \/ AcceptFails(l)

Discipline == Types /\ LockHeld /\ OneSwitches

-----------------------------------------------------------------------------
LEMMA Names == Main \in Threads /\ Workers \subseteq Threads /\ Main \notin Workers
               /\ None \notin Threads
  BY MainAssumption DEF Threads

LEMMA InitDiscipline == Init => Discipline
<1> SUFFICES ASSUME Init PROVE Types /\ LockHeld /\ OneSwitches
  BY DEF Discipline
<1>1. 1 \in Listeners
  BY NumListenersAssumption DEF Listeners
<1>2. Types
  BY <1>1 DEF Init, Types, Flags, Places
<1>3. \A t \in Threads : ~Switching(t)
  BY DEF Init, Switching
<1> QED
  BY <1>2, <1>3, Names DEF LockHeld, OneSwitches

LEMMA SwitchKeepsTypes ==
  ASSUME Types, NEW t \in Threads, Switch(t)
  PROVE  Types'
<1> USE DEF Types, Goto, Flags, Places, libevent, fds, locks, Want
<1>1. CASE TestFlags(t)
  BY <1>1 DEF TestFlags
<1>2. CASE EventDel(t)
  BY <1>2 DEF EventDel
<1>3. CASE EventSet(t)
  BY <1>3 DEF EventSet
<1>4. CASE SetFlags(t)
  BY <1>4 DEF SetFlags
<1>5. CASE EventAdd(t)
  BY <1>5 DEF EventAdd
<1>6. CASE Listen(t)
  <2>1. at[t] < NumListeners => at[t] + 1 \in Listeners
    BY NumListenersAssumption DEF Listeners
  <2> QED
    BY <1>6, <2>1 DEF Listen
<1>7. CASE EventDelFails(t)
  BY <1>7 DEF EventDelFails
<1>8. CASE EventAddFails(t)
  BY <1>8 DEF EventAddFails
<1> QED
  BY <1>1, <1>2, <1>3, <1>4, <1>5, <1>6, <1>7, <1>8 DEF Switch

(* Who begins to switch begins with the first listening conn. *)
LEMMA OthersKeepTypes ==
  ASSUME Types, Next, \A t \in Threads : ~Switch(t)
  PROVE  Types'
<1> USE Names DEF Types, Goto, Places, libevent, fds, locks
<1>1. 1 \in Listeners
  BY NumListenersAssumption DEF Listeners
<1>2. CASE Poll \/ OtherOpens \/ OtherCloses \/ (\E l \in Listeners : Takes(l))
  BY <1>2 DEF Poll, Takes, Accept, AcceptNothing, AcceptFails, OtherOpens, OtherCloses
<1>3. CASE LockThread
  BY <1>1, <1>3 DEF LockThread
<1>4. CASE UnlockThread
  BY <1>4 DEF UnlockThread
<1>5. ASSUME NEW w \in Workers, Serves(w) PROVE Types'
  BY <1>5 DEF Serves, ConnNew, Refuse, Abandon, Close
<1>6. ASSUME NEW w \in Workers, LockConn(w) PROVE Types'
  BY <1>1, <1>6 DEF LockConn
<1>7. ASSUME NEW w \in Workers, UnlockConn(w) PROVE Types'
  BY <1>7 DEF UnlockConn
<1> QED
  BY <1>2, <1>3, <1>4, <1>5, <1>6, <1>7 DEF Next, MainNext, WorkerNext, Serves, Takes

-----------------------------------------------------------------------------
(* Who switches *)

(* A thread that switches leaves the others and the locks alone. *)
LEMMA SwitchFrame ==
  ASSUME Types, NEW t \in Threads, Switch(t)
  PROVE  /\ Switching(t) /\ Switching(t)'
         /\ \A u \in Threads \ {t} : pc'[u] = pc[u] /\ at'[u] = at[u]
         /\ UNCHANGED <<conn_lock, overlapped>>
<1> USE DEF Types, Switching, Goto, locks
<1>1. CASE TestFlags(t)
  BY <1>1 DEF TestFlags
<1>2. CASE EventDel(t)
  BY <1>2 DEF EventDel
<1>3. CASE EventSet(t)
  BY <1>3 DEF EventSet
<1>4. CASE SetFlags(t)
  BY <1>4 DEF SetFlags
<1>5. CASE EventAdd(t)
  BY <1>5 DEF EventAdd
<1>6. CASE Listen(t)
  BY <1>6 DEF Listen
<1>7. CASE EventDelFails(t)
  BY <1>7 DEF EventDelFails
<1>8. CASE EventAddFails(t)
  BY <1>8 DEF EventAddFails
<1> QED
  BY <1>1, <1>2, <1>3, <1>4, <1>5, <1>6, <1>7, <1>8 DEF Switch

LEMMA DisciplineIsKept ==
  ASSUME Discipline, Next
  PROVE  Discipline'
<1> USE Names
<1>1. ASSUME NEW t \in Threads, Switch(t) PROVE Discipline'
  <2>1. Types'
    BY <1>1, SwitchKeepsTypes DEF Discipline
  <2>2. \A u \in Threads : Switching(u)' <=> Switching(u)
    BY <1>1, SwitchFrame DEF Discipline, Switching
  <2>3. UNCHANGED <<conn_lock, overlapped>>
    BY <1>1, SwitchFrame DEF Discipline
  <2> QED
    BY <2>1, <2>2, <2>3 DEF Discipline, LockHeld, OneSwitches
<1>2. CASE \A t \in Threads : ~Switch(t)
  <2>1. Types'
    BY <1>2, OthersKeepTypes DEF Discipline
  <2> USE DEF Discipline, Types, LockHeld, OneSwitches, Switching, Goto
  <2>2. CASE Poll \/ OtherOpens \/ OtherCloses \/ (\E l \in Listeners : Takes(l))
    BY <2>1, <2>2 DEF Poll, Takes, Accept, AcceptNothing, AcceptFails, OtherOpens, OtherCloses, locks
  <2>3. CASE LockThread
    BY <2>1, <2>3 DEF LockThread
  <2>4. CASE UnlockThread
    BY <2>1, <2>4 DEF UnlockThread
  <2>5. ASSUME NEW w \in Workers, Serves(w) PROVE Discipline'
    BY <2>1, <2>5 DEF Serves, ConnNew, Refuse, Abandon, Close, locks
  <2>6. ASSUME NEW w \in Workers, LockConn(w) PROVE Discipline'
    BY <2>1, <2>6 DEF LockConn
  <2>7. ASSUME NEW w \in Workers, UnlockConn(w) PROVE Discipline'
    BY <2>1, <2>7 DEF UnlockConn
  <2> QED
    BY <1>2, <2>2, <2>3, <2>4, <2>5, <2>6, <2>7 DEF Next, MainNext, WorkerNext, Serves, Takes
<1> QED
  BY <1>1, <1>2

LEMMA OnlyOne ==
  ASSUME Discipline, ~overlapped, NEW t \in Threads, NEW u \in Threads,
         Switching(t), Switching(u)
  PROVE  t = u
  BY DEF Discipline, LockHeld, OneSwitches, Threads

-----------------------------------------------------------------------------
(* How far a switch has come *)

LEMMA SwitchProgresses ==
  ASSUME Types, NEW t \in Threads, NEW f \in Flags, Progress(t, f), Switch(t)
  PROVE  Progress(t, f)'
<1> USE DEF Types
<1>1. PICK a \in Listeners : a = at[t] /\ a \in Nat
  BY DEF Listeners
<1>2. CASE TestFlags(t)
  <2>1. /\ pc[t] = "test" /\ pc'[t] = IF ev_flags[a] = Want(t) THEN "listen" ELSE "del"
        /\ UNCHANGED <<ev_flags, events, inserted, watched, failed, backlog, at>>
    BY <1>1, <1>2 DEF TestFlags, libevent
  <2> QED
    BY <1>1, <2>1 DEF Progress, Midway, Settled, Told, Want
<1>3. CASE EventDel(t)
  <2>1. /\ pc[t] = "del" /\ pc'[t] = "set"
        /\ inserted' = [inserted EXCEPT ![a] = FALSE]
        /\ watched' = [watched EXCEPT ![a] = @ /\ ~inserted[a]]
        /\ UNCHANGED <<ev_flags, events, failed, backlog, at>>
    BY <1>1, <1>3 DEF EventDel, Goto
  <2>2. inserted[a] = watched[a]
    BY <1>1, <2>1 DEF Progress, Midway, Settled, Told
  <2>3. ~inserted'[a] /\ ~watched'[a]
    BY <2>1, <2>2
  <2>4. \A l \in Listeners \ {a}, g \in Flags : Settled(l, g) => Settled(l, g)'
    BY <2>1 DEF Settled, Told
  <2> QED
    BY <1>1, <2>1, <2>3, <2>4 DEF Progress, Midway, Want, Flags, Listeners
<1>4. CASE EventSet(t)
  <2>1. /\ pc[t] = "set" /\ pc'[t] = "flags"
        /\ events' = [events EXCEPT ![a] = Want(t)]
        /\ inserted' = [inserted EXCEPT ![a] = FALSE]
        /\ UNCHANGED <<ev_flags, watched, failed, backlog, at>>
    BY <1>1, <1>4 DEF EventSet, Goto
  <2> QED
    BY <1>1, <2>1 DEF Progress, Midway, Settled, Told, Want, Listeners
<1>5. CASE SetFlags(t)
  <2>1. /\ pc[t] = "flags" /\ pc'[t] = "add"
        /\ ev_flags' = [ev_flags EXCEPT ![a] = Want(t)]
        /\ UNCHANGED <<events, inserted, watched, failed, backlog, at>>
    BY <1>1, <1>5 DEF SetFlags, Goto
  <2> QED
    BY <1>1, <2>1 DEF Progress, Midway, Settled, Told, Want, Listeners
<1>6. CASE EventAdd(t)
  <2>1. /\ pc[t] = "add" /\ pc'[t] = "listen"
        /\ UNCHANGED <<ev_flags, events, backlog, at>>
    BY <1>6 DEF EventAdd, Goto
  <2>2. events[a] = Want(t) /\ ev_flags[a] = Want(t) /\ ~inserted[a] /\ ~watched[a]
    BY <1>1, <2>1 DEF Progress, Midway
  <2>3. /\ inserted' = [inserted EXCEPT ![a] = (Want(t) = "on")]
        /\ watched' = [watched EXCEPT ![a] = (Want(t) = "on")]
        /\ failed' = [failed EXCEPT ![a] = FALSE]
    BY <1>1, <1>6, <2>2 DEF EventAdd, ToAdd
  <2> QED
    BY <1>1, <2>1, <2>2, <2>3 DEF Progress, Midway, Settled, Told, Want, Listeners
<1>7. CASE Listen(t)
  <2>1. /\ pc[t] = "listen"
        /\ backlog' = [backlog EXCEPT ![a] = Want(t)]
        /\ UNCHANGED <<ev_flags, events, inserted, watched, failed>>
    BY <1>1, <1>7 DEF Listen, libevent
  <2>2. Settled(a, Want(t))' /\ Want(t)' = Want(t)
    BY <1>1, <2>1 DEF Progress, Midway, Settled, Told, Want
  <2>3. \A l \in Listeners : l < a => Settled(l, Want(t))'
    BY <1>1, <2>1 DEF Progress, Settled, Told, Want, Listeners
  <2>4. \A l \in Listeners : l > a => Settled(l, f)'
    BY <1>1, <2>1 DEF Progress, Settled, Told, Listeners
  <2>5. CASE a < NumListeners
    <3>1. at'[t] = a + 1 /\ pc'[t] = "test" /\ a + 1 \in Listeners
      BY <1>1, <1>7, <2>5, NumListenersAssumption DEF Listen, Listeners
    <3> QED
      BY <1>1, <2>2, <2>3, <2>4, <3>1 DEF Progress, Midway, Listeners
  <2>6. CASE ~(a < NumListeners)
    <3>1. at'[t] = a /\ pc'[t] = "unlock" /\ \A l \in Listeners : ~(l > a)
      BY <1>1, <1>7, <2>6, NumListenersAssumption DEF Listen, Listeners
    <3> QED
      BY <1>1, <2>2, <2>3, <3>1 DEF Progress, Midway, Listeners
  <2> QED
    BY <2>5, <2>6
<1>8. CASE EventDelFails(t)
  <2>1. /\ pc[t] = "del" /\ pc'[t] = "listen" /\ inserted[a]
        /\ failed' = [failed EXCEPT ![a] = TRUE]
        /\ UNCHANGED <<ev_flags, backlog, at>>
    BY <1>1, <1>8 DEF EventDelFails, Goto
  <2>2. \/ /\ inserted' = [inserted EXCEPT ![a] = FALSE]
           /\ watched' = [watched EXCEPT ![a] = FALSE]
        \/ UNCHANGED <<inserted, watched>>
    BY <1>1, <1>8 DEF EventDelFails
  <2>3. Told(a, Want(t))'
    <3>1. inserted[a] = watched[a] /\ (watched[a] => ev_flags[a] = "on")
      BY <1>1, <2>1 DEF Progress, Midway, Settled, Told
    <3>2. inserted'[a] = watched'[a] /\ failed'[a] /\ ev_flags'[a] = "on"
      BY <2>1, <2>2, <3>1
    <3> QED
      BY <3>2 DEF Told
  <2>4. \A l \in Listeners \ {a}, g \in Flags : Settled(l, g) => Settled(l, g)'
    BY <1>1, <2>1, <2>2 DEF Settled, Told
  <2> QED
    BY <1>1, <2>1, <2>3, <2>4 DEF Progress, Midway, Want, Flags, Listeners
<1>9. CASE EventAddFails(t)
  <2>1. /\ pc[t] = "add" /\ pc'[t] = "listen" /\ events[a] = "on"
        /\ failed' = [failed EXCEPT ![a] = TRUE]
        /\ UNCHANGED <<ev_flags, events, inserted, watched, backlog, at>>
    BY <1>1, <1>9 DEF EventAddFails, ToAdd, Goto
  <2>2. ev_flags[a] = "on" /\ ~inserted[a] /\ ~watched[a]
    BY <1>1, <2>1 DEF Progress, Midway
  <2> QED
    BY <1>1, <2>1, <2>2 DEF Progress, Midway, Settled, Told, Want, Listeners
<1> QED
  BY <1>2, <1>3, <1>4, <1>5, <1>6, <1>7, <1>8, <1>9 DEF Switch

LEMMA SwitchingSpoilsNothing ==
  ASSUME Types, NEW t \in Threads, NEW f \in Flags, Progress(t, f), Switch(t), ~corrupt
  PROVE  ~corrupt'
  BY DEF Switch, TestFlags, EventDel, EventDelFails, EventSet, SetFlags, EventAdd, EventAddFails,
         Listen, libevent, Goto, Progress, Midway, Types

(* The steps that do not touch the event structs *)
LEMMA InStepIsKept ==
  ASSUME Discipline, InStep, Next
  PROVE  InStep'
<1> USE Names DEF InStep
<1> SUFFICES ASSUME ~overlapped'
             PROVE  /\ ~corrupt'
                    /\ Calm' => \E f \in Flags : \A l \in Listeners : Settled(l, f)'
                    /\ \A t \in Threads : Switching(t)' => \E f \in Flags : Progress(t, f)'
  OBVIOUS
<1>0. ~overlapped
  BY DEF Next, MainNext, WorkerNext, Poll, Accept, AcceptNothing, AcceptFails, LockThread,
         UnlockThread, OtherOpens, OtherCloses, ConnNew, Refuse, Abandon, Close, LockConn,
         UnlockConn, Switch, TestFlags, EventDel, EventDelFails, EventSet, SetFlags, EventAdd,
         EventAddFails, Listen
<1>1. ASSUME NEW t \in Threads, Switch(t) PROVE InStep'
  <2>1. Switching(t) /\ Switching(t)'
    BY <1>1, SwitchFrame DEF Discipline
  <2>2. PICK f \in Flags : Progress(t, f)
    BY <1>0, <2>1
  <2>3. Progress(t, f)' /\ ~corrupt'
    BY <1>0, <1>1, <2>2, SwitchProgresses, SwitchingSpoilsNothing DEF Discipline
  <2>4. \A u \in Threads : Switching(u)' => u = t
    BY <1>0, <1>1, <2>1, OnlyOne, SwitchFrame DEF Discipline, Switching
  <2>5. ~Calm'
    BY <2>1 DEF Calm
  <2> QED
    BY <2>3, <2>4, <2>5
<1>2. ASSUME UNCHANGED <<ev_flags, events, inserted, watched, failed, backlog, corrupt, at>>,
             \A t \in Threads : Switching(t)' = Switching(t),
             \A t \in Threads : Switching(t) => pc'[t] = pc[t]
      PROVE  InStep'
  <2>1. ~corrupt'
    BY <1>0, <1>2
  <2>2. Calm' => \E f \in Flags : \A l \in Listeners : Settled(l, f)'
    BY <1>0, <1>2 DEF Calm, Settled, Told
  <2>3. ASSUME NEW t \in Threads, Switching(t)'
        PROVE  \E f \in Flags : Progress(t, f)'
    <3>1. PICK f \in Flags : Progress(t, f)
      BY <1>0, <1>2, <2>3
    <3>2. Progress(t, f)'
      BY <1>2, <2>3, <3>1 DEF Progress, Midway, Settled, Told, Want
    <3> QED
      BY <3>2
  <2> QED
    BY <2>1, <2>2, <2>3
(* From calm to the first test *)
<1>3. ASSUME NEW t \in Threads, Calm,
             pc' = [pc EXCEPT ![t] = "test"], at' = [at EXCEPT ![t] = 1],
             UNCHANGED <<ev_flags, events, inserted, watched, failed, backlog, corrupt>>
      PROVE  InStep'
  <2>1. PICK f \in Flags : \A l \in Listeners : Settled(l, f)
    BY <1>0, <1>3
  <2>2. pc'[t] = "test" /\ at'[t] = 1 /\ 1 \in Listeners
    BY <1>3, NumListenersAssumption DEF Discipline, Types, Listeners
  <2>3. Progress(t, f)'
    BY <1>3, <2>1, <2>2 DEF Progress, Midway, Settled, Told, Listeners
  <2>4. \A u \in Threads : Switching(u)' <=> u = t
    BY <1>3, <2>2 DEF Calm, Switching, Discipline, Types
  <2> QED
    BY <1>0, <1>3, <2>3, <2>4 DEF Calm
(* From the last conn to calm *)
<1>4. ASSUME NEW t \in Threads, pc[t] = "unlock", pc' = [pc EXCEPT ![t] = "idle"],
             UNCHANGED <<ev_flags, events, inserted, watched, failed, backlog, corrupt>>
      PROVE  InStep'
  <2>1. Switching(t)
    BY <1>4 DEF Switching
  <2>2. PICK f \in Flags : Progress(t, f)
    BY <1>0, <2>1
  <2>3. \A l \in Listeners : Settled(l, Want(t))
    BY <1>4, <2>2 DEF Progress, Midway, Listeners, Discipline, Types
  <2>4. \A l \in Listeners : Settled(l, Want(t))'
    BY <1>4, <2>3 DEF Settled, Told, Want
  <2>5. Want(t) \in Flags /\ Want(t)' = Want(t)
    BY DEF Want, Flags
  <2>6. \A u \in Threads : ~Switching(u)'
    BY <1>0, <1>4, <2>1, OnlyOne DEF Switching, Discipline, Types
  <2> QED
    BY <1>0, <1>4, <2>4, <2>5, <2>6
<1>5. CASE Poll \/ OtherOpens \/ OtherCloses \/ (\E l \in Listeners : Takes(l))
  <2>1. UNCHANGED <<ev_flags, events, inserted, watched, failed, backlog, corrupt, at>>
    BY <1>5 DEF Poll, OtherOpens, OtherCloses, Takes, Accept, AcceptNothing, AcceptFails, libevent
  <2>2. \A t \in Threads : Switching(t)' = Switching(t) /\ (Switching(t) => pc'[t] = pc[t])
    BY <1>5 DEF Poll, OtherOpens, OtherCloses, Takes, Accept, AcceptNothing, AcceptFails, Switching, Goto, Discipline,
                Types
  <2> QED
    BY <1>2, <2>1, <2>2
<1>6. CASE LockThread
  <2>1. \A w \in Workers : ~Switching(w)
    BY <1>6 DEF LockThread
  <2>2. Calm
    BY <1>6, <2>1 DEF LockThread, Goto, Calm, Switching, Threads
  <2> QED
    BY <1>3, <1>6, <2>2 DEF LockThread, Goto, libevent
<1>7. CASE UnlockThread
  BY <1>4, <1>7 DEF UnlockThread, Goto, libevent
<1>8. ASSUME NEW w \in Workers, Serves(w) PROVE InStep'
  <2>1. \A t \in Threads : Switching(t)' = Switching(t) /\ (Switching(t) => pc'[t] = pc[t])
    BY <1>8 DEF Serves, ConnNew, Refuse, Abandon, Close, Switching, Goto, Discipline, Types
  <2> QED
    BY <1>2, <1>8, <2>1 DEF Serves, ConnNew, Refuse, Abandon, Close, libevent
<1>9. ASSUME NEW w \in Workers, LockConn(w) PROVE InStep'
  <2>1. \A v \in Workers : ~Switching(v)
    BY <1>9 DEF LockConn, Discipline, LockHeld, Threads
  <2>2. ~Switching(Main)
    BY <1>9 DEF LockConn
  <2>3. Calm
    BY <2>1, <2>2 DEF Calm, Threads
  <2> QED
    BY <1>3, <1>9, <2>3 DEF LockConn, Goto, libevent
<1>10. ASSUME NEW w \in Workers, UnlockConn(w) PROVE InStep'
  BY <1>4, <1>10 DEF UnlockConn, Goto, libevent
<1> QED
  BY <1>1, <1>5, <1>6, <1>7, <1>8, <1>9, <1>10 DEF Next, MainNext, WorkerNext, Serves, Takes

-----------------------------------------------------------------------------
(* Any sequence of connections accepted, refused and closed, with any of   *)
(* the calls to libevent failing, leaves libevent's lists sound, and the   *)
(* listening sockets and their flags in step but for what a failure left   *)
(* undone, as long as accept is not switched by two threads at one time.   *)
THEOREM SwitchingStaysSound == Spec => []SwitchingIsSound
<1>1. Init => Discipline /\ InStep
  <2> SUFFICES ASSUME Init PROVE InStep
    BY InitDiscipline
  <2>1. \A l \in Listeners : Settled(l, "on")
    BY DEF Init, Settled, Told
  <2>2. \A t \in Threads : ~Switching(t)
    BY DEF Init, Switching
  <2> QED
    BY <2>1, <2>2 DEF InStep, Init, Flags
<1>2. Discipline /\ InStep /\ [Next]_vars => (Discipline /\ InStep)'
  <2>1. CASE UNCHANGED vars
    <3>1. UNCHANGED <<ev_flags, events, inserted, watched, failed, corrupt, overlapped, backlog,
                      pc,
                      at, conn_lock>>
      BY <2>1 DEF vars, libevent, locks
    <3>2. Discipline => Discipline'
      BY <3>1 DEF Discipline, Types, LockHeld, OneSwitches, Switching
    <3>3. InStep => InStep'
      BY <3>1 DEF InStep, Calm, Switching, Progress, Midway, Settled, Told, Want
    <3> QED
      BY <3>2, <3>3
  <2> QED
    BY <2>1, DisciplineIsKept, InStepIsKept
<1>3. InStep => SwitchingIsSound
  <2> SUFFICES ASSUME InStep, ~overlapped PROVE NeverCorrupt /\ FlagsAreTrue
    BY DEF SwitchingIsSound
  <2>1. NeverCorrupt
    BY DEF InStep, NeverCorrupt
  <2>2. ASSUME Calm, NEW l \in Listeners
        PROVE  /\ ~failed[l] => (watched[l] <=> ev_flags[l] = "on") /\ backlog[l] = ev_flags[l]
               /\ failed[l] \/ watched[l] => ev_flags[l] = "on"
               /\ backlog[l] = backlog[1]
    <3>1. PICK f \in Flags : \A k \in Listeners : Settled(k, f)
      BY <2>2 DEF InStep
    <3>2. 1 \in Listeners
      BY NumListenersAssumption DEF Listeners
    <3> QED
      BY <3>1, <3>2 DEF Settled, Told
  <2> QED
    BY <2>1, <2>2 DEF FlagsAreTrue, Calm
<1> QED
  BY <1>1, <1>2, <1>3, PTL DEF Spec
=============================================================================
