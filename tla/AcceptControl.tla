--------------------------- MODULE AcceptControl ---------------------------
(***************************************************************************)
(* Switching accept off and on.  The main thread switches it off when      *)
(* accept fails for want of descriptors (server.cpp, conn_listening); a    *)
(* worker switches it on whenever it has closed a connection (conn.cpp,    *)
(* conn_close).  Both run do_accept_new_conns of network.cpp over the      *)
(* listening conns, each under a mutex named conn_lock, but not the same   *)
(* one: conn.cpp has a static one of its own.                              *)
(*                                                                         *)
(* So both may switch at one time, which the history variable overlapped   *)
(* remembers: what the two then do to an event struct at one time is not   *)
(* defined, and no property is stated for what follows.                    *)
(*                                                                         *)
(* event_del and event_add may fail, and do_accept_new_conns ignores that  *)
(* update_event then returns false; the history variable failed tells of   *)
(* which sockets this was so the last time there was something to do.      *)
(*                                                                         *)
(* An event struct holds its flags and whether it is inserted in libevent; *)
(* libevent polls for watched events and then runs the active ones.  Only  *)
(* the numbers of descriptors count.                                       *)
(***************************************************************************)
EXTENDS Naturals, FiniteSets

CONSTANTS Workers,
          NumListeners,  \* listening conns: one per address
          MaxFds,        \* descriptors for connections
          None

ASSUME NumListenersAssumption == NumListeners \in Nat \ {0}
ASSUME MaxFdsAssumption == MaxFds \in Nat \ {0}

Main == "main"
ASSUME MainAssumption == Main \notin Workers /\ None \notin Workers \cup {Main}

Threads == Workers \cup {Main}
Listeners == 1 .. NumListeners     \* in the order of the list listen_conn
Flags == {"on", "off"}             \* EV_READ | EV_PERSIST, or 0

VARIABLES
  ev_flags,   \* conn.ev_flags
  events,     \* the flags in the event struct
  inserted,   \* the event struct is in libevent's lists
  watched,    \* libevent polls the socket
  active,     \* events found ready and not yet run
  backlog,    \* "on": g_settings.backlog, "off": 0
  corrupt,    \* history: a struct was set anew while in libevent's lists
  failed,     \* history: the last change of the event was not made in full
  overlapped, \* history: accept was switched off and on at one time
  queued,     \* sockets accepted that no worker has taken yet
  conns,      \* connections open
  leaked,     \* connections given up but never closed
  others,     \* descriptors used for something else
  pc, at,     \* per thread: place, current listening conn
  thread_lock, conn_lock   \* holders of the mutexes of thread.cpp, conn.cpp

libevent == <<ev_flags, events, inserted, watched, active, corrupt, failed>>
fds == <<queued, conns, leaked, others>>
locks == <<thread_lock, conn_lock>>
vars == <<libevent, overlapped, backlog, fds, pc, at, locks>>

Switching(t) == pc[t] \in {"test", "del", "set", "flags", "add", "listen",
                           "unlock"}
Want(t) == IF t = Main THEN "off" ELSE "on"

Free == MaxFds - queued - conns - leaked - others

Init ==
  /\ ev_flags = [l \in Listeners |-> "on"]
  /\ events = [l \in Listeners |-> "on"]
  /\ inserted = [l \in Listeners |-> TRUE]
  /\ watched = [l \in Listeners |-> TRUE]
  /\ active = {}
  /\ backlog = [l \in Listeners |-> "on"]
  /\ failed = [l \in Listeners |-> FALSE]
  /\ corrupt = FALSE /\ overlapped = FALSE
  /\ queued = 0 /\ conns = 0 /\ leaked = 0 /\ others = 0
  /\ pc = [t \in Threads |-> "idle"]
  /\ at = [t \in Threads |-> 1]
  /\ thread_lock = None /\ conn_lock = None

Goto(t, from, to) == pc[t] = from /\ pc' = [pc EXCEPT ![t] = to]

-----------------------------------------------------------------------------
(* The main thread's event loop *)

(* epoll_wait returns the listening sockets on which a client waits. *)
Poll ==
  /\ pc[Main] = "idle"
  /\ active = {}
  /\ \E ready \in SUBSET {l \in Listeners : watched[l]} \ {{}} : active' = ready
  /\ UNCHANGED <<overlapped, ev_flags, events, inserted, watched, corrupt, failed, backlog,
                 fds, pc, at, locks>>

(* drive_machine, conn_listening: a new connection for a worker, *)
Accept(l) ==
  /\ pc[Main] = "idle"
  /\ l \in active
  /\ Free > 0
  /\ active' = active \ {l}
  /\ queued' = queued + 1
  /\ UNCHANGED <<overlapped, ev_flags, events, inserted, watched, corrupt, failed, backlog,
                 conns, leaked, others, pc, at, locks>>

(* no client any more (or an error other than EMFILE, or a socket closed   *)
(* at once because fcntl failed), *)
AcceptNothing(l) ==
  /\ pc[Main] = "idle"
  /\ l \in active
  /\ active' = active \ {l}
  /\ UNCHANGED <<overlapped, ev_flags, events, inserted, watched, corrupt, failed, backlog,
                 fds, pc, at, locks>>

(* or EMFILE. *)
AcceptFails(l) ==
  /\ Goto(Main, "idle", "lock")
  /\ l \in active
  /\ Free = 0
  /\ active' = active \ {l}
  /\ UNCHANGED <<overlapped, ev_flags, events, inserted, watched, corrupt, failed, backlog,
                 fds, at, locks>>

(* accept_new_conns *)
LockThread ==
  /\ Goto(Main, "lock", "test")
  /\ thread_lock = None
  /\ overlapped' = (overlapped \/ \E w \in Workers : Switching(w))
  /\ thread_lock' = Main
  /\ at' = [at EXCEPT ![Main] = 1]
  /\ UNCHANGED <<libevent, backlog, fds, conn_lock>>

UnlockThread ==
  /\ Goto(Main, "unlock", "idle")
  /\ thread_lock' = None
  /\ UNCHANGED <<overlapped, libevent, backlog, fds, at, conn_lock>>

-----------------------------------------------------------------------------
(* A worker *)

(* thread_libevent_process: conn_new makes a conn of an accepted socket, *)
ConnNew(w) ==
  /\ pc[w] = "idle"
  /\ queued > 0
  /\ queued' = queued - 1 /\ conns' = conns + 1
  /\ UNCHANGED <<overlapped, libevent, backlog, leaked, others, pc, at, locks>>

(* or fails: the socket is closed, and accept is not switched on. *)
Refuse(w) ==
  /\ pc[w] = "idle"
  /\ queued > 0
  /\ queued' = queued - 1
  /\ UNCHANGED <<overlapped, libevent, backlog, conns, leaked, others, pc, at, locks>>

(* drive_machine, conn_new_cmd: a connection whose event could not be set  *)
(* again waits in conn_closing for an event that never comes. *)
Abandon(w) ==
  /\ pc[w] = "idle"
  /\ conns > 0
  /\ conns' = conns - 1 /\ leaked' = leaked + 1
  /\ UNCHANGED <<overlapped, libevent, backlog, queued, others, pc, at, locks>>

(* conn_close *)
Close(w) ==
  /\ Goto(w, "idle", "lock")
  /\ conns > 0
  /\ conns' = conns - 1
  /\ UNCHANGED <<overlapped, libevent, backlog, queued, leaked, others, at, locks>>

(* Mutant: the mutex is not taken. *)
LockConnNot(w) ==
  /\ Goto(w, "lock", "test")
  /\ at' = [at EXCEPT ![w] = 1]
  /\ UNCHANGED <<overlapped, libevent, backlog, fds, locks>>

LockConn(w) ==
  /\ Goto(w, "lock", "test")
  /\ conn_lock = None
  /\ overlapped' = (overlapped \/ Switching(Main))
  /\ conn_lock' = w
  /\ at' = [at EXCEPT ![w] = 1]
  /\ UNCHANGED <<libevent, backlog, fds, thread_lock>>

UnlockConn(w) ==
  /\ Goto(w, "unlock", "idle")
  /\ conn_lock' = None
  /\ UNCHANGED <<overlapped, libevent, backlog, fds, at, thread_lock>>

-----------------------------------------------------------------------------
(* do_accept_new_conns: for each listening conn update_event and listen *)

(* update_event compares with the flags the conn had last, *)
TestFlags(t) ==
  /\ pc[t] = "test"
  /\ pc' = [pc EXCEPT ![t] = IF ev_flags[at[t]] = Want(t) THEN "listen"
                                                          ELSE "del"]
  /\ UNCHANGED <<overlapped, libevent, backlog, fds, at, locks>>

(* takes the event out of libevent *)
EventDel(t) ==
  /\ Goto(t, "del", "set")
  /\ inserted' = [inserted EXCEPT ![at[t]] = FALSE]
  /\ watched' = [watched EXCEPT ![at[t]] = @ /\ ~inserted[at[t]]]
  /\ active' = active \ {at[t]}
  /\ UNCHANGED <<overlapped, ev_flags, events, corrupt, failed, backlog, fds, at, locks>>

(* (or fails, which an event not in its lists cannot: it may be out of     *)
(* the lists all the same, and update_event returns), *)
EventDelFails(t) ==
  /\ Goto(t, "del", "listen")
  /\ inserted[at[t]]
  /\ failed' = [failed EXCEPT ![at[t]] = TRUE]
  /\ \/ /\ inserted' = [inserted EXCEPT ![at[t]] = FALSE]
        /\ watched' = [watched EXCEPT ![at[t]] = FALSE]
        /\ active' = active \ {at[t]}
     \/ UNCHANGED <<inserted, watched, active>>
  /\ UNCHANGED <<overlapped, ev_flags, events, corrupt, backlog, fds, at, locks>>

(* sets it anew, *)
EventSet(t) ==
  /\ Goto(t, "set", "flags")
  /\ events' = [events EXCEPT ![at[t]] = Want(t)]
  /\ corrupt' = (corrupt \/ inserted[at[t]])
  /\ inserted' = [inserted EXCEPT ![at[t]] = FALSE]
  /\ UNCHANGED <<overlapped, ev_flags, watched, active, failed, backlog, fds, at, locks>>

SetFlags(t) ==
  /\ Goto(t, "flags", "add")
  /\ ev_flags' = [ev_flags EXCEPT ![at[t]] = Want(t)]
  /\ UNCHANGED <<overlapped, events, inserted, watched, active, corrupt, failed, backlog,
                 fds, at, locks>>

(* Mutant: the event is not added again. *)
EventAddForgotten(t) ==
  /\ Goto(t, "add", "listen")
  /\ failed' = [failed EXCEPT ![at[t]] = FALSE]
  /\ UNCHANGED <<overlapped, ev_flags, events, inserted, watched, active, corrupt, backlog,
                 fds, at, locks>>

(* What event_add has to do: nothing for flags 0 or an event already in. *)
ToAdd(l) == events[l] = "on" /\ ~inserted[l]

(* and adds it, *)
EventAdd(t) ==
  /\ Goto(t, "add", "listen")
  /\ failed' = [failed EXCEPT ![at[t]] = FALSE]
  /\ IF ToAdd(at[t])
       THEN /\ inserted' = [inserted EXCEPT ![at[t]] = TRUE]
            /\ watched' = [watched EXCEPT ![at[t]] = TRUE]
       ELSE UNCHANGED <<inserted, watched>>
  /\ UNCHANGED <<overlapped, ev_flags, events, active, corrupt, backlog, fds, at, locks>>

(* or does not: its ev_flags stay "on". *)
EventAddFails(t) ==
  /\ Goto(t, "add", "listen")
  /\ ToAdd(at[t])
  /\ failed' = [failed EXCEPT ![at[t]] = TRUE]
  /\ UNCHANGED <<overlapped, ev_flags, events, inserted, watched, active, corrupt, backlog,
                 fds, at, locks>>

(* listen on a socket that listens already does not fail. *)
Listen(t) ==
  /\ pc[t] = "listen"
  /\ backlog' = [backlog EXCEPT ![at[t]] = Want(t)]
  /\ IF at[t] < NumListeners
       THEN /\ at' = [at EXCEPT ![t] = @ + 1]
            /\ pc' = [pc EXCEPT ![t] = "test"]
       ELSE /\ pc' = [pc EXCEPT ![t] = "unlock"]
            /\ UNCHANGED at
  /\ UNCHANGED <<overlapped, libevent, fds, locks>>

Switch(t) ==
  \/ TestFlags(t) \/ EventDel(t) \/ EventDelFails(t) \/ EventSet(t)
  \/ SetFlags(t) \/ EventAdd(t) \/ EventAddFails(t) \/ Listen(t)

-----------------------------------------------------------------------------
(* Descriptors come and go elsewhere: HTTP clients, files *)
OtherOpens ==
  /\ Free > 0
  /\ others' = others + 1
  /\ UNCHANGED <<overlapped, libevent, backlog, queued, conns, leaked, pc, at, locks>>

OtherCloses ==
  /\ others > 0
  /\ others' = others - 1
  /\ UNCHANGED <<overlapped, libevent, backlog, queued, conns, leaked, pc, at, locks>>

-----------------------------------------------------------------------------
MainNext ==
  \/ Poll
  \/ \E l \in Listeners : Accept(l) \/ AcceptNothing(l) \/ AcceptFails(l)
  \/ LockThread \/ UnlockThread \/ Switch(Main)

WorkerNext(w) ==
  \/ ConnNew(w) \/ Refuse(w) \/ Abandon(w) \/ Close(w)
  \/ LockConn(w) \/ UnlockConn(w) \/ Switch(w)

Next ==
  \/ MainNext
  \/ \E w \in Workers : WorkerNext(w)
  \/ OtherOpens \/ OtherCloses

Spec == Init /\ [][Next]_vars

(* Threads run.  Connections end sooner or later, whatever the client      *)
(* does: a worker closes them when it reads the end of the stream, or has  *)
(* abandoned them.                                                         *)
LiveSpec ==
  /\ Spec
  /\ WF_vars(MainNext)
  /\ \A w \in Workers : WF_vars(WorkerNext(w)) /\ SF_vars(LockConn(w))

-----------------------------------------------------------------------------
TypeOK ==
  /\ ev_flags \in [Listeners -> Flags]
  /\ events \in [Listeners -> Flags]
  /\ inserted \in [Listeners -> BOOLEAN]
  /\ watched \in [Listeners -> BOOLEAN]
  /\ active \subseteq Listeners
  /\ backlog \in [Listeners -> Flags]
  /\ corrupt \in BOOLEAN /\ overlapped \in BOOLEAN
  /\ failed \in [Listeners -> BOOLEAN]
  /\ {queued, conns, leaked, others} \subseteq 0 .. MaxFds
  /\ pc \in [Threads -> {"idle", "lock", "test", "del", "set", "flags", "add",
                         "listen", "unlock"}]
  /\ at \in [Threads -> Listeners]
  /\ thread_lock \in {None, Main}
  /\ conn_lock \in Workers \cup {None}

(* An event struct is not set anew while libevent has it in its lists.     *)
NeverCorrupt == ~corrupt

(* When no thread is switching, then for every socket with which libevent  *)
(* did what it was asked to, ev_flags tell whether it is watched (if they  *)
(* did not, update_event would skip the change that is due and the socket  *)
(* would stay as it is for good) and agree with its backlog.  A failure    *)
(* always leaves ev_flags "on", no socket is watched whose flags say       *)
(* otherwise, and the backlogs of all agree.                               *)
FlagsAreTrue ==
  (\A t \in Threads : ~Switching(t)) =>
    \A l \in Listeners :
      /\ ~failed[l] => /\ watched[l] <=> ev_flags[l] = "on"
                       /\ backlog[l] = ev_flags[l]
      /\ failed[l] \/ watched[l] => ev_flags[l] = "on"
      /\ backlog[l] = backlog[1]

(* As long as accept has not been switched by two threads at one time, any *)
(* sequence of connections accepted, refused and closed, with any calls to *)
(* libevent failing, leaves libevent's lists sound and the listening       *)
(* sockets and their flags in step.                                        *)
SwitchingIsSound == ~overlapped => NeverCorrupt /\ FlagsAreTrue

(* With accept switched off, the server listens again if a connection is   *)
(* open or being closed, unless two threads switch accept at one time,     *)
(* libevent has failed for every listening socket, or the last of the      *)
(* connections was abandoned and not closed.  (Without such a connection   *)
(* nobody switches accept on again: a refused one does not.)               *)
AcceptingResumes ==
  ( /\ pc[Main] = "idle"
    /\ \A l \in Listeners : ~watched[l]
    /\ conns > 0 \/ \E w \in Workers : pc[w] = "lock" )
  ~> ( \/ \E l \in Listeners : watched[l]
       \/ overlapped
       \/ \A l \in Listeners : failed[l]
       \/ leaked > 0 /\ conns = 0 /\ \A w \in Workers : pc[w] = "idle" )
=============================================================================
