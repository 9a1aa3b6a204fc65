------------------------------ MODULE Dispatch ------------------------------
(***************************************************************************)
(* How a connection reaches a worker thread and what becomes of it:        *)
(* start-up of the workers (server/thread.cpp: thread_init,                *)
(* worker_libevent), the main thread's accept and dispatch_conn_new, the   *)
(* worker's thread_libevent_process, and the connection objects with their *)
(* free list (server/conn.cpp: conn_new, conn_close).                      *)
(*                                                                         *)
(* A queue is a sequence of sockets here; ConnQueue shows that the linked  *)
(* lists of the code are such sequences.  What a worker does for a         *)
(* connection between conn_new and conn_close is not in this module, nor   *)
(* is what conn_close does to the listening sockets.                       *)
(*                                                                         *)
(* The kernel may give the number of a closed socket to the next accept.   *)
(***************************************************************************)
EXTENDS Integers, FiniteSets, Sequences

CONSTANTS NumThreads,   \* g_settings.num_threads
          Fds,          \* descriptors of client sockets (RLIMIT_NOFILE)
          Conns,        \* addresses calloc can return for a conn
          PipeCap,      \* bytes a notify pipe holds
          FreeTotal,    \* initial value of freetotal
          None

Workers == 0 .. NumThreads - 1

ASSUME NumThreadsAssumption == NumThreads \in Nat \ {0}
ASSUME PipeCapAssumption == PipeCap \in Nat \ {0}
ASSUME FreeTotalAssumption == FreeTotal \in Nat \ {0}
ASSUME NoneAssumption == None \notin Fds /\ None \notin Conns

VARIABLES
  mpc,          \* where the main thread is
  started,      \* workers created so far
  init_count,   \* workers that have registered
  last_thread,
  msfd,         \* the socket the main thread holds
  queue,        \* queue[w]: new_conn_queue of worker w
  bytes,        \* bytes[w]: unread bytes in the notify pipe of w
  wpc,          \* wpc[w]: where worker w is
  wsfd,         \* wsfd[w]: item->sfd in thread_libevent_process
  wconn,        \* wconn[w]: the conn that conn_new or conn_close works on
  open,         \* client sockets that are open
  conns,        \* conn objects that are allocated
  csfd,         \* csfd[c]: c->sfd
  cthread,      \* cthread[c]: the worker whose event base has c's event
  events,       \* conns whose event is registered
  freeconns,    \* the free list of conn objects, a stack
  freetotal

startup == <<started, init_count>>
handoff == <<last_thread, queue, bytes>>
pool    == <<conns, csfd, cthread, events, freeconns, freetotal>>
vars == <<mpc, startup, msfd, handoff, wpc, wsfd, wconn, open, pool>>

Init ==
  /\ mpc = "create" /\ started = 0 /\ init_count = 0
  /\ last_thread = -1 /\ msfd = None
  /\ queue = [w \in Workers |-> << >>]
  /\ bytes = [w \in Workers |-> 0]
  /\ wpc = [w \in Workers |-> "unborn"]
  /\ wsfd = [w \in Workers |-> None]
  /\ wconn = [w \in Workers |-> None]
  /\ open = {} /\ conns = {}
  /\ csfd = [c \in Conns |-> None]
  /\ cthread = [c \in Conns |-> None]
  /\ events = {}
  /\ freeconns = << >> /\ freetotal = FreeTotal

MainGoes(from, to) == mpc = from /\ mpc' = to
Goes(w, from, to)  == wpc[w] = from /\ wpc' = [wpc EXCEPT ![w] = to]

-----------------------------------------------------------------------------
(* Start-up *)

CreateWorker(w) ==
  /\ w = started
  /\ MainGoes("create", IF started + 1 = NumThreads THEN "barrier" ELSE "create")
  /\ Goes(w, "unborn", "register")
  /\ started' = started + 1
  /\ UNCHANGED <<init_count, msfd, handoff, wsfd, wconn, open, pool>>

(* Mutant: no signal. *)
RegisterSilently(w) ==
  /\ Goes(w, "register", "loop")
  /\ init_count' = init_count + 1
  /\ UNCHANGED <<mpc, started, msfd, handoff, wsfd, wconn, open, pool>>

(* register_thread_initialized: the signal wakes the main thread if it waits. *)
Register(w) ==
  /\ Goes(w, "register", "loop")
  /\ init_count' = init_count + 1
  /\ mpc' = IF mpc = "waiting" THEN "barrier" ELSE mpc
  /\ UNCHANGED <<started, msfd, handoff, wsfd, wconn, open, pool>>

(* wait_for_thread_registration, with init_lock held *)
Barrier ==
  /\ MainGoes("barrier", IF init_count < NumThreads THEN "waiting" ELSE "listen")
  /\ UNCHANGED <<startup, msfd, handoff, wpc, wsfd, wconn, open, pool>>

-----------------------------------------------------------------------------
(* The main thread: drive_machine on a listening socket *)

Accept(s) ==
  /\ MainGoes("listen", "accepted")
  /\ s \notin open
  /\ open' = open \cup {s}
  /\ msfd' = s
  /\ UNCHANGED <<startup, handoff, wpc, wsfd, wconn, pool>>

(* O_NONBLOCK cannot be set: close, and accept again. *)
FcntlFails ==
  /\ MainGoes("accepted", "listen")
  /\ open' = open \ {msfd}
  /\ msfd' = None
  /\ UNCHANGED <<startup, handoff, wpc, wsfd, wconn, pool>>

(* Mutant: the thread index does not wrap around. *)
DispatchConnNewNoWrap ==
  /\ MainGoes("accepted", "notify")
  /\ last_thread' = last_thread + 1
  /\ queue' = [queue EXCEPT ![last_thread'] = Append(@, msfd)]
  /\ msfd' = None
  /\ UNCHANGED <<startup, bytes, wpc, wsfd, wconn, open, pool>>

(* dispatch_conn_new up to and including cq_push *)
DispatchConnNew ==
  /\ MainGoes("accepted", "notify")
  /\ last_thread' = (last_thread + 1) % NumThreads
  /\ queue' = [queue EXCEPT ![last_thread'] = Append(@, msfd)]
  /\ msfd' = None
  /\ UNCHANGED <<startup, bytes, wpc, wsfd, wconn, open, pool>>

(* Mutant: the pipe is non-blocking and a failed write is ignored. *)
WriteNotifyDropped ==
  /\ MainGoes("notify", "listen")
  /\ bytes' = IF bytes[last_thread] < PipeCap
                THEN [bytes EXCEPT ![last_thread] = @ + 1] ELSE bytes
  /\ UNCHANGED <<startup, msfd, last_thread, queue, wpc, wsfd, wconn, open, pool>>

(* The pipe is blocking: the main thread waits while it is full. *)
WriteNotify ==
  /\ MainGoes("notify", "listen")
  /\ bytes[last_thread] < PipeCap
  /\ bytes' = [bytes EXCEPT ![last_thread] = @ + 1]
  /\ UNCHANGED <<startup, msfd, last_thread, queue, wpc, wsfd, wconn, open, pool>>

-----------------------------------------------------------------------------
(* A worker: thread_libevent_process *)

ReadNotify(w) ==
  /\ Goes(w, "loop", "pop")
  /\ bytes[w] > 0
  /\ bytes' = [bytes EXCEPT ![w] = @ - 1]
  /\ UNCHANGED <<mpc, startup, msfd, last_thread, queue, wsfd, wconn, open, pool>>

(* cq_pop; with a byte but no item there is nothing to do. *)
PopItem(w) ==
  /\ IF queue[w] = << >>
     THEN Goes(w, "pop", "loop") /\ UNCHANGED <<wsfd, queue>>
     ELSE /\ Goes(w, "pop", "new")
          /\ wsfd' = [wsfd EXCEPT ![w] = Head(queue[w])]
          /\ queue' = [queue EXCEPT ![w] = Tail(@)]
  /\ UNCHANGED <<mpc, startup, msfd, last_thread, bytes, wconn, open, pool>>

(* conn_new: a conn from the free list, or else from calloc. *)
ConnFromFreelist(w) ==
  /\ Goes(w, "new", "event")
  /\ freeconns # << >>
  /\ LET c == freeconns[Len(freeconns)]
     IN /\ wconn' = [wconn EXCEPT ![w] = c]
        /\ csfd' = [csfd EXCEPT ![c] = wsfd[w]]
  /\ freeconns' = SubSeq(freeconns, 1, Len(freeconns) - 1)
  /\ UNCHANGED <<mpc, startup, msfd, handoff, wsfd, open,
                 conns, cthread, events, freetotal>>

ConnFromCalloc(w, c) ==
  /\ Goes(w, "new", "event")
  /\ freeconns = << >>
  /\ c \notin conns
  /\ conns' = conns \cup {c}
  /\ csfd' = [csfd EXCEPT ![c] = wsfd[w]]
  /\ wconn' = [wconn EXCEPT ![w] = c]
  /\ UNCHANGED <<mpc, startup, msfd, handoff, wsfd, open,
                 cthread, events, freeconns, freetotal>>

ConnAllocFails(w) ==
  /\ Goes(w, "new", "refuse")
  /\ freeconns = << >>
  /\ UNCHANGED <<mpc, startup, msfd, handoff, wsfd, wconn, open, pool>>

(* event_add; then c->thread = me and the item is freed. *)
EventAdd(w) ==
  /\ Goes(w, "event", "loop")
  /\ events' = events \cup {wconn[w]}
  /\ cthread' = [cthread EXCEPT ![wconn[w]] = w]
  /\ wconn' = [wconn EXCEPT ![w] = None]
  /\ wsfd' = [wsfd EXCEPT ![w] = None]
  /\ UNCHANGED <<mpc, startup, msfd, handoff, open,
                 conns, csfd, freeconns, freetotal>>

(* conn_add_to_freelist, or conn_free when the array is full and cannot be *)
(* enlarged.                                                               *)
AddToFreelist(c) ==
  \/ /\ freetotal' = IF Len(freeconns) < freetotal THEN freetotal
                                                   ELSE 2 * freetotal
     /\ freeconns' = Append(freeconns, c)
     /\ UNCHANGED conns
  \/ /\ Len(freeconns) = freetotal
     /\ conns' = conns \ {c}
     /\ UNCHANGED <<freeconns, freetotal>>

(* Mutant: the conn is dropped. *)
EventAddFailsDrops(w) ==
  /\ Goes(w, "event", "refuse")
  /\ wconn' = [wconn EXCEPT ![w] = None]
  /\ UNCHANGED <<mpc, startup, msfd, handoff, wsfd, open, pool>>

EventAddFails(w) ==
  /\ Goes(w, "event", "refuse")
  /\ AddToFreelist(wconn[w])
  /\ wconn' = [wconn EXCEPT ![w] = None]
  /\ UNCHANGED <<mpc, startup, msfd, handoff, wsfd, open, csfd, cthread, events>>

(* Mutant: the socket is not closed. *)
RefuseKeepsOpen(w) ==
  /\ Goes(w, "refuse", "loop")
  /\ wsfd' = [wsfd EXCEPT ![w] = None]
  /\ UNCHANGED <<mpc, startup, msfd, handoff, wconn, open, pool>>

(* conn_new returned NULL: close(item->sfd). *)
Refuse(w) ==
  /\ Goes(w, "refuse", "loop")
  /\ open' = open \ {wsfd[w]}
  /\ wsfd' = [wsfd EXCEPT ![w] = None]
  /\ UNCHANGED <<mpc, startup, msfd, handoff, wconn, pool>>

-----------------------------------------------------------------------------
(* conn_close, from an event of the worker's own loop *)

CloseEvent(w, c) ==
  /\ Goes(w, "loop", "close")
  /\ c \in events /\ cthread[c] = w
  /\ events' = events \ {c}
  /\ wconn' = [wconn EXCEPT ![w] = c]
  /\ UNCHANGED <<mpc, startup, msfd, handoff, wsfd, open,
                 conns, csfd, cthread, freeconns, freetotal>>

CloseSocket(w) ==
  /\ Goes(w, "close", "release")
  /\ open' = open \ {csfd[wconn[w]]}
  /\ UNCHANGED <<mpc, startup, msfd, handoff, wsfd, wconn, pool>>

(* A conn whose read buffer has grown beyond READ_BUFFER_HIGHWAT is freed. *)
ReleaseConn(w) ==
  /\ Goes(w, "release", "loop")
  /\ \/ AddToFreelist(wconn[w])
     \/ conns' = conns \ {wconn[w]} /\ UNCHANGED <<freeconns, freetotal>>
  /\ wconn' = [wconn EXCEPT ![w] = None]
  /\ UNCHANGED <<mpc, startup, msfd, handoff, wsfd, open, csfd, cthread, events>>

(* The steps of a thread that is in the middle of something. *)
MainStep == Barrier \/ FcntlFails \/ DispatchConnNew \/ WriteNotify
              \/ \E w \in Workers : CreateWorker(w)

WorkerStep(w) ==
  \/ Register(w) \/ ReadNotify(w) \/ PopItem(w)
  \/ ConnFromFreelist(w) \/ (\E c \in Conns : ConnFromCalloc(w, c))
  \/ ConnAllocFails(w) \/ EventAdd(w) \/ EventAddFails(w) \/ Refuse(w)
  \/ CloseSocket(w) \/ ReleaseConn(w)

Next ==
  \/ MainStep \/ \E s \in Fds : Accept(s)
  \/ \E w \in Workers : WorkerStep(w) \/ \E c \in Conns : CloseEvent(w, c)

(* The threads run; a worker's event loop serves its pipe although its     *)
(* other events (CloseEvent) never cease, since libevent dispatches every  *)
(* event that is ready before it polls again.  Clients and the outcome of  *)
(* system calls owe nothing.                                               *)
Fairness ==
  /\ WF_vars(MainStep)
  /\ \A w \in Workers : WF_vars(WorkerStep(w)) /\ SF_vars(ReadNotify(w))

Spec == Init /\ [][Next]_vars
FairSpec == Spec /\ Fairness

-----------------------------------------------------------------------------
(* Properties *)

MainPCs   == {"create", "barrier", "waiting", "listen", "accepted", "notify"}
WorkerPCs == {"unborn", "register", "loop", "pop", "new", "event", "refuse",
              "close", "release"}

(* The values the variables range over. *)
TypeOK ==
  /\ mpc \in MainPCs
  /\ started \in 0 .. NumThreads /\ init_count \in 0 .. NumThreads
  /\ last_thread \in {-1} \cup Workers
  /\ msfd \in Fds \cup {None}
  /\ queue \in [Workers -> Seq(Fds)]
  /\ bytes \in [Workers -> 0 .. PipeCap]
  /\ wpc \in [Workers -> WorkerPCs]
  /\ wsfd \in [Workers -> Fds \cup {None}]
  /\ wconn \in [Workers -> Conns \cup {None}]
  /\ open \subseteq Fds /\ conns \subseteq Conns
  /\ csfd \in [Conns -> Fds \cup {None}]
  /\ cthread \in [Conns -> Workers \cup {None}]
  /\ events \subseteq Conns
  /\ freeconns \in Seq(Conns) /\ freetotal \in Nat \ {0}

(* A connection that is queued has a wake-up on its way, and only such a   *)
(* one: no socket is left in a queue whose pipe is silent, and no worker   *)
(* is woken for nothing.                                                   *)
WakeupPerItem ==
  \A w \in Workers :
    Len(queue[w]) = bytes[w] + (IF wpc[w] = "pop" THEN 1 ELSE 0)
                      + (IF mpc = "notify" /\ last_thread = w THEN 1 ELSE 0)

(* Who has to close socket s: the main thread that accepted it, a place in *)
(* a queue, a worker that took it from its queue, a connection being       *)
(* served, or a worker inside conn_close.                                  *)
HoldersOfSocket(s) ==
  ({<<"main", msfd>>} \cap {<<"main", s>>})
    \cup (UNION {{"queue"} \X {w} \X {k \in 1 .. Len(queue[w]) : queue[w][k] = s} :
                   w \in Workers})
    \cup {h \in {"hand"} \X Workers : wsfd[h[2]] = s}
    \cup {h \in {"served"} \X events : csfd[h[2]] = s}
    \cup {h \in {"closing"} \X Workers :
            wpc[h[2]] = "close" /\ csfd[wconn[h[2]]] = s}

(* Every open client socket has exactly one holder and a closed one has    *)
(* none: no descriptor leaks on any path, none is closed twice, and no two *)
(* connections are served on one descriptor even when the kernel hands the *)
(* number out again while conn_close is still under way.                   *)
SocketsAccounted ==
  \A s \in Fds : Cardinality(HoldersOfSocket(s)) = IF s \in open THEN 1 ELSE 0

(* Where conn object c is: at a place of the free list, registered with an *)
(* event base, or in the hands of a worker.                                *)
HoldersOfConn(c) ==
  {h \in {"free"} \X (1 .. Len(freeconns)) : freeconns[h[2]] = c}
    \cup {<<"event", e>> : e \in events \cap {c}}
    \cup {h \in {"hand"} \X Workers : wconn[h[2]] = c}

(* Every allocated conn object is in exactly one place and a freed one is  *)
(* in none: conn_new and conn_close, run by all workers over one free      *)
(* list, neither leak nor share an object.                                 *)
ConnsAccounted ==
  \A c \in Conns : Cardinality(HoldersOfConn(c)) = IF c \in conns THEN 1 ELSE 0

(* thread_init returns: the main thread does not miss the last signal. *)
MainStarts == <>(mpc = "listen")

(* A socket the main thread has taken on reaches its end in a worker: it   *)
(* is served, or it is closed.                                             *)
ServedOrRefused ==
  \A s \in Fds : s \in open ~> (s \notin open \/ \E c \in events : csfd[c] = s)
=============================================================================
