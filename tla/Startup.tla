------------------------------ MODULE Startup ------------------------------
(***************************************************************************)
(* main of server.cpp up to its event loop, for processes that are started *)
(* with one configuration file on one machine: which sockets a process     *)
(* listens on, with whose privileges, what the path of the UNIX socket     *)
(* leads to and what the pid file says.                                    *)
(*                                                                         *)
(* A step is what main does with one call of its own; system calls fail at *)
(* will.  A process that exits loses its sockets; files stay.              *)
(***************************************************************************)
EXTENDS Naturals, FiniteSets, Sequences

CONSTANTS Processes,
          Addresses,   \* what getaddrinfo returns for the port, in order
          Configs,     \* configuration files
          MaxStarts,   \* bound on starts
          None

ASSUME ProcessesAssumption == None \notin Processes
ASSUME AddressesAssumption == Addresses \in Seq(STRING)

(* username names nobody, root, an ordinary user, or no known user *)
Users == {"", "root", "user", "unknown"}
ConfigType == [unixpath: BOOLEAN, port: BOOLEAN, pidfile: BOOLEAN,
               username: Users]
ASSUME MaxStartsAssumption == MaxStarts \in Nat
ASSUME ConfigsAssumption == Configs \subseteq ConfigType

TcpAddresses == {Addresses[i] : i \in DOMAIN Addresses}

VARIABLES
  conf,       \* the configuration file
  pc,         \* where main is
  next,       \* position in the list that getaddrinfo returned
  root,       \* runs with uid 0
  signals,    \* the signal thread runs
  index,      \* Init_Index has succeeded
  workers,    \* thread_init has returned
  success,    \* server_socket: sockets bound
  tcp,        \* tcp[p]: addresses on which p listens
  unix,       \* p listens on a UNIX socket
  monitor,    \* the HTTP monitor has its port
  path,       \* what the socket path leads to: None, or whose socket
  pidfile,    \* whose pid the pid file holds
  starts

process == <<root, signals, index, workers, success, tcp, unix, monitor>>
vars == <<conf, pc, next, process, path, pidfile, starts>>

Init ==
  /\ conf \in Configs
  /\ pc = [p \in Processes |-> "off"]
  /\ next = [p \in Processes |-> 1]
  /\ root = [p \in Processes |-> FALSE]
  /\ signals = [p \in Processes |-> FALSE]
  /\ index = [p \in Processes |-> FALSE]
  /\ workers = [p \in Processes |-> FALSE]
  /\ success = [p \in Processes |-> 0]
  /\ tcp = [p \in Processes |-> {}]
  /\ unix = [p \in Processes |-> FALSE]
  /\ monitor = None
  /\ path = None
  /\ pidfile = None
  /\ starts = 0

Goto(p, from, to) == pc[p] = from /\ pc' = [pc EXCEPT ![p] = to]

(* exit, return from main, or death: the kernel closes what p has open. *)
Exit(p) ==
  /\ pc' = [pc EXCEPT ![p] = "off"]
  /\ next' = [next EXCEPT ![p] = 1]
  /\ root' = [root EXCEPT ![p] = FALSE]
  /\ signals' = [signals EXCEPT ![p] = FALSE]
  /\ index' = [index EXCEPT ![p] = FALSE]
  /\ workers' = [workers EXCEPT ![p] = FALSE]
  /\ success' = [success EXCEPT ![p] = 0]
  /\ tcp' = [tcp EXCEPT ![p] = {}]
  /\ unix' = [unix EXCEPT ![p] = FALSE]
  /\ monitor' = IF monitor = p THEN None ELSE monitor
  /\ UNCHANGED <<conf, starts>>

-----------------------------------------------------------------------------
(* Somebody starts the program, root or not.  It turns into a daemon       *)
(* (daemonize), whether or not what follows succeeds.                      *)
Start(p) ==
  /\ starts < MaxStarts
  /\ Goto(p, "off", "signals")
  /\ \E r \in BOOLEAN : root' = [root EXCEPT ![p] = r]
  /\ starts' = starts + 1
  /\ UNCHANGED <<conf, next, signals, index, workers, success, tcp, unix,
                 monitor, path, pidfile>>

(* signal_init: the thread that takes all signals *)
SignalInit(p) ==
  /\ Goto(p, "signals", "init")
  /\ signals' = [signals EXCEPT ![p] = TRUE]
  /\ UNCHANGED <<conf, next, root, index, workers, success, tcp, unix,
                 monitor, path, pidfile, starts>>

(* init_server: the configuration is read, the log opened, the index       *)
(* mapped.                                                                 *)
InitServer(p) ==
  \/ /\ Goto(p, "init", "privilege")
     /\ index' = [index EXCEPT ![p] = TRUE]
     /\ UNCHANGED <<conf, next, root, signals, workers, success, tcp, unix,
                    monitor, path, pidfile, starts>>
  \/ pc[p] = "init" /\ Exit(p) /\ UNCHANGED <<path, pidfile>>

(* Mutant: a user that is not known is ignored. *)
DoPrivilegeLax(p) ==
  \/ /\ Goto(p, "privilege", "threads")
     /\ root' = [root EXCEPT ![p] = @ /\ conf.username # "user"]
     /\ UNCHANGED <<conf, next, signals, index, workers, success, tcp, unix,
                    monitor, path, pidfile, starts>>
  \/ pc[p] = "privilege" /\ Exit(p) /\ UNCHANGED <<path, pidfile>>

(* do_privilege: setrlimit or the change of identity may fail. *)
DoPrivilege(p) ==
  \/ /\ Goto(p, "privilege", "threads")
     /\ root[p] => conf.username \in {"root", "user"}
     /\ root' = [root EXCEPT ![p] = @ /\ conf.username = "root"]
     /\ UNCHANGED <<conf, next, signals, index, workers, success, tcp, unix,
                    monitor, path, pidfile, starts>>
  \/ pc[p] = "privilege" /\ Exit(p) /\ UNCHANGED <<path, pidfile>>

(* conn_init and thread_init, which returns when all workers run or exits. *)
ThreadInit(p) ==
  \/ /\ Goto(p, "threads", IF conf.unixpath THEN "unlink" ELSE "port")
     /\ workers' = [workers EXCEPT ![p] = TRUE]
     /\ UNCHANGED <<conf, next, root, signals, index, success, tcp, unix,
                    monitor, path, pidfile, starts>>
  \/ pc[p] = "threads" /\ Exit(p) /\ UNCHANGED <<path, pidfile>>

-----------------------------------------------------------------------------
(* server_socket_unix: an old socket is removed, if that is permitted, *)
Unlink(p) ==
  /\ Goto(p, "unlink", "bind")
  /\ path' \in {None, path}
  /\ UNCHANGED <<conf, next, process, pidfile, starts>>

(* and the new one bound.  If bind succeeds and listen or conn_new      *)
(* fails, the path stays.                                                  *)
BindUnix(p) ==
  \/ /\ path = None
     /\ path' = p
     /\ Goto(p, "bind", "port")
     /\ unix' = [unix EXCEPT ![p] = TRUE]
     /\ UNCHANGED <<conf, next, root, signals, index, workers, success, tcp,
                    monitor, pidfile, starts>>
  \/ pc[p] = "bind" /\ path = None /\ path' = p /\ Exit(p) /\ UNCHANGED pidfile
  \/ pc[p] = "bind" /\ Exit(p) /\ UNCHANGED <<path, pidfile>>

(* main: a port of 0 means no TCP. *)
Port(p) ==
  /\ Goto(p, "port", IF conf.port THEN "socket" ELSE "http")
  /\ UNCHANGED <<conf, next, process, path, pidfile, starts>>

-----------------------------------------------------------------------------
(* server_socket, for each address *)

Used(a) == \E q \in Processes : a \in tcp[q]

SocketStep(p) ==
  /\ pc[p] = "socket"
  /\ next[p] <= Len(Addresses)
  /\ next' = [next EXCEPT ![p] = @ + 1]
  /\ UNCHANGED <<conf, pc, root, signals, index, workers, unix, monitor,
                 path, pidfile, starts>>

(* The socket cannot be had or set up, or the address is in use: the next  *)
(* one is tried.                                                           *)
SkipAddress(p) ==
  /\ SocketStep(p)
  /\ UNCHANGED <<success, tcp>>

ListenTcp(p) ==
  /\ SocketStep(p)
  /\ ~Used(Addresses[next[p]])
  /\ success' = [success EXCEPT ![p] = @ + 1]
  /\ tcp' = [tcp EXCEPT ![p] = @ \cup {Addresses[next[p]]}]

(* Want of descriptors, another failure of bind, failure of listen or of   *)
(* conn_new: server_socket or its caller gives up.                         *)
GiveUp(p) ==
  /\ pc[p] = "socket"
  /\ next[p] <= Len(Addresses)
  /\ Exit(p)
  /\ UNCHANGED <<path, pidfile>>

(* Mutant: the server starts although no address worked. *)
SocketsDoneAnyway(p) ==
  /\ Goto(p, "socket", "http")
  /\ next[p] > Len(Addresses)
  /\ UNCHANGED <<conf, next, process, path, pidfile, starts>>

(* The list is done: main exits when no address worked. *)
SocketsDone(p) ==
  /\ pc[p] = "socket"
  /\ next[p] > Len(Addresses)
  /\ \/ /\ success[p] > 0
        /\ pc' = [pc EXCEPT ![p] = "http"]
        /\ UNCHANGED <<conf, next, process, path, pidfile, starts>>
     \/ /\ success[p] = 0
        /\ Exit(p)
        /\ UNCHANGED <<path, pidfile>>

-----------------------------------------------------------------------------
(* http_handler: main ignores what it returns. *)
HttpHandler(p) ==
  /\ Goto(p, "http", IF conf.pidfile THEN "pid" ELSE "loop")
  /\ monitor' \in IF monitor = None THEN {None, p} ELSE {monitor}
  /\ UNCHANGED <<conf, next, root, signals, index, workers, success, tcp,
                 unix, path, pidfile, starts>>

(* save_pid warns of a running process with that pid, and goes on; the     *)
(* file may not be writable.                                               *)
SavePid(p) ==
  /\ Goto(p, "pid", "loop")
  /\ pidfile' \in {pidfile, p}
  /\ UNCHANGED <<conf, next, process, path, starts>>

(* event_base_loop returns with an error; remove_pidfile *)
LoopEnds(p) ==
  /\ pc[p] = "loop"
  /\ Exit(p)
  /\ pidfile' \in IF conf.pidfile THEN {None, pidfile} ELSE {pidfile}
  /\ UNCHANGED path

(* sig_handler_int: exit, whatever main is doing; or the process dies. *)
Interrupt(p) ==
  /\ signals[p]
  /\ Exit(p)
  /\ UNCHANGED <<path, pidfile>>

-----------------------------------------------------------------------------
MainNext(p) ==
  \/ SignalInit(p) \/ InitServer(p) \/ DoPrivilege(p) \/ ThreadInit(p)
  \/ Unlink(p) \/ BindUnix(p) \/ Port(p)
  \/ SkipAddress(p) \/ ListenTcp(p) \/ GiveUp(p) \/ SocketsDone(p)
  \/ HttpHandler(p) \/ SavePid(p)

Next == \E p \in Processes :
          Start(p) \/ MainNext(p) \/ LoopEnds(p) \/ Interrupt(p)

Spec == Init /\ [][Next]_vars

-----------------------------------------------------------------------------
Serving(p) == pc[p] = "loop"
Listening(p) == unix[p] \/ tcp[p] # {}

TypeOK ==
  /\ conf \in Configs
  /\ pc \in [Processes -> {"off", "signals", "init", "privilege", "threads",
                           "unlink", "bind", "port", "socket", "http", "pid",
                           "loop"}]
  /\ next \in [Processes -> 1 .. Len(Addresses) + 1]
  /\ \A f \in {root, signals, index, workers, unix} : f \in [Processes -> BOOLEAN]
  /\ success \in [Processes -> 0 .. Len(Addresses)]
  /\ tcp \in [Processes -> SUBSET TcpAddresses]
  /\ {monitor, path, pidfile} \subseteq Processes \cup {None}
  /\ starts \in 0 .. MaxStarts

(* Whoever can connect finds a server that has given up root, unless it    *)
(* was told to be root, with its index in place and its workers running:   *)
(* connections that the kernel takes before the event loop begins are      *)
(* served once it does.                                                    *)
ListenersAreReady ==
  \A p \in Processes : Listening(p) =>
    /\ root[p] => conf.username = "root"
    /\ index[p] /\ workers[p]

(* A second start with the same configuration does not put its pid into    *)
(* the file while a server has all the addresses of the port: main opens   *)
(* the sockets first and exits when none works.                            *)
PidFileKept ==
  [][(conf.port /\ pidfile' # pidfile /\ pidfile' # None) =>
       \A p \in Processes :
         (p # pidfile' /\ Serving(p)) => tcp[p] # TcpAddresses]_vars

=============================================================================
