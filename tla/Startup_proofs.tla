--------------------------- MODULE Startup_proofs ---------------------------
(***************************************************************************)
(* Proofs about Startup for any processes, addresses and configurations.   *)
(*                                                                         *)
(* ListenersAreReady follows from what main has done at each place, and    *)
(* from that a process that listens has come to the sockets (Prepared).    *)
(* PidFileKept follows from that an address has one listener and that a    *)
(* process past server_socket has an address (Bound).                      *)
(***************************************************************************)
EXTENDS Startup, TLAPS

-----------------------------------------------------------------------------
(* Type correctness *)

(* No more sockets are bound than addresses have been tried. *)
Counted == \A p \in Processes : success[p] < next[p]

LEMMA ExitKeepsTypes ==
  ASSUME TypeOK, Counted, NEW p \in Processes, Exit(p),
         {path', pidfile'} \subseteq Processes \cup {None}
  PROVE  TypeOK' /\ Counted'
  BY AddressesAssumption DEF TypeOK, Counted, Exit

LEMMA FailureKeepsTypes ==
  ASSUME TypeOK, Counted, NEW p \in Processes, Exit(p), UNCHANGED <<path, pidfile>>
  PROVE  TypeOK' /\ Counted'
<1>1. {path', pidfile'} \subseteq Processes \cup {None}
  BY DEF TypeOK
<1> QED
  BY <1>1, ExitKeepsTypes

LEMMA MainKeepsTypes ==
  ASSUME TypeOK, Counted, NEW p \in Processes, MainNext(p)
  PROVE  TypeOK' /\ Counted'
<1> USE ProcessesAssumption, AddressesAssumption, ConfigsAssumption
<1>1. CASE SignalInit(p)
  BY <1>1 DEF TypeOK, Counted, SignalInit, Goto
<1>2. CASE InitServer(p)
  <2>1. CASE /\ pc' = [pc EXCEPT ![p] = "privilege"] /\ index' = [index EXCEPT ![p] = TRUE]
             /\ UNCHANGED <<conf, next, root, signals, workers, success, tcp, unix,
                            monitor, path, pidfile, starts>>
    BY <2>1 DEF TypeOK, Counted
  <2>2. CASE Exit(p) /\ UNCHANGED <<path, pidfile>>
    BY <2>2, FailureKeepsTypes
  <2> QED
    BY <1>2, <2>1, <2>2 DEF InitServer, Goto
<1>3. CASE DoPrivilege(p)
  <2>1. CASE /\ pc' = [pc EXCEPT ![p] = "threads"]
             /\ root' = [root EXCEPT ![p] = @ /\ conf.username = "root"]
             /\ UNCHANGED <<conf, next, signals, index, workers, success, tcp, unix,
                            monitor, path, pidfile, starts>>
    BY <2>1 DEF TypeOK, Counted
  <2>2. CASE Exit(p) /\ UNCHANGED <<path, pidfile>>
    BY <2>2, FailureKeepsTypes
  <2> QED
    BY <1>3, <2>1, <2>2 DEF DoPrivilege, Goto
<1>4. CASE ThreadInit(p)
  <2>1. CASE /\ pc' = [pc EXCEPT ![p] = IF conf.unixpath THEN "unlink" ELSE "port"]
             /\ workers' = [workers EXCEPT ![p] = TRUE]
             /\ UNCHANGED <<conf, next, root, signals, index, success, tcp, unix,
                            monitor, path, pidfile, starts>>
    BY <2>1 DEF TypeOK, Counted
  <2>2. CASE Exit(p) /\ UNCHANGED <<path, pidfile>>
    BY <2>2, FailureKeepsTypes
  <2> QED
    BY <1>4, <2>1, <2>2 DEF ThreadInit, Goto
<1>5. CASE Unlink(p)
  BY <1>5 DEF TypeOK, Counted, Unlink, Goto, process
<1>6. CASE BindUnix(p)
  <2>1. Exit(p) => {path', pidfile'} \subseteq Processes \cup {None}
    BY <1>6 DEF TypeOK, BindUnix, Goto
  <2>2. CASE /\ pc' = [pc EXCEPT ![p] = "port"] /\ unix' = [unix EXCEPT ![p] = TRUE]
             /\ path' = p
             /\ UNCHANGED <<conf, next, root, signals, index, workers, success, tcp,
                            monitor, pidfile, starts>>
    BY <2>2 DEF TypeOK, Counted
  <2> QED
    BY <1>6, <2>1, <2>2, ExitKeepsTypes DEF BindUnix, Goto
<1>7. CASE Port(p)
  BY <1>7 DEF TypeOK, Counted, Port, Goto, process
<1>8. CASE SkipAddress(p)
  BY <1>8 DEF TypeOK, Counted, SkipAddress, SocketStep
<1>9. CASE ListenTcp(p)
  <2>1. Addresses[next[p]] \in TcpAddresses
    BY <1>9 DEF TypeOK, ListenTcp, SocketStep, TcpAddresses
  <2> QED
    BY <1>9, <2>1 DEF TypeOK, Counted, ListenTcp, SocketStep
<1>10. CASE GiveUp(p)
  BY <1>10, ExitKeepsTypes DEF TypeOK, GiveUp
<1>11. CASE SocketsDone(p)
  <2>1. CASE pc' = [pc EXCEPT ![p] = "http"]
               /\ UNCHANGED <<conf, next, process, path, pidfile, starts>>
    BY <2>1 DEF TypeOK, Counted, process
  <2>2. CASE Exit(p) /\ UNCHANGED <<path, pidfile>>
    BY <2>2, ExitKeepsTypes DEF TypeOK
  <2> QED
    BY <1>11, <2>1, <2>2 DEF SocketsDone
<1>12. CASE HttpHandler(p)
  BY <1>12 DEF TypeOK, Counted, HttpHandler, Goto
<1>13. CASE SavePid(p)
  BY <1>13 DEF TypeOK, Counted, SavePid, Goto, process
<1> QED
  BY <1>1, <1>2, <1>3, <1>4, <1>5, <1>6, <1>7, <1>8, <1>9, <1>10, <1>11, <1>12, <1>13
     DEF MainNext

LEMMA TypesAreKept == Spec => [](TypeOK /\ Counted)
<1> USE ProcessesAssumption, AddressesAssumption, MaxStartsAssumption
<1>1. Init => TypeOK /\ Counted
  BY DEF Init, TypeOK, Counted
<1>2. TypeOK /\ Counted /\ [Next]_vars => TypeOK' /\ Counted'
  <2> SUFFICES ASSUME TypeOK, Counted, [Next]_vars PROVE TypeOK' /\ Counted'
    OBVIOUS
  <2>1. CASE UNCHANGED vars
    BY <2>1 DEF TypeOK, Counted, vars, process
  <2>2. ASSUME NEW p \in Processes, Start(p) PROVE TypeOK' /\ Counted'
    BY <2>2 DEF TypeOK, Counted, Start, Goto
  <2>3. ASSUME NEW p \in Processes, LoopEnds(p) PROVE TypeOK' /\ Counted'
    BY <2>3, ExitKeepsTypes DEF TypeOK, LoopEnds
  <2>4. ASSUME NEW p \in Processes, Interrupt(p) PROVE TypeOK' /\ Counted'
    BY <2>4, ExitKeepsTypes DEF TypeOK, Interrupt
  <2> QED
    BY <2>1, <2>2, <2>3, <2>4, MainKeepsTypes DEF Next
<1> QED
  BY <1>1, <1>2, PTL DEF Spec

(* TypeOK is an invariant: the places of main, the sockets and the files   *)
(* have the values they are meant to have, whatever fails in whichever     *)
(* process.                                                                *)
THEOREM TypeCorrect == Spec => []TypeOK
  BY TypesAreKept, PTL

-----------------------------------------------------------------------------
(* What main has done before it opens a socket *)

Opening == {"unlink", "bind", "port", "socket", "http", "pid", "loop"}

PreparedAt(p) ==
  /\ pc[p] \in Opening \cup {"threads", "privilege"} => index[p]
  /\ pc[p] \in Opening \cup {"threads"} => (root[p] => conf.username = "root")
  /\ pc[p] \in Opening => workers[p]
  /\ Listening(p) => pc[p] \in Opening

Prepared == \A p \in Processes : PreparedAt(p)

LEMMA ExitKeepsPrepared ==
  ASSUME TypeOK, Prepared, NEW p \in Processes, Exit(p)
  PROVE  Prepared'
  BY DEF TypeOK, Prepared, PreparedAt, Exit, Listening, Opening

LEMMA MainKeepsPrepared ==
  ASSUME TypeOK, Prepared, NEW p \in Processes, MainNext(p)
  PROVE  Prepared'
<1> USE ExitKeepsPrepared DEF TypeOK, Prepared, PreparedAt, Listening, Opening, Goto
<1>1. CASE SignalInit(p)
  BY <1>1 DEF SignalInit
<1>2. CASE InitServer(p)
  BY <1>2 DEF InitServer
<1>3. CASE DoPrivilege(p)
  BY <1>3 DEF DoPrivilege
<1>4. CASE ThreadInit(p)
  BY <1>4 DEF ThreadInit
<1>5. CASE Unlink(p)
  BY <1>5 DEF Unlink, process
<1>6. CASE BindUnix(p)
  BY <1>6 DEF BindUnix
<1>7. CASE Port(p)
  BY <1>7 DEF Port, process
<1>8. CASE SkipAddress(p)
  BY <1>8 DEF SkipAddress, SocketStep
<1>9. CASE ListenTcp(p)
  BY <1>9 DEF ListenTcp, SocketStep
<1>10. CASE GiveUp(p)
  BY <1>10 DEF GiveUp
<1>11. CASE SocketsDone(p)
  BY <1>11 DEF SocketsDone, process
<1>12. CASE HttpHandler(p)
  BY <1>12 DEF HttpHandler
<1>13. CASE SavePid(p)
  BY <1>13 DEF SavePid, process
<1> QED
  BY <1>1, <1>2, <1>3, <1>4, <1>5, <1>6, <1>7, <1>8, <1>9, <1>10, <1>11, <1>12, <1>13
     DEF MainNext

(* Whoever can connect finds a server without root privileges (unless it   *)
(* was told to keep them), with its index loaded and its workers running.  *)
THEOREM ServersAreReady == Spec => []ListenersAreReady
<1>1. Init => Prepared
  BY DEF Init, Prepared, PreparedAt, Listening, Opening
<1>2. TypeOK /\ Prepared /\ [Next]_vars => Prepared'
  <2> SUFFICES ASSUME TypeOK, Prepared, [Next]_vars PROVE Prepared'
    OBVIOUS
  <2>1. CASE UNCHANGED vars
    BY <2>1 DEF Prepared, PreparedAt, Listening, vars, process
  <2>2. ASSUME NEW p \in Processes, Start(p) PROVE Prepared'
    BY <2>2 DEF TypeOK, Prepared, PreparedAt, Listening, Opening, Start, Goto
  <2>3. ASSUME NEW p \in Processes, LoopEnds(p) PROVE Prepared'
    BY <2>3, ExitKeepsPrepared DEF LoopEnds
  <2>4. ASSUME NEW p \in Processes, Interrupt(p) PROVE Prepared'
    BY <2>4, ExitKeepsPrepared DEF Interrupt
  <2> QED
    BY <2>1, <2>2, <2>3, <2>4, MainKeepsPrepared DEF Next
<1>3. Prepared => ListenersAreReady
  BY DEF Prepared, PreparedAt, ListenersAreReady, Opening
<1> QED
  BY <1>1, <1>2, <1>3, TypesAreKept, PTL DEF Spec

-----------------------------------------------------------------------------
(* Who listens on which address *)

BoundAt(p) ==
  /\ success[p] > 0 => tcp[p] # {}
  /\ conf.port /\ pc[p] \in {"http", "pid", "loop"} => tcp[p] # {}

Alone == \A p, q \in Processes : p # q => tcp[p] \cap tcp[q] = {}

Bound == Alone /\ \A p \in Processes : BoundAt(p)

LEMMA ExitKeepsBound ==
  ASSUME TypeOK, Bound, NEW p \in Processes, Exit(p)
  PROVE  Bound'
  BY DEF TypeOK, Bound, Alone, BoundAt, Exit

(* A process may take an address that nobody listens on. *)
LEMMA AddedAddress ==
  ASSUME Alone, tcp \in [Processes -> SUBSET TcpAddresses], NEW p \in Processes, NEW a,
         \A q \in Processes : a \notin tcp[q],
         tcp' = [tcp EXCEPT ![p] = @ \cup {a}]
  PROVE  Alone'
<1> SUFFICES ASSUME NEW q \in Processes, NEW r \in Processes, q # r
             PROVE  tcp'[q] \cap tcp'[r] = {}
  BY DEF Alone
<1>1. tcp[q] \cap tcp[r] = {} /\ a \notin tcp[q] /\ a \notin tcp[r]
  BY DEF Alone
<1>2. CASE q = p
  <2>1. tcp'[q] = tcp[q] \cup {a} /\ tcp'[r] = tcp[r]
    BY <1>2
  <2> QED
    BY <1>1, <2>1
<1>3. CASE r = p
  <2>1. tcp'[r] = tcp[r] \cup {a} /\ tcp'[q] = tcp[q]
    BY <1>3
  <2> QED
    BY <1>1, <2>1
<1>4. CASE q # p /\ r # p
  BY <1>1, <1>4
<1> QED
  BY <1>2, <1>3, <1>4

LEMMA MainKeepsBound ==
  ASSUME TypeOK, Bound, NEW p \in Processes, MainNext(p)
  PROVE  Bound'
<1> USE ExitKeepsBound DEF TypeOK, Bound, Alone, BoundAt, Goto
<1>1. CASE SignalInit(p)
  BY <1>1 DEF SignalInit
<1>2. CASE InitServer(p)
  BY <1>2 DEF InitServer
<1>3. CASE DoPrivilege(p)
  <2>1. CASE pc' = [pc EXCEPT ![p] = "threads"] /\ UNCHANGED <<conf, success, tcp>>
    BY <2>1
  <2> QED
    BY <1>3, <2>1 DEF DoPrivilege
<1>4. CASE ThreadInit(p)
  BY <1>4 DEF ThreadInit
<1>5. CASE Unlink(p)
  BY <1>5 DEF Unlink, process
<1>6. CASE BindUnix(p)
  BY <1>6 DEF BindUnix
<1>7. CASE Port(p)
  BY <1>7 DEF Port, process
<1>8. CASE SkipAddress(p)
  BY <1>8 DEF SkipAddress, SocketStep
<1>9. CASE ListenTcp(p)
  <2>1. \A q \in Processes : Addresses[next[p]] \notin tcp[q]
    BY <1>9 DEF ListenTcp, Used
  <2>2. \A q \in Processes : tcp'[q] = IF q = p THEN tcp[q] \cup {Addresses[next[p]]} ELSE tcp[q]
    BY <1>9 DEF ListenTcp
  <2>3. Alone'
    BY <1>9, <2>1, AddedAddress DEF ListenTcp
  <2>4. UNCHANGED <<conf, pc>> /\ \A q \in Processes : q # p => success'[q] = success[q]
    BY <1>9 DEF ListenTcp, SocketStep
  <2>5. \A q \in Processes : BoundAt(q)'
    BY <2>2, <2>4
  <2> QED
    BY <2>3, <2>5
<1>10. CASE GiveUp(p)
  BY <1>10 DEF GiveUp
<1>11. CASE SocketsDone(p)
  BY <1>11 DEF SocketsDone, process
<1>12. CASE HttpHandler(p)
  BY <1>12 DEF HttpHandler
<1>13. CASE SavePid(p)
  BY <1>13 DEF SavePid, process
<1> QED
  BY <1>1, <1>2, <1>3, <1>4, <1>5, <1>6, <1>7, <1>8, <1>9, <1>10, <1>11, <1>12, <1>13
     DEF MainNext

LEMMA BoundIsKept == Spec => [](TypeOK /\ Bound)
<1>1. Init => Bound
  BY DEF Init, Bound, Alone, BoundAt
<1>2. TypeOK /\ Bound /\ [Next]_vars => Bound'
  <2> SUFFICES ASSUME TypeOK, Bound, [Next]_vars PROVE Bound'
    OBVIOUS
  <2>1. CASE UNCHANGED vars
    BY <2>1 DEF Bound, Alone, BoundAt, vars, process
  <2>2. ASSUME NEW p \in Processes, Start(p) PROVE Bound'
    BY <2>2 DEF TypeOK, Bound, Alone, BoundAt, Start, Goto
  <2>3. ASSUME NEW p \in Processes, LoopEnds(p) PROVE Bound'
    BY <2>3, ExitKeepsBound DEF LoopEnds
  <2>4. ASSUME NEW p \in Processes, Interrupt(p) PROVE Bound'
    BY <2>4, ExitKeepsBound DEF Interrupt
  <2> QED
    BY <2>1, <2>2, <2>3, <2>4, MainKeepsBound DEF Next
<1> QED
  BY <1>1, <1>2, TypesAreKept, PTL DEF Spec

(* The step of PidFileKept. *)
PidFileStep ==
  (conf.port /\ pidfile' # pidfile /\ pidfile' # None) =>
    \A p \in Processes :
      (p # pidfile' /\ Serving(p)) => tcp[p] # TcpAddresses

(* Only save_pid puts a pid into the file. *)
LEMMA WhoWritesThePidFile ==
  ASSUME Next, pidfile' # pidfile, pidfile' # None
  PROVE  \E q \in Processes : SavePid(q) /\ pidfile' = q
<1>1. PICK q \in Processes : Start(q) \/ MainNext(q) \/ LoopEnds(q) \/ Interrupt(q)
  BY DEF Next
<1>2. ~Start(q) /\ ~Interrupt(q) /\ ~LoopEnds(q)
  BY DEF Start, Interrupt, LoopEnds
<1>3. MainNext(q) => SavePid(q)
  BY DEF MainNext, SignalInit, InitServer, DoPrivilege, ThreadInit, Unlink, BindUnix, Port,
         SkipAddress, ListenTcp, SocketStep, GiveUp, SocketsDone, HttpHandler
<1>4. SavePid(q) => pidfile' = q
  BY DEF SavePid
<1> QED
  BY <1>1, <1>2, <1>3, <1>4

(* A second server does not put its pid into the file while another one    *)
(* serves on all addresses of the port.                                    *)
THEOREM PidFileIsKept == Spec => PidFileKept
<1>1. TypeOK /\ Bound /\ [Next]_vars => [PidFileStep]_vars
  <2> SUFFICES ASSUME TypeOK, Bound, Next, conf.port, pidfile' # pidfile, pidfile' # None,
                      NEW p \in Processes, p # pidfile', Serving(p), tcp[p] = TcpAddresses
               PROVE  FALSE
    BY DEF PidFileStep
  <2>1. PICK q \in Processes : SavePid(q) /\ pidfile' = q
    BY WhoWritesThePidFile
  <2>2. tcp[q] # {} /\ tcp[q] \subseteq TcpAddresses
    BY <2>1 DEF SavePid, Goto, Bound, BoundAt, TypeOK
  <2>3. tcp[p] \cap tcp[q] = {}
    BY <2>1 DEF Bound, Alone
  <2> QED
    BY <2>2, <2>3
<1>2. PidFileKept <=> [][PidFileStep]_vars
  BY DEF PidFileKept, PidFileStep
<1> QED
  BY <1>1, <1>2, BoundIsKept, PTL DEF Spec
=============================================================================
