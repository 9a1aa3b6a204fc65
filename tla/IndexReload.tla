---------------------------- MODULE IndexReload ----------------------------
(***************************************************************************)
(* The index layer of the server (server/prefixmatch.cpp): the global      *)
(* g_index, its memory mapping, the rwlock, the flags g_reloading and      *)
(* g_exiting, and the threads that use them:                               *)
(*                                                                         *)
(*   Workers   worker threads; they call Get for a binary request          *)
(*   Main      the main thread: Init_Index at start-up, then the HTTP      *)
(*             monitor, which calls Get and Reload_index                   *)
(*   Sig       the signal thread: SIGUSR1 calls Reload_index, SIGINT exits *)
(*                                                                         *)
(* Each action is one access to shared memory, one lock operation or one   *)
(* system call of a thread.  An address returned by munmap may be handed   *)
(* out again by the next mmap.                                             *)
(***************************************************************************)
EXTENDS Naturals, FiniteSets

CONSTANTS Workers, Main, Sig,
          Reloaders,      \* the threads an operator reloads through
          Addrs,          \* addresses mmap can return
          Contents,       \* contents of valid index files
          Bad,            \* a file that maps but that trie::assign rejects
          Free,           \* nothing is mapped at an address
          Null,           \* no address, no thread
          MaxLetters,     \* bound on the letter strings of a query
          EarlySignals    \* TRUE: SIGUSR1 may arrive before Init_Index is done

Threads == Workers \cup {Main, Sig}
Readers == Workers \cup {Main}

ASSUME ThreadsAssumption ==
  /\ Main \notin Workers /\ Sig \notin Workers /\ Main # Sig
  /\ Null \notin Threads
  /\ Reloaders \subseteq {Main, Sig}
ASSUME DataAssumption ==
  /\ Bad \notin Contents /\ Free \notin Contents /\ Bad # Free
  /\ "none" \notin Contents     \* what AtomicIndex calls "no index yet"
  /\ Null \notin Addrs
  /\ MaxLetters \in Nat \ {0}
  /\ EarlySignals \in BOOLEAN

VARIABLES
  up,           \* "up", "exited" or "crashed": the process
  mapped,       \* mapped[a]: what a mapping at address a holds
  g_mem,        \* g_index.mem, what deinit_index unmaps
  g_trie,       \* where g_index.g_dasTrieObj points, what getChildren reads
  readers,      \* holders of the rwlock for reading
  writer,       \* its holder for writing
  g_reloading,
  g_exiting,
  pc,           \* pc[t]: what thread t does next
  prev,         \* prev[t]: prev_index.mem of t's call of Reload_index
  new,          \* new[t]: the mapping t's init_index has made
  left,         \* left[t]: letter strings t's Query has still to look up
  found         \* found[t]: contents t's Query has collected results from

index    == <<mapped, g_mem, g_trie>>
rwlock   == <<readers, writer>>
flags    == <<g_reloading, g_exiting>>
reloadLocals == <<prev, new>>
queryLocals  == <<left, found>>
vars == <<up, index, rwlock, flags, pc, reloadLocals, queryLocals>>

BootPCs   == {"boot", "bootAssign"}
QueryPCs  == {"rdlock", "search", "reply"}
ReloadPCs == {"check", "claim", "open", "assign", "fail", "wrlock",
              "switch", "switchTrie", "unlock", "release", "reset"}
PCs == BootPCs \cup QueryPCs \cup ReloadPCs \cup {"idle", "exit"}

Booted == pc[Main] \notin BootPCs

Init ==
  /\ up = "up"
  /\ mapped = [a \in Addrs |-> Free]
  /\ g_mem = Null /\ g_trie = Null
  /\ readers = {} /\ writer = Null
  /\ g_reloading = 0 /\ g_exiting = 0
  /\ pc = [t \in Threads |-> IF t = Main THEN "boot" ELSE "idle"]
  /\ prev = [t \in Threads |-> Null]
  /\ new = [t \in Threads |-> Null]
  /\ left = [t \in Threads |-> 0]
  /\ found = [t \in Threads |-> {}]

Go(t, from, to) ==
  /\ up = "up"
  /\ pc[t] = from
  /\ pc' = [pc EXCEPT ![t] = to]

(* munmap succeeds, and does nothing, where nothing is mapped. *)
Munmap(a) ==
  mapped' = [b \in Addrs |-> IF b = a THEN Free ELSE mapped[b]]

(* open, mmap_file: the kernel picks any address that is free. *)
MmapFile(a, c) ==
  /\ mapped[a] = Free
  /\ mapped' = [mapped EXCEPT ![a] = c]

-----------------------------------------------------------------------------
(* Init_Index, in init_server: it fills g_index in place and takes no lock. *)

BootMap(a, c) ==
  /\ Go(Main, "boot", "bootAssign")
  /\ MmapFile(a, c)
  /\ g_mem' = a
  /\ new' = [new EXCEPT ![Main] = a]
  /\ UNCHANGED <<up, g_trie, rwlock, flags, prev, queryLocals>>

BootAssign ==
  /\ Go(Main, "bootAssign", "idle")
  /\ mapped[new[Main]] # Bad
  /\ g_trie' = new[Main]
  /\ UNCHANGED <<up, mapped, g_mem, rwlock, flags, reloadLocals, queryLocals>>

(* No file, or one that assign rejects: "error in load index file". *)
BootFail ==
  /\ \/ Go(Main, "boot", "exit")
     \/ Go(Main, "bootAssign", "exit") /\ mapped[new[Main]] = Bad
  /\ up' = "exited"
  /\ UNCHANGED <<index, rwlock, flags, reloadLocals, queryLocals>>

-----------------------------------------------------------------------------
(* Get and Query *)

(* Get returns at once when the server is exiting; a line of which no      *)
(* letter string is left (n = 0) is answered without the lock.             *)
Get(t, n) ==
  /\ Booted
  /\ IF g_exiting = 1 \/ n = 0 THEN Go(t, "idle", "reply")
                               ELSE Go(t, "idle", "rdlock")
  /\ left' = [left EXCEPT ![t] = n]
  /\ UNCHANGED <<up, index, rwlock, flags, reloadLocals, found>>

(* A default rwlock admits a reader whenever no writer holds it. *)
RdLock(t) ==
  /\ Go(t, "rdlock", "search")
  /\ writer = Null
  /\ readers' = readers \cup {t}
  /\ UNCHANGED <<up, index, writer, flags, reloadLocals, queryLocals>>

(* Mutant: the lock is given up and taken again between letter strings. *)
GetChildrenLockedEach(t) ==
  /\ Go(t, "search", IF left[t] > 1 THEN "rdlock" ELSE "search")
  /\ left[t] > 0
  /\ left' = [left EXCEPT ![t] = @ - 1]
  /\ readers' = IF left[t] > 1 THEN readers \ {t} ELSE readers
  /\ g_trie \in Addrs
  /\ found' = [found EXCEPT ![t] = @ \cup {mapped[g_trie]}]
  /\ UNCHANGED <<up, index, writer, flags, reloadLocals>>

(* Mutant: the loop over the letter strings runs once too often. *)
GetChildrenOnceMore(t) ==
  /\ Go(t, "search", "search")
  /\ left[t] >= 0
  /\ left' = [left EXCEPT ![t] = @ - 1]
  /\ UNCHANGED <<up, index, rwlock, flags, reloadLocals, found>>

(* getChildren for one letter string: it walks the memory g_dasTrieObj     *)
(* points into; where nothing is mapped the process dies.                  *)
GetChildren(t) ==
  /\ Go(t, "search", "search")
  /\ left[t] > 0
  /\ left' = [left EXCEPT ![t] = @ - 1]
  /\ IF g_trie \in Addrs /\ mapped[g_trie] # Free
     THEN /\ found' = [found EXCEPT ![t] = @ \cup {mapped[g_trie]}]
          /\ UNCHANGED up
     ELSE /\ up' = "crashed"
          /\ UNCHANGED found
  /\ UNCHANGED <<index, rwlock, flags, reloadLocals>>

RdUnlock(t) ==
  /\ Go(t, "search", "reply")
  /\ left[t] = 0
  /\ readers' = readers \ {t}
  /\ UNCHANGED <<up, index, writer, flags, reloadLocals, queryLocals>>

(* filter_result works on the thread's own copies; Get returns. *)
Reply(t) ==
  /\ Go(t, "reply", "idle")
  /\ left' = [left EXCEPT ![t] = 0]
  /\ found' = [found EXCEPT ![t] = {}]
  /\ UNCHANGED <<up, index, rwlock, flags, reloadLocals>>

-----------------------------------------------------------------------------
(* Reload_index *)

(* Mutant: prev_index is not filled. *)
ReloadCallNoCopy(t) ==
  /\ Booted
  /\ Go(t, "idle", "check")
  /\ UNCHANGED <<up, index, rwlock, flags, reloadLocals, queryLocals>>

(* indexobj prev_index = g_index; before the flag is looked at. *)
ReloadCall(t) ==
  /\ Booted \/ (t = Sig /\ EarlySignals)
  /\ Go(t, "idle", "check")
  /\ prev' = [prev EXCEPT ![t] = g_mem]
  /\ UNCHANGED <<up, index, rwlock, flags, new, queryLocals>>

(* if (g_reloading == 1) return -1 *)
ReloadCheck(t) ==
  /\ \/ g_reloading = 1 /\ Go(t, "check", "idle")
     \/ g_reloading = 0 /\ Go(t, "check", "claim")
  /\ UNCHANGED <<up, index, rwlock, flags, reloadLocals, queryLocals>>

ReloadClaim(t) ==
  /\ Go(t, "claim", "open")
  /\ g_reloading' = 1
  /\ UNCHANGED <<up, index, rwlock, g_exiting, reloadLocals, queryLocals>>

ReloadMap(t, a, c) ==
  /\ Go(t, "open", "assign")
  /\ MmapFile(a, c)
  /\ new' = [new EXCEPT ![t] = a]
  /\ UNCHANGED <<up, g_mem, g_trie, rwlock, flags, prev, queryLocals>>

(* open, fstat or mmap failed, or the file is empty. *)
ReloadMapFails(t) ==
  /\ Go(t, "open", "fail")
  /\ UNCHANGED <<up, index, rwlock, flags, reloadLocals, queryLocals>>

(* Mutant: the result of assign is ignored. *)
ReloadAssignUnchecked(t) ==
  /\ Go(t, "assign", "wrlock")
  /\ UNCHANGED <<up, index, rwlock, flags, reloadLocals, queryLocals>>

(* Mutant: a rejected file stays mapped. *)
ReloadAssignKeeps(t) ==
  /\ Go(t, "assign", IF mapped[new[t]] = Bad THEN "fail" ELSE "wrlock")
  /\ UNCHANGED <<up, index, rwlock, flags, reloadLocals, queryLocals>>

(* new_index.g_dasTrieObj.assign; a rejected file is unmapped again. *)
ReloadAssign(t) ==
  /\ \/ /\ Go(t, "assign", "wrlock")
        /\ mapped[new[t]] # Bad
        /\ UNCHANGED mapped
     \/ /\ Go(t, "assign", "fail")
        /\ mapped[new[t]] = Bad
        /\ Munmap(new[t])
  /\ UNCHANGED <<up, g_mem, g_trie, rwlock, flags, reloadLocals, queryLocals>>

ReloadFails(t) ==
  /\ Go(t, "fail", "idle")
  /\ g_reloading' = 0
  /\ UNCHANGED <<up, index, rwlock, g_exiting, reloadLocals, queryLocals>>

(* Mutant: the writer does not wait for the readers. *)
WrLockAtOnce(t) ==
  /\ Go(t, "wrlock", "switch")
  /\ writer' = t
  /\ UNCHANGED <<up, index, readers, flags, reloadLocals, queryLocals>>

WrLock(t) ==
  /\ Go(t, "wrlock", "switch")
  /\ writer = Null /\ readers = {}
  /\ writer' = t
  /\ UNCHANGED <<up, index, readers, flags, reloadLocals, queryLocals>>

(* g_index = new_index copies one member after the other. *)
SwitchMem(t) ==
  /\ Go(t, "switch", "switchTrie")
  /\ g_mem' = new[t]
  /\ UNCHANGED <<up, mapped, g_trie, rwlock, flags, reloadLocals, queryLocals>>

(* Mutant: the trie object is not copied. *)
SwitchTrieForgotten(t) ==
  /\ Go(t, "switchTrie", "unlock")
  /\ UNCHANGED <<up, index, rwlock, flags, reloadLocals, queryLocals>>

SwitchTrie(t) ==
  /\ Go(t, "switchTrie", "unlock")
  /\ g_trie' = new[t]
  /\ UNCHANGED <<up, mapped, g_mem, rwlock, flags, reloadLocals, queryLocals>>

(* Mutant: the write lock is kept. *)
WrUnlockForgotten(t) ==
  /\ Go(t, "unlock", "release")
  /\ UNCHANGED <<up, index, rwlock, flags, reloadLocals, queryLocals>>

WrUnlock(t) ==
  /\ Go(t, "unlock", "release")
  /\ writer' = Null
  /\ UNCHANGED <<up, index, readers, flags, reloadLocals, queryLocals>>

(* Mutant: deinit_index(g_index) *)
ReleaseCurrent(t) ==
  /\ Go(t, "release", "reset")
  /\ Munmap(g_mem)
  /\ UNCHANGED <<up, g_mem, g_trie, rwlock, flags, reloadLocals, queryLocals>>

(* deinit_index(prev_index) *)
ReleasePrev(t) ==
  /\ Go(t, "release", "reset")
  /\ Munmap(prev[t])
  /\ UNCHANGED <<up, g_mem, g_trie, rwlock, flags, reloadLocals, queryLocals>>

ReloadReset(t) ==
  /\ Go(t, "reset", "idle")
  /\ g_reloading' = 0
  /\ UNCHANGED <<up, index, rwlock, g_exiting, reloadLocals, queryLocals>>

-----------------------------------------------------------------------------
(* SIGINT: exiting(), a pause, then exit(-1) whatever the others do. *)

Exiting ==
  /\ Booted \/ EarlySignals
  /\ Go(Sig, "idle", "exit")
  /\ g_exiting' = 1
  /\ UNCHANGED <<up, index, rwlock, g_reloading, reloadLocals, queryLocals>>

Exit ==
  /\ Go(Sig, "exit", "exit")
  /\ up' = "exited"
  /\ UNCHANGED <<index, rwlock, flags, reloadLocals, queryLocals>>

Boot ==
  \/ \E a \in Addrs, c \in Contents \cup {Bad} : BootMap(a, c)
  \/ BootAssign
  \/ BootFail

QueryStep(t) == RdLock(t) \/ GetChildren(t) \/ RdUnlock(t) \/ Reply(t)

ReloadStep(t) ==
  \/ ReloadCheck(t) \/ ReloadClaim(t)
  \/ \E a \in Addrs, c \in Contents \cup {Bad} : ReloadMap(t, a, c)
  \/ ReloadMapFails(t) \/ ReloadAssign(t) \/ ReloadFails(t)
  \/ WrLock(t) \/ SwitchMem(t) \/ SwitchTrie(t) \/ WrUnlock(t)
  \/ ReleasePrev(t) \/ ReloadReset(t)

(* After the process is gone nothing happens any more. *)
Terminated == up # "up" /\ UNCHANGED vars

Next ==
  \/ Boot
  \/ \E t \in Readers : QueryStep(t) \/ \E n \in 0 .. MaxLetters : Get(t, n)
  \/ \E t \in Reloaders : ReloadCall(t) \/ ReloadStep(t)
  \/ Exiting \/ Exit
  \/ Terminated

(* A thread inside Get or Reload_index keeps running.  A reader blocked in *)
(* pthread_rwlock_rdlock is woken by the writer's unlock and precedes the  *)
(* next writer, so it cannot be overtaken for ever (strong fairness);      *)
(* nothing of the kind is assumed for the writer, which the default lock   *)
(* lets wait as long as readers overlap.                                   *)
Fairness ==
  /\ \A t \in Readers : WF_vars(QueryStep(t)) /\ SF_vars(RdLock(t))
  /\ \A t \in Reloaders : WF_vars(ReloadStep(t))

Spec == Init /\ [][Next]_vars
FairSpec == Spec /\ Fairness

-----------------------------------------------------------------------------
(* Properties *)

(* The values the variables range over. *)
TypeOK ==
  /\ up \in {"up", "exited", "crashed"}
  /\ mapped \in [Addrs -> Contents \cup {Bad, Free}]
  /\ g_mem \in Addrs \cup {Null} /\ g_trie \in Addrs \cup {Null}
  /\ readers \subseteq Threads /\ writer \in Threads \cup {Null}
  /\ g_reloading \in {0, 1} /\ g_exiting \in {0, 1}
  /\ pc \in [Threads -> PCs]
  /\ prev \in [Threads -> Addrs \cup {Null}]
  /\ new \in [Threads -> Addrs \cup {Null}]
  /\ left \in [Threads -> 0 .. MaxLetters]
  /\ found \in [Threads -> SUBSET (Contents \cup {Bad})]

(* No query ever reads an index whose memory was unmapped (the munmap of   *)
(* deinit_index against the getChildren of Query).                         *)
NeverCrashes == up # "crashed"

(* From the end of Init_Index on, the trie in g_index lies in a mapping of *)
(* a valid index file, whatever reloads are under way.                     *)
LiveIndexMapped == Booted /\ up = "up" => /\ g_trie \in Addrs
                                          /\ mapped[g_trie] \in Contents

(* "release old index": what Reload_index unmaps last is still mapped and  *)
(* is not the index that is being served.                                  *)
OldIndexReleased ==
  \A t \in Reloaders : pc[t] = "release" =>
    /\ prev[t] \in Addrs /\ mapped[prev[t]] # Free
    /\ prev[t] \notin {g_mem, g_trie}

(* When Reload_index reports "read new index ... successfully", the index  *)
(* it has read is the one being served.                                    *)
ReportedIndexIsLive ==
  \A t \in Reloaders : pc[t] = "reset" => g_mem = new[t] /\ g_trie = new[t]

(* While a query walks the index under the read lock, nothing it reads     *)
(* changes: neither g_index nor the memory its trie lies in.               *)
QueryUndisturbed ==
  \A t \in Readers : pc[t] = "search" /\ pc'[t] = "search" /\ up' = "up" =>
    g_mem = g_trie /\ UNCHANGED <<g_mem, g_trie, mapped[g_trie]>>

ServedIndexIsStable == [][QueryUndisturbed]_vars

(* Somebody still knows the mapping at a: it is the one in g_index, or one *)
(* a reload has made and will publish, or one it has replaced and will     *)
(* unmap.                                                                  *)
Owned(a) ==
  \/ a = g_mem
  \/ \E t \in Reloaders :
       \/ pc[t] \in {"assign", "wrlock", "switch"} /\ a = new[t]
       \/ pc[t] \in {"switchTrie", "unlock", "release"} /\ a = prev[t]

(* Reloading, and failing to, leaks no mapping. *)
NoLeak == \A a \in Addrs : up = "up" /\ mapped[a] # Free => Owned(a)

(* Every query that was let in is answered, unless the process ends. *)
QueriesReturn ==
  \A t \in Readers : pc[t] \in QueryPCs ~> (pc[t] = "idle" \/ up # "up")

(* Once queries stop for good, a reload that has begun comes to its end    *)
(* and clears g_reloading.                                                 *)
ReloadsEndWhenQueriesStop ==
  \A t \in Reloaders :
    <>[](readers = {}) => (pc[t] \in ReloadPCs ~> (pc[t] = "idle" \/ up # "up"))

(* The refinement: the content of the trie in g_index is current, and a    *)
(* query is answered from the moment of its first look-up.                 *)
Abstract == INSTANCE AtomicIndex WITH
  current <- IF Booted /\ g_trie \in Addrs THEN mapped[g_trie] ELSE "none",
  request <- [r \in Readers |->
                CASE pc[r] = "reply" \/ found[r] # {} -> "answered"
                  [] pc[r] \in {"rdlock", "search"} /\ found[r] = {} -> "pending"
                  [] OTHER -> "none"],
  answer <- [r \in Readers |-> found[r]]

(* The index layer implements AtomicIndex: reloads take effect in one step *)
(* and no query mixes two indexes or sees a stale one.                     *)
ImplementsAtomicIndex == Abstract!Spec
=============================================================================
