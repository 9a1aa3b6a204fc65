------------------------- MODULE IndexReload_proofs -------------------------
(***************************************************************************)
(* Proofs about IndexReload, for any number of workers, addresses, index   *)
(* contents and letter strings.                                            *)
(*                                                                         *)
(* Type correctness needs nothing but the assumptions on the constants.    *)
(* The safety theorems hold under SingleReloader: reloads come through one *)
(* thread (signals or the HTTP monitor, not both) and no signal arrives    *)
(* before Init_Index is done.  Without either of the two they are false.   *)
(***************************************************************************)
EXTENDS IndexReload, TLAPS

LEMMA TypeInit == Init => TypeOK
  BY ThreadsAssumption, DataAssumption
     DEF Init, TypeOK, Threads, PCs, BootPCs

LEMMA TypeStep == TypeOK /\ [Next]_vars => TypeOK'
<1>1. ASSUME TypeOK, [Next]_vars
      PROVE  TypeOK'
  <2> USE <1>1, ThreadsAssumption, DataAssumption DEF TypeOK
  <2>1. CASE Boot
    <3> USE DEF Go, index, rwlock, flags, reloadLocals, queryLocals, PCs,
                BootPCs, Threads
    <3>1. ASSUME NEW a \in Addrs, NEW c \in Contents \cup {Bad}, BootMap(a, c)
          PROVE  TypeOK'
      BY <3>1 DEF BootMap, MmapFile
    <3>2. CASE BootAssign
      BY <3>2 DEF BootAssign
    <3>3. CASE BootFail
      BY <3>3 DEF BootFail
    <3> QED
      BY <2>1, <3>1, <3>2, <3>3 DEF Boot
  <2>2. ASSUME NEW t \in Readers, QueryStep(t)
        PROVE  TypeOK'
    <3> USE DEF Go, index, rwlock, flags, reloadLocals, queryLocals, PCs,
                QueryPCs, Threads, Readers
    <3>1. CASE RdLock(t)
      BY <2>2, <3>1 DEF RdLock
    <3>2. CASE GetChildren(t)
      BY <2>2, <3>2 DEF GetChildren
    <3>3. CASE RdUnlock(t)
      BY <2>2, <3>3 DEF RdUnlock
    <3>4. CASE Reply(t)
      BY <2>2, <3>4 DEF Reply
    <3> QED
      BY <2>2, <3>1, <3>2, <3>3, <3>4 DEF QueryStep
  <2>3. ASSUME NEW t \in Readers, NEW n \in 0 .. MaxLetters, Get(t, n)
        PROVE  TypeOK'
    BY <2>3 DEF Get, Go, index, rwlock, flags, reloadLocals, PCs, QueryPCs,
       Threads, Readers
  <2>4. ASSUME NEW t \in Reloaders, ReloadCall(t) \/ ReloadStep(t)
        PROVE  TypeOK'
    <3> USE DEF Go, index, rwlock, flags, reloadLocals, queryLocals, PCs,
                ReloadPCs, Threads
    <3>0. t \in Threads
      BY <2>4
    <3>1. CASE ReloadCall(t)
      BY <3>0, <3>1 DEF ReloadCall
    <3>2. CASE ReloadCheck(t)
      BY <3>0, <3>2 DEF ReloadCheck
    <3>3. CASE ReloadClaim(t)
      BY <3>0, <3>3 DEF ReloadClaim
    <3>4. ASSUME NEW a \in Addrs, NEW c \in Contents \cup {Bad},
                 ReloadMap(t, a, c)
          PROVE  TypeOK'
      BY <3>0, <3>4 DEF ReloadMap, MmapFile
    <3>5. CASE ReloadMapFails(t)
      BY <3>0, <3>5 DEF ReloadMapFails
    <3>6. CASE ReloadAssign(t)
      BY <3>0, <3>6 DEF ReloadAssign, Munmap
    <3>7. CASE ReloadFails(t)
      BY <3>0, <3>7 DEF ReloadFails
    <3>8. CASE WrLock(t)
      BY <3>0, <3>8 DEF WrLock
    <3>9. CASE SwitchMem(t)
      BY <3>0, <3>9 DEF SwitchMem
    <3>10. CASE SwitchTrie(t)
      BY <3>0, <3>10 DEF SwitchTrie
    <3>11. CASE WrUnlock(t)
      BY <3>0, <3>11 DEF WrUnlock
    <3>12. CASE ReleasePrev(t)
      BY <3>0, <3>12 DEF ReleasePrev, Munmap
    <3>13. CASE ReloadReset(t)
      BY <3>0, <3>13 DEF ReloadReset
    <3> QED
      BY <2>4, <3>1, <3>2, <3>3, <3>4, <3>5, <3>6, <3>7, <3>8, <3>9, <3>10,
         <3>11, <3>12, <3>13 DEF ReloadStep
  <2>5. CASE Exiting \/ Exit
    BY <2>5 DEF Exiting, Exit, Go, index, rwlock, flags, reloadLocals,
       queryLocals, PCs, Threads
  <2>6. CASE Terminated \/ UNCHANGED vars
    BY <2>6 DEF Terminated, vars, index, rwlock, flags, reloadLocals,
       queryLocals
  <2> QED
    BY <2>1, <2>2, <2>3, <2>4, <2>5, <2>6 DEF Next
<1> QED
  BY <1>1

(* TypeOK holds in every state, however many threads reload. *)
THEOREM TypeCorrect == Spec => []TypeOK
  BY TypeInit, TypeStep, PTL DEF Spec

-----------------------------------------------------------------------------
SingleReloader ==
  /\ \A s, t \in Reloaders : s = t
  /\ EarlySignals = FALSE

(* Who may be where. *)
RoleInv ==
  \A t \in Threads :
    /\ pc[t] \in BootPCs => t = Main
    /\ pc[t] \in QueryPCs => t \in Readers
    /\ pc[t] \in ReloadPCs => t \in Reloaders

(* The rwlock: its holders are where they say, and they exclude each other. *)
LockInv ==
  /\ \A t \in Threads : pc[t] = "search" <=> t \in readers
  /\ \A t \in Threads : pc[t] \in {"switch", "switchTrie", "unlock"} <=> t = writer
  /\ readers # {} => writer = Null

(* Until Init_Index is done nobody but the main thread does anything. *)
BootInv ==
  up = "up" /\ ~ Booted =>
    /\ \A t \in Threads : t # Main => pc[t] = "idle"
    /\ pc[Main] = "boot" => g_mem = Null
    /\ pc[Main] = "bootAssign" =>
         /\ g_mem = new[Main] /\ new[Main] \in Addrs
         /\ mapped[new[Main]] # Free

(* The index being served is mapped and valid, and g_index is one index    *)
(* except in the middle of its assignment.                                 *)
LiveInv ==
  up = "up" /\ Booted =>
    /\ g_trie \in Addrs /\ mapped[g_trie] \in Contents
    /\ g_mem # g_trie => \E t \in Reloaders : pc[t] = "switchTrie"

(* What the reload under way knows: before the switch prev_index is the    *)
(* index being served, after it the new index is; they never share an      *)
(* address, and both are mapped for as long as they are needed.            *)
BeforeSwitch == {"check", "claim", "open", "assign", "fail", "wrlock", "switch"}
ReloadInv ==
  \A t \in Reloaders :
    /\ pc[t] \in BeforeSwitch => prev[t] = g_mem /\ g_mem = g_trie
    /\ pc[t] \in {"assign", "wrlock", "switch"} =>
         new[t] \in Addrs /\ new[t] # prev[t] /\ mapped[new[t]] # Free
    /\ pc[t] \in {"wrlock", "switch", "switchTrie"} =>
         new[t] \in Addrs /\ mapped[new[t]] \in Contents
    /\ pc[t] = "switchTrie" => g_mem = new[t] /\ g_trie = prev[t]
    /\ pc[t] \in {"unlock", "release", "reset"} =>
         g_mem = new[t] /\ g_trie = new[t]
    /\ pc[t] \in {"switchTrie", "unlock", "release"} =>
         prev[t] \in Addrs /\ prev[t] # new[t] /\ mapped[prev[t]] # Free

(* Inductive: TypeOK, RoleInv and LockInv say who is where; the others say *)
(* what that means for the mappings.                                       *)
IInv ==
  /\ TypeOK /\ RoleInv /\ LockInv /\ BootInv /\ LiveInv /\ ReloadInv
  /\ NeverCrashes

LEMMA IInvInit == Init => IInv
<1> SUFFICES ASSUME Init PROVE IInv
  OBVIOUS
<1> USE ThreadsAssumption, DataAssumption DEF Init
<1>1. TypeOK
  BY TypeInit
<1>2. RoleInv /\ LockInv /\ NeverCrashes
  BY DEF RoleInv, LockInv, NeverCrashes, Threads, Readers, BootPCs, QueryPCs,
         ReloadPCs
<1>3. BootInv /\ LiveInv /\ ReloadInv
  BY DEF BootInv, LiveInv, ReloadInv, BeforeSwitch, Booted, Threads, BootPCs
<1> QED
  BY <1>1, <1>2, <1>3 DEF IInv

LEMMA IInvStep == SingleReloader /\ IInv /\ [Next]_vars => IInv'
<1> SUFFICES ASSUME SingleReloader, IInv, [Next]_vars PROVE IInv'
  OBVIOUS
<1> USE ThreadsAssumption, DataAssumption
<1>0. TypeOK'
  BY TypeStep DEF IInv
<1> DEFINE Rest == /\ RoleInv' /\ LockInv' /\ BootInv' /\ LiveInv'
                   /\ ReloadInv' /\ NeverCrashes'
<1>a. Threads = Workers \cup {Main, Sig} /\ Readers = Workers \cup {Main}
        /\ Reloaders \subseteq Threads /\ Readers \subseteq Threads
  BY DEF Threads, Readers
<1> HIDE DEF Rest
<1> USE <1>a DEF Go, index, rwlock, flags, reloadLocals, queryLocals, IInv,
        TypeOK, RoleInv, LockInv, BootInv, LiveInv, ReloadInv, BeforeSwitch,
        NeverCrashes, Booted, BootPCs, QueryPCs, ReloadPCs, Rest
<1>1. ASSUME NEW a \in Addrs, NEW c \in Contents \cup {Bad}, BootMap(a, c)
      PROVE  Rest
  BY <1>1 DEF BootMap, MmapFile
<1>2. ASSUME BootAssign PROVE Rest
  BY <1>2 DEF BootAssign
<1>3. ASSUME BootFail PROVE Rest
  BY <1>3 DEF BootFail
<1>4. ASSUME NEW t \in Readers, NEW n \in 0 .. MaxLetters, Get(t, n)
      PROVE  Rest
  BY <1>4 DEF Get
<1>5. ASSUME NEW t \in Readers, RdLock(t)
      PROVE  Rest
  BY <1>5 DEF RdLock
<1>6. ASSUME NEW t \in Readers, GetChildren(t)
      PROVE  Rest
  BY <1>6 DEF GetChildren
<1>7. ASSUME NEW t \in Readers, RdUnlock(t)
      PROVE  Rest
  BY <1>7 DEF RdUnlock
<1>8. ASSUME NEW t \in Readers, Reply(t)
      PROVE  Rest
  BY <1>8 DEF Reply
<1>9. ASSUME NEW t \in Reloaders, ReloadCall(t)
      PROVE  Rest
  BY <1>9 DEF ReloadCall, SingleReloader
<1>10. ASSUME NEW t \in Reloaders, ReloadCheck(t)
      PROVE  Rest
  BY <1>10 DEF ReloadCheck
<1>11. ASSUME NEW t \in Reloaders, ReloadClaim(t)
      PROVE  Rest
  BY <1>11 DEF ReloadClaim
<1>12. ASSUME NEW t \in Reloaders, NEW a \in Addrs,
              NEW c \in Contents \cup {Bad}, ReloadMap(t, a, c)
      PROVE  Rest
  BY <1>12 DEF ReloadMap, MmapFile, SingleReloader
<1>13. ASSUME NEW t \in Reloaders, ReloadMapFails(t)
      PROVE  Rest
  BY <1>13 DEF ReloadMapFails
<1>14. ASSUME NEW t \in Reloaders, ReloadAssign(t)
      PROVE  Rest
  BY <1>14 DEF ReloadAssign, Munmap, SingleReloader
<1>15. ASSUME NEW t \in Reloaders, ReloadFails(t)
      PROVE  Rest
  BY <1>15 DEF ReloadFails
<1>16. ASSUME NEW t \in Reloaders, WrLock(t)
      PROVE  Rest
  BY <1>16 DEF WrLock
<1>17. ASSUME NEW t \in Reloaders, SwitchMem(t)
      PROVE  Rest
  BY <1>17 DEF SwitchMem, SingleReloader
<1>18. ASSUME NEW t \in Reloaders, SwitchTrie(t)
      PROVE  Rest
  BY <1>18 DEF SwitchTrie, SingleReloader
<1>19. ASSUME NEW t \in Reloaders, WrUnlock(t)
      PROVE  Rest
  BY <1>19 DEF WrUnlock
<1>20. ASSUME NEW t \in Reloaders, ReleasePrev(t)
      PROVE  Rest
  BY <1>20 DEF ReleasePrev, Munmap, SingleReloader
<1>21. ASSUME NEW t \in Reloaders, ReloadReset(t)
      PROVE  Rest
  BY <1>21 DEF ReloadReset
<1>22. ASSUME Exiting PROVE Rest
  BY <1>22 DEF Exiting, SingleReloader
<1>23. ASSUME Exit PROVE Rest
  BY <1>23 DEF Exit
<1>24. ASSUME Terminated \/ UNCHANGED vars PROVE Rest
  BY <1>24 DEF Terminated, vars
<1> QED
  BY <1>0, <1>1, <1>2, <1>3, <1>4, <1>5, <1>6, <1>7, <1>8, <1>9, <1>10, <1>11,
     <1>12, <1>13, <1>14, <1>15, <1>16, <1>17, <1>18, <1>19, <1>20, <1>21,
     <1>22, <1>23, <1>24
     DEF Next, Boot, QueryStep, ReloadStep

LEMMA Invariance == SingleReloader => (Spec => []IInv)
<1> SUFFICES ASSUME SingleReloader PROVE Spec => []IInv
  OBVIOUS
<1>1. IInv /\ [Next]_vars => IInv'
  BY IInvStep
<1> QED
  BY IInvInit, <1>1, PTL DEF Spec

(* With a single reloader no query ever reads an index that was unmapped.  *)
THEOREM QueriesAreSafe == SingleReloader => (Spec => []NeverCrashes)
<1>1. IInv => NeverCrashes
  BY DEF IInv
<1> QED
  BY Invariance, <1>1, PTL

(* The index being served is always mapped and valid: a failed or a        *)
(* half-done reload never takes the service away.                          *)
THEOREM ServiceIsKept == SingleReloader => (Spec => []LiveIndexMapped)
<1>1. IInv => LiveIndexMapped
  BY DEF IInv, LiveInv, LiveIndexMapped
<1> QED
  BY Invariance, <1>1, PTL

(* Reload_index releases the old index, once, and never the one in use. *)
THEOREM ReleasesTheOldIndex == SingleReloader => (Spec => []OldIndexReleased)
<1>1. IInv => OldIndexReleased
  BY DEF IInv, ReloadInv, OldIndexReleased
<1> QED
  BY Invariance, <1>1, PTL

(* When a reload reports success, the index it has read is the one served. *)
THEOREM ReportsTheTruth == SingleReloader => (Spec => []ReportedIndexIsLive)
<1>1. IInv => ReportedIndexIsLive
  BY DEF IInv, ReloadInv, ReportedIndexIsLive
<1> QED
  BY Invariance, <1>1, PTL

-----------------------------------------------------------------------------
(* NoLeak is inductive relative to IInv: every step that maps an address   *)
(* gives it an owner, every step that drops an owner has unmapped it or    *)
(* handed it on.                                                           *)
LEMMA NoLeakStep ==
  SingleReloader /\ IInv /\ NoLeak /\ [Next]_vars => NoLeak'
<1> SUFFICES ASSUME SingleReloader, IInv, NoLeak, [Next]_vars PROVE NoLeak'
  OBVIOUS
<1> USE ThreadsAssumption, DataAssumption DEF Go, index, rwlock, flags,
        reloadLocals, queryLocals, NoLeak, Owned
<1>a. TypeOK /\ Reloaders \subseteq Threads /\ Readers \subseteq Threads
        /\ Main \in Threads
  BY ThreadsAssumption DEF IInv, Threads, Readers
<1> USE <1>a DEF TypeOK
<1>1. ASSUME NEW a \in Addrs, NEW c \in Contents \cup {Bad}, BootMap(a, c)
      PROVE  NoLeak'
  BY <1>1 DEF BootMap, MmapFile, IInv, BootInv, Booted, BootPCs
<1>2. ASSUME BootAssign PROVE NoLeak'
  BY <1>2 DEF BootAssign
<1>3. ASSUME BootFail \/ Exit PROVE NoLeak'
  BY <1>3 DEF BootFail, Exit
<1>4. ASSUME NEW t \in Readers, NEW n \in 0 .. MaxLetters, Get(t, n)
      PROVE  NoLeak'
  BY <1>4 DEF Get
<1>5. ASSUME NEW t \in Readers, QueryStep(t)
      PROVE  NoLeak'
  BY <1>5 DEF QueryStep, RdLock, GetChildren, RdUnlock, Reply
<1>6. ASSUME NEW t \in Reloaders, ReloadCall(t)
      PROVE  NoLeak'
  BY <1>6 DEF ReloadCall
<1>7. ASSUME NEW t \in Reloaders, ReloadStep(t)
      PROVE  NoLeak'
  <2>1. CASE ReloadCheck(t) \/ ReloadClaim(t) \/ ReloadMapFails(t)
               \/ ReloadFails(t) \/ ReloadReset(t)
    BY <2>1 DEF ReloadCheck, ReloadClaim, ReloadMapFails, ReloadFails,
       ReloadReset
  <2>2. ASSUME NEW a \in Addrs, NEW c \in Contents \cup {Bad},
               ReloadMap(t, a, c)
        PROVE  NoLeak'
    BY <2>2 DEF ReloadMap, MmapFile, SingleReloader
  <2>3. CASE ReloadAssign(t)
    BY <2>3 DEF ReloadAssign, Munmap, SingleReloader
  <2>4. CASE WrLock(t) \/ WrUnlock(t) \/ SwitchTrie(t)
    BY <2>4 DEF WrLock, WrUnlock, SwitchTrie
  <2>5. CASE SwitchMem(t)
    BY <2>5 DEF SwitchMem, SingleReloader, IInv, ReloadInv, BeforeSwitch
  <2>6. CASE ReleasePrev(t)
    BY <2>6 DEF ReleasePrev, Munmap, SingleReloader
  <2> QED
    BY <1>7, <2>1, <2>2, <2>3, <2>4, <2>5, <2>6 DEF ReloadStep
<1>8. ASSUME Exiting PROVE NoLeak'
  BY <1>8 DEF Exiting
<1>9. ASSUME Terminated \/ UNCHANGED vars PROVE NoLeak'
  BY <1>9 DEF Terminated, vars
<1> QED
  BY <1>1, <1>2, <1>3, <1>4, <1>5, <1>6, <1>7, <1>8, <1>9 DEF Next, Boot

(* With a single reloader no mapping is ever lost. *)
THEOREM NothingLeaks == SingleReloader => (Spec => []NoLeak)
<1> SUFFICES ASSUME SingleReloader PROVE Spec => []NoLeak
  OBVIOUS
<1>1. Init => NoLeak
  BY DEF Init, NoLeak
<1>2. IInv /\ NoLeak /\ [Next]_vars => NoLeak'
  BY NoLeakStep
<1>3. Spec => []IInv
  BY Invariance
<1> QED
  BY <1>1, <1>2, <1>3, PTL DEF Spec

-----------------------------------------------------------------------------
(* While a query walks the index, no step of any thread changes g_index or *)
(* the memory its trie lies in.                                            *)
THEOREM NothingMovesUnderAQuery ==
  SingleReloader => (Spec => ServedIndexIsStable)
<1> SUFFICES ASSUME SingleReloader PROVE Spec => ServedIndexIsStable
  OBVIOUS
<1>1. IInv /\ [Next]_vars => [QueryUndisturbed]_vars
  <2> SUFFICES ASSUME IInv, Next, NEW r \in Readers, pc[r] = "search",
                      pc'[r] = "search", up' = "up"
               PROVE  g_mem = g_trie /\ UNCHANGED <<g_mem, g_trie, mapped[g_trie]>>
    BY DEF QueryUndisturbed
  <2> USE ThreadsAssumption, DataAssumption DEF Go, index
  <2>1. TypeOK /\ Readers \subseteq Threads /\ Reloaders \subseteq Threads
          /\ Main \in Threads
    BY DEF IInv, Threads, Readers
  <2>2. up = "up"
    BY DEF Next, Boot, BootMap, BootAssign, BootFail, QueryStep, Get, RdLock,
       GetChildren, RdUnlock, Reply, ReloadStep, ReloadCall, ReloadCheck,
       ReloadClaim, ReloadMap, ReloadMapFails, ReloadAssign, ReloadFails,
       WrLock, SwitchMem, SwitchTrie, WrUnlock, ReleasePrev, ReloadReset,
       Exiting, Exit, Terminated, vars
  <2>3. Booted /\ pc[Main] \notin {"boot", "bootAssign"}
    BY <2>1, <2>2 DEF IInv, BootInv, Booted, BootPCs
  <2>4. \A t \in Threads : pc[t] \notin {"switch", "switchTrie", "unlock"}
    BY <2>1 DEF IInv, LockInv, TypeOK
  <2>5. g_trie \in Addrs /\ mapped[g_trie] \in Contents /\ g_mem = g_trie
    BY <2>1, <2>2, <2>3, <2>4 DEF IInv, LiveInv
  <2>6. UNCHANGED <<g_mem, g_trie>>
    BY <2>1, <2>3, <2>4 DEF Next, Boot, BootMap, BootAssign, BootFail,
       QueryStep, Get, RdLock, GetChildren, RdUnlock, Reply, ReloadStep,
       ReloadCall, ReloadCheck, ReloadClaim, ReloadMap, ReloadMapFails,
       ReloadAssign, ReloadFails, WrLock, SwitchMem, SwitchTrie, WrUnlock,
       ReleasePrev, ReloadReset, Exiting, Exit, Terminated, vars
  <2>7. mapped'[g_trie] = mapped[g_trie]
    <3>1. \A t \in Reloaders :
            /\ pc[t] = "assign" => new[t] # g_trie
            /\ pc[t] = "release" => prev[t] # g_trie
      BY DEF IInv, ReloadInv, BeforeSwitch
    <3> QED
      BY <2>1, <2>3, <2>5, <3>1 DEF TypeOK, MmapFile, Munmap, Next, Boot,
         BootMap, BootAssign, BootFail, QueryStep, Get, RdLock, GetChildren,
         RdUnlock, Reply, ReloadStep, ReloadCall, ReloadCheck, ReloadClaim,
         ReloadMap, ReloadMapFails, ReloadAssign, ReloadFails, WrLock,
         SwitchMem, SwitchTrie, WrUnlock, ReleasePrev, ReloadReset, Exiting,
         Exit, Terminated, vars
  <2> QED
    BY <2>5, <2>6, <2>7
<1> QED
  BY <1>1, Invariance, PTL DEF Spec, ServedIndexIsStable

-----------------------------------------------------------------------------
(* The refinement of AtomicIndex.  What a caller of the index layer sees:   *)
Current == IF Booted /\ g_trie \in Addrs THEN mapped[g_trie] ELSE "none"
Stage(r) == CASE pc[r] = "reply" \/ found[r] # {} -> "answered"
              [] pc[r] \in {"rdlock", "search"} /\ found[r] = {} -> "pending"
              [] OTHER -> "none"
Request == [r \in Readers |-> Stage(r)]
Answers == [r \in Readers |-> found[r]]
SeenUnchanged == Current' = Current /\ Request' = Request /\ Answers' = Answers

(* Until Init_Index is done there is no trie; a thread holds results only   *)
(* between its first look-up and its return, all of them from the index     *)
(* being served as long as it searches; and it does not unlock without one. *)
QueryInv ==
  /\ ~ Booted => g_trie = Null
  /\ \A r \in Readers :
       /\ pc[r] \notin {"search", "reply"} => found[r] = {}
       /\ pc[r] = "rdlock" => left[r] > 0
       /\ pc[r] = "search" =>
            \/ found[r] = {} /\ left[r] > 0
            \/ g_trie \in Addrs /\ found[r] = {mapped[g_trie]}

LEMMA QueryInvStep ==
  SingleReloader /\ IInv /\ QueryInv /\ [Next]_vars => QueryInv'
<1> SUFFICES ASSUME SingleReloader, IInv, QueryInv, [Next]_vars
             PROVE  QueryInv'
  OBVIOUS
<1> USE ThreadsAssumption, DataAssumption
<1>a. Threads = Workers \cup {Main, Sig} /\ Readers = Workers \cup {Main}
        /\ Reloaders \subseteq Threads /\ Readers \subseteq Threads
  BY DEF Threads, Readers
<1>b. TypeOK /\ RoleInv /\ LockInv /\ BootInv /\ LiveInv /\ ReloadInv
  BY DEF IInv
<1> USE <1>a, <1>b DEF Go, index, rwlock, flags, reloadLocals, queryLocals,
        TypeOK, Booted, BootPCs, QueryInv
<1>1. ASSUME NEW a \in Addrs, NEW c \in Contents \cup {Bad}, BootMap(a, c)
      PROVE  QueryInv'
  BY <1>1 DEF BootMap, MmapFile
<1>2. ASSUME BootAssign PROVE QueryInv'
  BY <1>2 DEF BootAssign, BootInv
<1>3. ASSUME BootFail PROVE QueryInv'
  BY <1>3 DEF BootFail
<1>4. ASSUME NEW t \in Readers, NEW n \in 0 .. MaxLetters, Get(t, n)
      PROVE  QueryInv'
  BY <1>4 DEF Get
<1>5. ASSUME NEW t \in Readers, RdLock(t)
      PROVE  QueryInv'
  BY <1>5 DEF RdLock
<1>6. ASSUME NEW t \in Readers, GetChildren(t)
      PROVE  QueryInv'
  BY <1>6 DEF GetChildren, LiveInv, BootInv
<1>7. ASSUME NEW t \in Readers, RdUnlock(t)
      PROVE  QueryInv'
  BY <1>7 DEF RdUnlock
<1>8. ASSUME NEW t \in Readers, Reply(t)
      PROVE  QueryInv'
  BY <1>8 DEF Reply
<1>9. ASSUME NEW t \in Reloaders, ReloadCall(t)
      PROVE  QueryInv'
  BY <1>9 DEF ReloadCall
<1>10. ASSUME NEW t \in Reloaders, ReloadCheck(t)
      PROVE  QueryInv'
  BY <1>10 DEF ReloadCheck
<1>11. ASSUME NEW t \in Reloaders, ReloadClaim(t)
      PROVE  QueryInv'
  BY <1>11 DEF ReloadClaim
<1>12. ASSUME NEW t \in Reloaders, NEW a \in Addrs,
              NEW c \in Contents \cup {Bad}, ReloadMap(t, a, c)
      PROVE  QueryInv'
  BY <1>12 DEF ReloadMap, MmapFile, LiveInv, BootInv
<1>13. ASSUME NEW t \in Reloaders, ReloadMapFails(t)
      PROVE  QueryInv'
  BY <1>13 DEF ReloadMapFails
<1>14. ASSUME NEW t \in Reloaders, ReloadAssign(t)
      PROVE  QueryInv'
  BY <1>14 DEF ReloadAssign, Munmap, ReloadInv, BeforeSwitch
<1>15. ASSUME NEW t \in Reloaders, ReloadFails(t)
      PROVE  QueryInv'
  BY <1>15 DEF ReloadFails
<1>16. ASSUME NEW t \in Reloaders, WrLock(t)
      PROVE  QueryInv'
  BY <1>16 DEF WrLock
<1>17. ASSUME NEW t \in Reloaders, SwitchMem(t)
      PROVE  QueryInv'
  BY <1>17 DEF SwitchMem
<1>18. ASSUME NEW t \in Reloaders, SwitchTrie(t)
      PROVE  QueryInv'
  BY <1>18 DEF SwitchTrie, LockInv, BootInv
<1>19. ASSUME NEW t \in Reloaders, WrUnlock(t)
      PROVE  QueryInv'
  BY <1>19 DEF WrUnlock
<1>20. ASSUME NEW t \in Reloaders, ReleasePrev(t)
      PROVE  QueryInv'
  BY <1>20 DEF ReleasePrev, Munmap, ReloadInv
<1>21. ASSUME NEW t \in Reloaders, ReloadReset(t)
      PROVE  QueryInv'
  BY <1>21 DEF ReloadReset
<1>22. ASSUME Exiting PROVE QueryInv'
  BY <1>22 DEF Exiting
<1>23. ASSUME Exit PROVE QueryInv'
  BY <1>23 DEF Exit
<1>24. ASSUME Terminated \/ UNCHANGED vars PROVE QueryInv'
  BY <1>24 DEF Terminated, vars
<1> QED
  BY <1>1, <1>2, <1>3, <1>4, <1>5, <1>6, <1>7, <1>8, <1>9, <1>10, <1>11,
     <1>12, <1>13, <1>14, <1>15, <1>16, <1>17, <1>18, <1>19, <1>20, <1>21,
     <1>22, <1>23, <1>24
     DEF Next, Boot, QueryStep, ReloadStep

(* The steps AtomicIndex allows, in terms of what the callers see. *)
PublishSeen ==
  /\ \E c \in Contents : Current' = c
  /\ Request' = Request /\ Answers' = Answers
AskSeen(r) ==
  /\ Current # "none" /\ Request[r] = "none"
  /\ Request' = [Request EXCEPT ![r] = "pending"]
  /\ Current' = Current /\ Answers' = Answers
AnswerSeen(r) ==
  /\ Request[r] = "pending"
  /\ Request' = [Request EXCEPT ![r] = "answered"]
  /\ Answers' = [Answers EXCEPT ![r] = {Current}]
  /\ Current' = Current
RefuseSeen(r) ==
  /\ Current # "none" /\ Request[r] = "none"
  /\ Request' = [Request EXCEPT ![r] = "answered"]
  /\ Current' = Current /\ Answers' = Answers
ReturnSeen(r) ==
  /\ Request[r] = "answered"
  /\ Request' = [Request EXCEPT ![r] = "none"]
  /\ Answers' = [Answers EXCEPT ![r] = {}]
  /\ Current' = Current
StepSeen ==
  \/ SeenUnchanged \/ PublishSeen
  \/ \E r \in Readers :
       AskSeen(r) \/ AnswerSeen(r) \/ RefuseSeen(r) \/ ReturnSeen(r)

(* A step that moves no reader from one stage to another, and neither the   *)
(* trie of g_index nor the memory it lies in, is not seen.                  *)
LEMMA NothingSeen ==
  ASSUME Current' = Current, found' = found,
         \A r \in Readers : Stage(r)' = Stage(r)
  PROVE  StepSeen
  BY DEF StepSeen, SeenUnchanged, Request, Answers

(* Every step of the index layer is one of them.  Only the step that puts   *)
(* the new trie into g_index publishes; of a query's look-ups only the      *)
(* first one answers.                                                       *)
LEMMA EveryStepIsAllowed ==
  SingleReloader /\ IInv /\ QueryInv /\ [Next]_vars => StepSeen
<1> SUFFICES ASSUME SingleReloader, IInv, QueryInv, [Next]_vars
             PROVE  StepSeen
  OBVIOUS
<1> USE ThreadsAssumption, DataAssumption
<1>a. Threads = Workers \cup {Main, Sig} /\ Readers = Workers \cup {Main}
        /\ Reloaders \subseteq Threads /\ Readers \subseteq Threads
  BY DEF Threads, Readers
<1>b. TypeOK /\ RoleInv /\ LockInv /\ BootInv /\ LiveInv /\ ReloadInv
  BY DEF IInv
<1>c. up = "up" /\ Booted => Current \in Contents /\ Current # "none"
  BY <1>b DEF LiveInv, Current
<1> USE <1>a, <1>b DEF Go, index, rwlock, flags, reloadLocals, queryLocals,
        TypeOK
<1> DEFINE Quiet == /\ Current' = Current /\ found' = found
                    /\ \A r \in Readers : Stage(r)' = Stage(r)
<1>q. Quiet => StepSeen
  BY NothingSeen
<1> HIDE DEF Quiet
<1>1. ASSUME NEW a \in Addrs, NEW c \in Contents \cup {Bad}, BootMap(a, c)
      PROVE  Quiet
  BY <1>1 DEF BootMap, Quiet, Current, Stage, Booted, BootPCs
<1>2. ASSUME BootAssign PROVE PublishSeen
  <2>1. Current' = mapped[new[Main]] /\ mapped[new[Main]] \in Contents
    BY <1>2 DEF BootAssign, Current, Booted, BootPCs, BootInv
  <2>2. found' = found /\ \A r \in Readers : Stage(r)' = Stage(r)
    BY <1>2 DEF BootAssign, Stage
  <2> QED
    BY <2>1, <2>2 DEF PublishSeen, Request, Answers
<1>3. ASSUME BootFail PROVE Quiet
  BY <1>3 DEF BootFail, Quiet, Current, Stage, Booted, BootPCs, QueryInv
<1>4. ASSUME NEW t \in Readers, NEW n \in 0 .. MaxLetters, Get(t, n)
      PROVE  AskSeen(t) \/ RefuseSeen(t)
  <2>1. Current' = Current /\ Current # "none" /\ Answers' = Answers
    BY <1>4, <1>c DEF Get, Current, Booted, BootPCs, Answers
  <2>2. found[t] = {} /\ found' = found /\ Stage(t) = "none"
    BY <1>4 DEF Get, QueryInv, Stage
  <2>3. \A r \in Readers : r # t => Stage(r)' = Stage(r)
    BY <1>4 DEF Get, Stage
  <2>4. Stage(t)' = "pending" \/ Stage(t)' = "answered"
    BY <1>4, <2>2 DEF Get, Stage
  <2> QED
    BY <2>1, <2>2, <2>3, <2>4 DEF AskSeen, RefuseSeen, Request
<1>5. ASSUME NEW t \in Readers, RdLock(t)
      PROVE  Quiet
  BY <1>5 DEF RdLock, Quiet, Current, Stage, Booted, BootPCs
<1>6. ASSUME NEW t \in Readers, GetChildren(t)
      PROVE  Quiet \/ AnswerSeen(t)
  <2>1. up = "up" /\ Booted /\ g_trie \in Addrs /\ mapped[g_trie] \in Contents
    BY <1>6 DEF GetChildren, LiveInv, BootInv, Booted, BootPCs
  <2>2. found' = [found EXCEPT ![t] = @ \cup {mapped[g_trie]}]
    BY <1>6, <2>1 DEF GetChildren
  <2>3. Current' = Current /\ Current = mapped[g_trie]
    BY <1>6, <2>1 DEF GetChildren, Current, Booted, BootPCs
  <2>4. \A r \in Readers : r # t => Stage(r)' = Stage(r) /\ found'[r] = found[r]
    BY <1>6, <2>2 DEF GetChildren, Stage
  <2>5. Stage(t)' = "answered" /\ found'[t] = {Current}
    <3>1. found[t] = {} \/ found[t] = {mapped[g_trie]}
      BY <1>6 DEF GetChildren, QueryInv
    <3>2. found'[t] = found[t] \cup {mapped[g_trie]}
      BY <2>2
    <3>3. found'[t] = {Current}
      BY <2>3, <3>1, <3>2
    <3>4. found'[t] # {}
      BY <3>3
    <3> QED
      BY <3>3, <3>4 DEF Stage
  <2>6. CASE found[t] = {}
    <3>1. Stage(t) = "pending"
      BY <1>6, <2>6 DEF GetChildren, Stage
    <3> QED
      BY <2>3, <2>4, <2>5, <3>1 DEF AnswerSeen, Request, Answers
  <2>7. CASE found[t] # {}
    <3>1. Stage(t) = "answered"
      BY <2>7 DEF Stage
    <3>2. found[t] = {Current}
      BY <1>6, <2>3, <2>7 DEF GetChildren, QueryInv
    <3>3. found' = found
      BY <2>2, <2>3, <3>2
    <3> QED
      BY <2>3, <2>4, <2>5, <3>1, <3>3 DEF Quiet
  <2> QED
    BY <2>6, <2>7
<1>7. ASSUME NEW t \in Readers, RdUnlock(t)
      PROVE  Quiet
  <2>1. found' = found /\ Current' = Current
    BY <1>7 DEF RdUnlock, Current, Booted, BootPCs
  <2>2. pc[t] = "search" /\ pc'[t] = "reply" /\ found[t] # {}
    <3>1. pc[t] = "search" /\ pc'[t] = "reply" /\ left[t] = 0
      BY <1>7 DEF RdUnlock
    <3>2. found[t] = {mapped[g_trie]}
      BY <3>1 DEF QueryInv
    <3> QED
      BY <3>1, <3>2
  <2>3. Stage(t) = "answered" /\ Stage(t)' = "answered"
    BY <2>2 DEF Stage
  <2>4. \A r \in Readers : r # t => Stage(r)' = Stage(r)
    BY <1>7 DEF RdUnlock, Stage
  <2> QED
    BY <2>1, <2>3, <2>4 DEF Quiet
<1>8. ASSUME NEW t \in Readers, Reply(t)
      PROVE  ReturnSeen(t)
  <2>1. Current' = Current
    BY <1>8 DEF Reply, Current, Booted, BootPCs
  <2>2. Stage(t) = "answered" /\ Stage(t)' = "none" /\ found'[t] = {}
    BY <1>8 DEF Reply, Stage
  <2>3. \A r \in Readers : r # t => Stage(r)' = Stage(r) /\ found'[r] = found[r]
    BY <1>8 DEF Reply, Stage
  <2> QED
    BY <2>1, <2>2, <2>3 DEF ReturnSeen, Request, Answers
<1>9. ASSUME NEW t \in Reloaders, ReloadCall(t)
      PROVE  Quiet
  BY <1>9 DEF ReloadCall, Quiet, Current, Stage, Booted, BootPCs
<1>10. ASSUME NEW t \in Reloaders, ReloadStep(t), ~ SwitchTrie(t)
       PROVE  Quiet
  <2>1. found' = found /\ g_trie' = g_trie
    BY <1>10 DEF ReloadStep, ReloadCheck, ReloadClaim, ReloadMap,
       ReloadMapFails, ReloadAssign, ReloadFails, WrLock, SwitchMem,
       WrUnlock, ReleasePrev, ReloadReset
  <2>2. pc[t] \in ReloadPCs /\ pc'[t] \in ReloadPCs \cup {"idle"} /\ up = "up"
          /\ \A r \in Threads : r # t => pc'[r] = pc[r]
    BY <1>10 DEF ReloadStep, ReloadCheck, ReloadClaim, ReloadMap,
       ReloadMapFails, ReloadAssign, ReloadFails, WrLock, SwitchMem,
       WrUnlock, ReleasePrev, ReloadReset, ReloadPCs
  <2>3. \A r \in Readers : Stage(r)' = Stage(r)
    BY <2>1, <2>2 DEF Stage, ReloadPCs
  <2>4. Booted /\ Booted'
    BY <2>2 DEF BootInv, Booted, BootPCs, ReloadPCs
  <2>5. g_trie \in Addrs /\ mapped[g_trie] # Free
    BY <2>2, <2>4 DEF LiveInv
  <2>6. mapped'[g_trie] = mapped[g_trie]
    <3>1. /\ pc[t] = "assign" => new[t] # g_trie
          /\ pc[t] = "release" => prev[t] # g_trie
      BY DEF ReloadInv, BeforeSwitch
    <3> QED
      BY <1>10, <2>5, <3>1 DEF MmapFile, Munmap, ReloadStep, ReloadCheck,
         ReloadClaim, ReloadMap, ReloadMapFails, ReloadAssign, ReloadFails,
         WrLock, SwitchMem, WrUnlock, ReleasePrev, ReloadReset
  <2> QED
    BY <2>1, <2>3, <2>4, <2>5, <2>6 DEF Quiet, Current
<1>11. ASSUME NEW t \in Reloaders, SwitchTrie(t)
       PROVE  PublishSeen
  <2>1. Current' = mapped[new[t]] /\ mapped[new[t]] \in Contents
    BY <1>11 DEF SwitchTrie, Current, Booted, BootPCs, BootInv, ReloadInv
  <2>2. found' = found /\ \A r \in Readers : Stage(r)' = Stage(r)
    BY <1>11 DEF SwitchTrie, Stage
  <2> QED
    BY <2>1, <2>2 DEF PublishSeen, Request, Answers
<1>12. ASSUME Exiting \/ Exit PROVE Quiet
  BY <1>12 DEF Exiting, Exit, Quiet, Current, Stage, Booted, BootPCs
<1>13. ASSUME Terminated \/ UNCHANGED vars PROVE Quiet
  BY <1>13 DEF Terminated, vars, Quiet, Current, Stage, Booted
<1>14. (\E r \in Readers : AskSeen(r) \/ AnswerSeen(r) \/ RefuseSeen(r)
                             \/ ReturnSeen(r)) \/ PublishSeen => StepSeen
  BY DEF StepSeen
<1> QED
  BY <1>q, <1>1, <1>2, <1>3, <1>4, <1>5, <1>6, <1>7, <1>8, <1>9, <1>10,
     <1>11, <1>12, <1>13, <1>14 DEF Next, Boot, QueryStep

(* The seen steps are the steps of AtomicIndex. *)
LEMMA SeenIsPromised == StepSeen => [Abstract!Next]_(Abstract!vars)
<1> USE DEF Current, Request, Answers, Stage
<1>1. SeenUnchanged => UNCHANGED Abstract!vars
  BY DEF SeenUnchanged, Abstract!vars
<1>2. PublishSeen => \E c \in Contents : Abstract!Publish(c)
  BY DEF PublishSeen, Abstract!Publish
<1>3. ASSUME NEW r \in Readers
      PROVE  /\ AskSeen(r) => Abstract!Ask(r)
             /\ AnswerSeen(r) => Abstract!Answer(r)
             /\ RefuseSeen(r) => Abstract!Refuse(r)
             /\ ReturnSeen(r) => Abstract!Return(r)
  BY DEF AskSeen, AnswerSeen, RefuseSeen, ReturnSeen, Abstract!Ask,
     Abstract!Answer, Abstract!Refuse, Abstract!Return
<1> QED
  BY <1>1, <1>2, <1>3 DEF StepSeen, Abstract!Next

LEMMA StartsAsPromised == Init => Abstract!Init
  BY ThreadsAssumption, DataAssumption
     DEF Init, Abstract!Init, Booted, BootPCs, Readers, Threads

(* With a single reloader the index layer is atomic: a reload takes effect  *)
(* in one step, and a query is answered from the one index that was being   *)
(* served at its first look-up, never from two and never from a stale one.  *)
THEOREM ReloadsAreAtomic ==
  SingleReloader => (Spec => ImplementsAtomicIndex)
<1> SUFFICES ASSUME SingleReloader PROVE Spec => ImplementsAtomicIndex
  OBVIOUS
<1>1. Init => QueryInv
  BY ThreadsAssumption
     DEF Init, QueryInv, Booted, BootPCs, Readers, Threads
<1>2. IInv /\ QueryInv /\ [Next]_vars => QueryInv'
  BY QueryInvStep
<1>3. IInv /\ QueryInv /\ [Next]_vars => [Abstract!Next]_(Abstract!vars)
  BY EveryStepIsAllowed, SeenIsPromised
<1>4. Spec => []IInv
  BY Invariance
<1> QED
  BY <1>1, <1>2, <1>3, <1>4, StartsAsPromised, PTL
     DEF Spec, ImplementsAtomicIndex, Abstract!Spec
=============================================================================
