----------------------------- MODULE ConnQueue -----------------------------
(***************************************************************************)
(* The queue items of server/thread.cpp and the linked lists they are on:  *)
(* one CQ per worker (cq_init, cq_push, cq_pop) and the free list that all *)
(* threads share (cqi_new, cqi_free).  An item has one field "next" for    *)
(* whichever list it is on.  The main thread takes an item, fills it and   *)
(* pushes it; a worker pops it, uses it and frees it.                      *)
(*                                                                         *)
(* Each critical section of a mutex is one action: the fields it touches   *)
(* are touched under that mutex only, or belong to the thread.             *)
(***************************************************************************)
EXTENDS Naturals, FiniteSets, SequencesExt

CONSTANTS Workers, Sockets,
          PerAlloc,     \* ITEMS_PER_ALLOC
          MaxAllocs,    \* bound on the blocks malloc can give
          None          \* NULL, or no socket

ASSUME PerAllocAssumption == PerAlloc \in Nat /\ PerAlloc >= 2
ASSUME MaxAllocsAssumption == MaxAllocs \in Nat
ASSUME NoneAssumption == None \notin Nat /\ None \notin Sockets

ItemCount == PerAlloc * MaxAllocs
Items == 1 .. ItemCount
Garbage == 0            \* a pointer in memory nobody has written yet
Link == Items \cup {None, Garbage}

VARIABLES
  next,         \* next[i]
  sfd,          \* sfd[i]
  head, tail,   \* head[w], tail[w]: the CQ of worker w
  cqi_freelist,
  allocs,       \* blocks of PerAlloc items allocated so far
  mpc, item,    \* the main thread: where it is, the item it holds
  wpc, witem    \* the workers: likewise

lists == <<next, head, tail, cqi_freelist>>
vars == <<lists, sfd, allocs, mpc, item, wpc, witem>>

(* cq_init for every worker; cqi_freelist = NULL *)
Init ==
  /\ next = [i \in Items |-> Garbage]
  /\ sfd = [i \in Items |-> None]
  /\ head = [w \in Workers |-> None]
  /\ tail = [w \in Workers |-> None]
  /\ cqi_freelist = None
  /\ allocs = 0
  /\ mpc = "idle" /\ item = None
  /\ wpc = [w \in Workers |-> "idle"]
  /\ witem = [w \in Workers |-> None]

-----------------------------------------------------------------------------
(* The main thread: dispatch_conn_new *)

(* cqi_new, first critical section: an item from the free list if any. *)
CqiNewPop ==
  /\ mpc = "idle"
  /\ \/ /\ cqi_freelist # None
        /\ item' = cqi_freelist
        /\ cqi_freelist' = next[cqi_freelist]
        /\ mpc' = "fill"
     \/ /\ cqi_freelist = None
        /\ allocs < MaxAllocs
        /\ mpc' = "alloc"
        /\ UNCHANGED <<item, cqi_freelist>>
  /\ UNCHANGED <<next, head, tail, sfd, allocs, wpc, witem>>

(* malloc of a block; its items but the first are chained to each other. *)
CqiNewAlloc ==
  /\ mpc = "alloc"
  /\ LET first == allocs * PerAlloc + 1
         last  == allocs * PerAlloc + PerAlloc
     IN /\ item' = first
        /\ next' = [i \in Items |->
                      IF i \in first + 1 .. last - 1 THEN i + 1 ELSE next[i]]
  /\ allocs' = allocs + 1
  /\ mpc' = "link"
  /\ UNCHANGED <<head, tail, cqi_freelist, sfd, wpc, witem>>

(* Mutant: the chain replaces the free list. *)
CqiNewLinkReplaces ==
  /\ mpc = "link"
  /\ next' = [next EXCEPT ![item + PerAlloc - 1] = None]
  /\ cqi_freelist' = item + 1
  /\ mpc' = "fill"
  /\ UNCHANGED <<head, tail, sfd, allocs, item, wpc, witem>>

(* cqi_new, second critical section: the chain goes in front of whatever   *)
(* the workers have freed in the meantime.                                 *)
CqiNewLink ==
  /\ mpc = "link"
  /\ next' = [next EXCEPT ![item + PerAlloc - 1] = cqi_freelist]
  /\ cqi_freelist' = item + 1
  /\ mpc' = "fill"
  /\ UNCHANGED <<head, tail, sfd, allocs, item, wpc, witem>>

Fill(s) ==
  /\ mpc = "fill"
  /\ sfd' = [sfd EXCEPT ![item] = s]
  /\ mpc' = "push"
  /\ UNCHANGED <<lists, allocs, item, wpc, witem>>

(* Mutant: the item is put in front. *)
CqPushFront(w) ==
  /\ mpc = "push"
  /\ next' = [next EXCEPT ![item] = head[w]]
  /\ head' = [head EXCEPT ![w] = item]
  /\ tail' = IF tail[w] = None THEN [tail EXCEPT ![w] = item] ELSE tail
  /\ mpc' = "idle" /\ item' = None
  /\ UNCHANGED <<cqi_freelist, sfd, allocs, wpc, witem>>

(* cq_push: item->next = NULL, then cq->tail->next = item *)
CqPush(w) ==
  /\ mpc = "push"
  /\ next' = IF tail[w] = None
               THEN [next EXCEPT ![item] = None]
               ELSE [next EXCEPT ![item] = None, ![tail[w]] = item]
  /\ head' = IF tail[w] = None THEN [head EXCEPT ![w] = item] ELSE head
  /\ tail' = [tail EXCEPT ![w] = item]
  /\ mpc' = "idle" /\ item' = None
  /\ UNCHANGED <<cqi_freelist, sfd, allocs, wpc, witem>>

-----------------------------------------------------------------------------
(* A worker: thread_libevent_process *)

(* Mutant: the tail is not reset with the last item. *)
CqPopKeepsTail(w) ==
  /\ wpc[w] = "idle"
  /\ head[w] # None
  /\ witem' = [witem EXCEPT ![w] = head[w]]
  /\ head' = [head EXCEPT ![w] = next[head[w]]]
  /\ wpc' = [wpc EXCEPT ![w] = "use"]
  /\ UNCHANGED <<next, tail, cqi_freelist, sfd, allocs, mpc, item>>

(* cq_pop *)
CqPop(w) ==
  /\ wpc[w] = "idle"
  /\ head[w] # None
  /\ witem' = [witem EXCEPT ![w] = head[w]]
  /\ head' = [head EXCEPT ![w] = next[head[w]]]
  /\ tail' = IF next[head[w]] = None THEN [tail EXCEPT ![w] = None] ELSE tail
  /\ wpc' = [wpc EXCEPT ![w] = "use"]
  /\ UNCHANGED <<next, cqi_freelist, sfd, allocs, mpc, item>>

(* cqi_free, after conn_new has been given the item's fields *)
CqiFree(w) ==
  /\ wpc[w] = "use"
  /\ next' = [next EXCEPT ![witem[w]] = cqi_freelist]
  /\ cqi_freelist' = witem[w]
  /\ wpc' = [wpc EXCEPT ![w] = "idle"]
  /\ witem' = [witem EXCEPT ![w] = None]
  /\ UNCHANGED <<head, tail, sfd, allocs, mpc, item>>

Next ==
  \/ CqiNewPop \/ CqiNewAlloc \/ CqiNewLink
  \/ \E s \in Sockets : Fill(s)
  \/ \E w \in Workers : CqPush(w) \/ CqPop(w) \/ CqiFree(w)

Spec == Init /\ [][Next]_vars

-----------------------------------------------------------------------------
(* Properties *)

(* The values the variables range over. *)
TypeOK ==
  /\ next \in [Items -> Link]
  /\ sfd \in [Items -> Sockets \cup {None}]
  /\ head \in [Workers -> Link] /\ tail \in [Workers -> Link]
  /\ cqi_freelist \in Link
  /\ allocs \in 0 .. MaxAllocs
  /\ mpc \in {"idle", "alloc", "link", "fill", "push"}
  /\ item \in Items \cup {None}
  /\ wpc \in [Workers -> {"idle", "use"}]
  /\ witem \in [Workers -> Items \cup {None}]

(* The sequences of items a list can be, and that s is the list from p on: *)
(* it ends in NULL, without a cycle and without reaching memory that was   *)
(* never written.                                                          *)
Lists == UNION {[1 .. n -> Items] : n \in 0 .. ItemCount}

IsList(p, s) ==
  /\ p = IF s = << >> THEN None ELSE s[1]
  /\ \A k \in 1 .. Len(s) :
       next[s[k]] = IF k = Len(s) THEN None ELSE s[k + 1]

Terminated(p) == \E s \in Lists : IsList(p, s)

ListFrom(p) == CHOOSE s \in Lists : IsList(p, s)

(* Every list ends in NULL, without a cycle and without reaching memory    *)
(* that was never written, and a queue's tail is its last item: what       *)
(* cq_push relies on when it writes cq->tail->next.                        *)
ListsSound ==
  /\ Terminated(cqi_freelist)
  /\ \A w \in Workers :
       /\ Terminated(head[w])
       /\ tail[w] = IF head[w] = None THEN None ELSE Last(ListFrom(head[w]))

(* The items in the hands of the main thread: while it links a new block,  *)
(* the whole block.                                                        *)
HeldByMain == IF item = None THEN {}
              ELSE IF mpc = "link" THEN item .. item + PerAlloc - 1
              ELSE {item}

(* The places an item can be in, and the items in each of them. *)
Places == ({"free", "main"} \X {None}) \cup ({"queue", "hand"} \X Workers)

At(place) ==
  CASE place[1] = "free"  -> ToSet(ListFrom(cqi_freelist))
    [] place[1] = "main"  -> HeldByMain
    [] place[1] = "queue" -> ToSet(ListFrom(head[place[2]]))
    [] place[1] = "hand"  -> {witem[place[2]]} \ {None}

(* Every item allocated so far is in exactly one place: on the free list,  *)
(* on one queue, or in the hands of one thread; and it is on a list once.  *)
(* None is lost between cqi_new, cq_push, cq_pop and cqi_free, and none is *)
(* in use twice.                                                           *)
ItemsAccounted ==
  /\ IsInjective(ListFrom(cqi_freelist))
  /\ \A w \in Workers : IsInjective(ListFrom(head[w]))
  /\ \A place \in Places : At(place) \subseteq 1 .. allocs * PerAlloc
  /\ \A i \in 1 .. allocs * PerAlloc :
       \E place \in Places :
         i \in At(place) /\ \A other \in Places \ {place} : i \notin At(other)

(* The refinement: the sockets on a worker's list, in list order. *)
Abstract == INSTANCE Handoff WITH
  queue <- [w \in Workers |->
              [k \in 1 .. Len(ListFrom(head[w])) |-> sfd[ListFrom(head[w])[k]]]],
  taken <- [w \in Workers |-> IF witem[w] = None THEN None ELSE sfd[witem[w]]]

(* The linked lists implement the hand-over: each socket reaches the       *)
(* worker it was pushed to, once, in order, with its own descriptor.       *)
ImplementsHandoff == Abstract!Spec
=============================================================================
