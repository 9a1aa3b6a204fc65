------------------------------- MODULE Logger -------------------------------
(***************************************************************************)
(* The logger of server/log.cpp: callers append lines to one of two        *)
(* buffers, a thread writes the buffers to the file in turn.               *)
(*                                                                         *)
(* The buffer to use is buffer_index, which the writer thread flips and    *)
(* the callers read, neither under a lock; a buffer and its wpos are       *)
(* touched under the buffer's lock; fd and nerror under none.  A caller    *)
(* that finds its buffer full writes it out itself.                        *)
(*                                                                         *)
(* A line is <<caller, number>> and has length one.  The descriptors that  *)
(* the logger may be given are 1 .. NumFds; -1 is None.                    *)
(***************************************************************************)
EXTENDS Integers, SequencesExt

CONSTANTS Callers,     \* the threads that log
          MaxLines,    \* bound on the lines of one caller
          BufferSize,  \* max_buffer_size, in lines
          NumFds,      \* descriptors left for the logger
          MaxFaults,   \* bound on failures of the system
          None         \* no thread, or the descriptor -1

ASSUME BufferSizeAssumption == BufferSize \in Nat /\ BufferSize >= 2
ASSUME NumFdsAssumption == NumFds \in Nat
ASSUME MaxLinesAssumption == MaxLines \in Nat
ASSUME NoneAssumption == None \notin Callers /\ None \notin 1 .. NumFds

Writer == "async_write"
ASSUME WriterAssumption == Writer \notin Callers /\ Writer # None

Fds == 1 .. NumFds
Buffers == {0, 1}
Lines == Callers \X (1 .. MaxLines)

VARIABLES
  fd, nerror, buffer_index,  \* of struct logger
  buffer,                    \* buffer[b], of length buffer_wpos[b]
  locks,                     \* the holder of buffer_locks[b]
  opened,                    \* descriptors on which the log file is open
  pc, index, logged,         \* callers: place, index, lines begun
  flushfd,                   \* callers: l->fd as my_write was given it
  wpc, windex,               \* the writer: place, index
  accepted,                  \* history: lines put into buffer b
  out,                       \* what of the file came through buffer b
  lost,                      \* a write did not take all it was given
  faults

shared == <<fd, nerror, buffer_index, buffer, locks, opened>>
callers == <<pc, index, logged, flushfd>>
writer == <<wpc, windex>>
history == <<accepted, out, lost, faults>>
vars == <<shared, callers, writer, history>>

LowestFree(used) == CHOOSE f \in Fds \ used : \A g \in Fds \ used : f <= g

Init ==
  /\ fd = None /\ nerror = 0 /\ buffer_index = 0
  /\ buffer = [b \in Buffers |-> <<>>]
  /\ locks = [b \in Buffers |-> None]
  /\ opened = {}
  /\ pc = [c \in Callers |-> "idle"]
  /\ index = [c \in Callers |-> 0]
  /\ logged = [c \in Callers |-> 0]
  /\ flushfd = [c \in Callers |-> None]
  /\ wpc = "init" /\ windex = 0
  /\ accepted = [b \in Buffers |-> <<>>]
  /\ out = [b \in Buffers |-> <<>>]
  /\ lost = FALSE
  /\ faults = 0

Fault == faults < MaxFaults /\ faults' = faults + 1
NoFault == UNCHANGED faults

-----------------------------------------------------------------------------
(* log_init_file.  When the file cannot be opened or a buffer cannot be    *)
(* had, lines never reach a buffer: the model stays here.  That            *)
(* pthread_create fails is not noticed, its error codes being positive.    *)
LogInit ==
  /\ wpc = "init"
  /\ Fds # {}
  /\ fd' = LowestFree({})
  /\ opened' = {fd'}
  /\ \/ wpc' = "sleep" /\ NoFault
     \/ wpc' = "none" /\ Fault
  /\ UNCHANGED <<nerror, buffer_index, buffer, locks, callers, windex,
                 accepted, out, lost>>

Inited == wpc # "init"

-----------------------------------------------------------------------------
(* my_write of all of buffer b to descriptor f, EINTR being retried; the   *)
(* outcome is what it returns.  write may take less than all: this is      *)
(* success to my_write.                                                    *)
WriteAll(b, f) ==
  /\ f \in opened
  /\ out' = [out EXCEPT ![b] = @ \o buffer[b]]
  /\ NoFault
  /\ UNCHANGED <<lost, nerror>>

WriteShort(b, f) ==
  /\ f \in opened
  /\ \E n \in 1 .. Len(buffer[b]) - 1 :
       out' = [out EXCEPT ![b] = @ \o SubSeq(buffer[b], 1, n)]
  /\ lost' = TRUE
  /\ Fault
  /\ UNCHANGED nerror

WriteFails(b, f) ==
  /\ IF f \in opened THEN Fault ELSE NoFault
  /\ nerror' = 1
  /\ lost' = TRUE
  /\ UNCHANGED out

MyWrite(b, f) == WriteAll(b, f) \/ WriteShort(b, f) \/ WriteFails(b, f)

-----------------------------------------------------------------------------
(* The callers: _log and _log_internal *)

Goto(c, from, to) == pc[c] = from /\ pc' = [pc EXCEPT ![c] = to]

(* _log: nothing is logged without a descriptor. *)
Log(c) ==
  /\ Inited
  /\ fd # None
  /\ logged[c] < MaxLines
  /\ Goto(c, "idle", "index")
  /\ logged' = [logged EXCEPT ![c] = @ + 1]
  /\ UNCHANGED <<shared, index, flushfd, writer, history>>

ReadIndex(c) ==
  /\ Goto(c, "index", "lock")
  /\ index' = [index EXCEPT ![c] = buffer_index]
  /\ UNCHANGED <<shared, logged, flushfd, writer, history>>

(* Mutant: the buffer is used without its lock. *)
LockBufferNot(c) ==
  /\ Goto(c, "lock", "locked")
  /\ UNCHANGED <<shared, index, logged, flushfd, writer, history>>

LockBuffer(c) ==
  /\ Goto(c, "lock", "locked")
  /\ locks[index[c]] = None
  /\ locks' = [locks EXCEPT ![index[c]] = c]
  /\ UNCHANGED <<fd, nerror, buffer_index, buffer, opened,
                 index, logged, flushfd, writer, history>>

Line(c) == <<c, logged[c]>>

AppendLine(c) ==
  LET b == index[c]
  IN /\ Goto(c, "locked", "unlock")
     /\ Len(buffer[b]) + 1 < BufferSize
     /\ buffer' = [buffer EXCEPT ![b] = Append(@, Line(c))]
     /\ accepted' = [accepted EXCEPT ![b] = Append(@, Line(c))]
     /\ UNCHANGED <<fd, nerror, buffer_index, locks, opened,
                    index, logged, flushfd, writer, out, lost, faults>>

(* The buffer is full: l->fd is read for my_write; *)
Full(c) ==
  LET b == index[c]
  IN /\ pc[c] = "locked"
     /\ Len(buffer[b]) + 1 >= BufferSize
     /\ pc' = [pc EXCEPT ![c] = "write"]
     /\ flushfd' = [flushfd EXCEPT ![c] = fd]
     /\ UNCHANGED <<shared, index, logged, writer, history>>

(* the buffer is written; *)
Flush(c) ==
  /\ Goto(c, "write", "restart")
  /\ MyWrite(index[c], flushfd[c])
  /\ flushfd' = [flushfd EXCEPT ![c] = None]
  /\ UNCHANGED <<fd, buffer_index, buffer, locks, opened,
                 index, logged, writer, accepted>>

(* Mutant: wpos is not reset before the line is stored. *)
RestartKeeps(c) ==
  LET b == index[c]
  IN /\ Goto(c, "restart", "unlock")
     /\ buffer' = [buffer EXCEPT ![b] = Append(@, Line(c))]
     /\ accepted' = [accepted EXCEPT ![b] = Append(@, Line(c))]
     /\ UNCHANGED <<fd, nerror, buffer_index, locks, opened,
                    index, logged, flushfd, writer, out, lost, faults>>

(* and it starts again with the line. *)
Restart(c) ==
  LET b == index[c]
  IN /\ Goto(c, "restart", "unlock")
     /\ buffer' = [buffer EXCEPT ![b] = <<Line(c)>>]
     /\ accepted' = [accepted EXCEPT ![b] = Append(@, Line(c))]
     /\ UNCHANGED <<fd, nerror, buffer_index, locks, opened,
                    index, logged, flushfd, writer, out, lost, faults>>

UnlockBuffer(c) ==
  /\ Goto(c, "unlock", "idle")
  /\ locks' = [locks EXCEPT ![index[c]] = None]
  /\ UNCHANGED <<fd, nerror, buffer_index, buffer, opened,
                 index, logged, flushfd, writer, history>>

-----------------------------------------------------------------------------
(* The writer thread: async_write *)

(* After a write error the file is closed *)
CloseAfterError ==
  /\ wpc = "sleep"
  /\ nerror = 1
  /\ opened' = opened \ {fd}
  /\ fd' = None
  /\ wpc' = "reopen"
  /\ UNCHANGED <<nerror, buffer_index, buffer, locks, callers, windex, history>>

(* and opened again, but the descriptor is not stored; nerror stays. *)
Reopen ==
  /\ wpc = "reopen"
  /\ \/ /\ Fds \ opened # {}
        /\ opened' = opened \cup {LowestFree(opened)}
        /\ wpc' = "flip"
        /\ NoFault
     \/ /\ IF Fds \ opened # {} THEN Fault ELSE NoFault
        /\ wpc' = "sleep"
        /\ UNCHANGED opened
  /\ UNCHANGED <<fd, nerror, buffer_index, buffer, locks, callers, windex,
                 accepted, out, lost>>

Awake == wpc = "flip" \/ (wpc = "sleep" /\ nerror = 0)

(* Mutant: the writer takes the same buffer always. *)
FlipNot ==
  /\ Awake
  /\ windex' = 0
  /\ buffer_index' = 1
  /\ wpc' = "lock"
  /\ UNCHANGED <<fd, nerror, buffer, locks, opened, callers, history>>

Flip ==
  /\ Awake
  /\ windex' = buffer_index
  /\ buffer_index' = (buffer_index + 1) % 2
  /\ wpc' = "lock"
  /\ UNCHANGED <<fd, nerror, buffer, locks, opened, callers, history>>

WriterLock ==
  /\ wpc = "lock"
  /\ locks[windex] = None
  /\ locks' = [locks EXCEPT ![windex] = Writer]
  /\ wpc' = IF buffer[windex] = <<>> THEN "reset" ELSE "write"
  /\ UNCHANGED <<fd, nerror, buffer_index, buffer, opened, callers, windex,
                 history>>

WriterWrite ==
  /\ wpc = "write"
  /\ MyWrite(windex, fd)
  /\ wpc' = "reset"
  /\ UNCHANGED <<fd, buffer_index, buffer, locks, opened, callers, windex,
                 accepted>>

(* Mutant: the lines are kept when they could not be written. *)
WriterResetRetries ==
  /\ wpc = "reset"
  /\ buffer' = [buffer EXCEPT ![windex] = IF lost THEN @ ELSE <<>>]
  /\ locks' = [locks EXCEPT ![windex] = None]
  /\ wpc' = "sleep"
  /\ UNCHANGED <<fd, nerror, buffer_index, opened, callers, windex, history>>

WriterReset ==
  /\ wpc = "reset"
  /\ buffer' = [buffer EXCEPT ![windex] = <<>>]
  /\ locks' = [locks EXCEPT ![windex] = None]
  /\ wpc' = "sleep"
  /\ UNCHANGED <<fd, nerror, buffer_index, opened, callers, windex, history>>

-----------------------------------------------------------------------------
CallerNext(c) ==
  \/ ReadIndex(c) \/ LockBuffer(c) \/ AppendLine(c)
  \/ Full(c) \/ Flush(c) \/ Restart(c) \/ UnlockBuffer(c)

WriterNext ==
  \/ CloseAfterError \/ Reopen \/ Flip
  \/ WriterLock \/ WriterWrite \/ WriterReset

Next ==
  \/ LogInit
  \/ \E c \in Callers : Log(c) \/ CallerNext(c)
  \/ WriterNext

Spec == Init /\ [][Next]_vars

(* A call that has begun goes on, and the writer wakes up again and again. *)
(* Who holds a lock gives it up and does something else before it takes it *)
(* again (the writer sleeps for write_interval), so who waits gets it.     *)
LiveSpec ==
  /\ Spec
  /\ \A c \in Callers : WF_vars(CallerNext(c)) /\ SF_vars(LockBuffer(c))
  /\ SF_vars(WriterLock)
  /\ WF_vars(LogInit) /\ WF_vars(WriterNext)

-----------------------------------------------------------------------------
TypeOK ==
  /\ fd \in Fds \cup {None} /\ nerror \in {0, 1}
  /\ buffer_index \in Buffers
  /\ buffer \in [Buffers -> Seq(Lines)]
  /\ locks \in [Buffers -> Callers \cup {Writer, None}]
  /\ opened \subseteq Fds
  /\ pc \in [Callers -> {"idle", "index", "lock", "locked", "write",
                         "restart", "unlock"}]
  /\ index \in [Callers -> Buffers]
  /\ logged \in [Callers -> 0 .. MaxLines]
  /\ flushfd \in [Callers -> Fds \cup {None}]
  /\ wpc \in {"init", "none", "sleep", "reopen", "flip", "lock", "write",
              "reset"}
  /\ windex \in Buffers
  /\ accepted \in [Buffers -> Seq(Lines)]
  /\ out \in [Buffers -> Seq(Lines)]
  /\ lost \in BOOLEAN
  /\ faults \in Nat

(* What a buffer holds that the file does not have yet: nothing between a  *)
(* write of it and the reset of its wpos.                                  *)
Written(b) ==
  \/ wpc = "reset" /\ windex = b
  \/ \E c \in Callers : pc[c] = "restart" /\ index[c] = b

Pending(b) == IF Written(b) THEN <<>> ELSE buffer[b]

(* No line that was put into a buffer is lost, doubled or overtaken in     *)
(* that buffer, whoever writes the buffer out and whenever the index is    *)
(* flipped, as long as no write fails or falls short.                      *)
NothingLost == ~lost => \A b \in Buffers : accepted[b] = out[b] \o Pending(b)

(* Also when writes fail, no line is in the file twice: log.cpp gives a    *)
(* failed buffer up instead of writing it again.                           *)
NeverTwice ==
  \A b \in Buffers : IsInjective(out[b] \o Pending(b))

(* A buffer never holds more than max_buffer_size: log.cpp:385 leaves room *)
(* for the line it adds, also when the writer empties the buffer or        *)
(* another caller fills it between the choice of the buffer and its lock.  *)
WithinBuffer == \A b \in Buffers : Len(buffer[b]) < BufferSize

(* Both hold whatever the system does. *)
BuffersAreSound == NeverTwice /\ WithinBuffer

InFile(l) == \E b \in Buffers : \E i \in DOMAIN out[b] : out[b][i] = l
InBuffer(l) == \E b \in Buffers : \E i \in DOMAIN buffer[b] : buffer[b][i] = l

(* A line in a buffer gets into the file, also one that went into the      *)
(* buffer that the writer had just left, unless a write fails or the       *)
(* writer thread could not be started.                                     *)
LinesAreWritten ==
  \A l \in Lines : InBuffer(l) ~> InFile(l) \/ lost \/ wpc = "none"
=============================================================================
