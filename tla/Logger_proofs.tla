---------------------------- MODULE Logger_proofs ----------------------------
(***************************************************************************)
(* Proofs about Logger for any callers, buffer sizes and descriptors.      *)
(*                                                                         *)
(* The lines of a buffer that the file has or will have are File(b).  That *)
(* a step leaves File(b) alone, adds one line to it or, when a write went  *)
(* wrong, cuts its end (Evolves) follows from the discipline of the locks: *)
(* whoever is between lock and unlock holds the lock of the buffer it      *)
(* chose, whatever buffer_index says meanwhile.                            *)
(***************************************************************************)
EXTENDS Logger, SequenceTheorems, TLAPS

Lns == Callers \X Nat

(* Types of the variables the argument is about *)
BufferTypes ==
  /\ buffer \in [Buffers -> Seq(Lns)]
  /\ out \in [Buffers -> Seq(Lns)]
  /\ accepted \in [Buffers -> Seq(Lns)]
  /\ locks \in [Buffers -> Callers \cup {Writer, None}]
  /\ pc \in [Callers -> {"idle", "index", "lock", "locked", "write", "restart", "unlock"}]
  /\ index \in [Callers -> Buffers]
  /\ logged \in [Callers -> Nat]
  /\ windex \in Buffers /\ buffer_index \in Buffers

Holding == {"locked", "write", "restart", "unlock"}

(* Whoever is between lock and unlock has the lock. *)
Discipline ==
  /\ \A c \in Callers : pc[c] \in Holding => locks[index[c]] = c
  /\ wpc \in {"write", "reset"} => locks[windex] = Writer

(* A caller with a line that is not in a buffer yet *)
Begun == {"index", "lock", "locked", "write", "restart"}

Old(l) ==
  /\ l[2] <= logged[l[1]]
  /\ pc[l[1]] \in Begun => l[2] < logged[l[1]]

File(b) == out[b] \o Pending(b)

(* No line of it is yet to come, none is missing, none is there twice. *)
DataAt(b) ==
  /\ \A i \in DOMAIN File(b) : Old(File(b)[i])
  /\ ~lost => accepted[b] = File(b)
  /\ IsInjective(File(b))

Sound == BufferTypes /\ Discipline
DataInv == \A b \in Buffers : DataAt(b)

-----------------------------------------------------------------------------
LEMMA InitSound == Init => Sound
  BY DEF Init, Sound, BufferTypes, Discipline, Buffers, Holding

LEMMA WriteKeepsTypes ==
  ASSUME BufferTypes, NEW b \in Buffers, NEW f, MyWrite(b, f)
  PROVE  out' \in [Buffers -> Seq(Lns)]
<1> buffer[b] \in Seq(Lns) /\ out[b] \in Seq(Lns) /\ out \in [Buffers -> Seq(Lns)]
  BY DEF BufferTypes
<1>1. CASE WriteAll(b, f)
  BY <1>1 DEF WriteAll
<1>2. CASE WriteShort(b, f)
  <2>1. PICK n \in 1 .. Len(buffer[b]) - 1 :
          out' = [out EXCEPT ![b] = @ \o SubSeq(buffer[b], 1, n)]
    BY <1>2 DEF WriteShort
  <2>2. SubSeq(buffer[b], 1, n) \in Seq(Lns)
    BY <2>1
  <2>3. out[b] \o SubSeq(buffer[b], 1, n) \in Seq(Lns)
    BY <2>2
  <2> QED
    BY <2>1, <2>3
<1>3. CASE WriteFails(b, f)
  BY <1>3 DEF WriteFails
<1> QED
  BY <1>1, <1>2, <1>3 DEF MyWrite

LEMMA CallersKeepTypes ==
  ASSUME BufferTypes, NEW c \in Callers, Log(c) \/ CallerNext(c)
  PROVE  BufferTypes'
<1> USE DEF BufferTypes, shared, callers, writer, history, Goto
<1>1. CASE Log(c)
  BY <1>1 DEF Log
<1>2. CASE ReadIndex(c)
  BY <1>2 DEF ReadIndex
<1>3. CASE LockBuffer(c)
  BY <1>3 DEF LockBuffer
<1>4. CASE AppendLine(c)
  <2>1. Line(c) \in Lns
    BY DEF Line, Lns
  <2>2. /\ Append(buffer[index[c]], Line(c)) \in Seq(Lns)
        /\ Append(accepted[index[c]], Line(c)) \in Seq(Lns)
    BY <2>1
  <2> QED
    BY <1>4, <2>2 DEF AppendLine
<1>5. CASE Full(c)
  BY <1>5 DEF Full
<1>6. CASE Flush(c)
  <2>1. out' \in [Buffers -> Seq(Lns)]
    BY <1>6, WriteKeepsTypes DEF Flush
  <2> QED
    BY <1>6, <2>1 DEF Flush
<1>7. CASE Restart(c)
  <2>1. Line(c) \in Lns
    BY DEF Line, Lns
  <2>2. /\ <<Line(c)>> \in Seq(Lns)
        /\ Append(accepted[index[c]], Line(c)) \in Seq(Lns)
    BY <2>1
  <2> QED
    BY <1>7, <2>2 DEF Restart
<1>8. CASE UnlockBuffer(c)
  BY <1>8 DEF UnlockBuffer
<1> QED
  BY <1>1, <1>2, <1>3, <1>4, <1>5, <1>6, <1>7, <1>8 DEF CallerNext

LEMMA CallersKeepDiscipline ==
  ASSUME Sound, NEW c \in Callers, Log(c) \/ CallerNext(c)
  PROVE  Discipline'
<1> USE WriterAssumption, NoneAssumption
        DEF Sound, BufferTypes, Discipline, Holding, shared, callers, writer, history, Goto
<1>1. CASE Log(c)
  BY <1>1 DEF Log
<1>2. CASE ReadIndex(c)
  BY <1>2 DEF ReadIndex
<1>3. CASE LockBuffer(c)
  BY <1>3 DEF LockBuffer
<1>4. CASE AppendLine(c)
  BY <1>4 DEF AppendLine
<1>5. CASE Full(c)
  BY <1>5 DEF Full
<1>6. CASE Flush(c)
  BY <1>6 DEF Flush
<1>7. CASE Restart(c)
  BY <1>7 DEF Restart
<1>8. CASE UnlockBuffer(c)
  BY <1>8 DEF UnlockBuffer
<1> QED
  BY <1>1, <1>2, <1>3, <1>4, <1>5, <1>6, <1>7, <1>8 DEF CallerNext

LEMMA WriterKeepsSound ==
  ASSUME Sound, LogInit \/ WriterNext
  PROVE  Sound'
<1> USE WriterAssumption, NoneAssumption
        DEF Sound, BufferTypes, Discipline, Holding, shared, callers, writer, history
<1>1. CASE LogInit
  BY <1>1 DEF LogInit
<1>2. CASE CloseAfterError
  BY <1>2 DEF CloseAfterError
<1>3. CASE Reopen
  BY <1>3 DEF Reopen
<1>4. CASE Flip
  BY <1>4 DEF Flip, Buffers
<1>5. CASE WriterLock
  BY <1>5 DEF WriterLock
<1>6. CASE WriterWrite
  <2>1. out' \in [Buffers -> Seq(Lns)]
    BY <1>6, WriteKeepsTypes DEF WriterWrite
  <2> QED
    BY <1>6, <2>1 DEF WriterWrite
<1>7. CASE WriterReset
  BY <1>7 DEF WriterReset
<1> QED
  BY <1>1, <1>2, <1>3, <1>4, <1>5, <1>6, <1>7 DEF WriterNext

-----------------------------------------------------------------------------
(* What a step does to File(b) *)

IsPrefixOf(s, t) ==
  Len(s) <= Len(t) /\ \A i \in 1 .. Len(s) : s[i] = t[i]

LEMMA FirstOfConcat ==
  ASSUME NEW s \in Seq(Lns), NEW t \in Seq(Lns)
  PROVE  IsPrefixOf(s, s \o t)
  BY DEF IsPrefixOf

LEMMA AppendToConcat ==
  ASSUME NEW s \in Seq(Lns), NEW t \in Seq(Lns), NEW l \in Lns
  PROVE  s \o Append(t, l) = Append(s \o t, l)
  OBVIOUS

LEMMA RestartOfConcat ==
  ASSUME NEW s \in Seq(Lns), NEW l \in Lns
  PROVE  s \o <<l>> = Append(s \o <<>>, l)
  OBVIOUS

LEMMA LessOfConcat ==
  ASSUME NEW s \in Seq(Lns), NEW t \in Seq(Lns), NEW n \in 1 .. Len(t) - 1
  PROVE  IsPrefixOf(s \o SubSeq(t, 1, n), s \o t)
<1> DEFINE u == SubSeq(t, 1, n)
<1>1. u \in Seq(Lns) /\ Len(u) = n /\ \A i \in 1 .. n : u[i] = t[i]
  OBVIOUS
<1> HIDE DEF u
<1>2. Len(s \o u) = Len(s) + n /\ Len(s \o t) = Len(s) + Len(t)
  BY <1>1
<1>3. ASSUME NEW i \in 1 .. Len(s) + n PROVE (s \o u)[i] = (s \o t)[i]
  <2>1. CASE i <= Len(s)
    BY <1>1, <2>1
  <2>2. CASE i > Len(s)
    <3>1. (s \o u)[i] = u[i - Len(s)]
      BY <1>1, <2>2
    <3>2. (s \o t)[i] = t[i - Len(s)]
      BY <2>2
    <3> QED
      BY <1>1, <2>2, <3>1, <3>2
  <2>3. i <= Len(s) \/ i > Len(s)
    OBVIOUS
  <2> QED
    BY <2>1, <2>2, <2>3, Zenon
<1>4. IsPrefixOf(s \o u, s \o t)
  BY <1>2, <1>3 DEF IsPrefixOf
<1> QED
  BY <1>4 DEF u

Kept(b) == File(b)' = File(b) /\ accepted'[b] = accepted[b]

Added(b, c) ==
  /\ File(b)' = Append(File(b), Line(c))
  /\ accepted'[b] = Append(accepted[b], Line(c))
  /\ pc[c] \in Begun /\ pc'[c] \notin Begun /\ logged'[c] = logged[c]

Cut(b) ==
  /\ lost'
  /\ IsPrefixOf(File(b)', File(b))

Evolves(b) == (Kept(b) /\ lost' = lost) \/ Cut(b)
              \/ (lost' = lost /\ \E c \in Callers : Added(b, c))

LEMMA FileTypes ==
  ASSUME BufferTypes, NEW b \in Buffers
  PROVE  Pending(b) \in Seq(Lns) /\ File(b) \in Seq(Lns)
  BY DEF BufferTypes, Pending, File

LEMMA FileTypesAfter ==
  ASSUME BufferTypes', NEW b \in Buffers
  PROVE  File(b)' \in Seq(Lns)
  BY DEF BufferTypes, Pending, File

(* One thread at a time writes a buffer out or resets it. *)
LEMMA OneHolder ==
  ASSUME Sound
  PROVE  /\ \A c, d \in Callers :
              (pc[c] \in Holding /\ pc[d] \in Holding /\ index[c] = index[d]) => c = d
         /\ \A c \in Callers :
              (pc[c] \in Holding /\ wpc \in {"write", "reset"}) => index[c] # windex
  BY WriterAssumption DEF Sound, Discipline

(* A step that does not touch the buffers or the file, and after which the *)
(* same buffers are between write and reset. *)
LEMMA QuietStep ==
  ASSUME UNCHANGED <<buffer, out, accepted, lost>>, NEW b \in Buffers,
         Written(b)' <=> Written(b)
  PROVE  Evolves(b)
  BY DEF Evolves, Kept, File, Pending

LEMMA QuietCaller ==
  ASSUME Sound, NEW c \in Callers,
         Log(c) \/ ReadIndex(c) \/ LockBuffer(c) \/ Full(c) \/ UnlockBuffer(c),
         NEW b \in Buffers
  PROVE  Evolves(b)
<1>1. UNCHANGED <<buffer, out, accepted, lost, wpc, windex>>
  BY DEF Log, ReadIndex, LockBuffer, Full, UnlockBuffer, shared, writer, history
<1>2. /\ pc[c] # "restart" /\ pc'[c] # "restart"
      /\ \A d \in Callers : d # c => pc'[d] = pc[d] /\ index'[d] = index[d]
  BY DEF Log, ReadIndex, LockBuffer, Full, UnlockBuffer, Goto, Sound, BufferTypes
<1>3. Written(b)' <=> Written(b)
  BY <1>1, <1>2 DEF Written
<1> QED
  BY <1>1, <1>3, QuietStep

(* A buffer is written by the one who holds its lock. *)
LEMMA WriteStep ==
  ASSUME BufferTypes, NEW b \in Buffers, NEW f, MyWrite(b, f), UNCHANGED <<buffer, accepted>>,
         ~Written(b), Written(b)',
         \A d \in Buffers \ {b} : Written(d)' <=> Written(d),
         NEW e \in Buffers
  PROVE  Evolves(e)
<1>1. CASE e # b
  <2>1. out'[e] = out[e]
    BY <1>1 DEF MyWrite, WriteAll, WriteShort, WriteFails, BufferTypes
  <2>2. Kept(e)
    BY <1>1, <2>1 DEF Kept, File, Pending
  <2>3. CASE lost' = lost
    BY <2>2, <2>3 DEF Evolves
  <2>4. CASE lost' # lost
    <3>1. lost'
      BY <2>4 DEF MyWrite, WriteAll, WriteShort, WriteFails
    <3> QED
      BY <2>2, <3>1, FileTypes DEF Evolves, Cut, Kept, IsPrefixOf
  <2> QED
    BY <2>3, <2>4
<1>2. CASE e = b
  <2> buffer[b] \in Seq(Lns) /\ out[b] \in Seq(Lns)
    BY DEF BufferTypes
  <2>1. File(b) = out[b] \o buffer[b] /\ Pending(b)' = <<>>
    BY DEF File, Pending
  <2>2. out'[b] \in Seq(Lns)
    BY WriteKeepsTypes
  <2>3. File(b)' = out'[b]
    BY <2>1, <2>2 DEF File
  <2>4. CASE WriteAll(b, f)
    BY <1>2, <2>1, <2>3, <2>4 DEF WriteAll, Evolves, Kept, BufferTypes
  <2>5. CASE WriteShort(b, f)
    <3>1. PICK n \in 1 .. Len(buffer[b]) - 1 :
            out'[b] = out[b] \o SubSeq(buffer[b], 1, n)
      BY <2>5 DEF WriteShort, BufferTypes
    <3>2. IsPrefixOf(out[b] \o SubSeq(buffer[b], 1, n), out[b] \o buffer[b])
      BY LessOfConcat
    <3> QED
      BY <1>2, <2>1, <2>3, <2>5, <3>1, <3>2 DEF Evolves, Cut, WriteShort
  <2>6. CASE WriteFails(b, f)
    <3>1. IsPrefixOf(out[b], out[b] \o buffer[b])
      BY FirstOfConcat
    <3> QED
      BY <1>2, <2>1, <2>3, <2>6, <3>1 DEF Evolves, Cut, WriteFails
  <2> QED
    BY <2>4, <2>5, <2>6 DEF MyWrite
<1> QED
  BY <1>1, <1>2

(* A line goes to the end of a buffer, which is not being written; *)
LEMMA AppendStep ==
  ASSUME Sound, NEW c \in Callers, AppendLine(c), NEW b \in Buffers
  PROVE  Evolves(b)
<1> DEFINE d == index[c]
<1>1. d \in Buffers /\ Line(c) \in Lns
  BY DEF Sound, BufferTypes, Line, Lns
<1>2. /\ pc[c] = "locked" /\ pc' = [pc EXCEPT ![c] = "unlock"]
      /\ UNCHANGED <<index, logged, wpc, windex, out, lost>>
  BY DEF AppendLine, Goto, writer
<1>3. ~Written(d)
  BY <1>2, OneHolder DEF Written, Holding
<1>4. Written(b)' <=> Written(b)
  BY <1>2 DEF Written, Sound, BufferTypes
<1>5. CASE b = d
  <2>1. /\ buffer'[b] = Append(buffer[b], Line(c))
        /\ accepted'[b] = Append(accepted[b], Line(c))
    BY <1>1, <1>5 DEF AppendLine, Sound, BufferTypes
  <2>2. Pending(b) = buffer[b] /\ Pending(b)' = buffer'[b]
    BY <1>3, <1>4, <1>5 DEF Pending
  <2>3. out[b] \in Seq(Lns) /\ buffer[b] \in Seq(Lns)
    BY <1>1, <1>5 DEF Sound, BufferTypes
  <2>4. File(b)' = Append(File(b), Line(c))
    <3>1. out[b] \o Append(buffer[b], Line(c)) = Append(out[b] \o buffer[b], Line(c))
      BY <1>1, <2>3, AppendToConcat
    <3> QED
      BY <1>2, <2>1, <2>2, <3>1 DEF File
  <2>5. pc[c] \in Begun /\ pc'[c] \notin Begun /\ logged'[c] = logged[c]
    BY <1>2 DEF Begun, Sound, BufferTypes
  <2> QED
    BY <1>2, <2>1, <2>4, <2>5 DEF Evolves, Added
<1>6. CASE b # d
  <2>1. buffer'[b] = buffer[b] /\ accepted'[b] = accepted[b]
    BY <1>6 DEF AppendLine, Sound, BufferTypes
  <2>2. Pending(b)' = Pending(b)
    BY <1>4, <2>1 DEF Pending
  <2> QED
    BY <1>2, <2>1, <2>2 DEF Evolves, Kept, File
<1> QED
  BY <1>5, <1>6

(* or is the first of a buffer that has been written. *)
LEMMA RestartStep ==
  ASSUME Sound, NEW c \in Callers, Restart(c), NEW b \in Buffers
  PROVE  Evolves(b)
<1> DEFINE d == index[c]
<1>1. d \in Buffers /\ Line(c) \in Lns
  BY DEF Sound, BufferTypes, Line, Lns
<1>2. /\ pc[c] = "restart" /\ pc' = [pc EXCEPT ![c] = "unlock"]
      /\ UNCHANGED <<index, logged, wpc, windex, out, lost>>
  BY DEF Restart, Goto, writer
<1>3. Written(d) /\ ~Written(d)'
  BY <1>1, <1>2, OneHolder DEF Written, Holding, Sound, BufferTypes
<1>4. b # d => (Written(b)' <=> Written(b))
  BY <1>2 DEF Written, Sound, BufferTypes
<1>5. CASE b = d
  <2>1. /\ buffer'[b] = <<Line(c)>>
        /\ accepted'[b] = Append(accepted[b], Line(c))
    BY <1>1, <1>5 DEF Restart, Sound, BufferTypes
  <2>2. Pending(b) = <<>> /\ Pending(b)' = <<Line(c)>>
    <3>1. Written(b) /\ ~Written(b)'
      BY <1>2, <1>3, <1>5
    <3> QED
      BY <2>1, <3>1 DEF Pending
  <2>3. out[b] \in Seq(Lns)
    BY <1>1, <1>5 DEF Sound, BufferTypes
  <2>4. out[b] \o <<Line(c)>> = Append(out[b] \o <<>>, Line(c))
    BY <1>1, <2>3, RestartOfConcat
  <2>5. File(b)' = Append(File(b), Line(c))
    BY <1>2, <2>2, <2>4 DEF File
  <2>6. pc[c] \in Begun /\ pc'[c] \notin Begun /\ logged'[c] = logged[c]
    BY <1>2 DEF Begun, Sound, BufferTypes
  <2> QED
    BY <1>2, <2>1, <2>5, <2>6 DEF Evolves, Added
<1>6. CASE b # d
  <2>1. buffer'[b] = buffer[b] /\ accepted'[b] = accepted[b]
    BY <1>6 DEF Restart, Sound, BufferTypes
  <2>2. Pending(b)' = Pending(b)
    BY <1>4, <1>6, <2>1 DEF Pending
  <2> QED
    BY <1>2, <2>1, <2>2 DEF Evolves, Kept, File
<1> QED
  BY <1>5, <1>6

LEMMA FlushStep ==
  ASSUME Sound, NEW c \in Callers, Flush(c), NEW b \in Buffers
  PROVE  Evolves(b)
<1> DEFINE d == index[c]
<1>1. d \in Buffers
  BY DEF Sound, BufferTypes
<1>2. /\ pc[c] = "write" /\ pc' = [pc EXCEPT ![c] = "restart"]
      /\ UNCHANGED <<index, wpc, windex, buffer, accepted>>
  BY DEF Flush, Goto, writer
<1>3. ~Written(d)
  BY <1>2, OneHolder DEF Written, Holding
<1>4. Written(d)' /\ \A e \in Buffers \ {d} : Written(e)' <=> Written(e)
  BY <1>2 DEF Written, Sound, BufferTypes
<1>5. MyWrite(d, flushfd[c])
  BY DEF Flush
<1> QED
  BY <1>1, <1>2, <1>3, <1>4, <1>5, WriteStep DEF Sound

LEMMA CallersEvolve ==
  ASSUME Sound, NEW c \in Callers, Log(c) \/ CallerNext(c), NEW b \in Buffers
  PROVE  Evolves(b)
  BY QuietCaller, AppendStep, RestartStep, FlushStep DEF CallerNext

LEMMA WriterEvolves ==
  ASSUME Sound, LogInit \/ WriterNext, NEW b \in Buffers
  PROVE  Evolves(b)
<1>1. CASE LogInit \/ CloseAfterError \/ Reopen \/ Flip
  <2>1. UNCHANGED <<buffer, out, accepted, lost, pc, index>>
    BY <1>1 DEF LogInit, CloseAfterError, Reopen, Flip, callers, history
  <2>2. wpc # "reset" /\ wpc' # "reset"
    BY <1>1 DEF LogInit, CloseAfterError, Reopen, Flip, Awake
  <2>3. Written(b)' <=> Written(b)
    BY <2>1, <2>2 DEF Written
  <2> QED
    BY <2>1, <2>3, QuietStep
<1>2. CASE WriterLock
  <2>1. /\ UNCHANGED <<buffer, out, accepted, lost, pc, index, windex>>
        /\ wpc = "lock"
        /\ wpc' = "reset" => buffer[windex] = <<>>
    BY <1>2 DEF WriterLock, callers, history
  <2>2. Pending(b)' = Pending(b)
    <3>1. CASE wpc' = "reset" /\ windex = b
      BY <2>1, <3>1 DEF Pending
    <3>2. CASE ~(wpc' = "reset" /\ windex = b)
      BY <2>1, <3>2 DEF Pending, Written
    <3> QED
      BY <3>1, <3>2
  <2> QED
    BY <2>1, <2>2 DEF Evolves, Kept, File
<1>3. CASE WriterWrite
  <2>1. /\ wpc = "write" /\ wpc' = "reset"
        /\ UNCHANGED <<windex, pc, index, buffer, accepted>>
        /\ MyWrite(windex, fd)
    BY <1>3 DEF WriterWrite, callers
  <2>2. ~Written(windex) /\ Written(windex)'
    BY <2>1, OneHolder DEF Written, Holding
  <2>3. \A e \in Buffers \ {windex} : Written(e)' <=> Written(e)
    BY <2>1 DEF Written
  <2> QED
    BY <2>1, <2>2, <2>3, WriteStep DEF Sound, BufferTypes
<1>4. CASE WriterReset
  <2>1. /\ wpc = "reset" /\ wpc' = "sleep"
        /\ buffer' = [buffer EXCEPT ![windex] = <<>>]
        /\ UNCHANGED <<windex, pc, index, out, accepted, lost>>
    BY <1>4 DEF WriterReset, callers, history
  <2>2. CASE b = windex
    <3>1. Pending(b) = <<>>
      BY <2>1, <2>2 DEF Pending, Written
    <3>2. Pending(b)' = <<>>
      BY <2>1, <2>2 DEF Pending, Sound, BufferTypes
    <3> QED
      BY <2>1, <3>1, <3>2 DEF Evolves, Kept, File
  <2>3. CASE b # windex
    <3>1. buffer'[b] = buffer[b] /\ (Written(b)' <=> Written(b))
      BY <2>1, <2>3 DEF Written, Sound, BufferTypes
    <3> QED
      BY <2>1, <3>1 DEF Evolves, Kept, File, Pending
  <2> QED
    BY <2>2, <2>3
<1> QED
  BY <1>1, <1>2, <1>3, <1>4 DEF WriterNext

-----------------------------------------------------------------------------
(* What follows for the lines in File(b) *)

LEMMA SoundIsKept ==
  ASSUME Sound, Next
  PROVE  Sound'
  BY CallersKeepTypes, CallersKeepDiscipline, WriterKeepsSound DEF Next, Sound

LEMMA NextEvolves ==
  ASSUME Sound, Next, NEW b \in Buffers
  PROVE  Evolves(b)
  BY CallersEvolve, WriterEvolves DEF Next

(* A line that is there stays an old one: its caller counts on. *)
LEMMA OldStaysOld ==
  ASSUME Sound, Next, NEW l \in Lns, Old(l)
  PROVE  Old(l)'
<1>1. l[1] \in Callers /\ l[2] \in Nat
  BY DEF Lns
<1>2. ASSUME NEW c \in Callers, Log(c) PROVE Old(l)'
  <2>1. /\ pc[c] = "idle" /\ pc'[c] = "index" /\ logged'[c] = logged[c] + 1
        /\ logged[c] \in Nat
        /\ \A d \in Callers \ {c} : pc'[d] = pc[d] /\ logged'[d] = logged[d]
    BY <1>2 DEF Log, Goto, Sound, BufferTypes
  <2>2. CASE l[1] = c
    BY <1>1, <2>1, <2>2 DEF Old
  <2>3. CASE l[1] # c
    BY <1>1, <2>1, <2>3 DEF Old
  <2> QED
    BY <2>2, <2>3
<1>3. ASSUME NEW c \in Callers, CallerNext(c) PROVE Old(l)'
  <2>1. logged' = logged
    BY <1>3 DEF CallerNext, ReadIndex, LockBuffer, AppendLine, Full, Flush, Restart, UnlockBuffer
  <2>2. \A d \in Callers : pc'[d] \in Begun => pc[d] \in Begun
    BY <1>3 DEF CallerNext, ReadIndex, LockBuffer, AppendLine, Full, Flush, Restart, UnlockBuffer,
                Goto, Begun, Sound, BufferTypes
  <2> QED
    BY <1>1, <2>1, <2>2 DEF Old
<1>4. CASE LogInit \/ WriterNext
  <2>1. UNCHANGED <<logged, pc>>
    BY <1>4 DEF LogInit, WriterNext, CloseAfterError, Reopen, Flip, WriterLock, WriterWrite,
                WriterReset, callers
  <2> QED
    BY <2>1 DEF Old
<1> QED
  BY <1>2, <1>3, <1>4 DEF Next

LEMMA PrefixOfInjective ==
  ASSUME NEW s \in Seq(Lns), NEW t \in Seq(Lns), IsPrefixOf(s, t), IsInjective(t)
  PROVE  IsInjective(s)
  BY DEF IsPrefixOf, IsInjective

LEMMA AppendOfInjective ==
  ASSUME NEW s \in Seq(Lns), NEW l \in Lns, IsInjective(s),
         \A i \in DOMAIN s : s[i] # l
  PROVE  IsInjective(Append(s, l))
<1>1. /\ Len(Append(s, l)) = Len(s) + 1
      /\ \A i \in 1 .. Len(s) : Append(s, l)[i] = s[i]
      /\ Append(s, l)[Len(s) + 1] = l
  OBVIOUS
<1>2. DOMAIN s = 1 .. Len(s) /\ DOMAIN Append(s, l) = 1 .. Len(s) + 1
  OBVIOUS
<1>3. Len(s) \in Nat
  OBVIOUS
<1> QED
  BY <1>1, <1>2, <1>3 DEF IsInjective

LEMMA DataAreKept ==
  ASSUME Sound, DataInv, Next
  PROVE  DataInv'
<1>1. Sound'
  BY SoundIsKept
<1>2. \A b \in Buffers : File(b) \in Seq(Lns) /\ File(b)' \in Seq(Lns)
  BY <1>1, FileTypes, FileTypesAfter DEF Sound
<1>3. ASSUME NEW b \in Buffers PROVE DataAt(b)'
  <2>1. DataAt(b)
    BY DEF DataInv
  <2>2. CASE Kept(b) /\ lost' = lost
    BY <1>2, <2>1, <2>2, OldStaysOld DEF Kept, DataAt
  <2>3. CASE Cut(b)
    BY <1>2, <2>1, <2>3, OldStaysOld, PrefixOfInjective DEF Cut, IsPrefixOf, DataAt
  <2>4. ASSUME NEW c \in Callers, Added(b, c), lost' = lost
        PROVE  DataAt(b)'
    <3>1. Line(c) \in Lns
      BY DEF Line, Lns, Sound, BufferTypes
    <3>2. ~Old(Line(c))
      BY <2>4 DEF Added, Old, Line, Sound, BufferTypes
    <3>3. Old(Line(c))'
      BY <1>1, <2>4 DEF Added, Old, Line, Sound, BufferTypes
    <3>4. File(b)' = Append(File(b), Line(c)) /\ accepted'[b] = Append(accepted[b], Line(c))
      BY <2>4 DEF Added
    <3>5. ~lost' => accepted'[b] = File(b)'
      BY <2>1, <2>4, <3>4 DEF DataAt
    <3>6. IsInjective(File(b)')
      <4>1. \A i \in DOMAIN File(b) : File(b)[i] # Line(c)
        BY <2>1, <3>2 DEF DataAt
      <4>2. IsInjective(Append(File(b), Line(c)))
        BY <1>2, <2>1, <3>1, <4>1, AppendOfInjective DEF DataAt
      <4> QED
        BY <3>4, <4>2
    <3>7. ASSUME NEW i \in DOMAIN File(b)' PROVE Old(File(b)[i])'
      <4>1. i \in 1 .. Len(File(b)) + 1
        BY <1>2, <3>1, <3>4
      <4>2. CASE i = Len(File(b)) + 1
        <5>1. File(b)'[i] = Line(c)
          BY <1>2, <3>1, <3>4, <4>2
        <5> QED
          BY <2>4, <3>3, <5>1 DEF Added, Old, Line
      <4>3. CASE i \in 1 .. Len(File(b))
        <5>1. File(b)'[i] = File(b)[i] /\ File(b)[i] \in Lns /\ Old(File(b)[i])
          BY <1>2, <2>1, <3>1, <3>4, <4>3 DEF DataAt
        <5>2. Old(File(b)[i]) => \A l \in {File(b)[i]} : Old(l)'
          BY <5>1, OldStaysOld
        <5> QED
          BY <5>1, <5>2 DEF Old
      <4> QED
        BY <4>1, <4>2, <4>3, <1>2
    <3> QED
      BY <3>5, <3>6, <3>7 DEF DataAt
  <2> QED
    BY <2>2, <2>3, <2>4, NextEvolves DEF Evolves
<1> QED
  BY <1>3 DEF DataInv

LEMMA RoomIsKept ==
  ASSUME Sound, WithinBuffer, Next
  PROVE  WithinBuffer'
<1> USE BufferSizeAssumption DEF WithinBuffer, Sound, BufferTypes
<1>1. ASSUME NEW c \in Callers, AppendLine(c) PROVE WithinBuffer'
  BY <1>1 DEF AppendLine, Line, Lns
<1>2. ASSUME NEW c \in Callers, Restart(c) PROVE WithinBuffer'
  BY <1>2 DEF Restart
<1>3. CASE WriterReset
  BY <1>3 DEF WriterReset
<1>4. CASE UNCHANGED buffer
  BY <1>4
<1> QED
  BY <1>1, <1>2, <1>3, <1>4
     DEF Next, CallerNext, WriterNext, LogInit, Log, ReadIndex, LockBuffer, Full, Flush,
         UnlockBuffer, CloseAfterError, Reopen, Flip, WriterLock, WriterWrite, shared

-----------------------------------------------------------------------------
LEMMA InvariantHolds == Spec => [](Sound /\ DataInv /\ WithinBuffer)
<1>1. Init => Sound /\ DataInv /\ WithinBuffer
  <2> SUFFICES ASSUME Init PROVE DataInv /\ WithinBuffer
    BY InitSound
  <2>1. \A b \in Buffers : accepted[b] = <<>> /\ File(b) = <<>> /\ buffer[b] = <<>>
    BY DEF Init, File, Pending, Written
  <2> QED
    BY <2>1, BufferSizeAssumption
       DEF DataInv, DataAt, IsInjective, WithinBuffer
<1>2. Sound /\ DataInv /\ WithinBuffer /\ [Next]_vars => (Sound /\ DataInv /\ WithinBuffer)'
  <2>1. CASE UNCHANGED vars
    <3>1. UNCHANGED <<buffer, out, accepted, locks, pc, index, logged, windex, buffer_index,
                      wpc, lost>>
      BY <2>1 DEF vars, shared, callers, writer, history
    <3>2. Sound => Sound'
      BY <3>1 DEF Sound, BufferTypes, Discipline
    <3>3. ASSUME NEW b \in Buffers, DataAt(b) PROVE DataAt(b)'
      BY <3>1, <3>3 DEF DataAt, File, Pending, Written, Old
    <3>4. WithinBuffer => WithinBuffer'
      BY <3>1 DEF WithinBuffer
    <3> QED
      BY <3>2, <3>3, <3>4 DEF DataInv
  <2> QED
    BY <2>1, SoundIsKept, DataAreKept, RoomIsKept
<1> QED
  BY <1>1, <1>2, PTL DEF Spec

(* No line is lost, doubled or overtaken in its buffer as long as writes   *)
(* succeed, however callers, the writer and the flips of buffer_index are  *)
(* interleaved.                                                            *)
THEOREM LinesAreKept == Spec => []NothingLost
<1>1. DataInv => NothingLost
  BY DEF DataInv, DataAt, NothingLost, File
<1> QED
  BY <1>1, InvariantHolds, PTL

(* Whatever fails, no line is in the file twice, and no buffer overflows.  *)
THEOREM BuffersStaySound == Spec => []BuffersAreSound
<1>1. DataInv /\ WithinBuffer => BuffersAreSound
  BY DEF DataInv, DataAt, BuffersAreSound, NeverTwice, File
<1> QED
  BY <1>1, InvariantHolds, PTL
=============================================================================
