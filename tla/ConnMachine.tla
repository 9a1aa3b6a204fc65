---------------------------- MODULE ConnMachine ----------------------------
(***************************************************************************)
(* One TCP connection in a worker thread: drive_machine and what it calls  *)
(* (server/server.cpp, server/network.cpp, server/conn.cpp), with the      *)
(* client that sends requests and the kernel's two socket buffers.         *)
(*                                                                         *)
(* Pointers into the read buffer are offsets from rbuf.  A step of the     *)
(* machine is one turn of its loop; in conn_read it is one turn of the     *)
(* loop of try_read_network.  Request bodies are those the program's own   *)
(* client makes: not empty, and a bodylen below 2^31.                      *)
(***************************************************************************)
EXTENDS Framing

CONSTANTS Inputs,          \* what a client may send: sequences of Request
          DataBufferSize,  \* DATA_BUFFER_SIZE
          HighWat,         \* READ_BUFFER_HIGHWAT
          StartSizes,      \* read buffers of fresh and of reused conns
          MaxReallocs,     \* enlargements in one try_read_network
          MaxPayload,      \* UDP_MAX_PAYLOAD_SIZE
          ReplyLens,       \* lengths of the bodies of replies
          ErrorLen,        \* strlen("Out of memory")
          LineLen,         \* length of a line made by out_string
          SendCap,         \* the kernel's send buffer
          ReqsPerEvent,    \* g_settings.reqs_per_event
          MaxFaults,       \* bound on failing allocations and calls
          MayHangUp        \* whether the client may close early

ASSUME InputsAssumption == Inputs \subseteq Seq(Request) /\ << >> \notin Inputs
ASSUME SizesAssumption ==
  /\ DataBufferSize \in Nat \ {0} /\ HighWat \in Nat
  /\ StartSizes \subseteq Nat \ {0} /\ HeaderLen <= DataBufferSize
  /\ \A n \in StartSizes : HeaderLen <= n
ASSUME LimitsAssumption ==
  /\ MaxReallocs \in Nat \ {0} /\ ReqsPerEvent \in Nat \ {0}
  /\ MaxFaults \in Nat /\ SendCap \in Nat \ {0}
ASSUME RepliesAssumption ==
  /\ ReplyLens \subseteq Nat \ {0} /\ ErrorLen \in Nat \ {0}
  /\ LineLen \in Nat \ {0} /\ RespHeaderLen < MaxPayload /\ MaxPayload \in Nat
ASSUME MayHangUpAssumption == MayHangUp \in BOOLEAN

ResponseSuccess == 0
ResponseEnomem  == 130

VARIABLES
  \* the client and the kernel
  input,      \* the requests of this client
  arrived,    \* bytes that have reached the server's socket
  taken,      \* bytes that read has returned
  eof,        \* the client has shut down its side
  room,       \* free bytes of the send buffer
  faults,     \* failures still to come
  \* drive_machine
  running,    \* it is on the stack
  nreqs,      \* its local variable
  num_allocs, \* the one of try_read_network, or -1 outside
  gotdata,
  \* struct conn
  state, ev_flags, write_and_go,
  registered, \* libevent has the event of the conn
  rbuf,       \* the read buffer, 0 .. rsize - 1 -> position, or 0 for junk
  rsize, rcurr, rbytes, ritem, rlbytes, bodylen,
  msglist,    \* a sequence of messages, each a sequence of iovecs
  msgcurr, iovused,
  wbuf,       \* the reply whose header wbuf holds, 0 for a line, or -1
  write_and_free,  \* the reply whose body it points to, or 0
  \* history
  heap,       \* replies whose body is allocated
  evaluated, replies, sent

client  == <<input, arrived, eof>>
event   == <<ev_flags, registered>>
loop    == <<nreqs, num_allocs, gotdata>>
input_buffer == <<rbuf, rsize, rcurr, rbytes, ritem, rlbytes, bodylen>>
output  == <<msglist, msgcurr, iovused, wbuf>>
memory  == <<write_and_free, heap>>
history == <<evaluated, replies>>
vars == <<client, taken, room, faults, running, loop, state, event, write_and_go,
          input_buffer, output, memory, history, sent>>

(* conn_new for a fresh conn or one from the free list, whose buffer keeps *)
(* its size and its old bytes.                                             *)
Init ==
  /\ input \in Inputs
  /\ arrived = 0 /\ taken = 0 /\ eof = FALSE /\ room = SendCap
  /\ faults = MaxFaults
  /\ running = FALSE /\ nreqs = 0 /\ num_allocs = -1 /\ gotdata = FALSE
  /\ state = "conn_new_cmd" /\ ev_flags = "EV_READ" /\ registered = TRUE
  /\ write_and_go = "conn_new_cmd"
  /\ rsize \in StartSizes /\ rbuf = [k \in 0 .. rsize - 1 |-> 0]
  /\ rcurr = 0 /\ rbytes = 0 /\ ritem = 0 /\ rlbytes = 0 /\ bodylen = 0
  /\ msglist = << >> /\ msgcurr = 0 /\ iovused = 0 /\ wbuf = -1
  /\ write_and_free = 0 /\ heap = {}
  /\ evaluated = << >> /\ replies = << >> /\ sent = << >>

-----------------------------------------------------------------------------
(* Helpers *)

Least(m, n) == IF m <= n THEN m ELSE n

Moved(b, from, to, n) ==     \* memmove
  [k \in DOMAIN b |-> IF k \in to .. to + n - 1 THEN b[from + k - to] ELSE b[k]]

Resized(b, n) ==             \* realloc
  [k \in 0 .. n - 1 |-> IF k \in DOMAIN b THEN b[k] ELSE 0]

Received(b, at, n) ==        \* read into the buffer
  [k \in DOMAIN b |-> IF k \in at .. at + n - 1 THEN taken + 1 + k - at ELSE b[k]]

Waiting == arrived - taken   \* bytes a read can get

In(s) == running /\ state = s

Fault == faults > 0 /\ faults' = faults - 1

Close == state' = "conn_closing"

Stop == running' = FALSE

(* add_iov: the first message is not filled beyond MaxPayload; what is     *)
(* left of the data goes into a second one, of which it makes one iovec of *)
(* at most MaxPayload bytes and one with the rest.                         *)
AddIov(msgs, data) ==
  LET space == MaxPayload - Len(FlattenSeq(msgs[1]))
      Piece(from, n) == SubSeq(data, from, Least(from + n - 1, Len(data)))
      second == Piece(space + 1, MaxPayload)
      rest   == Piece(space + MaxPayload + 1, Len(data))
  IN <<Append(msgs[1], Piece(1, space))>>
       \o (IF Len(data) <= space THEN << >>
           ELSE IF rest = << >> THEN <<<<second>>>> ELSE <<<<second, rest>>>>)

(* htons on a little-endian machine *)
Htons(x) == (256 * (x % 256)) + ((x \div 256) % 256)

(* add_bin_header, then the body; status is a uint8_t. *)
BinReply(err, part, len) ==
  LET r == Len(replies) + 1
      msgs == AddIov(AddIov(<< << >> >>, Bytes(r, "head", RespHeaderLen)),
                     Bytes(r, part, len))
  IN /\ msglist' = msgs /\ msgcurr' = 0 /\ iovused' = Len(FlattenSeq(msgs))
     /\ wbuf' = r
     /\ replies' = Append(replies, [status |-> Htons(err) % 256,
                                    part |-> part, bodylen |-> len])
     /\ state' = "conn_mwrite" /\ write_and_go' = "conn_new_cmd"

Line == Bytes(0, "line", LineLen)

(* The iovecs of message m that are left when n bytes have gone out. *)
Remaining(m, n) ==
  LET gone(k) == Len(FlattenSeq(SubSeq(m, 1, k)))
      done == Cardinality({k \in 1 .. Len(m) : gone(k) <= n})
      part == n - gone(done)
  IN [k \in 1 .. Len(m) - done |->
        IF k = 1 THEN SubSeq(m[done + 1], part + 1, Len(m[done + 1])) ELSE m[done + k]]

-----------------------------------------------------------------------------
(* The client *)

Idle == <<taken, faults, running, loop, state, event, write_and_go,
          input_buffer, output, memory, history, sent>>

ClientSends(n) ==
  /\ state # "closed" /\ ~eof
  /\ arrived + n <= Total(input)
  /\ arrived' = arrived + n
  /\ UNCHANGED <<input, eof, room, Idle>>

(* It shuts down its side when it has all replies, or at any time. *)
ClientHangsUp ==
  /\ state # "closed" /\ ~eof
  /\ MayHangUp \/ (Len(replies) = Len(input) /\ sent = Stream(replies))
  /\ eof' = TRUE
  /\ UNCHANGED <<input, arrived, room, Idle>>

ClientReads(n) ==
  /\ state # "closed"
  /\ room + n <= SendCap
  /\ room' = room + n
  /\ UNCHANGED <<client, Idle>>

-----------------------------------------------------------------------------
(* event_handler: libevent calls it when what the event asks for is there. *)

Ready == /\ registered
         /\ \/ ev_flags = "EV_READ" /\ (Waiting > 0 \/ eof)
            \/ ev_flags = "EV_WRITE" /\ room > 0

EventHandler ==
  /\ ~running /\ state # "closed" /\ Ready
  /\ running' = TRUE
  /\ nreqs' = ReqsPerEvent
  /\ UNCHANGED <<client, taken, room, faults, num_allocs, gotdata, state, event,
                 write_and_go, input_buffer, output, memory, history, sent>>

(* event_del, event_set and event_add, when there is a change *)
UpdateEvent(flags) ==
  ev_flags' = flags /\ registered' = (registered \/ ev_flags # flags)

(* event_del fails, with the event taken out or not, or event_add does.    *)
(* Every caller sets conn_closing.                                         *)
UpdateEventFails(flags) ==
  /\ ev_flags # flags
  /\ Fault
  /\ Close
  /\ \/ UNCHANGED event
     \/ ev_flags' \in {ev_flags, flags} /\ registered' = FALSE
  /\ UNCHANGED <<client, taken, room, loop, write_and_go, input_buffer, msglist, iovused,
                 wbuf, memory, history, sent>>

-----------------------------------------------------------------------------
(* conn_waiting, conn_new_cmd *)

ConnWaiting ==
  /\ In("conn_waiting")
  /\ UpdateEvent("EV_READ")
  /\ state' = "conn_read" /\ Stop
  /\ UNCHANGED <<client, taken, room, faults, loop, write_and_go,
                 input_buffer, output, memory, history, sent>>

ConnWaitingFails ==
  In("conn_waiting") /\ UpdateEventFails("EV_READ") /\ UNCHANGED <<running, msgcurr>>

(* Mutant: the unparsed bytes are not moved to the front. *)
ConnShrinkLoses ==
  IF rsize > HighWat /\ rbytes < DataBufferSize
  THEN /\ rbuf' = Resized(rbuf, DataBufferSize)
       /\ rsize' = DataBufferSize /\ rcurr' = 0
       /\ UNCHANGED faults
  ELSE UNCHANGED <<rbuf, rsize, rcurr, faults>>

(* conn_shrink; when realloc fails the buffer keeps its size.  The lists   *)
(* of messages and iovecs never grow, so they are never shrunk.            *)
ConnShrink ==
  IF rsize > HighWat /\ rbytes < DataBufferSize
  THEN /\ \/ /\ rbuf' = Resized(Moved(rbuf, rcurr, 0, rbytes), DataBufferSize)
             /\ rsize' = DataBufferSize /\ UNCHANGED faults
          \/ /\ rbuf' = Moved(rbuf, rcurr, 0, rbytes)
             /\ Fault /\ UNCHANGED rsize
       /\ rcurr' = 0
  ELSE UNCHANGED <<rbuf, rsize, rcurr, faults>>

(* reset_cmd_handler *)
ConnNewCmd ==
  /\ In("conn_new_cmd") /\ nreqs > 0
  /\ nreqs' = nreqs - 1
  /\ ConnShrink
  /\ state' = IF rbytes > 0 THEN "conn_parse_cmd" ELSE "conn_waiting"
  /\ UNCHANGED <<client, taken, room, running, num_allocs, gotdata, event, write_and_go,
                 rbytes, ritem, rlbytes, bodylen, output, memory, history, sent>>

(* Mutant: no event is asked for. *)
ConnYieldsSilently ==
  /\ In("conn_new_cmd") /\ nreqs = 0
  /\ Stop
  /\ UNCHANGED <<client, taken, room, faults, loop, state, event, write_and_go,
                 input_buffer, output, memory, history, sent>>

(* reqs_per_event are done: with requests left in the read buffer, an      *)
(* event for writing brings the connection back.                           *)
ConnYields ==
  /\ In("conn_new_cmd") /\ nreqs = 0
  /\ IF rbytes > 0 THEN UpdateEvent("EV_WRITE") ELSE UNCHANGED event
  /\ Stop
  /\ UNCHANGED <<client, taken, room, faults, loop, state, write_and_go,
                 input_buffer, output, memory, history, sent>>

(* It stops all the same when that fails: the connection is closed when an *)
(* event comes, if libevent still has its event.                           *)
ConnYieldsFails ==
  /\ In("conn_new_cmd") /\ nreqs = 0 /\ rbytes > 0
  /\ UpdateEventFails("EV_WRITE") /\ UNCHANGED msgcurr
  /\ Stop

-----------------------------------------------------------------------------
(* conn_read: try_read_network *)

Reading == In("conn_read") /\ num_allocs >= 0

TryReadNetwork ==
  /\ In("conn_read") /\ num_allocs = -1
  /\ rbuf' = Moved(rbuf, rcurr, 0, rbytes) /\ rcurr' = 0
  /\ num_allocs' = 0 /\ gotdata' = FALSE
  /\ UNCHANGED <<client, taken, room, faults, running, nreqs, state, event, write_and_go,
                 rsize, rbytes, ritem, rlbytes, bodylen, output, memory, history, sent>>

(* Mutant: the buffer is enlarged, its size is not. *)
EnlargeForgetsSize ==
  /\ Reading /\ rbytes >= rsize /\ num_allocs < MaxReallocs
  /\ num_allocs' = num_allocs + 1
  /\ rbuf' = Resized(rbuf, 2 * rsize)
  /\ UNCHANGED <<client, taken, room, faults, running, nreqs, gotdata, state, event,
                 write_and_go, rsize, rcurr, rbytes, ritem, rlbytes, bodylen,
                 output, memory, history, sent>>

Enlarge ==
  /\ Reading /\ rbytes >= rsize /\ num_allocs < MaxReallocs
  /\ num_allocs' = num_allocs + 1
  /\ rbuf' = Resized(rbuf, 2 * rsize) /\ rsize' = 2 * rsize /\ rcurr' = 0
  /\ UNCHANGED <<client, taken, room, faults, running, nreqs, gotdata, state, event,
                 write_and_go, rbytes, ritem, rlbytes, bodylen, output, memory, history, sent>>

(* READ_MEMORY_ERROR: what was read is ignored, out_string, then close. *)
EnlargeFails ==
  /\ Reading /\ rbytes >= rsize /\ num_allocs < MaxReallocs
  /\ Fault
  /\ rbytes' = 0 /\ num_allocs' = -1
  /\ msglist' = << << >> >> /\ msgcurr' = 0 /\ iovused' = 0 /\ wbuf' = 0
  /\ state' = "conn_write" /\ write_and_go' = "conn_closing"
  /\ UNCHANGED <<client, taken, room, running, nreqs, gotdata, event,
                 rbuf, rsize, rcurr, ritem, rlbytes, bodylen, memory, history, sent>>

(* try_read_network returns gotdata. *)
ReadReturns(data) ==
  /\ num_allocs' = -1
  /\ state' = IF data THEN "conn_parse_cmd" ELSE "conn_waiting"

EnlargedEnough ==
  /\ Reading /\ rbytes >= rsize /\ num_allocs = MaxReallocs
  /\ ReadReturns(gotdata)
  /\ UNCHANGED <<client, taken, room, faults, running, nreqs, gotdata, event, write_and_go,
                 input_buffer, output, memory, history, sent>>

ReadSome ==
  /\ Reading /\ rbytes < rsize /\ Waiting > 0
  /\ LET avail == rsize - rbytes
         res   == Least(avail, Waiting)
     IN /\ rbuf' = Received(rbuf, rbytes, res)
        /\ rbytes' = rbytes + res
        /\ taken' = taken + res
        /\ IF res = avail THEN UNCHANGED <<num_allocs, state>> ELSE ReadReturns(TRUE)
  /\ gotdata' = TRUE
  /\ UNCHANGED <<client, room, faults, running, nreqs, event, write_and_go,
                 rsize, rcurr, ritem, rlbytes, bodylen, output, memory, history, sent>>

ReadAgain ==       \* EAGAIN
  /\ Reading /\ rbytes < rsize /\ Waiting = 0 /\ ~eof
  /\ ReadReturns(gotdata)
  /\ UNCHANGED <<client, taken, room, faults, running, nreqs, gotdata, event, write_and_go,
                 input_buffer, output, memory, history, sent>>

(* Mutant: the end of the stream counts as no data. *)
ReadEndIgnored ==
  /\ Reading /\ rbytes < rsize
  /\ Waiting = 0 /\ eof
  /\ num_allocs' = -1 /\ state' = "conn_waiting"
  /\ UNCHANGED <<client, taken, room, faults, running, nreqs, gotdata, event, write_and_go,
                 input_buffer, output, memory, history, sent>>

(* End of stream, also right after data, or an error. *)
ReadEnds ==
  /\ Reading /\ rbytes < rsize
  /\ \/ Waiting = 0 /\ eof /\ UNCHANGED faults
     \/ Fault
  /\ num_allocs' = -1 /\ Close
  /\ UNCHANGED <<client, taken, room, running, nreqs, gotdata, event, write_and_go,
                 input_buffer, output, memory, history, sent>>

-----------------------------------------------------------------------------
(* conn_parse_cmd: try_read_command, bin_read_key *)

(* The request whose header lies at offset at of the read buffer. *)
IsHeader(i, at) ==
  \A k \in 0 .. HeaderLen - 1 : rbuf[at + k] = EndOf(input)[i - 1] + 1 + k

Headers(at) == {i \in 1 .. Len(input) : IsHeader(i, at) /\ input[i].magic = "REQ"}

(* Mutant: the incomplete header is dropped. *)
ParseDropsIncomplete ==
  /\ In("conn_parse_cmd") /\ rbytes < HeaderLen
  /\ state' = "conn_waiting" /\ rbytes' = 0
  /\ UNCHANGED <<client, taken, room, faults, running, loop, event, write_and_go,
                 rbuf, rsize, rcurr, ritem, rlbytes, bodylen, output, memory, history, sent>>

ParseNeedsMore ==
  /\ In("conn_parse_cmd") /\ rbytes < HeaderLen
  /\ state' = "conn_waiting"
  /\ UNCHANGED <<client, taken, room, faults, running, loop, event, write_and_go,
                 input_buffer, output, memory, history, sent>>

ParseBadMagic ==
  /\ In("conn_parse_cmd") /\ rbytes >= HeaderLen
  /\ Headers(rcurr) = {}
  /\ Close
  /\ UNCHANGED <<client, taken, room, faults, running, loop, event, write_and_go,
                 input_buffer, output, memory, history, sent>>

(* The message list is reset; in the end the header is behind rcurr. *)
ParseHeader(i) ==
  /\ In("conn_parse_cmd") /\ rbytes >= HeaderLen
  /\ i \in Headers(rcurr)
  /\ bodylen' = input[i].bodylen /\ rlbytes' = input[i].bodylen
  /\ msglist' = << << >> >> /\ msgcurr' = 0 /\ iovused' = 0
  /\ rbytes' = rbytes - HeaderLen
  /\ UNCHANGED <<client, taken, room, running, loop, event, write_and_go,
                 wbuf, memory, history, sent>>

Fits(i) == input[i].bodylen <= rsize - (rcurr + HeaderLen)

ParseFits(i) ==
  /\ ParseHeader(i) /\ Fits(i)
  /\ ritem' = rcurr + HeaderLen /\ rcurr' = rcurr + HeaderLen
  /\ state' = "conn_nread"
  /\ UNCHANGED <<rbuf, rsize, faults>>

(* nsize: rsize doubled until the request fits; at most as many times as   *)
(* the request has bytes.                                                  *)
IsNsize(n, i) ==
  LET size == input[i].bodylen + HeaderLen
  IN \E d \in 0 .. size : /\ n = rsize * 2^d
                          /\ size <= n
                          /\ d = 0 \/ size > rsize * 2^(d - 1)

(* Mutant: the request is packed into the buffer without enlarging it. *)
ParseOnlyPacks(i) ==
  /\ ParseHeader(i) /\ ~Fits(i)
  /\ rbuf' = Moved(rbuf, rcurr, 0, rbytes) /\ rsize' = rsize
  /\ ritem' = HeaderLen /\ rcurr' = HeaderLen
  /\ state' = "conn_nread"
  /\ UNCHANGED faults

ParseMakesRoom(i) ==
  /\ ParseHeader(i) /\ ~Fits(i)
  /\ \E n \in rsize .. 2 * (rsize + input[i].bodylen + HeaderLen) :
       /\ IsNsize(n, i)
       /\ rbuf' = Moved(Resized(rbuf, n), rcurr, 0, rbytes) /\ rsize' = n
  /\ ritem' = HeaderLen /\ rcurr' = HeaderLen
  /\ state' = "conn_nread"
  /\ UNCHANGED faults

(* realloc fails: rcurr and rbytes move past the header all the same. *)
ParseFindsNoRoom(i) ==
  /\ ParseHeader(i) /\ ~Fits(i)
  /\ rsize < input[i].bodylen + HeaderLen
  /\ Fault /\ Close
  /\ rcurr' = rcurr + HeaderLen
  /\ UNCHANGED <<rbuf, rsize, ritem>>

-----------------------------------------------------------------------------
(* conn_nread: the body, first from the read buffer, then from the socket *)

NreadCopy ==
  /\ In("conn_nread") /\ rlbytes > 0 /\ rbytes > 0
  /\ LET tocopy == Least(rbytes, rlbytes)
     IN /\ rbuf' = IF ritem # rcurr THEN Moved(rbuf, rcurr, ritem, tocopy) ELSE rbuf
        /\ ritem' = ritem + tocopy /\ rlbytes' = rlbytes - tocopy
        /\ rcurr' = rcurr + tocopy /\ rbytes' = rbytes - tocopy
  /\ UNCHANGED <<client, taken, room, faults, running, loop, state, event, write_and_go,
                 rsize, bodylen, output, memory, history, sent>>

NreadRead ==
  /\ In("conn_nread") /\ rlbytes > 0 /\ rbytes = 0 /\ Waiting > 0
  /\ LET res == Least(rlbytes, Waiting)
     IN /\ rbuf' = Received(rbuf, ritem, res)
        /\ rcurr' = IF rcurr = ritem THEN rcurr + res ELSE rcurr
        /\ ritem' = ritem + res /\ rlbytes' = rlbytes - res
        /\ taken' = taken + res
  /\ UNCHANGED <<client, room, faults, running, loop, state, event, write_and_go,
                 rsize, rbytes, bodylen, output, memory, history, sent>>

NreadMustWait == In("conn_nread") /\ rlbytes > 0 /\ rbytes = 0 /\ Waiting = 0 /\ ~eof

NreadWaits ==
  /\ NreadMustWait
  /\ UpdateEvent("EV_READ")
  /\ Stop
  /\ UNCHANGED <<client, taken, room, faults, loop, state, write_and_go,
                 input_buffer, output, memory, history, sent>>

NreadWaitsFails ==
  NreadMustWait /\ UpdateEventFails("EV_READ") /\ UNCHANGED <<running, msgcurr>>

NreadEnds ==
  /\ In("conn_nread") /\ rlbytes > 0 /\ rbytes = 0
  /\ \/ Waiting = 0 /\ eof /\ UNCHANGED faults
     \/ Fault
  /\ Close
  /\ UNCHANGED <<client, taken, room, running, loop, event, write_and_go,
                 input_buffer, output, memory, history, sent>>

(* complete_nread: the body is evaluated where it lies in the read buffer. *)
CompleteNread ==
  /\ In("conn_nread") /\ rlbytes = 0
  /\ evaluated' = Append(evaluated, [k \in 1 .. bodylen |-> rbuf[ritem - bodylen + k - 1]])
  /\ UNCHANGED <<client, taken, room, faults, running, loop, event,
                 input_buffer, sent>>

GetSucceeds(len) ==
  /\ CompleteNread
  /\ heap' = heap \cup {Len(replies) + 1}
  /\ write_and_free' = Len(replies) + 1
  /\ BinReply(ResponseSuccess, "results", len)

(* Get finds no letters for the key, or calloc fails: write_bin_error. *)
GetFails ==
  /\ CompleteNread
  /\ BinReply(ResponseEnomem, "error", ErrorLen)
  /\ UNCHANGED memory

-----------------------------------------------------------------------------
(* conn_write, conn_mwrite: transmit *)

Writing == running /\ state \in {"conn_write", "conn_mwrite"}

(* conn_write assembles its message and falls through. *)
Assemble ==
  /\ In("conn_write") /\ iovused = 0
  /\ msglist' = AddIov(msglist, Line)
  /\ iovused' = Len(FlattenSeq(AddIov(msglist, Line)))
  /\ UNCHANGED <<client, taken, room, faults, running, loop, state, event, write_and_go,
                 input_buffer, msgcurr, wbuf, memory, history, sent>>

(* The message to go on with, from 0. *)
Current == IF msgcurr < Len(msglist) /\ msglist[msgcurr + 1] = << >>
           THEN msgcurr + 1 ELSE msgcurr

Transmitting == Writing /\ ~(state = "conn_write" /\ iovused = 0) /\ Current < Len(msglist)

(* Mutant: an iovec that was sent in part is taken for done. *)
TransmitSkips ==
  /\ Transmitting /\ room > 0
  /\ LET m == msglist[Current + 1]
         n == Least(room, Len(FlattenSeq(m)))
     IN /\ sent' = sent \o SubSeq(FlattenSeq(m), 1, n)
        /\ msglist' = [msglist EXCEPT ![Current + 1] = Tail(m)]
        /\ room' = room - n
  /\ msgcurr' = Current
  /\ UNCHANGED <<client, taken, faults, running, loop, state, event, write_and_go,
                 input_buffer, iovused, wbuf, memory, history>>

(* sendmsg takes what the send buffer has room for: TRANSMIT_INCOMPLETE. *)
Transmit ==
  /\ Transmitting /\ room > 0
  /\ LET m == msglist[Current + 1]
         n == Least(room, Len(FlattenSeq(m)))
     IN /\ sent' = sent \o SubSeq(FlattenSeq(m), 1, n)
        /\ msglist' = [msglist EXCEPT ![Current + 1] = Remaining(m, n)]
        /\ room' = room - n
  /\ msgcurr' = Current
  /\ UNCHANGED <<client, taken, faults, running, loop, state, event, write_and_go,
                 input_buffer, iovused, wbuf, memory, history>>

TransmitWaits ==         \* EAGAIN: TRANSMIT_SOFT_ERROR
  /\ Transmitting /\ room = 0
  /\ msgcurr' = Current
  /\ UpdateEvent("EV_WRITE")
  /\ Stop
  /\ UNCHANGED <<client, taken, room, faults, loop, state, write_and_go,
                 input_buffer, msglist, iovused, wbuf, memory, history, sent>>

TransmitWaitsFails ==
  /\ Transmitting /\ room = 0
  /\ UpdateEventFails("EV_WRITE") /\ msgcurr' = Current /\ UNCHANGED running

TransmitFails ==
  /\ Transmitting
  /\ Fault /\ Close
  /\ msgcurr' = Current
  /\ UNCHANGED <<client, taken, room, running, loop, event, write_and_go,
                 input_buffer, msglist, iovused, wbuf, memory, history, sent>>

Transmitted == Writing /\ iovused > 0 /\ Current >= Len(msglist)

(* Mutant: the reply is freed with its first message. *)
FreeReplyEarly ==
  /\ In("conn_mwrite") /\ write_and_free # 0
  /\ Current > 0
  /\ heap' = heap \ {write_and_free} /\ write_and_free' = 0
  /\ UNCHANGED <<client, taken, room, faults, running, loop, state, event, write_and_go,
                 input_buffer, output, history, sent>>

(* TRANSMIT_COMPLETE in conn_mwrite: the first time frees the reply, the   *)
(* second time goes on.                                                    *)
FreeReply ==
  /\ Transmitted /\ state = "conn_mwrite" /\ write_and_free # 0
  /\ msgcurr' = Current
  /\ heap' = heap \ {write_and_free} /\ write_and_free' = 0
  /\ UNCHANGED <<client, taken, room, faults, running, loop, state, event, write_and_go,
                 input_buffer, msglist, iovused, wbuf, history, sent>>

ReplyDone ==
  /\ Transmitted /\ state = "conn_mwrite" /\ write_and_free = 0
  /\ msgcurr' = Current
  /\ state' = "conn_new_cmd"
  /\ UNCHANGED <<client, taken, room, faults, running, loop, event, write_and_go,
                 input_buffer, msglist, iovused, wbuf, memory, history, sent>>

LineDone ==
  /\ Transmitted /\ state = "conn_write"
  /\ msgcurr' = Current
  /\ heap' = heap \ {write_and_free} /\ write_and_free' = 0
  /\ state' = write_and_go
  /\ UNCHANGED <<client, taken, room, faults, running, loop, event, write_and_go,
                 input_buffer, msglist, iovused, wbuf, history, sent>>

(* conn_close *)
ConnClose ==
  /\ In("conn_closing")
  /\ state' = "closed" /\ Stop
  /\ registered' = FALSE
  /\ heap' = heap \ {write_and_free} /\ write_and_free' = 0
  /\ UNCHANGED <<client, taken, room, faults, loop, ev_flags, write_and_go,
                 input_buffer, output, history, sent>>

-----------------------------------------------------------------------------
Client ==
  \/ \E n \in 1 .. Total(input) : ClientSends(n)
  \/ ClientHangsUp
  \/ \E n \in 1 .. SendCap : ClientReads(n)

TryReadStep == TryReadNetwork \/ Enlarge \/ EnlargeFails \/ EnlargedEnough
                 \/ ReadSome \/ ReadAgain \/ ReadEnds

ParseStep ==
  \/ ParseNeedsMore \/ ParseBadMagic
  \/ \E i \in 1 .. Len(input) : ParseFits(i) \/ ParseMakesRoom(i) \/ ParseFindsNoRoom(i)

NreadStep == NreadCopy \/ NreadRead \/ NreadWaits \/ NreadWaitsFails \/ NreadEnds
               \/ GetFails \/ \E len \in ReplyLens : GetSucceeds(len)

WriteStep == Assemble \/ Transmit \/ TransmitWaits \/ TransmitWaitsFails
               \/ TransmitFails \/ FreeReply \/ ReplyDone \/ LineDone

DriveMachine == ConnWaiting \/ ConnWaitingFails \/ ConnNewCmd \/ ConnYields \/ ConnYieldsFails
                  \/ TryReadStep \/ ParseStep \/ NreadStep \/ WriteStep \/ ConnClose

Next == Client \/ EventHandler \/ DriveMachine

(* The worker runs its machine and its event loop.  A client that has      *)
(* begun sends its requests and reads what comes back; it need not end.    *)
Fairness ==
  /\ WF_vars(DriveMachine) /\ WF_vars(EventHandler)
  /\ WF_vars(\E n \in 1 .. Total(input) : ClientSends(n))
  /\ WF_vars(\E n \in 1 .. SendCap : ClientReads(n))

Spec == Init /\ [][Next]_vars
FairSpec == Spec /\ Fairness

-----------------------------------------------------------------------------
(* Properties *)

States == {"conn_new_cmd", "conn_waiting", "conn_read", "conn_parse_cmd", "conn_write",
           "conn_nread", "conn_closing", "conn_mwrite", "closed"}

(* The values the variables range over. *)
BufferTypeOK ==
  /\ input \in Inputs /\ arrived \in Nat /\ taken \in Nat
  /\ num_allocs \in -1 .. MaxReallocs /\ gotdata \in BOOLEAN
  /\ state \in States /\ write_and_go \in {"conn_new_cmd", "conn_closing"}
  /\ rsize \in Nat \ {0} /\ rcurr \in Nat /\ rbytes \in Nat
  /\ ritem \in Nat /\ rlbytes \in Nat /\ bodylen \in Nat
  /\ rbuf \in [0 .. rsize - 1 -> Nat]

TypeOK ==
  /\ BufferTypeOK
  /\ eof \in BOOLEAN /\ room \in 0 .. SendCap /\ faults \in 0 .. MaxFaults
  /\ running \in BOOLEAN /\ nreqs \in 0 .. ReqsPerEvent
  /\ ev_flags \in {"EV_READ", "EV_WRITE"} /\ registered \in BOOLEAN
  /\ msgcurr \in Nat /\ iovused \in Nat /\ wbuf \in -1 .. Len(replies)
  /\ write_and_free \in 0 .. Len(replies) /\ heap \subseteq 1 .. Len(replies)

(* What the machine reads, moves and writes lies inside the read buffer:   *)
(* the unparsed bytes, the room for the body being read, the body about to *)
(* be evaluated; and a command is parsed only from bytes that are there    *)
(* (the assertions of try_read_command).                                   *)
BufferBounds ==
  /\ rcurr + rbytes <= rsize
  /\ state = "conn_nread" => /\ ritem = rcurr
                             /\ ritem + rlbytes <= rsize
                             /\ rlbytes <= bodylen /\ bodylen - rlbytes <= ritem
  /\ state = "conn_parse_cmd" => rbytes > 0

(* The unparsed bytes are the ones that were read last, in order, and the  *)
(* bytes of a body read so far are the ones before them: whatever is       *)
(* moved, enlarged, shrunk, copied or read past the buffer, no byte is     *)
(* lost, doubled or out of place.                                          *)
Intact(at, n, first) == \A k \in 0 .. n - 1 : rbuf[at + k] = first + k

Consumed == taken - rbytes

BytesOfBody == bodylen - rlbytes   \* that have been read

InputIntact ==
  /\ Intact(rcurr, rbytes, Consumed + 1)
  /\ state = "conn_nread" =>
       Intact(ritem - BytesOfBody, BytesOfBody, Consumed - BytesOfBody + 1)

(* The machine is in step with the requests: between two of them exactly   *)
(* those evaluated are consumed, so that the next header is looked for     *)
(* where it is; and a body is read to the length its own header gives.     *)
(* (Out of step, a good request looks like a bad one and is refused.)      *)
InStep ==
  /\ state = "conn_nread" =>
       /\ Consumed = EndOf(input)[Len(evaluated)] + HeaderLen + BytesOfBody
       /\ bodylen = input[Len(evaluated) + 1].bodylen
  /\ state \in {"conn_new_cmd", "conn_waiting", "conn_read", "conn_parse_cmd", "conn_mwrite"}
       => Consumed = EndOf(input)[Len(evaluated)]

(* A byte that is still to be sent has not been overwritten in wbuf and    *)
(* has not been freed with its reply; a reply's memory is held exactly as  *)
(* long as write_and_free points to it, and by no closed connection.       *)
Unsent == UNION {Range(FlattenSeq(msglist[m])) : m \in 1 .. Len(msglist)}

ReplyMemory ==
  /\ heap = {write_and_free} \ {0}
  /\ state = "closed" => heap = {}
  /\ state # "closed" =>
       \A b \in Unsent : /\ b.part \in {"head", "line"} => wbuf = b.reply
                         /\ b.part = "results" => b.reply \in heap

(* A connection that waits has its event in libevent, and when it waits    *)
(* for its client owes it nothing: every request whose last byte has been  *)
(* read from the socket is answered and the answer is sent.  (Otherwise it *)
(* would sit in the buffer until the client happens to send more.)  A      *)
(* connection waits for its end instead only after a call has failed.      *)
OwesNothing ==
  /\ sent = Stream(replies)
  /\ \A i \in 1 .. Len(input) : EndOf(input)[i] <= taken => i <= Len(replies)

WaitingOwesNothing ==
  ~running /\ state # "closed" =>
    IF state = "conn_closing"
    THEN faults < MaxFaults
    ELSE registered /\ (ev_flags = "EV_READ" => OwesNothing)

(* What goes out is exactly the replies to the requests, in order, each    *)
(* from the bytes of its own request.                                      *)
Promise == INSTANCE ReplyStream WITH ended <- state = "closed"
ImplementsReplyStream == Promise!Spec

(* Nothing but requests has come, no call has failed and the client has    *)
(* not hung up.                                                            *)
Undisturbed ==
  faults = MaxFaults /\ ~eof /\ \A i \in 1 .. Len(input) : input[i].magic = "REQ"

(* A client that sends its requests and reads gets all replies, however    *)
(* the requests are split or run together, and with requests left in the   *)
(* buffer when the machine yields, as long as nothing fails.               *)
AllAnswered == <>(Undisturbed => Len(replies) = Len(input) /\ sent = Stream(replies))

(* The machine has stopped in conn_closing and libevent has lost the event *)
(* of the connection, which so is never closed.                            *)
Abandoned == ~running /\ state = "conn_closing" /\ ~registered

(* A connection whose client has hung up is closed, whatever call fails on *)
(* the way, unless it is abandoned where it yields.                        *)
HangUpCloses == eof ~> state = "closed" \/ Abandoned
=============================================================================
