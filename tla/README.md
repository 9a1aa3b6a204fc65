# prefix_match_server: a TLA+ model

The server suggests names for the beginning of a query (Chinese names, pinyin,
English) from a double-array trie, which an offline indexer has written to a
file and the server maps into memory. Clients talk a binary protocol over TCP
or a UNIX socket; an HTTP monitor port answers queries and reloads the index.
This directory holds the specification of both programs, its model-checking
configurations and its proofs. Paths below are relative to `src/`.

## The system

| part | code | state | operations |
|---|---|---|---|
| index lifecycle | `server/prefixmatch.cpp` | `g_index` (mapping, trie), `rwlock`, `g_reloading`, `g_exiting` | `Init_Index`, `Get`/`Query`, `Reload_index`, `exiting`, `Deinit_Index` |
| signal thread | `server/sig.cpp` | - | `SIGUSR1` reloads, `SIGINT` exits, the other handlers are empty |
| hand-over | `server/thread.cpp` | one queue and one notify pipe per worker, free list of items, start-up barrier | `thread_init`, `dispatch_conn_new`, `thread_libevent_process` |
| connection objects | `server/conn.cpp` | free list of `conn` | `conn_new`, `conn_close`, `conn_shrink` |
| request machine | `server/server.cpp` | the fields of a `conn`: state, read buffer, message list | `drive_machine`, `try_read_command`, `complete_nread`, `transmit` |
| network | `server/network.cpp` | listening conns, event registration | `try_read_network`, `update_event`, `do_accept_new_conns`, `server_socket` |
| start-up | `server/server.cpp`, `util.cpp` | pid file, identity, sockets | `main`, `do_privilege`, `save_pid` |
| logger | `server/log.cpp` | two buffers, their locks, the descriptor | `_log`, `_log_internal`, `async_write` |
| trie | `indexer/dastrie.h`, `server/dastrie.h` (one file, twice) | double array, character table, tail | `builder::build`, `write`; `trie::assign`, `read`, `find`, `getChildren`, cursors |
| indexer | `indexer/indexer.cpp` | letters to names | `read_chinese_map`, `create_index` |
| query evaluation | `server/prefixmatch.cpp` | the map of readings | `convert_to_letters`, `get_all_results`, `filter_result` |
| HTTP monitor | `server/server.cpp` | - | a caller of `Get` and `Reload_index` on the main thread |
| rest | `config.cpp`, `util.cpp`, `client.c` | settings | parsing, helpers, a sample client |

Threads: the main thread (accepts connections, serves the HTTP monitor, loads
the index at start), `num_threads` workers (each with a libevent loop, serving
the connections handed to it), the signal thread and the logger thread. They
interact through the index lock, the queues and pipes, the two free lists, the
listening sockets' events (which any worker touches in `conn_close`) and the
log buffers. The indexer interacts with the server through the index file only.

What makes it hard, and what is therefore stated: the release of an old index
under running queries; two reloads at a time; lists shared by all threads;
wake-ups against queued connections; descriptors that the kernel reuses; a
connection that yields with requests left in its buffer; accept switched off
and on by different threads under different locks; a log buffer flipped under
its users; sockets opened while other things are not ready; a trie built in
place in an array that grows under it; an index file that is not finished; an
error path in the middle of each of these. `PROJECT.json` lists these hazards
with their lines.

What makes each part correct, in the order of the table: no query reads an
index that is gone, and none mixes two; items and sockets are in one place and
have a wake-up; a connection answers its requests in order, from their own
bytes, and owes nothing while it waits; accepting is not lost; who can connect
finds a server that is ready; lines reach the file once; lookups answer as the
map of the records does; a name one of whose readings the query begins is
suggested.

## Modules

| module | models | state and actions |
|---|---|---|
| `IndexReload` | `prefixmatch.cpp`, `sig.cpp`, the HTTP monitor as a caller | one `pc` per thread; an action is one access to shared memory, one lock operation or one system call. `mapped[a]` is what an address holds; `g_mem` and `g_trie` are the two members of `g_index` that matter, so that its member-wise assignment is two steps |
| `AtomicIndex` | what that layer promises | a current content; requests answered from it |
| `ConnQueue` | `cq_push`, `cq_pop`, `cqi_new`, `cqi_free` at the level of pointers | `next`, `head`, `tail`, `cqi_freelist`; an action per critical section |
| `Handoff` | what the queues promise | a FIFO sequence per worker |
| `Dispatch` | `thread_init`, accept, `dispatch_conn_new`, `thread_libevent_process`, `conn_new`, `conn_close` | queues as sequences (justified by `ConnQueue`), bytes in pipes, open descriptors, conn objects |
| `AcceptControl` | `conn_listening` on `EMFILE`, `accept_new_conns`, `do_accept_new_conns`, `update_event`, the ends of a connection (`conn_close`; a refused one; one that is abandoned) | the flags of the event structs, what libevent has in its lists and polls, the two mutexes, the numbers of descriptors; an action per call, failing calls of their own (`...Fails`) |
| `Framing` | `head.h`: requests, replies and their bytes | operators; a byte is its position in a stream |
| `ConnMachine` | `drive_machine` for one connection, with `try_read_network`, `update_event`, `conn_shrink`, `add_iov`, `transmit`, a client and the kernel's two buffers | the fields of a `conn`; an action is one turn of the machine's loop, in `conn_read` one turn of the loop of `try_read_network`; failing calls are actions of their own (`...Fails`) |
| `ReplyStream` | what a connection promises | requests answered in order, each from its own bytes; a stream of replies sent piece by piece |
| `Startup` | `main` up to its event loop, for several processes | per process the place in `main` and what is ready; the socket path, the port's addresses, the pid file |
| `Logger` | `_log`, `_log_internal`, `async_write`, `my_write` | the two buffers with their locks, `buffer_index`, `fd`, `nerror`; `out` is what of the file came through a buffer |
| `TrieBuilder` | `builder` | the arrays, the vacant list, the stack of `arrange`'s calls; one trip of the search for a base is one step |
| `Trie` | `trie`, `cursor`, `prefix_cursor` | lookups as operators on the arrays |
| `IndexImage` | `builder::write`, `trie::assign`, `trie::read` | operators on the words of the file |
| `TrieFile` | builder, indexer, file and reader together | `TrieBuilder`'s actions, then a file that may be cut off anywhere, mapped or read |
| `TrieClient` | the same with callers | `TrieFile`'s actions, then lookups |
| `PrefixAnswers`, `PrefixMap` | what a trie promises | the answers of a map of records; each call answered in one step |
| `Readings` | `convert_to_letters` (both programs), `read_chinese_map`, `sepstr`, `trim` | operators on sequences of characters |
| `Suggest` | `create_index`, `Get`, `Query`, `get_all_results`, `filter_result` | lines read, letters to items, the records, one request; the trie answers as `PrefixAnswers` says |
| `..._proofs` | theorems | |
| `MC...` | instances for TLC | |

`Dispatch` composes the queues, pipes and conns; `TrieFile` builder and file,
`TrieClient` these and lookups; `Suggest` the indexer and the query. `ConnQueue` justifies the
sequences of `Dispatch`, `TrieClient` the answers that `Suggest` takes from its
trie, `ConnMachine` what a worker does between `conn_new` and `conn_close`.

The definitions named "Mutant" are faulty variants of the definition that
follows them; no specification uses them. Each shows that a property can fail.

### What is abstracted

*Index.* The content of an index is a value of `Contents`; a file that maps but
that `trie::assign` rejects is `Bad`. The letter strings of a query are a
number. `open`, `fstat` and `mmap` fail at will. `mmap` returns any free
address, so an address can come back. The read of `g_index` into `prev_index`
is one step although it races with the assignment in another thread.
`deinit_index` and `exiting` have no return statement although they are
declared `int`; their callers ignore the result and the model lets them return.

*Hand-over.* A critical section of a mutex is one action: its data are touched
under that mutex only or belong to the thread. `malloc` of items does not fail
in `ConnQueue` (the code would write through `NULL`); `calloc` of a conn does in
`Dispatch`. `write` to a notify pipe blocks while the pipe is full and does not
fail otherwise.

*Accept.* libevent is its lists, its flags and a set of events found ready.
Only the number of descriptors counts: accepted and not yet taken by a worker,
connections, connections leaked, others, which come and go. A connection ends
in `conn_close`, which switches accept on, or is refused by `conn_new` or
abandoned by `ConnMachine`, which do not. `event_del` and `event_add` fail at
will when they have something to do; a failing `event_del` may have taken the
event out of libevent's lists or not. `listen` does not fail on a socket that
listens already. What two threads do that switch at one time is not defined,
and TLC follows no behaviour beyond it (`UntilOverlapped`).

*Connection.* A pointer into the read buffer is an offset from `rbuf`. A byte of
the request stream is its position in that stream and a byte of a reply is
named by its reply and its place, so that a byte that is lost, doubled, out of
place or of another request shows. Requests are those of the program's own
client: a body that is not empty and a `bodylen` below 2^31. The evaluation of
a query is a reply of some length, or the error text. `sendmsg` takes what the
send buffer has room for. Allocations, `event_del`, `event_add`, reads and writes
fail at will, `MaxFaults` times; `registered` says whether libevent still has
the event then. Every caller of a failed `update_event` sets `conn_closing`;
`conn_new_cmd` returns all the same (`ConnYieldsFails`), the others go on and
close. No call reaches `conn_swallow`, `write_and_free()`, the
growth of the message and iovec lists (a reply has two messages and four iovecs
at most) and UDP. The machine's yield with nothing buffered leaves `ev_flags`
as they are, as the code does.

*Start-up.* A process gets its sockets one call at a time and loses them when it
ends; files stay. Any call may fail and the process may be killed at any point
once its signal thread runs. Configurations are four settings.

*Logger.* A line has length one. The descriptor numbers the logger may get are
its own: that a number it has closed is used by another file is left out. When
`log_init_file` fails nothing is logged, and the model stays where it is.
`log_reopen`, `log_deinit` and the `level_...` calls have no caller.

*Trie.* A character is a number, 0 the NUL that ends a key; `NumChars` stands
for 256 and `MaxBase` for the largest base of the format. A value takes one
place of the tail. The file is a sequence of words; behind its end a mapping
shows zeros up to the end of the page. The file does not change while it is
read.

*Names.* Strings are well-formed UTF-8 and a character is a number. A rank is
one digit. The file of readings is given in fields.

## Runs

| run | question | answer |
|---|---|---|
| `index_reload` | two workers query while the index is reloaded, two contents, queries of up to two letter strings, with fairness | no query reads unmapped memory, the replaced index and no other is released, nothing leaks, the layer implements `AtomicIndex`; admitted queries return; a reload ends once queries stop |
| `index_reload_race` | both ways of reloading at once | **violated**: an index is released twice, or while being served |
| `conn_queue` | linked lists, two workers, two blocks of two items | lists end in NULL, items are in one place, the queues are FIFO |
| `dispatch` | two workers, three sockets, three conns, a pipe of one byte, a free list that has to grow | wake-ups match items, sockets and conns have one holder |
| `dispatch_live` | the same with fairness, two sockets | the main thread starts; accepted sockets are served or closed |
| `conn_machine` | one connection, five request streams that arrive in any pieces, a client that reads at any pace and may hang up, one fault, with fairness | buffers are in bounds and intact, the machine stays in step with the requests, replies are not freed before they are sent, a waiting connection owes nothing; the connection implements `ReplyStream`; undisturbed it answers all requests; after a hang-up it closes, unless libevent has lost its event where the machine yields (`Abandoned`) |
| `logger` | two callers of two lines each, buffers that hold two, one fault, with fairness | without a fault no line is lost or overtaken; none is in the file twice and no buffer overflows; lines in a buffer get into the file |
| `accept_control` | two workers, two listening conns, three descriptors, with fairness, any call to libevent failing | until accept is switched by two threads at once, libevent's lists are sound and the flags true but for what a failure left undone; accepting resumes while a connection is left that will be closed, unless libevent failed for every listening socket |
| `startup` | three starts of two processes, every configuration, two addresses | who connects finds a server that is ready; a second server leaves the pid file alone while the first has the port |
| `trie` | every set of up to four keys of up to three characters, sequences of up to three short ones, sorted or not; a file cut off anywhere | the arrays are sound at each step; bad input is refused and good input is not, but for room; a whole file gives back the arrays that were written, and a stream reader takes no other; cursors miss no key; all implements `PrefixMap` |
| `trie_tail` | the same | **violated**: see finding 2 |
| `suggest` | every file of up to three lines out of eleven, every one of thirteen queries, limits 1 and 20 | no name is missed, names are different, at most `max_depth`, and in order of rank |

### Bounds

*Index.* With two addresses every reload but the first gets the address of the
index before, which is the case that matters; the race run has a third, so that
both reuse and non-reuse happen. Two contents tell an old index from a new one;
two letter strings are the least that a switch can come between.

*Hand-over.* Two workers and the main thread are the least at which a list has
two consumers and one producer. Two blocks make a second allocation meet a free
list that is not empty. A pipe of one byte makes "full" happen; a free list of
one entry makes "grow" and "cannot grow" happen; three sockets fill both queues
and a worker.

*Connection.* Headers of two bytes, read buffers of three or six, a high-water
mark of six and bodies of one, four and seven bytes make requests fit, fill the
buffer, make it grow, and make it grow past the mark so that it is shrunk again
with and without bytes left in it. One enlargement per `try_read_network` makes
"enlarged enough" happen. Payloads of three bytes and replies of one and five
cut a reply into two messages, the second with two iovecs. A send buffer of
three bytes cuts messages. With one request per event the machine yields after
each. One fault lets every error path be taken, from every state in which it
can be. A connection ends, so deadlock is not checked there; the liveness
properties show that it does not end early.

*Logger.* A buffer has room for two lines and four are logged, so that both
buffers are filled, flushed by a caller and flipped in between; two descriptors
let the file be opened anew after an error once and not again. *Accept.* Three
descriptors let connections be accepted, taken, refused, leaked or closed one
after the other, with none left for the next; two listening conns leave one
switched and the other not, or failed and the other not. With all descriptors
leaked and no socket watched the server stops, so deadlock is not checked.
*Start-up.* Two processes and three starts: a server, a second one, and the
first again after its end. Two addresses make "some in use" and "all in use"
differ. Logger, start-up, trie and suggestion end when their bounds are reached
(`CHECK_DEADLOCK FALSE`).

*Trie.* Keys over two characters up to length three have nodes with one and
two children, inner nodes that are keys, and tails. `MaxBase` 10 is reached by
some of the inputs and not by others. A page of four words gives files that end
at a page and files that do not. *Suggestions.* Three lines give repeated
names, names that share a reading, and a greatest key; the names have one
reading, several, none, or are not in Hanzi.

### Fairness

A thread inside a call keeps running (weak fairness on its steps). A reader
that waits for the write lock to be given up gets in before the next writer
(strong fairness on `RdLock`): a default rwlock prefers readers. Nothing of that
kind is assumed for the writer, so a reload is shown to end only once queries
stop. A worker's event loop gets to its notify pipe again and again (strong
fairness on `ReadNotify`): libevent runs every event that is ready before it
polls again. In `ConnMachine` the worker runs its machine and its event loop,
and a client that has begun a stream of requests sends all of it and reads what
comes back; whether it hangs up is its choice. Who waits for a log buffer's lock
or for `conn_lock` gets it in the end (strong fairness on `LockBuffer`,
`WriterLock`, `LockConn`): their holders give them up after a few steps and do
something else, the writer a sleep, before they take them again. In
`AcceptControl` a worker deals with the sockets handed to it and ends its
connections, in one of the ways above. Other than that, clients, signals and the outcome of
system calls owe nothing.

## Theorems

Each holds for every value of the constants that the named assumptions of the
modules allow; `MC...` gives them small values. `TypeCorrect` (in `ConnMachine`:
`TypeIsInvariant`) is type correctness; in `Logger_proofs` and
`AcceptControl_proofs` it is a part of the inductive invariant.

`IndexReload_proofs`, for any number of workers, addresses, contents and letter
strings, from the assumptions on the constants and, but for `TypeCorrect`,
`SingleReloader` (reloads come through one thread, signals wait for
`Init_Index`): `QueriesAreSafe`, `ServiceIsKept`, `ReleasesTheOldIndex`,
`ReportsTheTruth`, `NothingLeaks`, `NothingMovesUnderAQuery`. The inductive
invariant `IInv` says that the lock's holders are where their `pc` says
(`LockInv`); that until `Init_Index` is done nobody else moves (`BootInv`); that
the index served is mapped and its two members agree except inside the
assignment (`LiveInv`); and that a reload knows where it stands (`ReloadInv`):
before the switch `prev_index` *is* the index served, after it the new index is,
and the two never share an address. That last part is what fails with two
reloaders. `NeverCrashes` alone is not inductive: that a reader finds its memory
mapped depends on what the reload has in `prev`.
`ReloadsAreAtomic` is the refinement of `AtomicIndex`. To `IInv` it adds
`QueryInv`, a query between its first look-up and its return has found something
and found all of it in what is served; each action then is a step of
`AtomicIndex`, or changes nothing a caller sees.

`ConnQueue_proofs`, for any number of workers, block size and number of blocks:
`ListsStaySound`, `NoItemIsLost`, and the refinement of `Handoff`,
`SocketsArriveInOrder`. `ListsSound` says that there *are* sequences which the
pointers spell. The inductive invariant `Inv` names them: a sequence for each
queue and one for the free list, and a function from items to the one place
each is in. Two places with an item in common would let one push overwrite the
other's `next`; that the function is one excludes it. Taking the first item,
putting one at the end and putting a block in front are lemmas about a list and
its owner alone (`TakesFirst`, `PutsAtEnd`, `PutsInFront`). The refinement also
needs that an item keeps its socket from `cq_push` to `cqi_free` (`Filled`).

`Dispatch_proofs`, for any number of workers, sockets, conns, pipe and free list
capacities: `WorkersComeFirst`, by counting registrations; `EveryItemHasAWakeup`,
worker by worker, from what each thread holds at each place of its code
(`Discipline`); `ConnObjectsAreKept` and `SocketsAreKept`. The last two count
holders, so the invariants `ConnsApart` and `SocketsApart` say it without
counting: each kind of holder has an object once, two kinds never share one,
and together they have those allocated (the sockets: those open).

`ConnMachine_proofs`, for any streams of requests, sizes, limits and faults:
* `BufferTypeIsInvariant`, `BuffersAreInBounds` and `InputStaysIntact`. `BInv`
  joins them, because each needs the other's part of `conn_nread`, and adds
  `ReadInv`: inside `try_read_network` the unparsed bytes are at the front of
  the buffer, and `gotdata` means that there are some. Without it a `realloc`
  in the loop, which resets `rcurr`, would displace them.
* `RequestsStayInStep`. The ends of requests are sums; that each end is the one
  before plus a header and a body is a lemma about sums, at the top of the
  module, applied to `EndOf`.
* `ReplyMemoryIsSound`, from `OutInv`: what is sent, followed by what is left in
  the messages, *is* the stream of the replies, to which an error adds its
  line. `MemInv` says which memory holds what is left.
* `NothingIsOwed`, from `WaitInv`: who is about to wait for the next request has
  less than a header in the buffer; libevent has the event of a connection until
  it is to be closed; and where the machine may have returned to the event loop
  (`Parked`) it waits for input, for room to write or, after a failure, for its
  end.
* `RepliesAreInOrder`, the refinement of `ReplyStream`, from all of these.

`Startup_proofs`, for any processes, addresses and configurations, whatever
fails: `ServersAreReady`, which follows from what `main` has done
at each of its places and from that a process that listens has come to the
sockets (`Prepared`); `PidFileIsKept`, which follows from that an address has
one listener and that a process past `server_socket` has an address (`Bound`).

`Logger_proofs`, for any callers, sizes and descriptors: `LinesAreKept`
(`NothingLost`) and `BuffersStaySound`. The lines of buffer *b* that the file
has or will have are `File(b)`. Each step leaves it alone, adds one line or,
when a write goes wrong, cuts its end (`Evolves`). That needs the discipline of
the locks: who is between lock and unlock holds the lock of the buffer it chose,
so one thread at a time is between the write and the reset of a buffer, whatever
`buffer_index` says meanwhile. No line is doubled because a line that is added
is younger than all its caller has there (`Old`).

`AcceptControl_proofs`, for any workers and listening conns:
`SwitchingStaysSound`. While nothing has overlapped, one thread switches
(`OnlyOne`); the conns before its position are as it wants them, those behind
as they were, and the one at hand is midway (`Progress`). "As it wants" allows
for failures (`Told`): a socket for which the last change failed has flags "on",
and libevent watches it or not.

`Lookup_proofs`, about suggestions, for any files of readings and of names,
requests and limits:
`InOrder` (`SuggestionsInOrder`) and `NoneMissed` (`NoSuggestionMissed`), from
`SuggestInv`, which `SuggestInductive` proves: each item is under every key of
its line and nothing else is under a key; the trie's records are the keys but
the greatest, in order; an answer is one `Query` may give. The work is in the
operators: `convert_to_letters` finds the spellings; each key has a place in the
order, and each place a key (`Ranks`, `PlaceTaken`); the records that a query
begins are among the children of the place `locate` ends at, also when it ends
in a tail and that place is the root (`UnderHasAll`); filtering keeps one item
of each name, and ranking permutes what is left.

`Lookup_proofs`, about the builder (`BuilderSpec`, whose behaviours are those of
`TrieClient` with the rest left out), for any inputs and any size of the
alphabet: `LayoutIsSound` (`LayoutSound`) and `RefusalsAreRight`
(`RefusesRightly`), from `BuilderInv`, which `BuilderInductive` proves. The
properties look at the arrays and at what is built in the end; the invariant
says what the open calls of the recursive `arrange` know meanwhile:
* `CallsInv`: the records of a call agree in the characters before its position,
  its children divide them by the next one, and each call but the first works
  on the child at hand of its caller.
* `OrderInv`: the records up to the one that the recursion has reached are in
  order. A call sees only first characters; that they ascend among the children
  of every call makes the keys ascend, and where they do not, or a child of NUL
  has two records, there are two neighbours out of order.
* `ListInv`: the list links the vacant elements, in order (`Linked`). To use an
  element, the last one too, and to append elements are lemmas about a list
  alone (`UseLinked`, `ExpandLinked`); `Reserve` uses several, one by one
  (`ReserveLinked`), which is sound because children differ in their offsets.
* `LayoutInv`: an element in use is awaited by one open call, for one child, or
  is placed. The bases of placed nodes and of open calls are all different and
  in `m_used_bases`; the elements placed are as many as the nodes and leaves
  counted. A step that returns moves one element from awaited to placed
  (`AwaitedLess`, `BasesLess`). In the end only the root is awaited.

`Lookup_proofs`, about the index file (`FileSpec`, again `TrieClient` with the
lookups left out), for any inputs, alphabet and size of a page:
`WhatIsWrittenIsRead` (`ReadsWhatWasWritten`), from `FileInv`, which
`FileInductive` proves: the file is a beginning of the image of what was built
(`Begins`), whose arrays are not empty. The rest is about `builder::write` and
`trie::assign` alone: `ImageIs` says which word is where in an image, and
`ImageReadBack` follows the loop of `assign` over it. Each turn takes one chunk,
all of which the mapping shows (`FileReadable`), and the next turn finds the
next chunk, the last one the end of the file. `trie::read` finds the length of
the whole in the second word of any beginning that is long enough
(`ReadTakesAll`). That nothing is refused for want of an array needs the builder
again: a trie that is built has elements and a tail (`TailBegun`).

The modules begin with what they need about recursion. Induction comes from the
library's theorem that a set of numbers that is not empty has a least one; it is
stated for sets (`SetInduction`), and the value of a recursive function or a
fold is then determined from its defining equation.

Model-checked only:
* all liveness properties (`QueriesReturn`, `ReloadsEndWhenQueriesStop`,
  `MainStarts`, `ServedOrRefused`, `AllAnswered`, `HangUpCloses`,
  `LinesAreWritten`, `AcceptingResumes`): liveness under fairness and `ENABLED`
  are out of the proof system's reach;
* `CursorComplete` and the refinement of `PrefixMap`: the lookups (`Trie`) are
  `RECURSIVE` operators, for which the proof system has no arithmetic.

## Findings

1. *Two reloads at once* (`index_reload_race`). `server/prefixmatch.cpp:367`
   copies `g_index` before `:369` tests `g_reloading`, which `:374` sets, all
   without a lock.
2. *A query that stops in a tail* (`trie_tail`). When a query leaves the double
   array for the tail and is not equal to it, `locate_ex` (`dastrie.h:1002`)
   returns the root, and `getChildren` enumerates the whole trie: the first
   `max_depth` records of the index, whatever they begin with.
   `NoSuggestionMissed` holds nevertheless when the limit leaves room for all.

### Other divergences, without a run

* *Index.* `server.cpp:1447` starts the signal thread before `:1453` loads the
  index without the lock: with `EarlySignals = TRUE`, `ReportedIndexIsLive`
  fails. `Deinit_Index` and `exit` free what workers may be reading.
* *Protocol.* The `status` of `response_header` is one byte (`head.h`), and
  `server.cpp:250` stores `htons(err)` in it: 0 on a little-endian machine for
  every code below 256, so error replies carry `RESPONSE_SUCCESS`. Data that
  fills the read buffer exactly and is followed by the end of the stream is
  dropped with complete requests in it (`network.cpp:73`).
* *Accept.* The `conn_lock` of `conn.cpp:13` and that of `thread.cpp:12` are two
  mutexes, so accept can be switched off and on at one time; nothing is claimed
  for what follows. When the last connection closes between the failed `accept`
  and the switching-off, nobody switches accept on again; nor does a connection
  that is refused (`thread.cpp:315` closes it without `do_accept_new_conns`).
  `do_accept_new_conns` ignores the result of `update_event`, which sets
  `ev_flags` (`network.cpp:150`) before `event_add`: when that fails, or
  `event_del` does, the flags say "on", the test at `:140` skips each later
  switching-on, and the socket may stay unwatched.
* *Connection.* When `update_event` fails as the machine yields, it stops in
  `conn_closing` (`server.cpp:770-773`). If libevent still has the event, the
  connection is closed when the next one comes, which may be late; if it has
  not, descriptor and `conn` are leaked.
* *Start-up.* The daemon's parent exits with 0 before anything has succeeded.
  The result of `http_handler` is ignored. `SIGINT` leaves the pid file. A
  second start unlinks the UNIX socket of a running server
  (`network.cpp:493-499`). `network.cpp:442` expects addresses in use to be an
  error, `:333` skips them. `server.cfg:12` says that a UNIX socket disables
  networking; TCP listens unless the port is 0. A setting that is missing goes
  to `strlen` or `strdup` as `NULL`.
* *Logger.* A short write counts as success (`log.cpp:66`); the descriptor of
  the file opened again after an error is not stored (`log.cpp:97`), so each
  turn opens one more, until none is left; a failed `pthread_create` goes
  unnoticed; a line beyond `LOG_MAX_LEN` makes `len` point outside the buffer;
  `mkdir_recursive` leaves the name cut off when it fails. `server.cfg:7` says
  that levels "less than" the set one are logged, the code compares with `<=`.
* *Trie.* `getChildren` never visits character 255. A pair found in a tail has
  only the query as its key. A prefix cursor that has matched a leaf stays there
  (`dastrie.h:1178`) and reports prefixes that are no keys; copying one leaves
  out its length. `m_used_bases` survives `build()`.
* *Index file.* `assign` believes the size in the file (`dastrie.h:1298`): with
  a file that is not finished it reads beyond the mapping, or does not end, or
  succeeds with arrays that are cut off; the indexer does not look at errors of
  its stream. Both programs default to `./index`, so a mapped file may be
  rewritten.
* *Names.* The indexer passes the last record as the end (`indexer.cpp:299`):
  it is not in the index, and with fewer than two keys the behaviour is
  undefined. Initials are not indexed (`indexer.cpp:275`). `max_depth` limits
  the records and then the names. For a byte that begins no character
  `getUTF8Len` is 0 and the loops over a string do not advance.

## Not modelled

* The configuration's parser (`config.cpp`): one file into plain settings at
  start-up. It compares names by prefix, drops the last character of a last line
  without newline, and reads before an empty line.
* String helpers other than `sepstr`, `trim` and `getUTF8Len`; the HTML and the
  URL decoding of the monitor; the sample client; `trie4`, which neither program
  instantiates; the logger's empty back ends.
* `num_threads = 0` and a failed `malloc` of a queue item, which the code does
  not survive; requests whose `bodylen` is below the extras or at the limit of
  its type.
* libevent, evhttp, pthreads and the kernel appear only through what the code
  uses of them.

## Plan

Done: the index, the hand-over, the connection, the logger, accept control,
start-up, the trie with its file, and the suggestions; theorems for all safety
properties and refinements but those of the lookups in a trie. Left: for
`CursorComplete` and the refinement of `PrefixMap` the lookups have to be written
without `RECURSIVE`.
