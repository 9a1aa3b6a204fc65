------------------------------- MODULE IndexImage ------------------------------
(***************************************************************************)
(* The index file: how the builder writes a trie (builder::write, called   *)
(* by create_index in src/indexer/indexer.cpp), and how a reader takes it  *)
(* back, from a memory mapping of the file (init_index, mmap_file and      *)
(* trie::assign, which the server uses) or from a stream (trie::read).     *)
(*                                                                         *)
(* A mapping shows zeros behind the end of the file up to the end of the   *)
(* page, and nothing beyond (SIGBUS).                                      *)
(*                                                                         *)
(* Abstractions: the file is a sequence of words, one for a chunk name, a  *)
(* size, a table entry, an element of the double array or a piece of the   *)
(* tail.  Sizes count words.                                               *)
(***************************************************************************)
EXTENDS Integers, Sequences

CONSTANTS
    TableSize,  \* NUMCHARS
    Page        \* words of a page

SDAT == 101
TBLU == 102
SDA5 == 103
TAIL == 104
CHUNKSIZE == 2
SDAT_CHUNKSIZE == 4

--------------------------------------------------------------------------------
\* Writing.

Chunk(id, data) == <<id, CHUNKSIZE + Len(data)>> \o data

\* builder::write()
Image(t) ==
    LET chunks == Chunk(TBLU, t.table) \o Chunk(SDA5, t.da) \o Chunk(TAIL, t.tail)
    IN  <<SDAT, SDAT_CHUNKSIZE + Len(chunks), SDAT_CHUNKSIZE, t.n>> \o chunks

--------------------------------------------------------------------------------
\* Reading.

\* table, da and tail are <<>> until the pointer to them is set.
Nothing == [kind |-> "none", table |-> <<>>, da |-> <<>>, tail |-> <<>>, total |-> 0]
Refused == [Nothing EXCEPT !.kind = "refused"]
Fault == [Nothing EXCEPT !.kind = "fault"]
Loops == [Nothing EXCEPT !.kind = "loops"]

\* What a mapping of the words of file shows at address a.
PageEnd(file) == ((Len(file) + Page - 1) \div Page) * Page
Readable(file, a) == a < PageEnd(file)
Word(file, a) == IF a < Len(file) THEN file[a + 1] ELSE 0
Words(file, a, n) == [i \in 1..n |-> Word(file, a + i - 1)]

\* Mutant: datasize is the size of the whole chunk.
TakeChunk(file, p, t) ==
    LET id == Word(file, p)
        data == Words(file, p + 2, Word(file, p + 1))
    IN  IF ~Readable(file, p + 1) THEN Fault
        ELSE IF Word(file, p + 1) = 0 THEN Loops
        ELSE IF id = TBLU THEN [t EXCEPT !.table = data]
        ELSE IF id = SDA5 THEN [t EXCEPT !.da = data]
        ELSE [t EXCEPT !.tail = data]

\* A chunk at address p in the loop of assign().
Take(file, p, t) ==
    LET id == Word(file, p)
        size == Word(file, p + 1)
        data == Words(file, p + 2, size - CHUNKSIZE)
    IN  IF ~Readable(file, p + 1) THEN Fault
        ELSE IF size = 0 THEN Loops
        ELSE IF id = TBLU /\ size - CHUNKSIZE = TableSize
        THEN IF Readable(file, p + size - 1) THEN [t EXCEPT !.table = data] ELSE Fault
        ELSE IF id = SDA5 THEN [t EXCEPT !.da = data]
        ELSE IF id = TAIL THEN [t EXCEPT !.tail = data]
        ELSE t

\* A turn of the loop, for a reader at p with the arrays t so far.  A header of
\* zeros does not move p.
Turn(file, s) ==
    IF s.t.kind # "loaded" \/ s.p >= s.t.total THEN s
    ELSE [p |-> s.p + Word(file, s.p + 1), t |-> Take(file, s.p, s.t)]

\* The loop over the chunks up to total: what it has after k of them.
Chunks(file, total) ==
    LET after[k \in 0..total] ==
            IF k = 0
            THEN [p |-> SDAT_CHUNKSIZE,
                  t |-> [kind |-> "loaded", table |-> <<>>, da |-> <<>>, tail |-> <<>>,
                         total |-> total]]
            ELSE Turn(file, after[k - 1])
    IN  after[total].t

\* trie::assign(block, size): the size of the block counts only at the start.
Assign(file, size) ==
    IF size < SDAT_CHUNKSIZE \/ Word(file, 0) # SDAT \/ Word(file, 2) # SDAT_CHUNKSIZE
    THEN Refused
    ELSE LET t == Chunks(file, Word(file, 1))
         IN  IF t.kind = "loaded" /\ (t.da = <<>> \/ t.tail = <<>>) THEN Refused
             ELSE t

\* Mutant: the second read is not checked.
ReadUnchecked(file) ==
    IF Len(file) < CHUNKSIZE \/ Word(file, 0) # SDAT THEN Refused
    ELSE Assign(file, Word(file, 1))

\* trie::read(): the stream must hold as many bytes as the SDAT chunk says.
Read(file) ==
    IF Len(file) < CHUNKSIZE \/ Word(file, 0) # SDAT \/ Len(file) < Word(file, 1)
    THEN Refused
    ELSE Assign(file, Word(file, 1))
================================================================================
