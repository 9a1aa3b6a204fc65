-------------------------------- MODULE TrieFile -------------------------------
(***************************************************************************)
(* A trie on its way through the index file: the builder makes the arrays, *)
(* the indexer writes them to the file, a reader maps the file             *)
(* (trie::assign, as the server does) or takes it from a stream            *)
(* (trie::read).                                                           *)
(*                                                                         *)
(* The indexer may be killed or run out of space, which create_index does  *)
(* not look at, and the file may be read before it is done: a reader finds *)
(* any beginning of the file.                                              *)
(***************************************************************************)
EXTENDS TrieBuilder

CONSTANTS
    Page        \* as in IndexImage

ASSUME PageAssumption == Page \in Nat \ {0}

VARIABLES
    file,       \* the index file
    mapped,     \* what the reader got from it
    stream      \* it was read from a stream

filevars == <<file, mapped, stream>>

File == INSTANCE IndexImage WITH TableSize <- NumChars

\* The arrays of the builder as builder::write() finds them in memory.
Built ==
    [n |-> Len(recs), table |-> [i \in 1..NumChars |-> table[i - 1]],
     da |-> [i \in 1..Size(da) |-> da[i - 1]], tail |-> tail]

Complete == file = File!Image(Built)
Loaded == mapped.kind = "loaded"

FileInit ==
    /\ BuilderInit
    /\ file = <<>> /\ mapped = File!Nothing /\ stream = FALSE

\* create_index(): the output is truncated and written.
WriteIndex ==
    /\ pc = "built" /\ file = <<>>
    /\ \E n \in 0..Len(File!Image(Built)) : file' = SubSeq(File!Image(Built), 1, n)
    /\ UNCHANGED <<buildervars, mapped, stream>>

\* init_index(): mmap_file() refuses an empty file.
MapIndex ==
    /\ pc = "built" /\ mapped.kind = "none"
    /\ mapped' = IF file = <<>> THEN File!Refused ELSE File!Assign(file, Len(file))
    /\ UNCHANGED <<buildervars, file, stream>>

ReadIndex ==
    /\ pc = "built" /\ mapped.kind = "none"
    /\ mapped' = File!Read(file)
    /\ stream' = TRUE
    /\ UNCHANGED <<buildervars, file>>

\* The index is made once.
FileNext == \/ BuilderNext /\ file = <<>> /\ mapped = File!Nothing /\ UNCHANGED filevars
            \/ WriteIndex \/ MapIndex \/ ReadIndex

FileSpec == FileInit /\ [][FileNext]_<<buildervars, filevars>>

--------------------------------------------------------------------------------
\* Properties.

\* A reader of a whole file gets, mapped or from a stream, the arrays of the
\* builder: nothing stops it, neither a chunk nor the end of the mapping.  A file
\* that the indexer did not finish is never taken from a stream, where read()
\* compares the size in the image with what it gets.
ReadsWhatWasWritten ==
    [][mapped' # mapped =>
        /\ Complete => /\ Loaded'
                       /\ mapped'.table = Built.table
                       /\ mapped'.da = Built.da
                       /\ mapped'.tail = Built.tail
        /\ Loaded' /\ stream' => Complete]_<<buildervars, filevars>>
================================================================================
