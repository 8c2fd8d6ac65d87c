--------------------------------- MODULE BlockLog ---------------------------------
(****************************************************************************)
(* The block log (libraries/chain/block_log.cpp): an append-only file of    *)
(* blocks, each followed by its own position, and an index file of the      *)
(* positions.  Both are written through buffered streams and both may be    *)
(* cut anywhere when the process dies; open() repairs the index.            *)
(*                                                                          *)
(* A file is the sequence of its complete records and a flag that says it   *)
(* ends inside a record.  The n-th record of the block file is block number *)
(* n, so n also stands for its position in the file.                        *)
(****************************************************************************)
EXTENDS Integers, Sequences

CONSTANTS
    Block,          \* what a block may contain
    InitialLog,     \* the blocks in the log of a node that is installed
    MaxBlocks       \* bound on the number of blocks

ASSUME InitialLogAssumption == InitialLog \in Seq(Block)
ASSUME MaxBlocksAssumption == MaxBlocks \in Nat

VARIABLES
    blocks,     \* block file: [file, torn, buffer, write]
    index,      \* index file: the same, of positions
    head,       \* number of my->head, 0 when it is not valid
    status,     \* "closed", "open"
    flushed     \* history variable: the log when flush() last returned

vars == <<blocks, index, head, status, flushed>>

\* A stream: what is in the file, whether the file ends inside a record, what
\* is still in the buffer, and whether it is open for writing.
File(entries) == [file |-> entries, torn |-> FALSE, buffer |-> <<>>, write |-> TRUE]

Content(s) == s.file \o s.buffer

\* Closing a stream, flushing it or reopening it writes the buffer.
Written(s) == [s EXCEPT !.file = Content(s), !.buffer = <<>>]
\* Mutant: the buffer is dropped.
Reopened(s) == [s EXCEPT !.buffer = <<>>, !.write = FALSE]

ForReading(s) == IF s.write THEN [Written(s) EXCEPT !.write = FALSE] ELSE s
ForWriting(s) == [Written(s) EXCEPT !.write = TRUE]
Put(s, e) == [s EXCEPT !.buffer = Append(@, e)]

Positions(n) == [i \in 1 .. n |-> i]

Init ==
    /\ blocks = File(InitialLog)
    /\ index = File(Positions(Len(InitialLog)))
    /\ head = 0
    /\ status = "closed"
    /\ flushed = InitialLog

-----------------------------------------------------------------------------
\* The head read from the end of the block file; in a file that ends inside a
\* record the position found there leads nowhere and the read throws.
read_head(s) == Len(s.file)
HeadIsReadable(s) == ~s.torn

\* Mutant: the old index is not removed.
AppendToIndex(s) ==
    [File(index.file) EXCEPT !.buffer = Positions(Len(s.file))]

\* Mutant: the blocks are copied, not their positions.
CopyBlocks(s) == [File(<<>>) EXCEPT !.buffer = s.file]

\* construct_index(): the positions are copied until the last one is met, and
\* 0 counts as met before the first block is read.
construct_index(s) ==
    [File(<<>>) EXCEPT
        !.buffer = IF Len(s.file) <= 1 THEN <<>> ELSE Positions(Len(s.file))]

\* The last positions of the two files are equal; the last eight bytes of an
\* index that was cut inside an entry are none.
IndexIsCurrent(s) ==
    /\ ~index.torn
    /\ index.file # <<>>
    /\ index.file[Len(index.file)] = Len(s.file)

\* Fewer than eight bytes of index: the seek to its last entry throws.
IndexIsSeekable == ~(index.torn /\ index.file = <<>>)

open ==
    /\ status = "closed"
    /\ HeadIsReadable(blocks)
    /\ blocks.file = <<>> \/ IndexIsSeekable
    /\ status' = "open"
    /\ head' = read_head(blocks)
    /\ blocks' = IF blocks.file = <<>> THEN File(<<>>)
                 ELSE ForReading(File(blocks.file))
    /\ index' =
         IF blocks.file = <<>> THEN File(<<>>)
         ELSE IF IndexIsCurrent(blocks) THEN ForReading(File(index.file))
         ELSE construct_index(blocks)
    /\ UNCHANGED flushed

\* append(b), of a block with the number that follows the head's
\* (migrate_irreversible_state): it throws unless the index has an entry for
\* every block.
append(b) ==
    /\ status = "open"
    /\ head < MaxBlocks
    /\ Len(Content(index)) = head
    /\ blocks' = Put(ForWriting(blocks), b)
    /\ index' = Put(ForWriting(index), Len(Content(blocks)) + 1)
    /\ head' = head + 1
    /\ UNCHANGED <<status, flushed>>

\* Mutant: only the index is flushed.
flush_index ==
    /\ status = "open"
    /\ index' = Written(index)
    /\ flushed' = Content(blocks)
    /\ UNCHANGED <<blocks, head, status>>

\* flush(): what migrate_irreversible_state appended is safe from here on.
flush ==
    /\ status = "open"
    /\ blocks' = Written(blocks)
    /\ index' = Written(index)
    /\ flushed' = Content(blocks)
    /\ UNCHANGED <<head, status>>

\* read_block_by_num(): both streams are turned to reading.
read_block_by_num ==
    /\ status = "open"
    /\ head > 0
    /\ blocks' = ForReading(blocks)
    /\ index' = ForReading(index)
    /\ UNCHANGED <<head, status, flushed>>

\* read_block() of a position, as reindex() walks the block file.
read_block ==
    /\ status = "open"
    /\ head > 0
    /\ blocks' = ForReading(blocks)
    /\ UNCHANGED <<index, head, status, flushed>>

close ==
    /\ status = "open"
    /\ status' = "closed"
    /\ head' = 0
    /\ blocks' = Written(blocks)
    /\ index' = Written(index)
    /\ UNCHANGED flushed

\* What a process that dies leaves of a stream: any beginning of the buffer has
\* reached the file, and it may end inside a record.
Cuts(s) ==
    {[File(s.file \o SubSeq(s.buffer, 1, n)) EXCEPT !.torn = t] :
        n \in 0 .. Len(s.buffer), t \in BOOLEAN}

CutsOf(s) == {c \in Cuts(s) : c.torn => Len(c.file) < Len(Content(s))}

\* The process dies.
crash ==
    /\ status = "open"
    /\ blocks' \in CutsOf(blocks)
    /\ index' \in CutsOf(index)
    /\ status' = "closed"
    /\ head' = 0
    /\ UNCHANGED flushed

\* The operator removes the index file of a node that does not run.
index_removed ==
    /\ status = "closed"
    /\ index' = File(<<>>)
    /\ UNCHANGED <<blocks, head, status, flushed>>

Next ==
    \/ open
    \/ \E b \in Block : append(b)
    \/ flush
    \/ read_block_by_num
    \/ read_block
    \/ close
    \/ crash
    \/ index_removed

Spec == Init /\ [][Next]_vars

-----------------------------------------------------------------------------
Stream(E) == [file : Seq(E), torn : BOOLEAN, buffer : Seq(E), write : BOOLEAN]

TypeOK ==
    /\ blocks \in Stream(Block)
    /\ index \in Stream(Nat)
    /\ head \in Nat
    /\ status \in {"closed", "open"}
    /\ flushed \in Seq(Block)

\* read_block_by_num(n) finds block n for every number up to the head, and
\* append() finds the index where it must be, whatever the index file looked
\* like when the log was opened (block_log.hpp:32-33 "The index file can be
\* reconstructed during a linear scan of the main file"); and the head in memory
\* is the last block of the log, so that the next one is appended at its own
\* number: no change of a stream's direction loses a block still in a buffer.
IndexAndHeadMatchLog ==
    status = "open" => /\ Content(index) = Positions(Len(Content(blocks)))
                       /\ head = Len(Content(blocks))

\* A block that migrate_irreversible_state flushed before it committed the
\* undo state is in the file for good.
FlushedBlocksSurvive ==
    /\ Len(flushed) <= Len(blocks.file)
    /\ flushed = SubSeq(blocks.file, 1, Len(flushed))
================================================================================
