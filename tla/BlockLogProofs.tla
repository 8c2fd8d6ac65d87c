------------------------------ MODULE BlockLogProofs ------------------------------
(****************************************************************************)
(* For every set of blocks and every length of the log: what was flushed is *)
(* in the block file for good; and in the log of a node that was installed  *)
(* with two blocks or more, the index and the head match the block file     *)
(* whenever the log is open, wherever a crash has cut the two files.        *)
(****************************************************************************)
EXTENDS BlockLog, SequenceTheorems, TLAPS

USE InitialLogAssumption, MaxBlocksAssumption

Prefix(p, s) == Len(p) <= Len(s) /\ \A i \in 1 .. Len(p) : p[i] = s[i]

IsPositions(s) == \A i \in 1 .. Len(s) : s[i] = i

\* A block file of one block is taken for an empty one by construct_index().
LongEnough == Len(InitialLog) >= 2

FlushInv ==
    /\ TypeOK
    /\ Prefix(flushed, blocks.file)
    /\ Len(InitialLog) <= Len(flushed)

\* Between two uses of the log, a file is what a beginning of its stream left:
\* the index may be short, but what it has is right.
IndexInv ==
    /\ status = "closed" => IsPositions(index.file) /\ index.buffer = <<>>
    /\ status = "open" => /\ IsPositions(Content(index))
                          /\ Len(Content(index)) = Len(Content(blocks))
                          /\ head = Len(Content(blocks))

LogInv == FlushInv /\ (LongEnough => IndexInv)

-----------------------------------------------------------------------------
\* Sequences.

LEMMA ConcatFacts ==
    ASSUME NEW E, NEW s \in Seq(E), NEW t \in Seq(E)
    PROVE  /\ s \o t \in Seq(E)
           /\ Len(s \o t) = Len(s) + Len(t)
           /\ Len(s) \in Nat /\ Len(t) \in Nat
           /\ \A i \in 1 .. Len(s) : (s \o t)[i] = s[i]
           /\ Prefix(s, s \o t)
           /\ s \o <<>> = s
  BY ConcatProperties, ConcatEmptySeq, LenProperties DEF Prefix

LEMMA ConcatAppend ==
    ASSUME NEW E, NEW s \in Seq(E), NEW t \in Seq(E), NEW e \in E
    PROVE  /\ Append(t, e) \in Seq(E)
           /\ s \o Append(t, e) = Append(s \o t, e)
<1>1. Append(t, e) \in Seq(E) /\ Len(Append(t, e)) = Len(t) + 1
  OBVIOUS
<1>2. s \o t \in Seq(E) /\ Len(s \o t) = Len(s) + Len(t)
  BY ConcatProperties
<1>3. Append(s \o t, e) \in Seq(E) /\ Len(Append(s \o t, e)) = Len(s) + Len(t) + 1
  BY <1>2
<1>4. s \o Append(t, e) \in Seq(E) /\ Len(s \o Append(t, e)) = Len(s) + Len(t) + 1
  BY <1>1, ConcatProperties, LenProperties
<1>5. ASSUME NEW i \in 1 .. Len(s) + Len(t) + 1
      PROVE  (s \o Append(t, e))[i] = Append(s \o t, e)[i]
  <2>1. Len(s) \in Nat /\ Len(t) \in Nat
    BY LenProperties
  <2>2. (s \o Append(t, e))[i] = IF i <= Len(s) THEN s[i] ELSE Append(t, e)[i - Len(s)]
    BY <1>1, <2>1, ConcatProperties
  <2>3. CASE i = Len(s) + Len(t) + 1
    BY <2>1, <2>2, <2>3, <1>2
  <2>4. CASE i # Len(s) + Len(t) + 1
    <3>1. Append(s \o t, e)[i] = (s \o t)[i]
      BY <2>1, <2>4, <1>2
    <3>2. (s \o t)[i] = IF i <= Len(s) THEN s[i] ELSE t[i - Len(s)]
      BY <2>1, <2>4, ConcatProperties
    <3>3. i > Len(s) => Append(t, e)[i - Len(s)] = t[i - Len(s)]
      BY <2>1, <2>4
    <3> QED
      BY <2>1, <2>2, <3>1, <3>2, <3>3
  <2> QED
    BY <2>3, <2>4
<1>6. s \o Append(t, e) = Append(s \o t, e)
  BY <1>3, <1>4, <1>5, SeqEqual
<1> QED
  BY <1>1, <1>6

LEMMA BeginningFacts ==
    ASSUME NEW E, NEW s \in Seq(E), NEW n \in 0 .. Len(s)
    PROVE  /\ SubSeq(s, 1, n) \in Seq(E)
           /\ Len(SubSeq(s, 1, n)) = n
           /\ \A i \in 1 .. n : SubSeq(s, 1, n)[i] = s[i]
<1>1. Len(s) \in Nat /\ \A i \in 1 .. n : s[i] \in E
  BY LenProperties
<1>2. n \in Nat /\ n - 1 + 1 = n
  BY <1>1
<1> QED
  BY <1>1, <1>2, SubSeqProperties

LEMMA PositionsFacts ==
    ASSUME NEW n \in Nat
    PROVE  /\ Positions(n) \in Seq(Nat)
           /\ Len(Positions(n)) = n
           /\ IsPositions(Positions(n))
<1>1. Positions(n) \in [1 .. n -> Nat]
  BY DEF Positions
<1>2. Positions(n) \in Seq(Nat) /\ Len(Positions(n)) = n
  BY <1>1
<1> QED
  BY <1>2 DEF Positions, IsPositions

LEMMA PositionsUnique ==
    ASSUME NEW s \in Seq(Nat), IsPositions(s)
    PROVE  s = Positions(Len(s))
<1>1. Len(s) \in Nat
  BY LenProperties
<1>2. \A i \in 1 .. Len(s) : s[i] = Positions(Len(s))[i]
  BY DEF IsPositions, Positions
<1> QED
  BY <1>1, <1>2, PositionsFacts, SeqEqual

\* The end of the index is the length of what it has.
LEMMA LastPosition ==
    ASSUME NEW s \in Seq(Nat), IsPositions(s), s # <<>>
    PROVE  s[Len(s)] = Len(s)
<1>1. Len(s) \in 1 .. Len(s)
  BY EmptySeq
<1> QED
  BY <1>1 DEF IsPositions

LEMMA PrefixTransitive ==
    ASSUME NEW E, NEW p \in Seq(E), NEW s \in Seq(E), NEW t \in Seq(E),
           Prefix(p, s), Prefix(s, t)
    PROVE  Prefix(p, t)
  BY LenProperties DEF Prefix

-----------------------------------------------------------------------------
\* Streams: turning one from reading to writing or back, and flushing or closing
\* it, changes nothing of what it holds, and only adds to the file.

LEMMA FileFacts ==
    ASSUME NEW E, NEW s \in Seq(E)
    PROVE  /\ File(s) \in Stream(E)
           /\ File(s).file = s /\ File(s).buffer = <<>>
           /\ Content(File(s)) = s
  BY EmptySeq, ConcatFacts DEF File, Stream, Content

LEMMA StreamFacts ==
    ASSUME NEW E, NEW s \in Stream(E)
    PROVE  /\ s.file \in Seq(E) /\ s.buffer \in Seq(E)
           /\ Content(s) \in Seq(E)
           /\ Len(Content(s)) = Len(s.file) + Len(s.buffer)
           /\ Prefix(s.file, Content(s))
           /\ Written(s) \in Stream(E)
           /\ Written(s).file = Content(s) /\ Written(s).buffer = <<>>
           /\ Content(Written(s)) = Content(s)
<1>1. s.file \in Seq(E) /\ s.buffer \in Seq(E)
  BY DEF Stream
<1>2. /\ Content(s) \in Seq(E)
      /\ Len(Content(s)) = Len(s.file) + Len(s.buffer)
      /\ Prefix(s.file, Content(s))
  BY <1>1, ConcatFacts DEF Content
<1>3. /\ Written(s) \in Stream(E)
      /\ Written(s).file = Content(s) /\ Written(s).buffer = <<>>
  BY <1>1, <1>2, EmptySeq DEF Written, Stream
<1>4. Content(Written(s)) = Content(s) \o <<>>
  BY <1>3 DEF Content
<1> QED
  BY <1>1, <1>2, <1>3, <1>4, ConcatFacts

LEMMA TurnFacts ==
    ASSUME NEW E, NEW s \in Stream(E), NEW t \in {ForReading(s), ForWriting(s), Written(s)}
    PROVE  /\ t \in Stream(E)
           /\ Content(t) = Content(s)
           /\ Prefix(s.file, t.file)
<1>1. /\ s.file \in Seq(E) /\ Content(s) \in Seq(E) /\ Prefix(s.file, Content(s))
      /\ Written(s) \in Stream(E)
      /\ Written(s).file = Content(s) /\ Written(s).buffer = <<>>
      /\ Content(Written(s)) = Content(s)
  BY StreamFacts
<1>2. Prefix(s.file, s.file)
  BY <1>1, LenProperties DEF Prefix
<1>3. ASSUME NEW w \in BOOLEAN
      PROVE  LET r == [Written(s) EXCEPT !.write = w]
             IN  /\ r \in Stream(E)
                 /\ Content(r) = Content(s)
                 /\ Prefix(s.file, r.file)
  BY <1>1 DEF Stream, Content
<1> QED
  BY <1>1, <1>2, <1>3 DEF ForReading, ForWriting

\* Appending a record.
LEMMA PutFacts ==
    ASSUME NEW E, NEW s \in Stream(E), NEW e \in E
    PROVE  /\ Put(s, e) \in Stream(E)
           /\ Put(s, e).file = s.file
           /\ Content(Put(s, e)) = Append(Content(s), e)
<1>1. s.file \in Seq(E) /\ s.buffer \in Seq(E)
  BY DEF Stream
<1>2. Append(s.buffer, e) \in Seq(E) /\ s.file \o Append(s.buffer, e) = Append(s.file \o s.buffer, e)
  <2>1. \A f, g \in Seq(E) : Append(g, e) \in Seq(E) /\ f \o Append(g, e) = Append(f \o g, e)
    BY ConcatAppend
  <2> QED
    BY <1>1, <2>1
<1>3. /\ Put(s, e) = [s EXCEPT !.buffer = Append(s.buffer, e)]
      /\ Put(s, e) \in Stream(E)
      /\ Put(s, e).file = s.file /\ Put(s, e).buffer = Append(s.buffer, e)
  BY <1>2 DEF Put, Stream
<1> QED
  BY <1>2, <1>3 DEF Content

\* What a process that dies leaves of a stream is a beginning of what it held,
\* and at least what the file had.
LEMMA CutFacts ==
    ASSUME NEW E, NEW s \in Stream(E), NEW c \in CutsOf(s)
    PROVE  /\ c \in Stream(E)
           /\ c.buffer = <<>>
           /\ Prefix(s.file, c.file)
           /\ Prefix(c.file, Content(s))
<1>1. PICK n \in 0 .. Len(s.buffer), t \in BOOLEAN :
        c = [File(s.file \o SubSeq(s.buffer, 1, n)) EXCEPT !.torn = t]
  BY DEF CutsOf, Cuts
<1>2. s.file \in Seq(E) /\ s.buffer \in Seq(E) /\ Len(s.file) \in Nat /\ Len(s.buffer) \in Nat
  BY LenProperties DEF Stream
<1>2a. n \in Nat /\ n <= Len(s.buffer) /\ Len(s.file) + n <= Len(s.file) + Len(s.buffer)
  BY <1>2
<1> DEFINE b == SubSeq(s.buffer, 1, n)
<1>3. b \in Seq(E) /\ Len(b) = n /\ \A i \in 1 .. n : b[i] = s.buffer[i]
  BY <1>2, BeginningFacts
<1> HIDE DEF b
<1>4. /\ s.file \o b \in Seq(E) /\ Len(s.file \o b) = Len(s.file) + n
      /\ Prefix(s.file, s.file \o b)
  BY <1>2, <1>3, ConcatFacts
<1>5. ASSUME NEW i \in 1 .. Len(s.file) + n
      PROVE  (s.file \o b)[i] = (s.file \o s.buffer)[i]
  <2>1. (s.file \o b)[i] = IF i <= Len(s.file) THEN s.file[i] ELSE b[i - Len(s.file)]
    BY <1>2, <1>3, ConcatProperties
  <2>2. i \in 1 .. Len(s.file) + Len(s.buffer)
    <3>1. \A k, l \in Nat : \A j \in 1 .. k + n : n <= l => j \in 1 .. k + l
      BY <1>2a
    <3> QED
      BY <1>2, <1>2a, <3>1
  <2>3. (s.file \o s.buffer)[i] = IF i <= Len(s.file) THEN s.file[i] ELSE s.buffer[i - Len(s.file)]
    BY <1>2, <2>2, ConcatProperties
  <2>4. i > Len(s.file) => b[i - Len(s.file)] = s.buffer[i - Len(s.file)]
    BY <1>2, <1>3
  <2> QED
    BY <2>1, <2>3, <2>4
<1>6. Prefix(s.file \o b, Content(s))
  <2>1. Len(s.file \o s.buffer) = Len(s.file) + Len(s.buffer)
    BY <1>2, ConcatFacts
  <2> QED
    BY <1>2, <1>2a, <1>4, <1>5, <2>1 DEF Prefix, Content
<1>7. /\ c.file = s.file \o b /\ c.buffer = <<>> /\ c \in Stream(E)
  BY <1>1, <1>4, EmptySeq DEF b, File, Stream
<1> QED
  BY <1>4, <1>6, <1>7

LEMMA PrefixPositions ==
    ASSUME NEW s \in Seq(Nat), NEW t \in Seq(Nat), Prefix(s, t), IsPositions(t)
    PROVE  IsPositions(s)
  BY LenProperties DEF Prefix, IsPositions

-----------------------------------------------------------------------------
\* The invariant.

LEMMA InitInv == Init => LogInv
<1> SUFFICES ASSUME Init PROVE LogInv
  OBVIOUS
<1>1. Len(InitialLog) \in Nat
  BY LenProperties
<1>2. blocks \in Stream(Block) /\ blocks.file = InitialLog
  BY FileFacts DEF Init
<1>3. /\ index \in Stream(Nat) /\ index.buffer = <<>>
      /\ IsPositions(index.file)
  BY <1>1, PositionsFacts, FileFacts DEF Init
<1>4. FlushInv
  BY <1>1, <1>2, <1>3 DEF Init, FlushInv, TypeOK, Prefix
<1> QED
  BY <1>3, <1>4 DEF Init, LogInv, IndexInv

\* open() keeps what is in the block file, and the index it keeps or rebuilds
\* has the position of every block.
LEMMA OpenInv == LogInv /\ open => LogInv'
<1> SUFFICES ASSUME LogInv, open PROVE LogInv'
  OBVIOUS
<1>1. /\ blocks \in Stream(Block) /\ blocks.file \in Seq(Block)
      /\ index \in Stream(Nat) /\ index.file \in Seq(Nat)
      /\ flushed \in Seq(Block) /\ Len(flushed) \in Nat
      /\ Len(blocks.file) \in Nat /\ Len(index.file) \in Nat
  BY LenProperties DEF LogInv, FlushInv, TypeOK, Stream
<1>2. /\ blocks' \in Stream(Block) /\ Content(blocks') = blocks.file
      /\ Prefix(blocks.file, blocks'.file)
  <2>1. CASE blocks.file = <<>>
    <3>1. <<>> \in Seq(Block) /\ blocks' = File(<<>>)
      BY <2>1, EmptySeq DEF open
    <3>2. blocks' \in Stream(Block) /\ Content(blocks') = <<>> /\ blocks'.file = <<>>
      BY <3>1, FileFacts
    <3> QED
      BY <1>1, <2>1, <3>2 DEF Prefix
  <2>2. CASE blocks.file # <<>>
    <3>1. File(blocks.file) \in Stream(Block) /\ Content(File(blocks.file)) = blocks.file
          /\ File(blocks.file).file = blocks.file
      BY <1>1, FileFacts
    <3>2. blocks' = ForReading(File(blocks.file))
      BY <2>2 DEF open
    <3> QED
      BY <3>1, <3>2, TurnFacts
  <2> QED
    BY <2>1, <2>2
<1> DEFINE n == Len(blocks.file)
<1>3. /\ Positions(n) \in Seq(Nat) /\ Len(Positions(n)) = n
      /\ IsPositions(Positions(n))
  BY <1>1, PositionsFacts
<1>4. /\ construct_index(blocks) \in Stream(Nat)
      /\ n >= 2 => Content(construct_index(blocks)) = Positions(n)
  <2>1. File(<<>>) \in Stream(Nat) /\ File(<<>>).file = <<>>
    BY FileFacts, EmptySeq
  <2>2. construct_index(blocks) \in Stream(Nat)
    BY <1>3, <2>1, EmptySeq DEF construct_index, Stream
  <2>3. n >= 2 => construct_index(blocks).file = <<>> /\ construct_index(blocks).buffer = Positions(n)
    BY <1>1, <2>1 DEF construct_index, File
  <2>4. <<>> \o Positions(n) = Positions(n)
    BY <1>3, ConcatEmptySeq
  <2> QED
    BY <2>2, <2>3, <2>4 DEF Content
<1>5. ForReading(File(index.file)) \in Stream(Nat)
      /\ Content(ForReading(File(index.file))) = index.file
  BY <1>1, FileFacts, TurnFacts
<1>6. index' \in Stream(Nat)
  <2>1. File(<<>>) \in Stream(Nat)
    BY FileFacts, EmptySeq
  <2>2. \/ index' = File(<<>>)
        \/ index' = ForReading(File(index.file))
        \/ index' = construct_index(blocks)
    BY DEF open
  <2> QED
    BY <1>4, <1>5, <2>1, <2>2
<1>7. FlushInv'
  <2>1. Prefix(flushed, blocks'.file)
    <3>1. blocks'.file \in Seq(Block)
      BY <1>2, StreamFacts
    <3> QED
      BY <1>1, <1>2, <3>1, PrefixTransitive DEF LogInv, FlushInv
  <2>2. TypeOK'
    BY <1>1, <1>2, <1>6 DEF TypeOK, open, read_head
  <2> QED
    BY <2>1, <2>2 DEF open, LogInv, FlushInv
<1>8. ASSUME LongEnough PROVE IndexInv'
  <2>1. n >= 2 /\ blocks.file # <<>>
    <3>1. Len(InitialLog) \in Nat
      BY LenProperties
    <3>2. n >= 2
      BY <1>1, <1>8, <3>1 DEF LogInv, FlushInv, Prefix, LongEnough
    <3> QED
      BY <3>2, EmptySeq
  <2>2. IndexIsCurrent(blocks) => Len(index.file) = n
    BY <1>1, <1>8, LastPosition DEF IndexIsCurrent, LogInv, IndexInv, open
  <2>3. IsPositions(Content(index')) /\ Len(Content(index')) = n
    <3>1. CASE IndexIsCurrent(blocks)
      BY <1>5, <1>8, <2>1, <2>2, <3>1 DEF open, LogInv, IndexInv
    <3>2. CASE ~IndexIsCurrent(blocks)
      <4>1. index' = construct_index(blocks)
        BY <2>1, <3>2 DEF open
      <4> QED
        BY <1>3, <1>4, <2>1, <4>1
    <3> QED
      BY <3>1, <3>2
  <2> QED
    BY <1>2, <2>3 DEF IndexInv, open, read_head
<1> QED
  BY <1>7, <1>8 DEF LogInv, LongEnough

LEMMA AppendInv == ASSUME NEW b \in Block, LogInv, append(b) PROVE LogInv'
<1>1. /\ blocks \in Stream(Block) /\ index \in Stream(Nat) /\ head \in Nat
      /\ flushed \in Seq(Block) /\ status = "open"
  BY DEF LogInv, FlushInv, TypeOK, append
<1> DEFINE bs == ForWriting(blocks)
           is == ForWriting(index)
           n == Len(Content(blocks))
<1>2. /\ bs \in Stream(Block) /\ Content(bs) = Content(blocks) /\ Prefix(blocks.file, bs.file)
      /\ is \in Stream(Nat) /\ Content(is) = Content(index)
  BY <1>1, TurnFacts
<1>3. /\ Content(blocks) \in Seq(Block) /\ n \in Nat
      /\ Content(index) \in Seq(Nat)
  BY <1>1, StreamFacts, LenProperties
<1>4. blocks' = Put(bs, b) /\ index' = Put(is, n + 1) /\ head' = head + 1
      /\ status' = status /\ flushed' = flushed
  BY DEF append
<1> HIDE DEF bs, is
<1>5. /\ blocks' \in Stream(Block) /\ blocks'.file = bs.file
      /\ Content(blocks') = Append(Content(blocks), b)
  BY <1>2, <1>4, PutFacts
<1>6. /\ index' \in Stream(Nat)
      /\ Content(index') = Append(Content(index), n + 1)
  <2>1. n + 1 \in Nat
    BY <1>3
  <2> QED
    BY <1>2, <1>4, <2>1, PutFacts
<1>7. FlushInv'
  <2>1. Prefix(flushed, blocks'.file)
    <3>1. blocks.file \in Seq(Block) /\ blocks'.file \in Seq(Block)
      BY <1>1, <1>5, StreamFacts
    <3> QED
      BY <1>1, <1>2, <1>5, <3>1, PrefixTransitive DEF LogInv, FlushInv
  <2> QED
    BY <1>1, <1>4, <1>5, <1>6, <2>1 DEF LogInv, FlushInv, TypeOK
<1>8. ASSUME LongEnough PROVE IndexInv'
  <2>1. IsPositions(Content(index)) /\ Len(Content(index)) = n /\ head = n
    BY <1>1, <1>8 DEF LogInv, IndexInv
  <2>2. Len(Content(index')) = n + 1 /\ Len(Content(blocks')) = n + 1
    BY <1>3, <1>5, <1>6, <2>1
  <2>3. ASSUME NEW i \in 1 .. n + 1 PROVE Content(index')[i] = i
    <3>1. CASE i = n + 1
      BY <1>3, <1>6, <2>1, <3>1
    <3>2. CASE i # n + 1
      <4>1. i \in 1 .. n
        BY <1>3, <3>2
      <4> QED
        BY <1>3, <1>6, <2>1, <4>1 DEF IsPositions
    <3> QED
      BY <3>1, <3>2
  <2> QED
    BY <1>1, <1>4, <2>1, <2>2, <2>3 DEF IndexInv, IsPositions
<1> QED
  BY <1>7, <1>8 DEF LogInv, LongEnough

\* flush(), reading and closing: the streams hold what they held.
LEMMA TurnInv == LogInv /\ (flush \/ read_block_by_num \/ read_block \/ close) => LogInv'
<1> SUFFICES ASSUME LogInv, flush \/ read_block_by_num \/ read_block \/ close PROVE LogInv'
  OBVIOUS
<1>1. /\ blocks \in Stream(Block) /\ index \in Stream(Nat)
      /\ flushed \in Seq(Block) /\ status = "open"
      /\ blocks.file \in Seq(Block) /\ Content(blocks) \in Seq(Block)
  BY StreamFacts DEF LogInv, FlushInv, TypeOK, flush, read_block_by_num, read_block, close
<1>2. /\ blocks' \in Stream(Block) /\ Content(blocks') = Content(blocks)
      /\ Prefix(blocks.file, blocks'.file)
  BY <1>1, TurnFacts DEF flush, read_block_by_num, read_block, close
<1>3. /\ index' \in Stream(Nat) /\ Content(index') = Content(index)
  BY <1>1, TurnFacts DEF flush, read_block_by_num, read_block, close
<1>4. Prefix(flushed, blocks'.file)
  <2>1. blocks'.file \in Seq(Block)
    BY <1>2, StreamFacts
  <2> QED
    BY <1>1, <1>2, <2>1, PrefixTransitive DEF LogInv, FlushInv
<1>5. FlushInv'
  <2>1. CASE flush
    <3>1. /\ blocks'.file = Content(blocks) /\ flushed' = Content(blocks)
          /\ status' = status /\ head' = head
      BY <1>1, <2>1, StreamFacts DEF flush
    <3>2. Prefix(flushed', blocks'.file)
      BY <1>1, <3>1, LenProperties DEF Prefix
    <3>3. Prefix(flushed, flushed')
      BY <1>4, <3>1
    <3>4. Len(InitialLog) <= Len(flushed')
      BY <1>1, <3>1, <3>3, LenProperties DEF LogInv, FlushInv, Prefix
    <3> QED
      BY <1>1, <1>2, <1>3, <3>1, <3>2, <3>4 DEF LogInv, FlushInv, TypeOK
  <2>2. CASE read_block_by_num \/ read_block \/ close
    BY <1>1, <1>2, <1>3, <1>4, <2>2
    DEF read_block_by_num, read_block, close, LogInv, FlushInv, TypeOK
  <2> QED
    BY <2>1, <2>2
<1>6. ASSUME LongEnough PROVE IndexInv'
  <2>1. CASE close
    <3>1. index'.file = Content(index) /\ index'.buffer = <<>>
      BY <1>1, <2>1, StreamFacts DEF close
    <3> QED
      BY <1>1, <1>6, <2>1, <3>1 DEF LogInv, IndexInv, close
  <2>2. CASE flush \/ read_block_by_num \/ read_block
    BY <1>1, <1>2, <1>3, <1>6, <2>2
    DEF LogInv, IndexInv, flush, read_block_by_num, read_block
  <2> QED
    BY <2>1, <2>2
<1> QED
  BY <1>5, <1>6 DEF LogInv, LongEnough

LEMMA CrashInv == LogInv /\ crash => LogInv'
<1> SUFFICES ASSUME LogInv, crash PROVE LogInv'
  OBVIOUS
<1>1. /\ blocks \in Stream(Block) /\ index \in Stream(Nat)
      /\ flushed \in Seq(Block) /\ status = "open"
      /\ blocks.file \in Seq(Block) /\ Content(index) \in Seq(Nat)
  BY StreamFacts DEF LogInv, FlushInv, TypeOK, crash
<1>2. blocks' \in Stream(Block) /\ Prefix(blocks.file, blocks'.file)
  BY <1>1, CutFacts DEF crash
<1>3. index' \in Stream(Nat) /\ index'.buffer = <<>> /\ Prefix(index'.file, Content(index))
  BY <1>1, CutFacts DEF crash
<1>4. Prefix(flushed, blocks'.file)
  <2>1. blocks'.file \in Seq(Block)
    BY <1>2, StreamFacts
  <2> QED
    BY <1>1, <1>2, <2>1, PrefixTransitive DEF LogInv, FlushInv
<1>5. FlushInv'
  BY <1>1, <1>2, <1>3, <1>4 DEF crash, LogInv, FlushInv, TypeOK
<1>6. ASSUME LongEnough PROVE IndexInv'
  <2>1. index'.file \in Seq(Nat)
    BY <1>3, StreamFacts
  <2>2. IsPositions(index'.file)
    BY <1>1, <1>3, <1>6, <2>1, PrefixPositions DEF LogInv, IndexInv
  <2> QED
    BY <1>3, <2>2 DEF crash, IndexInv
<1> QED
  BY <1>5, <1>6 DEF LogInv, LongEnough

LEMMA RemovedInv == LogInv /\ index_removed => LogInv'
<1> SUFFICES ASSUME LogInv, index_removed PROVE LogInv'
  OBVIOUS
<1>1. index' \in Stream(Nat) /\ index'.file = <<>> /\ index'.buffer = <<>>
  BY FileFacts, EmptySeq DEF index_removed
<1>2. IsPositions(index'.file)
  BY <1>1, EmptySeq DEF IsPositions
<1> QED
  BY <1>1, <1>2 DEF index_removed, LogInv, LongEnough, IndexInv, FlushInv, TypeOK

LEMMA NextInv == LogInv /\ [Next]_vars => LogInv'
<1> SUFFICES ASSUME LogInv, [Next]_vars PROVE LogInv'
  OBVIOUS
<1>1. CASE UNCHANGED vars
  BY <1>1 DEF vars, LogInv, LongEnough, IndexInv, FlushInv, TypeOK
<1>2. CASE \E b \in Block : append(b)
  BY <1>2, AppendInv
<1>3. CASE ~(\E b \in Block : append(b)) /\ Next
  BY <1>3, OpenInv, TurnInv, CrashInv, RemovedInv DEF Next
<1> QED
  BY <1>1, <1>2, <1>3

\* The inductive invariant: what was flushed begins the block file, and what the
\* index has is right, also while the log is closed.
THEOREM LogInvariant == Spec => []LogInv
<1>1. Init => LogInv
  BY InitInv
<1>2. LogInv /\ [Next]_vars => LogInv'
  BY NextInv
<1> QED
  BY <1>1, <1>2, PTL DEF Spec

\* The types of the two streams.
THEOREM TypeCorrect == Spec => []TypeOK
<1>1. LogInv => TypeOK
  BY DEF LogInv, FlushInv
<1> QED
  BY <1>1, LogInvariant, PTL

\* Wherever the process dies, what flush() wrote stays in the block file (flush).
THEOREM FlushedSurvives == Spec => []FlushedBlocksSurvive
<1>1. LogInv => FlushedBlocksSurvive
  <2> SUFFICES ASSUME LogInv PROVE FlushedBlocksSurvive
    OBVIOUS
  <2>1. /\ flushed \in Seq(Block) /\ blocks.file \in Seq(Block)
        /\ Len(flushed) \in Nat /\ Len(blocks.file) \in Nat
    BY LenProperties DEF LogInv, FlushInv, TypeOK, Stream
  <2>2. Len(flushed) \in 0 .. Len(blocks.file) /\ \A i \in 1 .. Len(flushed) : flushed[i] = blocks.file[i]
    BY <2>1 DEF LogInv, FlushInv, Prefix
  <2> DEFINE p == SubSeq(blocks.file, 1, Len(flushed))
  <2>3. p \in Seq(Block) /\ Len(p) = Len(flushed)
        /\ \A i \in 1 .. Len(flushed) : p[i] = blocks.file[i]
    BY <2>1, <2>2, BeginningFacts
  <2> HIDE DEF p
  <2>4. flushed = p
    BY <2>1, <2>2, <2>3, SeqEqual
  <2> QED
    BY <2>1, <2>2, <2>4 DEF p, FlushedBlocksSurvive
<1> QED
  BY <1>1, LogInvariant, PTL

\* In an open log that began with two blocks or more, the index has the position
\* of every block and the head is the last (open, construct_index, append).
THEOREM IndexMatches == LongEnough => (Spec => []IndexAndHeadMatchLog)
<1> SUFFICES ASSUME LongEnough PROVE Spec => []IndexAndHeadMatchLog
  OBVIOUS
<1>1. LogInv => IndexAndHeadMatchLog
  <2> SUFFICES ASSUME LogInv, status = "open"
               PROVE  /\ Content(index) = Positions(Len(Content(blocks)))
                      /\ head = Len(Content(blocks))
    BY DEF IndexAndHeadMatchLog
  <2>1. /\ IsPositions(Content(index))
        /\ Len(Content(index)) = Len(Content(blocks))
        /\ head = Len(Content(blocks))
    BY DEF LogInv, IndexInv
  <2>2. Content(index) \in Seq(Nat)
    BY StreamFacts DEF LogInv, FlushInv, TypeOK
  <2> QED
    BY <2>1, <2>2, PositionsUnique
<1> QED
  BY <1>1, LogInvariant, PTL
================================================================================
