--------------------------- MODULE ChainDatabaseProofs ---------------------------
(****************************************************************************)
(* Proofs about ChainDatabase for every set of worlds, that is, for any     *)
(* tree of blocks, any of them refused and any last irreversible blocks:    *)
(* type correctness, that the undo stack reaches exactly to the block log,  *)
(* and that a node that is not restarted implements FinalChain.             *)
(*                                                                          *)
(* The second part adds what holds in orderly worlds, in which no known     *)
(* block is pushed again and none makes itself irreversible: the log is the *)
(* state's own chain, an orderly close can be opened again, and a node that *)
(* crashes and restarts implements FinalChain as well.  The third part is   *)
(* the fork choice: the head is a highest known block.  The fourth, again   *)
(* in orderly worlds: a fork switch that fails is undone.                   *)
(****************************************************************************)
EXTENDS ChainDatabase, SequenceTheorems, WellFoundedInduction, TLAPS

Switching == pc \in {"pop", "apply", "unwind", "restore"}

\* The two branches of a switch end in blocks above the common parent, and the
\* state is below the end of the branch that is being applied.
SwitchOK ==
    /\ Switching => /\ sw.new \in Block /\ sw.old \in Block
                    /\ sw.parent < Num(sw.new) /\ sw.parent < Num(sw.old)
    /\ pc = "apply" => Num(head) < Num(sw.new)
    /\ pc = "restore" => Num(head) < Num(sw.old)

\* A node that is not restarted is never down.
NeverDown == ~Restarts => Running

ChainInv == TypeOK /\ UndoReachesLog /\ SwitchOK /\ NeverDown

AbsStep == [Abs!Next]_(Abs!vars)

-----------------------------------------------------------------------------
(* Blocks are their paths. *)

\* The first n elements are n elements.
LEMMA PrefixLength ==
    ASSUME NEW S, NEW s \in Seq(S), NEW n \in 0 .. Len(s)
    PROVE  Len(SubSeq(s, 1, n)) = n
OBVIOUS

\* A block's ancestor of a given number exists, and has that number.
LEMMA AncestorIsBlock ==
    ASSUME NEW w, WorldOK(w), NEW b \in w.blocks, NEW n \in 1 .. Num(b)
    PROVE  AncestorAt(b, n) \in w.blocks /\ Num(AncestorAt(b, n)) = n
<1>1. b \in Seq(Label) /\ n \in Nat
  BY DEF WorldOK
<1>2. Num(AncestorAt(b, n)) = n
  BY <1>1 DEF Num, AncestorAt
<1>3. QED
  BY <1>2 DEF WorldOK

\* The previous id of a block is an existing block or, for the first, zero.
LEMMA PreviousIsBlock ==
    ASSUME NEW w, WorldOK(w), NEW b \in w.blocks
    PROVE  /\ Num(b) \in Nat \ {0}
           /\ Previous(b) \in w.blocks \cup {<<>>}
           /\ Num(Previous(b)) = Num(b) - 1
<1>1. b \in Seq(Label) /\ b # <<>>
  BY DEF WorldOK
<1>2. Num(b) \in Nat \ {0}
  BY <1>1 DEF Num
<1>3. Num(Previous(b)) = Num(b) - 1
  <2>1. Len(b) - 1 \in 0 .. Len(b)
    BY <1>2 DEF Num
  <2>2. QED
    BY <1>1, <2>1, PrefixLength DEF Num, Previous
<1>4. CASE Num(b) = 1
  <2>1. Previous(b) = <<>>
    BY <1>1, <1>4 DEF Num, Previous
  <2>2. QED
    BY <1>2, <1>3, <2>1
<1>5. CASE Num(b) > 1
  <2>1. Num(b) - 1 \in 1 .. Num(b) /\ Previous(b) = AncestorAt(b, Num(b) - 1)
    BY <1>2, <1>5 DEF Num, Previous, AncestorAt
  <2>2. QED
    BY <1>2, <1>3, <2>1, AncestorIsBlock
<1>6. QED
  BY <1>2, <1>4, <1>5

\* A block, or the zero id, has a number, and only the zero id has number 0.
LEMMA NumIsNat ==
    ASSUME NEW w, WorldOK(w), NEW b \in w.blocks \cup {<<>>}
    PROVE  Num(b) \in Nat /\ (Num(b) > 0 => b \in w.blocks)
<1>1. CASE b \in w.blocks
  BY <1>1, PreviousIsBlock
<1>2. CASE b = <<>>
  BY <1>2 DEF Num
<1>3. QED
  BY <1>1, <1>2

-----------------------------------------------------------------------------
(* Every operation of the fork database yields a fork database. *)

LEMMA PushBlockTyped ==
    ASSUME NEW bs, NEW f \in ForkDb(bs), NEW b \in bs
    PROVE  PushBlock(f, b) \in ForkDb(bs)
BY DEF ForkDb, PushBlock

LEMMA SettledTyped ==
    ASSUME NEW bs, NEW f \in ForkDb(bs), NEW held
    PROVE  Settled(f, held) \in ForkDb(bs)
BY DEF ForkDb, Settled

LEMMA RemoveTyped ==
    ASSUME NEW bs, NEW f \in ForkDb(bs), NEW gone
    PROVE  Remove(f, gone) \in ForkDb(bs)
BY DEF ForkDb, Remove

LEMMA SetHeadTyped ==
    ASSUME NEW bs, NEW f \in ForkDb(bs), NEW held, NEW b \in bs \cup {<<>>}
    PROVE  SetHead(f, held, b) \in ForkDb(bs)
<1>1. IsLinked(f, held, b) \in BOOLEAN
  BY DEF IsLinked
<1>2. QED
  BY <1>1 DEF ForkDb, SetHead

LEMMA SetMaxSizeTyped ==
    ASSUME NEW bs, NEW f \in ForkDb(bs), NEW s \in Nat
    PROVE  SetMaxSize(f, s) \in ForkDb(bs)
BY DEF ForkDb, SetMaxSize

LEMMA StartBlockTyped ==
    ASSUME NEW bs, NEW f \in ForkDb(bs), NEW b \in bs
    PROVE  StartBlock(f, b) \in ForkDb(bs)
BY DEF ForkDb, StartBlock

LEMMA EmptyTyped == ASSUME NEW bs PROVE EmptyForkDb \in ForkDb(bs)
BY DefaultMaxSizeAssumption DEF ForkDb, EmptyForkDb

\* The fork database answers a query by number with one of its blocks.
LEMMA MainBranchBlockTyped ==
    ASSUME NEW w, WorldOK(w), NEW f \in ForkDb(w.blocks), NEW n \in Nat \ {0}
    PROVE  MainBranchBlock(f, n) \in w.blocks \cup {<<>>}
<1> DEFINE candidates == {b \in f.index : Num(b) = n}
<1>1. (CHOOSE b \in candidates : TRUE) \in w.blocks \/ candidates = {}
  BY DEF ForkDb
<1>2. n <= Num(f.head) => AncestorAt(f.head, n) \in w.blocks
  <2>1. f.head \in w.blocks \cup {<<>>}
    BY DEF ForkDb
  <2>2. QED
    BY <2>1, NumIsNat, AncestorIsBlock
<1>3. QED
  BY <1>1, <1>2 DEF MainBranchBlock

-----------------------------------------------------------------------------
(* Applying a block. *)

\* The migration of an applied block is one of the fork database.
LEMMA MigratedTyped ==
    ASSUME WorldOK(world), NEW f \in ForkDb(Block), NEW b \in Block
    PROVE  Migrated(f, b) \in ForkDb(Block)
<1>1. lib[b] \in Nat /\ lib[b] <= Num(b) /\ Num(b) \in Nat
  BY PreviousIsBlock DEF WorldOK, Block, lib
<1>2. Num(b) - lib[b] + 1 \in Nat
  BY <1>1
<1>3. QED
  BY <1>2, SetMaxSizeTyped DEF Migrated

\* What is written to the log are blocks.
LEMMA LogPartTyped ==
    ASSUME WorldOK(world), NEW f \in ForkDb(Block), NEW b \in Block,
           log \in Seq(Block), CanMigrate(f, b)
    PROVE  /\ LogPart(f, b) \in Seq(Block)
           /\ Len(LogPart(f, b)) = IF lib[b] > Len(log) THEN lib[b] - Len(log) ELSE 0
<1> DEFINE n == IF lib[b] > Len(log) THEN lib[b] - Len(log) ELSE 0
<1>1. lib[b] \in Nat /\ n \in Nat
  BY DEF WorldOK, Block, lib
<1>2. \A i \in 1 .. n : LogPart(f, b)[i] \in Block
  <2>1. TAKE i \in 1 .. n
  <2>2. LogPart(f, b)[i] = MainBranchBlock(f, Len(log) + i) /\ i \in DOMAIN LogPart(f, b)
    BY DEF LogPart
  <2>3. Len(log) + i \in Nat \ {0}
    BY <1>1
  <2>4. MainBranchBlock(f, Len(log) + i) \in Block \cup {<<>>}
    BY <2>3, MainBranchBlockTyped DEF Block
  <2>5. QED
    BY <2>2, <2>4 DEF CanMigrate
<1>3. LogPart(f, b) = [i \in 1 .. n |-> LogPart(f, b)[i]]
  BY DEF LogPart
<1> HIDE DEF n
<1>4. LogPart(f, b) \in Seq(Block) /\ Len(LogPart(f, b)) = n
  BY <1>1, <1>2, <1>3, SeqDef, LenProperties
<1>5. QED
  BY <1>4 DEF n

\* The undo stack reaches to the log before and after a migration.
LEMMA MigrateStep ==
    ASSUME WorldOK(world), NEW f \in ForkDb(Block), NEW b \in Block,
           log \in Seq(Block), base = Len(log), Len(log) < Num(b),
           CanMigrate(f, b), Migrate(f, b)
    PROVE  /\ log' \in Seq(Block)
           /\ base' = Len(log')
           /\ Len(log') = Max(base, lib[b])
           /\ Len(log) <= Len(log') /\ Len(log') <= Num(b)
<1>1. lib[b] \in Nat /\ lib[b] <= Num(b) /\ Num(b) \in Nat
  BY PreviousIsBlock DEF WorldOK, Block, lib
<1>2. /\ LogPart(f, b) \in Seq(Block)
      /\ Len(LogPart(f, b)) = IF lib[b] > Len(log) THEN lib[b] - Len(log) ELSE 0
  BY LogPartTyped
<1>3. log' \in Seq(Block) /\ Len(log') = Len(log) + Len(LogPart(f, b))
  BY <1>2, ConcatProperties DEF Migrate
<1>4. QED
  BY <1>1, <1>2, <1>3 DEF Migrate, Max

\* What apply_block() does to the state, however it ends: the undo stack
\* reaches to the log still, and the log and the head are extended or kept.
LEMMA ApplyStep ==
    ASSUME TypeOK, UndoReachesLog, Running, UNCHANGED world,
           NEW f \in ForkDb(Block), NEW b \in Block,
           ApplyOk(f, b) \/ ApplyThrows(f, b) \/ ApplyThrowsLate(f, b)
    PROVE  /\ head' \in Block \cup {<<>>} /\ log' \in Seq(Block)
           /\ base' = Len(log') /\ Len(log') <= Num(head')
           /\ AbsStep
           /\ ApplyOk(f, b) => head' = b /\ Num(head') = Num(head) + 1
           /\ Migrated(f, b) \in ForkDb(Block)
<1>1. /\ WorldOK(world) /\ head \in Block \cup {<<>>} /\ log \in Seq(Block)
      /\ base = Len(log) /\ Len(log) <= Num(head) /\ Num(head) \in Nat
  BY NumIsNat DEF TypeOK, UndoReachesLog, Block
<1>2. Num(b) \in Nat /\ Num(Previous(b)) = Num(b) - 1 /\ lib[b] \in Nat
  BY <1>1, PreviousIsBlock DEF Block, WorldOK, lib
<1>3. Migrated(f, b) \in ForkDb(Block)
  BY <1>1, MigratedTyped
<1>4. CASE ApplyThrows(f, b)
  BY <1>1, <1>3, <1>4 DEF ApplyThrows, ApplyOk, AbsStep, Abs!vars
<1>5. ASSUME Applies(f, b), Migrate(f, b)
      PROVE  /\ Num(b) = Num(head) + 1
             /\ SubSeq(b, 1, Len(head)) = head
             /\ log' \in Seq(Block) /\ base' = Len(log')
             /\ Len(log') = Max(base, lib[b])
             /\ Len(log) <= Len(log') /\ Len(log') <= Num(b)
  <2>1. Previous(b) = head /\ Num(b) = Num(head) + 1
    BY <1>1, <1>2, <1>5 DEF Applies, BlockApplies
  <2>2. SubSeq(b, 1, Len(head)) = head
    BY <1>1, <1>2, <2>1 DEF Previous, Num
  <2>3. Len(log) < Num(b)
    BY <1>1, <2>1
  <2>4. QED
    BY <1>1, <1>5, <2>1, <2>2, <2>3, MigrateStep DEF Applies
<1>6. ASSUME Applies(f, b), Migrate(f, b), head' = b
      PROVE  Abs!Extend
  <2>1. Len(log') \in Nat /\ Len(log) \in Nat
    BY <1>1, <1>5, <1>6
  <2>2. Len(log') \in Len(log) .. Len(b)
    BY <1>2, <1>5, <1>6, <2>1 DEF Num
  <2>3. QED
    BY <1>5, <1>6, <2>2 DEF Abs!Extend, Num
<1>7. CASE ApplyOk(f, b)
  BY <1>2, <1>3, <1>5, <1>6, <1>7 DEF ApplyOk, AbsStep, Abs!Next
<1>8. CASE ApplyThrowsLate(f, b)
  <2>1. ~ApplyOk(f, b)
    BY <1>8 DEF ApplyThrowsLate, ApplyOk
  <2>2. CASE Num(b) > Max(base, lib[b])
    <3>1. Len(log') <= Num(head) /\ head' = head
      BY <1>1, <1>2, <1>5, <1>8, <2>2 DEF ApplyThrowsLate, Max
    <3>2. Len(log') \in Len(log) .. Len(head)
      BY <1>1, <1>5, <1>8, <3>1 DEF ApplyThrowsLate, Num
    <3>3. Abs!Finalize
      BY <3>1, <3>2 DEF Abs!Finalize
    <3>4. QED
      BY <1>1, <1>3, <1>5, <1>8, <2>1, <3>1, <3>3 DEF ApplyThrowsLate, AbsStep, Abs!Next
  <2>3. CASE ~(Num(b) > Max(base, lib[b]))
    <3>1. head' = b
      BY <1>8, <2>3 DEF ApplyThrowsLate
    <3>2. QED
      BY <1>3, <1>5, <1>6, <1>8, <2>1, <3>1 DEF ApplyThrowsLate, AbsStep, Abs!Next
  <2>4. QED
    BY <2>2, <2>3
<1>9. QED
  BY <1>4, <1>7, <1>8

-----------------------------------------------------------------------------
(* Every step keeps the invariant and is a step of FinalChain or a stutter. *)

\* The end of a handler: the node is idle, with a fork database.
LEMMA DoneTyped ==
    ASSUME NEW f \in ForkDb(Block), Done(f), UNCHANGED world
    PROVE  /\ fork' \in ForkDb(Block)' /\ pc' = "idle"
           /\ sw' \in [new : Block \cup {<<>>}, old : Block \cup {<<>>}, parent : Nat]'
<1>1. Settled(f, {}) \in ForkDb(Block) /\ Block' = Block
  BY SettledTyped DEF Block
<1>2. fork' \in ForkDb(Block)'
  BY <1>1 DEF Done, ForkDb
<1>3. QED
  BY <1>1, <1>2 DEF Done, NoSwitch

\* The invariant, put together again after a step of the running node.
LEMMA Running_Inv ==
    ASSUME ChainInv, Running, UNCHANGED <<world, disk>>,
           head' \in Block \cup {<<>>}, log' \in Seq(Block),
           base' = Len(log'), Len(log') <= Num(head'),
           fork' \in ForkDb(Block)',
           sw' \in [new : Block \cup {<<>>}, old : Block \cup {<<>>}, parent : Nat]',
           pc' \in {"idle", "pop", "apply", "unwind", "restore"},
           SwitchOK'
    PROVE  ChainInv'
<1>1. TypeOK'
  <2>1. base' \in Nat
    OBVIOUS
  <2>2. QED
    BY <2>1 DEF ChainInv, TypeOK, Block
<1>2. UndoReachesLog' /\ NeverDown'
  BY DEF UndoReachesLog, NeverDown, Running
<1>3. QED
  BY <1>1, <1>2 DEF ChainInv

\* Pushing a block, however it ends.
LEMMA PushStep ==
    ASSUME ChainInv, NEW b \in Block, push_block(b)
    PROVE  ChainInv' /\ AbsStep
<1> DEFINE f == Pushed(b)
<1>1. /\ TypeOK /\ UndoReachesLog /\ pc = "idle" /\ Running /\ WorldOK(world)
      /\ UNCHANGED <<world, disk>> /\ f \in ForkDb(Block)
  <2>1. \A g \in ForkDb(Block) : Settled(PushBlock(g, b), {}) \in ForkDb(Block)
    BY PushBlockTyped, SettledTyped
  <2>2. QED
    BY <2>1 DEF ChainInv, TypeOK, push_block, PushOnHead, PushOnShorterFork,
       PushOnBrokenBranch, PushOnLongerFork, Delivered, Running, Pushed
<1>2. /\ head \in Block \cup {<<>>} /\ Num(head) \in Nat /\ log \in Seq(Block)
      /\ base = Len(log) /\ Len(log) <= Num(head)
  BY <1>1, NumIsNat DEF TypeOK, UndoReachesLog, Block
<1>3. f.head \in Block \cup {<<>>} /\ Num(f.head) \in Nat /\ (Num(f.head) > 0 => f.head \in Block)
  BY <1>1, NumIsNat DEF ForkDb, Block
<1> HIDE DEF f
<1>4. ASSUME UNCHANGED <<head, base, log>> PROVE AbsStep
  BY <1>4 DEF AbsStep, Abs!vars
<1>5. CASE PushOnHead(b)
  <2>1. ApplyOk(f, b) \/ ApplyThrows(f, b) \/ ApplyThrowsLate(f, b)
    BY <1>5 DEF PushOnHead, f
  <2>2. /\ head' \in Block \cup {<<>>} /\ log' \in Seq(Block)
        /\ base' = Len(log') /\ Len(log') <= Num(head')
        /\ AbsStep /\ Migrated(f, b) \in ForkDb(Block)
    BY <1>1, <2>1, ApplyStep
  <2>3. PICK g \in ForkDb(Block) : Done(g)
    <3>1. Remove(f, {b}) \in ForkDb(Block)
      BY <1>1, RemoveTyped
    <3>2. Remove(Migrated(f, b), {b}) \in ForkDb(Block)
      BY <2>2, RemoveTyped
    <3>3. QED
      BY <1>5, <2>2, <3>1, <3>2 DEF PushOnHead, f
  <2>4. QED
    BY <1>1, <2>2, <2>3, DoneTyped, Running_Inv DEF SwitchOK, Switching
<1>6. CASE PushOnShorterFork(b) \/ PushOnBrokenBranch(b)
  <2>1. Done(f) /\ UNCHANGED <<head, base, log>>
    BY <1>6 DEF PushOnShorterFork, PushOnBrokenBranch, f
  <2>2. QED
    BY <1>1, <1>2, <1>4, <2>1, DoneTyped, Running_Inv DEF SwitchOK, Switching
<1>7. CASE PushOnLongerFork(b)
  <2>1. PICK n \in 0 .. Num(head) :
           /\ BranchesFetched(f, f.head, head, n)
           /\ sw' = [new |-> f.head, old |-> head, parent |-> n]
    BY <1>7 DEF PushOnLongerFork, f
  <2>2. fork' = f /\ pc' = "pop" /\ UNCHANGED <<head, base, log>> /\ Num(f.head) > Num(head)
    BY <1>7 DEF PushOnLongerFork, f
  <2>3. f.head \in Block /\ head \in Block /\ n < Num(f.head) /\ n < Num(head)
    BY <1>1, <2>1 DEF BranchesFetched, IsCommonParent, ForkDb, Num
  <2>4. SwitchOK'
    BY <1>1, <2>1, <2>2, <2>3 DEF SwitchOK, Switching, Block
  <2>5. /\ fork' \in ForkDb(Block)'
        /\ sw' \in [new : Block \cup {<<>>}, old : Block \cup {<<>>}, parent : Nat]'
    BY <1>1, <1>2, <2>1, <2>2, <2>3 DEF Block, ForkDb
  <2>6. QED
    BY <1>1, <1>2, <1>4, <2>2, <2>4, <2>5, Running_Inv
<1>8. QED
  BY <1>5, <1>6, <1>7 DEF push_block

\* The block of a branch above the state is a block, and it is the branch's
\* last one or below that.
LEMMA NextOfBranch ==
    ASSUME TypeOK, NEW tip \in Block, Num(head) < Num(tip)
    PROVE  /\ AncestorAt(tip, Num(head) + 1) \in Block
           /\ Num(AncestorAt(tip, Num(head) + 1)) = Num(head) + 1
           /\ AncestorAt(tip, Num(head) + 1) # tip => Num(head) + 1 < Num(tip)
<1>1. WorldOK(world) /\ Num(head) \in Nat /\ Num(tip) \in Nat /\ tip \in Seq(Label)
  BY NumIsNat DEF TypeOK, Block, WorldOK
<1>2. Num(head) + 1 \in 1 .. Num(tip)
  BY <1>1
<1>3. Num(head) + 1 = Num(tip) => AncestorAt(tip, Num(head) + 1) = tip
  BY <1>1 DEF Num, AncestorAt
<1>4. QED
  BY <1>1, <1>2, <1>3, AncestorIsBlock DEF Block

\* The state is at the common parent, which is below the ends of both branches.
LEMMA AtParent ==
    ASSUME TypeOK, sw.old \in Block, sw.parent < Num(sw.old), AtCommonParent
    PROVE  Num(head) = sw.parent
<1>1. sw.old \in Seq(Label) /\ sw.parent \in Nat
  BY DEF TypeOK, WorldOK, Block
<1>2. sw.parent \in 0 .. Len(sw.old)
  BY <1>1 DEF Num
<1>3. QED
  BY <1>1, <1>2, PrefixLength DEF AtCommonParent, AncestorAt, Num

\* A pop takes back a block that is not in the log, or nothing.
LEMMA PopStep ==
    ASSUME ChainInv, pop_block
    PROVE  ChainInv' /\ AbsStep
<1>1. /\ TypeOK /\ UndoReachesLog /\ Running /\ WorldOK(world) /\ fork \in ForkDb(Block)
      /\ UNCHANGED <<world, base, log, disk>> /\ pc \in {"pop", "unwind"}
      /\ head \in Block \cup {<<>>} /\ Num(head) \in Nat /\ log \in Seq(Block)
      /\ base = Len(log) /\ Len(log) <= Num(head)
  BY NumIsNat DEF ChainInv, TypeOK, pop_block, Running, UndoReachesLog, Block
<1>2. CASE Done(fork) /\ UNCHANGED head
  <2>1. AbsStep
    BY <1>1, <1>2 DEF AbsStep, Abs!vars
  <2>2. QED
    BY <1>1, <1>2, <2>1, DoneTyped, Running_Inv DEF SwitchOK, Switching
<1>3. CASE /\ HeadIsFound /\ CanPop(fork)
           /\ fork' = Settled(PopBlock(fork, Held), Held)
           /\ head' = IF Num(head) > base THEN Previous(head) ELSE head
           /\ UNCHANGED <<pc, sw>>
  <2>1. fork' \in ForkDb(Block)'
    <3>1. fork.head \in Block
      BY <1>1, <1>3 DEF CanPop, ForkDb
    <3>2. Previous(fork.head) \in Block \cup {<<>>}
      BY <1>1, <3>1, PreviousIsBlock DEF Block
    <3>3. PopBlock(fork, Held) \in ForkDb(Block)
      BY <1>1, <3>2, SetHeadTyped DEF PopBlock
    <3>4. Settled(PopBlock(fork, Held), Held) \in ForkDb(Block) /\ Block' = Block
      BY <1>1, <3>3, SettledTyped DEF Block
    <3>5. QED
      BY <1>3, <3>4 DEF ForkDb
  <2>2. SwitchOK'
    <3>1. pc' \in {"pop", "unwind"} /\ sw' = sw /\ Block' = Block
      BY <1>1, <1>3 DEF Block
    <3>2. QED
      BY <1>1, <3>1 DEF ChainInv, SwitchOK, Switching
  <2>3. sw' \in [new : Block \cup {<<>>}, old : Block \cup {<<>>}, parent : Nat]'
    BY <1>1, <1>3 DEF TypeOK, Block
  <2>4. CASE Num(head) > base
    <3>1. head \in Block
      BY <1>1, <2>4, NumIsNat DEF Block
    <3>2. head' = Previous(head) /\ head' \in Block \cup {<<>>} /\ Num(head') = Num(head) - 1
      BY <1>1, <1>3, <2>4, <3>1, PreviousIsBlock DEF Block
    <3>3. Num(head) - 1 \in Len(log) .. Len(head)
      BY <1>1, <2>4 DEF Num
    <3>4. Abs!Rewind
      BY <1>1, <3>2, <3>3 DEF Abs!Rewind, Previous, Num
    <3>5. QED
      BY <1>1, <1>3, <2>1, <2>2, <2>3, <2>4, <3>2, <3>4, Running_Inv DEF AbsStep, Abs!Next
  <2>5. CASE ~(Num(head) > base)
    <3>1. UNCHANGED head
      BY <1>3, <2>5
    <3>2. AbsStep
      BY <1>1, <3>1 DEF AbsStep, Abs!vars
    <3>3. QED
      BY <1>1, <1>3, <2>1, <2>2, <2>3, <3>1, <3>2, Running_Inv
  <2>6. QED
    BY <2>4, <2>5
<1>4. QED
  BY <1>2, <1>3 DEF pop_block

\* The next block of the new branch.
LEMMA SwitchApplyStep ==
    ASSUME ChainInv, SwitchApply
    PROVE  ChainInv' /\ AbsStep
<1> DEFINE b == AncestorAt(sw.new, Num(head) + 1)
           f == SetHead(fork, Held, b)
           rest == BranchOf(sw.new, Num(b) - 1)
<1>1. /\ TypeOK /\ UndoReachesLog /\ Running /\ WorldOK(world) /\ fork \in ForkDb(Block)
      /\ UNCHANGED <<world, disk>> /\ Switching
      /\ sw.new \in Block /\ sw.old \in Block
      /\ sw.parent < Num(sw.new) /\ sw.parent < Num(sw.old)
      /\ sw \in [new : Block \cup {<<>>}, old : Block \cup {<<>>}, parent : Nat]
  BY DEF ChainInv, TypeOK, SwitchApply, Running, Switching, SwitchOK
<1>2. Num(head) < Num(sw.new)
  BY <1>1, AtParent DEF ChainInv, SwitchApply, SwitchOK
<1>3. /\ b \in Block /\ Num(b) = Num(head) + 1
      /\ b # sw.new => Num(b) < Num(sw.new)
  BY <1>1, <1>2, NextOfBranch
<1>4. f \in ForkDb(Block)
  BY <1>1, <1>3, SetHeadTyped
<1>5. \/ /\ ApplyOk(f, b)
         /\ \/ b = sw.new /\ Done(Migrated(f, b))
            \/ /\ b # sw.new
               /\ fork' = Settled(Migrated(f, b), Held)
               /\ pc' = "apply" /\ UNCHANGED sw
      \/ /\ ApplyThrows(f, b)
         /\ fork' = Settled(Remove(f, rest), Held)
         /\ pc' = "unwind" /\ UNCHANGED sw
      \/ /\ ApplyThrowsLate(f, b)
         /\ fork' = Settled(Remove(Migrated(f, b), rest), Held)
         /\ pc' = "unwind" /\ UNCHANGED sw
  BY DEF SwitchApply
<1> HIDE DEF b, f, rest
<1>6. /\ head' \in Block \cup {<<>>} /\ log' \in Seq(Block)
      /\ base' = Len(log') /\ Len(log') <= Num(head') /\ AbsStep
      /\ ApplyOk(f, b) => head' = b
      /\ Migrated(f, b) \in ForkDb(Block)
  BY <1>1, <1>3, <1>4, <1>5, ApplyStep
<1>7. CASE ApplyOk(f, b) /\ b = sw.new /\ Done(Migrated(f, b))
  BY <1>1, <1>6, <1>7, DoneTyped, Running_Inv DEF SwitchOK, Switching
<1>8. ASSUME NEW g \in ForkDb(Block), fork' = Settled(g, Held), UNCHANGED sw,
             pc' \in {"apply", "unwind"}, pc' = "apply" => Num(head') < Num(sw.new)
      PROVE  ChainInv'
  <2>1. /\ fork' \in ForkDb(Block)'
        /\ sw' \in [new : Block \cup {<<>>}, old : Block \cup {<<>>}, parent : Nat]'
    <3>1. Settled(g, Held) \in ForkDb(Block) /\ Block' = Block
      BY <1>1, SettledTyped DEF Block
    <3>2. QED
      BY <1>1, <1>8, <3>1 DEF ForkDb
  <2>2. SwitchOK'
    BY <1>1, <1>8 DEF SwitchOK, Switching, Block
  <2>3. QED
    BY <1>1, <1>6, <1>8, <2>1, <2>2, Running_Inv
<1>9. Remove(f, rest) \in ForkDb(Block) /\ Remove(Migrated(f, b), rest) \in ForkDb(Block)
  BY <1>4, <1>6, RemoveTyped
<1>10. QED
  BY <1>3, <1>5, <1>6, <1>7, <1>8, <1>9

\* The next block of the old branch.
LEMMA SwitchRestoreStep ==
    ASSUME ChainInv, SwitchRestore
    PROVE  ChainInv' /\ AbsStep
<1> DEFINE b == AncestorAt(sw.old, Num(head) + 1)
           f == SetHead(fork, Held, b)
<1>1. /\ TypeOK /\ UndoReachesLog /\ Running /\ WorldOK(world) /\ fork \in ForkDb(Block)
      /\ UNCHANGED <<world, disk>> /\ Switching
      /\ sw.new \in Block /\ sw.old \in Block
      /\ sw.parent < Num(sw.new) /\ sw.parent < Num(sw.old)
      /\ sw \in [new : Block \cup {<<>>}, old : Block \cup {<<>>}, parent : Nat]
  BY DEF ChainInv, TypeOK, SwitchRestore, Running, Switching, SwitchOK
<1>2. Num(head) < Num(sw.old)
  BY <1>1, AtParent DEF ChainInv, SwitchRestore, SwitchOK
<1>3. /\ b \in Block /\ Num(b) = Num(head) + 1
      /\ b # sw.old => Num(b) < Num(sw.old)
  BY <1>1, <1>2, NextOfBranch
<1>4. f \in ForkDb(Block)
  BY <1>1, <1>3, SetHeadTyped
<1>5. \/ /\ ApplyOk(f, b) /\ b # sw.old
         /\ fork' = Settled(Migrated(f, b), Held)
         /\ pc' = "restore" /\ UNCHANGED sw
      \/ /\ ApplyOk(f, b) \/ ApplyThrows(f, b) \/ ApplyThrowsLate(f, b)
         /\ Done(f) \/ Done(Migrated(f, b))
  BY DEF SwitchRestore
<1> HIDE DEF b, f
<1>6. /\ head' \in Block \cup {<<>>} /\ log' \in Seq(Block)
      /\ base' = Len(log') /\ Len(log') <= Num(head') /\ AbsStep
      /\ ApplyOk(f, b) => head' = b
      /\ Migrated(f, b) \in ForkDb(Block)
  BY <1>1, <1>3, <1>4, <1>5, ApplyStep
<1>7. CASE Done(f) \/ Done(Migrated(f, b))
  BY <1>1, <1>4, <1>6, <1>7, DoneTyped, Running_Inv DEF SwitchOK, Switching
<1>8. CASE /\ ApplyOk(f, b) /\ b # sw.old
           /\ fork' = Settled(Migrated(f, b), Held)
           /\ pc' = "restore" /\ UNCHANGED sw
  <2>1. /\ fork' \in ForkDb(Block)'
        /\ sw' \in [new : Block \cup {<<>>}, old : Block \cup {<<>>}, parent : Nat]'
    <3>1. Settled(Migrated(f, b), Held) \in ForkDb(Block) /\ Block' = Block
      BY <1>1, <1>6, SettledTyped DEF Block
    <3>2. QED
      BY <1>1, <1>8, <3>1 DEF ForkDb
  <2>2. SwitchOK'
    BY <1>1, <1>3, <1>6, <1>8 DEF SwitchOK, Switching, Block
  <2>3. QED
    BY <1>1, <1>6, <1>8, <2>1, <2>2, Running_Inv
<1>9. QED
  BY <1>5, <1>7, <1>8

\* close() begins: the state goes back to the end of the log.
LEMMA CloseBeginStep ==
    ASSUME ChainInv, CloseBegin
    PROVE  ChainInv' /\ AbsStep
<1>1. /\ TypeOK /\ WorldOK(world) /\ head \in Block \cup {<<>>} /\ Num(head) \in Nat
      /\ base = Len(log) /\ Len(log) \in 0 .. Num(head) /\ Restarts
      /\ UNCHANGED <<world, base, log, fork, sw>> /\ pc' = "closing"
      /\ head' = AncestorAt(head, base) /\ disk' \in {"clean", "torn"}
  BY NumIsNat DEF ChainInv, TypeOK, UndoReachesLog, Running, CloseBegin, Block
<1>2. head' \in Block \cup {<<>>} /\ Num(head') = Len(log)
  <2>1. CASE Len(log) = 0
    BY <1>1, <2>1 DEF AncestorAt, Num
  <2>2. CASE Len(log) > 0
    BY <1>1, <2>2, NumIsNat, AncestorIsBlock DEF Block
  <2>3. QED
    BY <1>1, <2>1, <2>2
<1>3. AbsStep
  BY <1>1 DEF AbsStep, Abs!Next, Abs!Rewind, AncestorAt, Num
<1>4. ChainInv'
  <2>1. TypeOK'
    BY <1>1, <1>2 DEF TypeOK, Block, ForkDb
  <2>2. UndoReachesLog' /\ SwitchOK' /\ NeverDown'
    BY <1>1, <1>2 DEF UndoReachesLog, Running, SwitchOK, Switching, NeverDown
  <2>3. QED
    BY <2>1, <2>2 DEF ChainInv
<1>5. QED
  BY <1>3, <1>4

\* The node stops: what is on disk stays, what is in memory is gone.
LEMMA StopStep ==
    ASSUME ChainInv, CloseEnd \/ Crash
    PROVE  ChainInv' /\ AbsStep
<1>1. /\ TypeOK /\ UNCHANGED <<world, head, base, log>> /\ pc' = "down"
      /\ fork' = EmptyForkDb /\ disk' \in {"clean", "dirty", "torn"}
      /\ sw' = sw \/ sw' = NoSwitch
  BY DEF ChainInv, CloseEnd, Crash
<1>2. Restarts
  BY DEF ChainInv, NeverDown, Running, CloseEnd, Crash
<1>3. TypeOK'
  <2>1. Block' = Block /\ EmptyForkDb \in ForkDb(Block)
    BY <1>1, EmptyTyped DEF Block
  <2>2. fork' \in ForkDb(Block)'
    BY <1>1, <2>1 DEF ForkDb
  <2>3. sw' \in [new : Block \cup {<<>>}, old : Block \cup {<<>>}, parent : Nat]'
    BY <1>1, <2>1 DEF TypeOK, NoSwitch
  <2>4. QED
    BY <1>1, <2>1, <2>2, <2>3 DEF TypeOK
<1>4. UndoReachesLog' /\ SwitchOK' /\ NeverDown'
  BY <1>1, <1>2 DEF ChainInv, UndoReachesLog, Running, SwitchOK, Switching, NeverDown
<1>5. QED
  BY <1>1, <1>3, <1>4 DEF ChainInv, AbsStep, Abs!vars

\* open() begins the undo stack at the head, which is the end of the log.
LEMMA OpenStep ==
    ASSUME ChainInv, Open
    PROVE  ChainInv' /\ AbsStep
<1>1. /\ TypeOK /\ UNCHANGED <<world, head, log, sw, disk>> /\ pc' = "idle"
      /\ base' = Num(head) /\ Len(log) <= Num(head) /\ StateMatchesLog
      /\ head \in Block \cup {<<>>} /\ Num(head) \in Nat /\ log \in Seq(Block)
      /\ fork' = IF head = <<>> THEN EmptyForkDb ELSE StartBlock(EmptyForkDb, head)
  BY NumIsNat DEF ChainInv, TypeOK, UndoReachesLog, Open, Block
<1>2. Num(head) = Len(log)
  BY <1>1 DEF StateMatchesLog, InLog, Num
<1>3. TypeOK'
  <2>1. Block' = Block /\ EmptyForkDb \in ForkDb(Block)
    BY <1>1, EmptyTyped DEF Block
  <2>2. head # <<>> => StartBlock(EmptyForkDb, head) \in ForkDb(Block)
    BY <1>1, <2>1, StartBlockTyped
  <2>3. fork' \in ForkDb(Block)'
    BY <1>1, <2>1, <2>2 DEF ForkDb
  <2>4. QED
    BY <1>1, <2>1, <2>3 DEF TypeOK
<1>4. UndoReachesLog' /\ SwitchOK' /\ NeverDown'
  BY <1>1, <1>2 DEF UndoReachesLog, Running, SwitchOK, Switching, NeverDown
<1>5. QED
  BY <1>1, <1>3, <1>4 DEF ChainInv, AbsStep, Abs!vars

\* reindex() begins the undo stack at the end of the log it replayed.
LEMMA ReindexStep ==
    ASSUME ChainInv, Reindex
    PROVE  ChainInv'
<1>1. /\ TypeOK /\ WorldOK(world) /\ UNCHANGED <<world, log, sw>> /\ disk' = "clean"
      /\ pc = "down" /\ log \in Seq(Block) /\ fork \in ForkDb(Block) /\ Block' = Block
      /\ Restarts
  BY DEF ChainInv, TypeOK, Reindex, NeverDown, Running, Block
<1>2. CASE log = <<>> /\ head' = <<>> /\ base' = 0 /\ UNCHANGED <<fork, pc>>
  <2>1. TypeOK'
    BY <1>1, <1>2 DEF TypeOK, ForkDb
  <2>2. UndoReachesLog' /\ SwitchOK' /\ NeverDown'
    BY <1>1, <1>2 DEF UndoReachesLog, Running, SwitchOK, Switching, NeverDown, Num
  <2>3. QED
    BY <2>1, <2>2 DEF ChainInv
<1>3. ASSUME log # <<>>,
             \A i \in 1 .. Len(log) : log[i] = AncestorAt(log[Len(log)], i),
             head' = log[Len(log)], base' = Num(head'), pc' = "idle",
             fork' = StartBlock([EmptyForkDb EXCEPT !.maxSize = Num(head') - lib[head'] + 1],
                                head')
      PROVE  ChainInv'
  <2>1. Len(log) \in Nat \ {0} /\ Len(log) \in 1 .. Len(log) /\ head' \in Block
    BY <1>1, <1>3
  <2>2. Num(head') = Len(log)
    <3>1. head' = SubSeq(head', 1, Len(log)) /\ head' \in Seq(Label)
      BY <1>1, <1>3, <2>1 DEF AncestorAt, WorldOK, Block
    <3>2. QED
      BY <2>1, <3>1 DEF Num
  <2>3. Num(head') - lib[head'] + 1 \in Nat
    <3>1. lib[head'] \in Nat /\ lib[head'] <= Num(head')
      BY <1>1, <2>1, PreviousIsBlock DEF WorldOK, Block, lib
    <3>2. QED
      BY <2>1, <2>2, <3>1
  <2>4. [EmptyForkDb EXCEPT !.maxSize = Num(head') - lib[head'] + 1] \in ForkDb(Block)
    <3>1. EmptyForkDb \in ForkDb(Block)
      BY EmptyTyped
    <3>2. QED
      BY <2>3, <3>1 DEF ForkDb
  <2>5. fork' \in ForkDb(Block)'
    <3>1. fork' \in ForkDb(Block)
      BY <1>3, <2>1, <2>4, StartBlockTyped
    <3>2. QED
      BY <1>1, <3>1 DEF ForkDb
  <2>6. TypeOK'
    BY <1>1, <1>3, <2>1, <2>2, <2>5 DEF TypeOK
  <2>7. UndoReachesLog' /\ SwitchOK' /\ NeverDown'
    BY <1>1, <1>3, <2>1, <2>2 DEF UndoReachesLog, Running, SwitchOK, Switching, NeverDown
  <2>8. QED
    BY <2>6, <2>7 DEF ChainInv
<1>4. QED
  BY <1>2, <1>3 DEF Reindex

-----------------------------------------------------------------------------
(* The theorems. *)

LEMMA InitInv == Init => ChainInv
<1> SUFFICES ASSUME Init PROVE ChainInv
  OBVIOUS
<1>1. WorldOK(world)
  BY WorldsAssumption DEF Init
<1>2. EmptyForkDb \in ForkDb(Block)
  BY EmptyTyped
<1>3. TypeOK
  BY <1>1, <1>2 DEF Init, TypeOK, NoSwitch
<1>4. QED
  BY <1>3 DEF Init, ChainInv, UndoReachesLog, SwitchOK, Switching, NeverDown, Running, Num

LEMMA StepInv == ChainInv /\ [Next]_vars => ChainInv'
<1> SUFFICES ASSUME ChainInv, [Next]_vars PROVE ChainInv'
  OBVIOUS
<1>1. CASE UNCHANGED vars
  BY <1>1 DEF vars, ChainInv, TypeOK, Block, ForkDb, UndoReachesLog, Running, SwitchOK,
     Switching, NeverDown
<1>2. ASSUME NEW b \in world.blocks, push_block(b) PROVE ChainInv'
  BY <1>2, PushStep DEF Block
<1>3. CASE Switch
  BY <1>3, PopStep, SwitchApplyStep, SwitchRestoreStep DEF Switch
<1>4. CASE CloseBegin \/ CloseEnd \/ Crash \/ Open \/ Reindex
  BY <1>4, CloseBeginStep, StopStep, OpenStep, ReindexStep
<1>5. QED
  BY <1>1, <1>2, <1>3, <1>4 DEF Next

\* The inductive invariant: the undo stack reaches to the log, and while a fork
\* switch is under way the state is below the end of the branch it is moving to.
THEOREM ChainInvariant == Spec => []ChainInv
  BY InitInv, StepInv, PTL DEF Spec

\* The types hold in every world: every value of the fork database, the log and
\* a fork switch is one of the blocks there are.
THEOREM TypeCorrect == Spec => []TypeOK
<1>1. ChainInv => TypeOK
  BY DEF ChainInv
<1>2. QED
  BY <1>1, ChainInvariant, PTL

\* In every world, with restarts, crashes and replays: while the node runs the
\* undo stack goes back exactly to the end of the block log, and the state is
\* never behind the log (migrate_irreversible_state, pop_block, open, reindex).
THEOREM UndoMeetsLog == Spec => []UndoReachesLog
<1>1. ChainInv => UndoReachesLog
  BY DEF ChainInv
<1>2. QED
  BY <1>1, ChainInvariant, PTL

\* Every step but a replay of the log keeps to the chain up to its final block.
LEMMA StepRefines == ChainInv /\ [Next]_vars /\ ~Reindex => AbsStep
<1> SUFFICES ASSUME ChainInv, [Next]_vars, ~Reindex PROVE AbsStep
  OBVIOUS
<1>1. CASE UNCHANGED vars
  BY <1>1 DEF vars, AbsStep, Abs!vars
<1>2. ASSUME NEW b \in world.blocks, push_block(b) PROVE AbsStep
  BY <1>2, PushStep DEF Block
<1>3. CASE Switch
  BY <1>3, PopStep, SwitchApplyStep, SwitchRestoreStep DEF Switch
<1>4. CASE CloseBegin \/ CloseEnd \/ Crash \/ Open
  BY <1>4, CloseBeginStep, StopStep, OpenStep
<1>5. QED
  BY <1>1, <1>2, <1>3, <1>4 DEF Next

\* A node that is not restarted implements FinalChain in every world, whatever
\* blocks are refused, early or late, and whatever is pushed again or out of
\* order: its fork switches never take back a block that is in the log.
THEOREM Refinement == ~Restarts => (Spec => Implements)
<1> SUFFICES ASSUME ~Restarts PROVE Spec => Implements
  OBVIOUS
<1>1. Init => Abs!Init
  BY DEF Init, Abs!Init
<1>2. ChainInv => ~Reindex
  BY DEF ChainInv, NeverDown, Running, Reindex
<1>3. ChainInv /\ [Next]_vars => [Abs!Next]_(Abs!vars)
  BY <1>2, StepRefines DEF AbsStep
<1>4. QED
  BY <1>1, <1>3, ChainInvariant, PTL DEF Spec, Implements, Abs!Spec

-----------------------------------------------------------------------------
(* The block log is the state's own chain.                                  *)
(*                                                                          *)
(* This needs two things of the world.  A block that is known already must  *)
(* not be pushed again: when it is refused it takes the known one out of    *)
(* the fork database.  And no block may make itself irreversible, which     *)
(* would need a single siming: the fork database would be asked for that    *)
(* block while it may have another one of the same number as its head.      *)

OrderlyWorld ==
    /\ ~world.again
    /\ \A b \in Block : lib[b] < Num(b)

\* The blocks that can be undone are found by id.
ReversibleIndexed ==
    Running => \A n \in 1 .. Num(head) : n > base => AncestorAt(head, n) \in fork.index

\* The end of the branch the state is on during a fork switch.
Tip == IF pc \in {"pop", "restore"} THEN sw.old ELSE sw.new

\* During a fork switch the state is on one of the two branches, not below the
\* common parent.
SwitchPath ==
    Switching =>
        /\ IsCommonParent(sw.new, sw.old, sw.parent)
        /\ Num(sw.old) < Num(sw.new)
        /\ Num(head) \in sw.parent .. Num(Tip)
        /\ head = AncestorAt(Tip, Num(head))

IndexedAbove(tip) ==
    \A n \in 1 .. Num(tip) : n > sw.parent /\ n > base => AncestorAt(tip, n) \in fork.index

\* A branch may be a continuation of the state's own head, which then is
\* applied again first; when that throws, restoring it throws as well.
OldRefused ==
    /\ pc = "unwind"
    /\ Num(sw.old) = sw.parent + 1
    /\ head = Previous(sw.old)
    /\ ~(Applies(SetHead(fork, Held, sw.old), sw.old) /\ sw.old \notin world.broken)

\* What a fork switch still has to apply is in the fork database.
BranchesIndexed ==
    /\ pc \in {"pop", "apply"} => IndexedAbove(sw.new)
    /\ Switching => IndexedAbove(sw.old) \/ OldRefused

\* A state that was rewound is at the end of the log.
CleanIsRewound ==
    pc = "closing" \/ (pc = "down" /\ disk = "clean") => Num(head) = Len(log)

OwnChain ==
    /\ LogIsOwnChain
    /\ ReversibleIndexed
    /\ SwitchPath
    /\ BranchesIndexed
    /\ CleanIsRewound

OrderlyInv == OrderlyWorld => OwnChain

\* A block, or the zero id, is a path.
LEMMA PathIsSeq ==
    ASSUME NEW w, WorldOK(w), NEW b \in w.blocks \cup {<<>>}
    PROVE  b \in Seq(Label) /\ Num(b) = Len(b) /\ Len(b) \in Nat
<1>1. <<>> \in Seq(Label)
  BY EmptySeq
<1>2. b \in Seq(Label)
  BY <1>1 DEF WorldOK
<1>3. QED
  BY <1>2 DEF Num

\* An ancestor of an ancestor.
LEMMA AncestorOfAncestor ==
    ASSUME NEW w, WorldOK(w), NEW b \in w.blocks \cup {<<>>},
           NEW m \in 0 .. Num(b), NEW n \in 0 .. m
    PROVE  AncestorAt(AncestorAt(b, m), n) = AncestorAt(b, n)
<1>1. b \in Seq(Label) /\ Len(b) \in Nat
  BY PathIsSeq
<1>2. m \in 0 .. Len(b) /\ n \in 0 .. Len(b) /\ m \in Nat /\ n \in Nat /\ n <= m
  BY <1>1 DEF Num
<1>3. SubSeq(b, 1, m) \in Seq(Label) /\ Len(SubSeq(b, 1, m)) = m
      /\ \A i \in 1 .. m : SubSeq(b, 1, m)[i] = b[i]
  BY <1>1, <1>2
<1>4. /\ SubSeq(SubSeq(b, 1, m), 1, n) \in Seq(Label) /\ Len(SubSeq(SubSeq(b, 1, m), 1, n)) = n
      /\ \A i \in 1 .. n : SubSeq(SubSeq(b, 1, m), 1, n)[i] = SubSeq(b, 1, m)[i]
  BY <1>2, <1>3
<1>5. /\ SubSeq(b, 1, n) \in Seq(Label) /\ Len(SubSeq(b, 1, n)) = n
      /\ \A i \in 1 .. n : SubSeq(b, 1, n)[i] = b[i]
  BY <1>1, <1>2
<1>6. \A i \in 1 .. n : SubSeq(SubSeq(b, 1, m), 1, n)[i] = SubSeq(b, 1, n)[i]
  <2>1. TAKE i \in 1 .. n
  <2>2. i \in 1 .. m
    BY <1>2
  <2>3. QED
    BY <1>3, <1>4, <1>5, <2>2
<1>7. QED
  BY <1>4, <1>5, <1>6, SeqEqual DEF AncestorAt

\* A block is its own ancestor, and its parent is the one before.
LEMMA OwnAncestor ==
    ASSUME NEW w, WorldOK(w), NEW b \in w.blocks \cup {<<>>}
    PROVE  /\ AncestorAt(b, Num(b)) = b
           /\ Previous(b) = AncestorAt(b, Num(b) - 1)
<1>1. b \in Seq(Label)
  BY PathIsSeq
<1>2. QED
  BY <1>1 DEF AncestorAt, Previous, Num

\* The parent of an ancestor is the ancestor before it.
LEMMA PreviousOfAncestor ==
    ASSUME NEW w, WorldOK(w), NEW b \in w.blocks, NEW n \in 1 .. Num(b)
    PROVE  Previous(AncestorAt(b, n)) = AncestorAt(b, n - 1)
<1>1. AncestorAt(b, n) \in w.blocks /\ Num(AncestorAt(b, n)) = n /\ Num(b) \in Nat
  BY AncestorIsBlock, PreviousIsBlock
<1>2. n - 1 \in 0 .. n /\ n \in 0 .. Num(b)
  BY <1>1
<1>3. Previous(AncestorAt(b, n)) = AncestorAt(AncestorAt(b, n), n - 1)
  BY <1>1, OwnAncestor
<1>4. QED
  BY <1>2, <1>3, AncestorOfAncestor

\* A block's ancestors are those of its parent.
LEMMA AncestorOfPrevious ==
    ASSUME NEW w, WorldOK(w), NEW b \in w.blocks, NEW n \in 0 .. Num(b) - 1
    PROVE  AncestorAt(Previous(b), n) = AncestorAt(b, n)
<1>1. Num(b) \in Nat \ {0}
  BY PreviousIsBlock
<1>2. Num(b) - 1 \in 0 .. Num(b) /\ Previous(b) = AncestorAt(b, Num(b) - 1)
  BY <1>1, OwnAncestor
<1>3. QED
  BY <1>2, AncestorOfAncestor

\* What the operations of the fork database do to what is found by id.
LEMMA PushedIndex ==
    ASSUME NEW bs, fork \in ForkDb(bs), NEW b \in bs
    PROVE  /\ Pushed(b).index = fork.index \cup {b}
           /\ Pushed(b).head \in bs
           /\ \A c \in Pushed(b).linked :
                Previous(c) \in Pushed(b).index \cup {Pushed(b).head}
BY DEF ForkDb, Pushed, Settled, PushBlock

LEMMA SettledIndex ==
    ASSUME NEW bs, NEW f \in ForkDb(bs), NEW held
    PROVE  /\ Settled(f, held).index = f.index
           /\ Settled(f, held).head = f.head
           /\ Settled(f, held).linked \subseteq f.linked
BY DEF ForkDb, Settled

LEMMA SetHeadIndex ==
    ASSUME NEW bs, NEW f \in ForkDb(bs), NEW held, NEW b
    PROVE  /\ SetHead(f, held, b).index = f.index
           /\ SetHead(f, held, b).linked = f.linked
           /\ SetHead(f, held, b).head = b
           /\ SetHead(f, held, b).headLinked = IsLinked(f, held, b)
BY DEF ForkDb, SetHead

LEMMA RemoveIndex ==
    ASSUME NEW bs, NEW f \in ForkDb(bs), NEW gone
    PROVE  Remove(f, gone).index = f.index \ gone /\ Remove(f, gone).linked = f.linked
BY DEF ForkDb, Remove

\* A migration drops no block above the last irreversible one.
LEMMA MigratedKeeps ==
    ASSUME WorldOK(world), NEW f \in ForkDb(Block), NEW b \in Block, CanMigrate(f, b),
           NEW c \in f.index, Num(c) > lib[b]
    PROVE  c \in Migrated(f, b).index
<1> DEFINE s == Num(b) - lib[b] + 1
           sized == [f EXCEPT !.maxSize = s]
<1>1. lib[b] \in Nat /\ lib[b] <= Num(b) /\ Num(b) \in Nat
  BY PreviousIsBlock DEF WorldOK, Block, lib
<1>2. Num(c) \in Nat
  BY PreviousIsBlock DEF ForkDb, Block
<1>3. sized.head = f.head /\ sized.maxSize = s /\ sized.index = f.index
  BY DEF ForkDb
<1>4. ASSUME f.head # <<>> PROVE Num(c) >= Horizon(sized)
  <2>1. Num(f.head) = Num(b)
    BY <1>4 DEF CanMigrate
  <2>2. Horizon(sized) = IF Num(b) > s THEN Num(b) - s ELSE 0
    BY <1>3, <2>1 DEF Horizon
  <2>3. QED
    BY <1>1, <1>2, <2>2
<1>5. CASE f.head = <<>>
  BY <1>3, <1>5 DEF Migrated, SetMaxSize
<1>6. CASE f.head # <<>>
  <2>1. Migrated(f, b) = [sized EXCEPT !.index = {d \in @ : Num(d) >= Horizon(sized)}]
    BY <1>6 DEF Migrated, SetMaxSize
  <2>2. Migrated(f, b).index = {d \in f.index : Num(d) >= Horizon(sized)}
    BY <1>3, <2>1 DEF ForkDb
  <2>3. QED
    BY <1>4, <1>6, <2>2
<1>7. QED
  BY <1>5, <1>6

\* Asked for a number, the fork database answers with the ancestor of its head,
\* if it knows that one, or with nothing.
LEMMA MainBranchIsOwn ==
    ASSUME NEW w, WorldOK(w), NEW f \in ForkDb(w.blocks), NEW n \in 1 .. Num(f.head),
           f.head \in w.blocks, AncestorAt(f.head, n) \in f.index
    PROVE  MainBranchBlock(f, n) \in {AncestorAt(f.head, n), <<>>}
<1> DEFINE candidates == {b \in f.index : Num(b) = n}
<1>1. AncestorAt(f.head, n) \in candidates
  BY AncestorIsBlock
<1>2. ASSUME \A c, d \in candidates : c = d
      PROVE  (CHOOSE b \in candidates : TRUE) = AncestorAt(f.head, n)
  BY <1>1, <1>2
<1> HIDE DEF candidates
<1>3. \/ MainBranchBlock(f, n) = <<>>
      \/ (\A c, d \in candidates : c = d) /\ MainBranchBlock(f, n) = CHOOSE b \in candidates : TRUE
      \/ MainBranchBlock(f, n) = AncestorAt(f.head, n)
  BY DEF MainBranchBlock, candidates
<1>4. QED
  BY <1>2, <1>3

\* What a block writes to the log are the blocks that follow the log on the
\* state's own chain.
LEMMA LogPartIsOwn ==
    ASSUME WorldOK(world), head \in Block \cup {<<>>}, log \in Seq(Block),
           NEW f \in ForkDb(Block), NEW b \in Block,
           f.head \in Block, Previous(f.head) = head, Previous(b) = head,
           lib[b] < Num(b), CanMigrate(f, b),
           \A n \in 1 .. Num(head) : n > Len(log) => AncestorAt(head, n) \in f.index
    PROVE  \A i \in 1 .. Len(LogPart(f, b)) :
              LogPart(f, b)[i] = AncestorAt(head, Len(log) + i)
<1>1. /\ lib[b] \in Nat /\ Num(b) \in Nat /\ Num(head) \in Nat /\ Len(log) \in Nat
      /\ Num(b) = Num(head) + 1 /\ Num(f.head) = Num(head) + 1
  <2>1. Num(head) = Num(b) - 1 /\ Num(head) = Num(f.head) - 1 /\ Num(b) \in Nat /\ Num(f.head) \in Nat
    BY PreviousIsBlock DEF Block
  <2>2. lib[b] \in Nat
    BY DEF WorldOK, Block, lib
  <2>3. Num(head) \in Nat
    BY NumIsNat DEF Block
  <2>4. QED
    BY <2>1, <2>2, <2>3
<1>2. Len(LogPart(f, b)) = IF lib[b] > Len(log) THEN lib[b] - Len(log) ELSE 0
  BY LogPartTyped
<1>3. TAKE i \in 1 .. Len(LogPart(f, b))
<1>4. /\ Len(log) + i \in 1 .. Num(head) /\ Len(log) + i > Len(log)
      /\ i \in 1 .. (IF lib[b] > Len(log) THEN lib[b] - Len(log) ELSE 0)
  BY <1>1, <1>2
<1>5. LogPart(f, b)[i] = MainBranchBlock(f, Len(log) + i) /\ i \in DOMAIN LogPart(f, b)
  BY <1>4 DEF LogPart
<1>6. LogPart(f, b)[i] # <<>>
  BY <1>5 DEF CanMigrate
<1>7. /\ Len(log) + i \in 1 .. Num(f.head) /\ Len(log) + i \in 0 .. Num(f.head) - 1
      /\ AncestorAt(f.head, Len(log) + i) = AncestorAt(head, Len(log) + i)
  <2>1. Len(log) + i \in 1 .. Num(f.head) /\ Len(log) + i \in 0 .. Num(f.head) - 1
    BY <1>1, <1>4
  <2>2. QED
    BY <2>1, AncestorOfPrevious DEF Block
<1>8. MainBranchBlock(f, Len(log) + i) \in {AncestorAt(head, Len(log) + i), <<>>}
  BY <1>4, <1>7, MainBranchIsOwn DEF Block
<1>9. QED
  BY <1>5, <1>6, <1>8

\* However apply_block() ends, the log is still the state's own chain, and the
\* blocks that can be undone afterwards are still known.
LEMMA ApplyOwn ==
    ASSUME TypeOK, UndoReachesLog, Running, UNCHANGED world,
           OrderlyWorld, LogIsOwnChain, ReversibleIndexed,
           NEW f \in ForkDb(Block), NEW b \in Block, fork.index \subseteq f.index,
           f.head \in Block, Previous(f.head) = head,
           ApplyOk(f, b) \/ ApplyThrows(f, b) \/ ApplyThrowsLate(f, b)
    PROVE  /\ LogIsOwnChain'
           /\ base' \in Nat /\ base <= base'
           /\ ApplyOk(f, b) => Previous(b) = head /\ head' = b
           /\ ApplyOk(f, b) /\ b \in f.index =>
                \A n \in 1 .. Num(b) :
                    n > base' => AncestorAt(b, n) \in Migrated(f, b).index
           /\ ApplyThrows(f, b) => UNCHANGED <<head, base, log>>
           /\ ApplyThrowsLate(f, b) => head' = head /\ b \in world.broken
           /\ ApplyOk(f, b) \/ ApplyThrowsLate(f, b) =>
                \A c \in f.index : Num(c) > base' => c \in Migrated(f, b).index
<1>1. /\ WorldOK(world) /\ head \in Block \cup {<<>>} /\ log \in Seq(Block) /\ Len(log) \in Nat
      /\ base = Len(log) /\ Len(log) <= Num(head) /\ Num(head) \in Nat
      /\ \A n \in 1 .. Num(head) : n > Len(log) => AncestorAt(head, n) \in f.index
  BY NumIsNat DEF TypeOK, UndoReachesLog, Block, ReversibleIndexed
<1>2. /\ Num(b) \in Nat \ {0} /\ Num(Previous(b)) = Num(b) - 1 /\ lib[b] \in Nat
      /\ lib[b] < Num(b)
  BY <1>1, PreviousIsBlock DEF Block, WorldOK, lib, OrderlyWorld
<1>3. CASE ApplyThrows(f, b)
  BY <1>1, <1>3 DEF ApplyThrows, ApplyOk, ApplyThrowsLate, LogIsOwnChain
<1>4. ASSUME Applies(f, b), Migrate(f, b)
      PROVE  /\ Previous(b) = head /\ CanMigrate(f, b)
             /\ base' = Max(base, lib[b]) /\ base' \in Nat /\ base <= base' /\ lib[b] <= base'
             /\ Len(log') = base' /\ log' \in Seq(Block) /\ base' <= Num(head)
             /\ \A i \in 1 .. Len(log') : log'[i] = AncestorAt(head, i)
  <2>1. Previous(b) = head /\ CanMigrate(f, b) /\ Num(b) = Num(head) + 1
    BY <1>1, <1>2, <1>4 DEF Applies, BlockApplies
  <2>2. /\ base' = Max(base, lib[b]) /\ Len(log') = base' /\ log' \in Seq(Block)
    BY <1>1, <1>4, <2>1, MigrateStep
  <2>3. base' \in Nat /\ base <= base' /\ lib[b] <= base' /\ base' <= Num(head)
    BY <1>1, <1>2, <2>1, <2>2 DEF Max
  <2>4. \A i \in 1 .. Len(LogPart(f, b)) : LogPart(f, b)[i] = AncestorAt(head, Len(log) + i)
    BY <1>1, <1>2, <2>1, LogPartIsOwn
  <2>5. LogPart(f, b) \in Seq(Block) /\ log' = log \o LogPart(f, b)
    BY <1>1, <1>4, <2>1, LogPartTyped DEF Migrate
  <2>6. \A i \in 1 .. Len(log') : log'[i] = AncestorAt(head, i)
    <3>1. TAKE i \in 1 .. Len(log')
    <3>2. CASE i <= Len(log)
      <4>1. i \in 1 .. Len(log) /\ log'[i] = log[i]
        BY <1>1, <2>2, <2>3, <2>5, <3>2, ConcatProperties
      <4>2. QED
        BY <4>1 DEF LogIsOwnChain
    <3>3. CASE i > Len(log)
      <4>1. /\ i - Len(log) \in 1 .. Len(LogPart(f, b)) /\ Len(log) + (i - Len(log)) = i
            /\ log'[i] = LogPart(f, b)[i - Len(log)]
        BY <1>1, <2>2, <2>3, <2>5, <3>3, ConcatProperties
      <4>2. QED
        BY <2>4, <4>1
    <3>4. QED
      BY <1>1, <2>2, <2>3, <3>2, <3>3
  <2>7. QED
    BY <2>1, <2>2, <2>3, <2>6
<1>5. ASSUME Applies(f, b), Migrate(f, b)
      PROVE  \A c \in f.index : Num(c) > base' => c \in Migrated(f, b).index
  <2>1. TAKE c \in f.index
  <2>2. Num(c) > base' => Num(c) > lib[b]
    <3>1. Num(c) \in Nat
      BY <1>1, PreviousIsBlock DEF ForkDb, Block
    <3>2. QED
      BY <1>2, <1>4, <1>5, <3>1
  <2>3. QED
    BY <1>1, <1>4, <1>5, <2>2, MigratedKeeps
<1>6. CASE ApplyOk(f, b)
  <2>1. Applies(f, b) /\ Migrate(f, b) /\ head' = b /\ b \notin world.broken
    BY <1>6 DEF ApplyOk
  <2>2. \A n \in 0 .. Num(head) : AncestorAt(b, n) = AncestorAt(head, n)
    <3>1. Previous(b) = head /\ 0 .. Num(head) = 0 .. Num(b) - 1
      BY <1>2, <1>4, <2>1
    <3>2. QED
      BY <1>1, <3>1, AncestorOfPrevious DEF Block
  <2>3. LogIsOwnChain'
    <3>1. Len(log') <= Num(head')
      BY <1>1, <1>2, <1>4, <2>1
    <3>2. \A i \in 1 .. Len(log') : log'[i] = AncestorAt(head', i)
      BY <1>1, <1>4, <2>1, <2>2
    <3>3. QED
      BY <3>1, <3>2 DEF LogIsOwnChain
  <2>4. ASSUME b \in f.index, NEW n \in 1 .. Num(b), n > base'
        PROVE  AncestorAt(b, n) \in Migrated(f, b).index
    <3>1. base' \in Nat /\ base <= base' /\ Num(b) = Num(head) + 1
      BY <1>1, <1>2, <1>4, <2>1
    <3>2. CASE n = Num(b)
      <4>1. AncestorAt(b, n) = b /\ Num(b) > base'
        BY <1>1, <2>4, <3>2, OwnAncestor DEF Block
      <4>2. QED
        BY <1>5, <2>1, <2>4, <4>1
    <3>3. CASE n # Num(b)
      <4>1. n \in 1 .. Num(head) /\ n \in 0 .. Num(head) /\ n > Len(log)
        BY <1>1, <2>4, <3>1, <3>3
      <4>2. AncestorAt(b, n) \in f.index
        BY <1>1, <2>2, <4>1
      <4>3. Num(AncestorAt(b, n)) = n
        BY <1>1, <2>4, AncestorIsBlock DEF Block
      <4>4. QED
        BY <1>5, <2>1, <2>4, <4>2, <4>3
    <3>4. QED
      BY <3>2, <3>3
  <2>5. ~ApplyThrows(f, b) /\ ~ApplyThrowsLate(f, b)
    BY <2>1 DEF ApplyThrows, ApplyThrowsLate
  <2>6. QED
    BY <1>4, <1>5, <2>1, <2>3, <2>4, <2>5
<1>7. CASE ApplyThrowsLate(f, b)
  <2>1. Applies(f, b) /\ Migrate(f, b) /\ b \in world.broken
    BY <1>7 DEF ApplyThrowsLate
  <2>2. head' = head
    <3>1. Num(b) > Max(base, lib[b])
      BY <1>1, <1>2, <1>4, <2>1
    <3>2. QED
      BY <1>7, <3>1 DEF ApplyThrowsLate
  <2>3. LogIsOwnChain'
    BY <1>4, <2>1, <2>2 DEF LogIsOwnChain
  <2>4. ~ApplyThrows(f, b) /\ ~ApplyOk(f, b)
    BY <2>1 DEF ApplyThrows, ApplyOk
  <2>5. QED
    BY <1>4, <1>5, <2>1, <2>2, <2>3, <2>4
<1>8. QED
  BY <1>3, <1>6, <1>7

\* Between two handlers only the log and the blocks that can be undone matter.
LEMMA IdleOwn ==
    ASSUME pc' = "idle", LogIsOwnChain',
           \A n \in 1 .. Num(head') : n > base' => AncestorAt(head', n) \in fork'.index
    PROVE  OwnChain'
BY DEF OwnChain, ReversibleIndexed, SwitchPath, Switching, BranchesIndexed, CleanIsRewound

\* A branch that was followed to the common parent is known by id, from the
\* block after the common parent on.
LEMMA FetchedIndexed ==
    ASSUME NEW w, WorldOK(w), NEW f \in ForkDb(w.blocks), NEW old \in w.blocks,
           f.head \in w.blocks, NEW n \in Nat, Num(old) < Num(f.head),
           BranchesFetched(f, f.head, old, n),
           \A c \in f.linked : Previous(c) \in f.index \cup {f.head},
           NEW m \in 1 .. Num(f.head), m > n
    PROVE  AncestorAt(f.head, m) \in f.index
<1>1. /\ Num(f.head) \in Nat /\ Num(old) \in Nat /\ Num(f.head) = Len(f.head)
      /\ n < Num(old) /\ f.head \in f.index /\ m \in Nat
      /\ \A c \in BranchOf(f.head, n + 1) : IsLinked(f, {}, c)
  BY PathIsSeq DEF BranchesFetched, IsCommonParent
<1>2. ASSUME NEW k \in n + 2 .. Num(f.head)
      PROVE  AncestorAt(f.head, k) \in f.index /\ AncestorAt(f.head, k) \in f.linked
  <2>1. k \in n + 1 + 1 .. Len(f.head)
    BY <1>1, <1>2
  <2>2. AncestorAt(f.head, k) \in BranchOf(f.head, n + 1)
    BY <2>1 DEF BranchOf
  <2>3. IsLinked(f, {}, AncestorAt(f.head, k))
    BY <1>1, <2>2
  <2>4. QED
    BY <1>1, <2>3 DEF IsLinked
<1>3. CASE m = n + 1
  <2>1. n + 2 \in n + 2 .. Num(f.head) /\ n + 2 \in 1 .. Num(f.head) /\ (n + 2) - 1 = m
    BY <1>1, <1>3
  <2>2. AncestorAt(f.head, n + 2) \in f.linked
    BY <1>2, <2>1
  <2>3. Previous(AncestorAt(f.head, n + 2)) = AncestorAt(f.head, m)
    BY <2>1, PreviousOfAncestor
  <2>4. QED
    BY <1>1, <2>2, <2>3
<1>4. CASE m # n + 1
  <2>1. m \in n + 2 .. Num(f.head)
    BY <1>1, <1>4
  <2>2. QED
    BY <1>2, <2>1
<1>5. QED
  BY <1>3, <1>4

\* Pushing a block, however it ends.
LEMMA PushOwn ==
    ASSUME ChainInv, OrderlyWorld, OwnChain, NEW b \in Block, push_block(b)
    PROVE  OwnChain'
<1> DEFINE f == Pushed(b)
<1>1. /\ TypeOK /\ UndoReachesLog /\ pc = "idle" /\ Running /\ WorldOK(world)
      /\ UNCHANGED <<world, disk>> /\ f \in ForkDb(Block) /\ fork \in ForkDb(Block)
      /\ LogIsOwnChain /\ ReversibleIndexed /\ b \notin fork.index
  <2>1. \A g \in ForkDb(Block) : Settled(PushBlock(g, b), {}) \in ForkDb(Block)
    BY PushBlockTyped, SettledTyped
  <2>2. QED
    BY <2>1 DEF ChainInv, TypeOK, push_block, PushOnHead, PushOnShorterFork, OwnChain,
       PushOnBrokenBranch, PushOnLongerFork, Delivered, Running, Pushed, OrderlyWorld
<1>2. /\ f.index = fork.index \cup {b} /\ f.head \in Block
      /\ \A c \in f.linked : Previous(c) \in f.index \cup {f.head}
  BY <1>1, PushedIndex
<1>3. /\ head \in Block \cup {<<>>} /\ Num(head) \in Nat
      /\ base = Len(log) /\ base <= Num(head) /\ base \in Nat
      /\ \A n \in 1 .. Num(head) : n > base => AncestorAt(head, n) \in fork.index
  BY <1>1, NumIsNat DEF TypeOK, UndoReachesLog, Block, ReversibleIndexed
<1>4. CASE PushOnHead(b)
  <2>1. /\ ApplyOk(f, b) \/ ApplyThrows(f, b) \/ ApplyThrowsLate(f, b)
        /\ Previous(f.head) = head
        /\ \/ ApplyOk(f, b) /\ Done(Migrated(f, b))
           \/ ApplyThrows(f, b) /\ Done(Remove(f, {b}))
           \/ ApplyThrowsLate(f, b) /\ Done(Remove(Migrated(f, b), {b}))
    BY <1>4 DEF PushOnHead, f
  <2> HIDE DEF f
  <2>2. Migrated(f, b) \in ForkDb(Block)
    BY <1>1, MigratedTyped
  <2>3. /\ LogIsOwnChain' /\ base' \in Nat /\ base <= base'
        /\ ApplyOk(f, b) => head' = b
        /\ ApplyOk(f, b) => \A n \in 1 .. Num(b) :
                                n > base' => AncestorAt(b, n) \in Migrated(f, b).index
        /\ ApplyThrows(f, b) => UNCHANGED <<head, base, log>>
        /\ ApplyThrowsLate(f, b) => head' = head
        /\ ApplyThrowsLate(f, b) =>
                \A c \in f.index : Num(c) > base' => c \in Migrated(f, b).index
    BY <1>1, <1>2, <2>1, ApplyOwn
  <2>4. ASSUME NEW g \in ForkDb(Block), Done(g),
               \A n \in 1 .. Num(head') : n > base' => AncestorAt(head', n) \in g.index
        PROVE  OwnChain'
    <3>1. fork'.index = g.index /\ pc' = "idle"
      BY <2>4, SettledIndex DEF Done
    <3>2. QED
      BY <2>3, <2>4, <3>1, IdleOwn
  <2>5. CASE ApplyOk(f, b) /\ Done(Migrated(f, b))
    BY <2>2, <2>3, <2>4, <2>5
  <2>6. CASE ApplyThrows(f, b) /\ Done(Remove(f, {b}))
    <3>1. Remove(f, {b}) \in ForkDb(Block) /\ Remove(f, {b}).index = f.index \ {b}
      BY <1>1, RemoveTyped, RemoveIndex
    <3>2. \A n \in 1 .. Num(head') : n > base' => AncestorAt(head', n) \in Remove(f, {b}).index
      BY <1>1, <1>2, <1>3, <2>3, <2>6, <3>1
    <3>3. QED
      BY <2>4, <2>6, <3>1, <3>2
  <2>7. CASE ApplyThrowsLate(f, b) /\ Done(Remove(Migrated(f, b), {b}))
    <3>1. /\ Remove(Migrated(f, b), {b}) \in ForkDb(Block)
          /\ Remove(Migrated(f, b), {b}).index = Migrated(f, b).index \ {b}
      BY <2>2, RemoveTyped, RemoveIndex
    <3>2. ASSUME NEW n \in 1 .. Num(head'), n > base'
          PROVE  AncestorAt(head', n) \in Remove(Migrated(f, b), {b}).index
      <4>1. head' = head /\ n \in 1 .. Num(head) /\ n > base
        BY <1>3, <2>3, <2>7, <3>2
      <4>2. AncestorAt(head, n) \in fork.index
        BY <1>3, <4>1
      <4>3. Num(AncestorAt(head, n)) = n
        BY <1>1, <1>3, <4>1, NumIsNat, AncestorIsBlock DEF Block
      <4>4. QED
        BY <1>1, <1>2, <2>3, <2>7, <3>1, <3>2, <4>1, <4>2, <4>3
    <3>3. QED
      BY <2>4, <2>7, <3>1, <3>2
  <2>8. QED
    BY <2>1, <2>5, <2>6, <2>7
<1>5. CASE PushOnShorterFork(b) \/ PushOnBrokenBranch(b)
  <2>1. Done(f) /\ UNCHANGED <<head, base, log>>
    BY <1>5 DEF PushOnShorterFork, PushOnBrokenBranch, f
  <2> HIDE DEF f
  <2>2. fork'.index = f.index /\ pc' = "idle"
    BY <1>1, <2>1, SettledIndex DEF Done
  <2>3. LogIsOwnChain'
    BY <1>1, <2>1 DEF LogIsOwnChain
  <2>4. QED
    BY <1>2, <1>3, <2>1, <2>2, <2>3, IdleOwn
<1>6. CASE PushOnLongerFork(b)
  <2>1. PICK n \in 0 .. Num(head) :
           /\ BranchesFetched(f, f.head, head, n)
           /\ sw' = [new |-> f.head, old |-> head, parent |-> n]
    BY <1>6 DEF PushOnLongerFork, f
  <2>2. fork' = f /\ pc' = "pop" /\ UNCHANGED <<head, base, log>> /\ Num(f.head) > Num(head)
    BY <1>6 DEF PushOnLongerFork, f
  <2> HIDE DEF f
  <2>3. /\ head \in Block /\ IsCommonParent(f.head, head, n) /\ n \in Nat /\ n < Num(head)
        /\ sw'.new = f.head /\ sw'.old = head /\ sw'.parent = n
    BY <1>1, <2>1 DEF BranchesFetched, IsCommonParent, ForkDb, Num
  <2>4. LogIsOwnChain' /\ ReversibleIndexed' /\ CleanIsRewound'
    BY <1>1, <1>2, <1>3, <2>2 DEF LogIsOwnChain, ReversibleIndexed, CleanIsRewound
  <2>5. SwitchPath'
    <3>1. head = AncestorAt(head, Num(head))
      BY <1>1, <2>3, OwnAncestor DEF Block
    <3>2. Tip' = head /\ Num(head) \in n .. Num(head)
      BY <1>3, <2>2, <2>3 DEF Tip
    <3>3. QED
      BY <2>2, <2>3, <3>1, <3>2 DEF SwitchPath
  <2>6. IndexedAbove(sw.old)'
    BY <1>2, <1>3, <2>2, <2>3 DEF IndexedAbove
  <2>7. IndexedAbove(sw.new)'
    <3>1. \A m \in 1 .. Num(f.head) : m > n => AncestorAt(f.head, m) \in f.index
      BY <1>1, <1>2, <2>1, <2>2, <2>3, FetchedIndexed DEF Block
    <3>2. QED
      BY <2>2, <2>3, <3>1 DEF IndexedAbove
  <2>8. QED
    BY <2>4, <2>5, <2>6, <2>7 DEF OwnChain, BranchesIndexed
<1>7. QED
  BY <1>4, <1>5, <1>6 DEF push_block

\* A branch of a switch, as far as the state is on it.
LEMMA OnBranch ==
    ASSUME ChainInv, SwitchPath, Switching
    PROVE  /\ WorldOK(world) /\ sw.new \in Block /\ sw.old \in Block /\ Tip \in Block
           /\ sw.parent \in Nat /\ Num(head) \in Nat /\ Num(sw.new) \in Nat /\ Num(sw.old) \in Nat
           /\ sw.parent < Num(sw.old) /\ sw.parent < Num(sw.new) /\ Num(sw.old) < Num(sw.new)
           /\ AncestorAt(sw.new, sw.parent) = AncestorAt(sw.old, sw.parent)
           /\ AncestorAt(Tip, sw.parent) = AncestorAt(sw.old, sw.parent)
           /\ Num(head) \in sw.parent .. Num(Tip) /\ head = AncestorAt(Tip, Num(head))
           /\ AtCommonParent <=> Num(head) = sw.parent
<1>1. /\ WorldOK(world) /\ sw.new \in Block /\ sw.old \in Block /\ sw.parent \in Nat
      /\ sw.parent < Num(sw.old) /\ sw.parent < Num(sw.new) /\ Num(sw.old) < Num(sw.new)
      /\ AncestorAt(sw.new, sw.parent) = AncestorAt(sw.old, sw.parent)
      /\ Num(head) \in sw.parent .. Num(Tip) /\ head = AncestorAt(Tip, Num(head))
      /\ head \in Block \cup {<<>>}
  BY DEF ChainInv, TypeOK, SwitchOK, SwitchPath, IsCommonParent
<1>2. Num(head) \in Nat /\ Num(sw.new) \in Nat /\ Num(sw.old) \in Nat
  BY <1>1, NumIsNat DEF Block
<1>3. Tip \in Block /\ AncestorAt(Tip, sw.parent) = AncestorAt(sw.old, sw.parent)
  BY <1>1 DEF Tip
<1>4. AtCommonParent => Num(head) = sw.parent
  BY <1>1, AtParent DEF ChainInv
<1>5. Num(head) = sw.parent => AtCommonParent
  BY <1>1, <1>3 DEF AtCommonParent
<1>6. QED
  BY <1>1, <1>2, <1>3, <1>4, <1>5

\* A pop takes the state one block back on its branch, or the switch is given up.
LEMMA PopOwn ==
    ASSUME ChainInv, OrderlyWorld, OwnChain, pop_block
    PROVE  OwnChain'
<1>1. /\ TypeOK /\ UndoReachesLog /\ pc \in {"pop", "unwind"} /\ Running /\ Switching
      /\ UNCHANGED <<world, base, log, disk>> /\ fork \in ForkDb(Block)
      /\ LogIsOwnChain /\ ReversibleIndexed /\ SwitchPath /\ BranchesIndexed
      /\ ~AtCommonParent
  BY DEF ChainInv, TypeOK, OwnChain, pop_block, Running, Switching
<1>2. /\ WorldOK(world) /\ head \in Block \cup {<<>>} /\ Num(head) \in Nat
      /\ base = Len(log) /\ base <= Num(head) /\ base \in Nat
      /\ \A n \in 1 .. Num(head) : n > base => AncestorAt(head, n) \in fork.index
  BY <1>1, NumIsNat DEF TypeOK, UndoReachesLog, Block, ReversibleIndexed
<1>3. CASE Done(fork) /\ UNCHANGED head
  <2>1. fork'.index = fork.index /\ pc' = "idle"
    BY <1>1, <1>3, SettledIndex DEF Done
  <2>2. LogIsOwnChain'
    BY <1>1, <1>3 DEF LogIsOwnChain
  <2>3. QED
    BY <1>1, <1>2, <1>3, <2>1, <2>2, IdleOwn
<1>4. CASE /\ HeadIsFound /\ CanPop(fork)
           /\ fork' = Settled(PopBlock(fork, Held), Held)
           /\ head' = IF Num(head) > base THEN Previous(head) ELSE head
           /\ UNCHANGED <<pc, sw>>
  <2>1. fork'.index = fork.index
    <3>1. PopBlock(fork, Held).index = fork.index
      BY <1>1, SetHeadIndex DEF PopBlock
    <3>2. QED
      BY <1>4, <3>1 DEF Settled, PopBlock, SetHead, ForkDb
  <2>2. /\ Num(head) \in sw.parent .. Num(Tip) /\ Num(head) # sw.parent
        /\ Tip \in Block /\ head = AncestorAt(Tip, Num(head)) /\ Num(Tip) \in Nat
        /\ sw.parent \in Nat
    BY <1>1, <1>2, OnBranch, NumIsNat DEF Block
  <2>3. /\ Num(head') \in Nat /\ Num(head') <= Num(head) /\ base <= Num(head')
        /\ Num(head') \in sw.parent .. Num(Tip) /\ Tip' = Tip
        /\ head' = AncestorAt(Tip, Num(head'))
        /\ \A n \in 0 .. Num(head') : AncestorAt(head', n) = AncestorAt(head, n)
    <3>1. Tip' = Tip
      BY <1>4 DEF Tip
    <3>2. CASE Num(head) > base
      <4>1. head' = Previous(head) /\ head \in Block /\ Num(head') = Num(head) - 1
        BY <1>2, <1>4, <3>2, NumIsNat, PreviousIsBlock DEF Block
      <4>2. Num(head) \in 1 .. Num(Tip) /\ Num(head) > sw.parent
        BY <1>2, <2>2, <3>2
      <4>3. head' = AncestorAt(Tip, Num(head) - 1)
        BY <1>2, <2>2, <4>1, <4>2, PreviousOfAncestor DEF Block
      <4>4. \A n \in 0 .. Num(head) - 1 : AncestorAt(head', n) = AncestorAt(head, n)
        BY <1>2, <4>1, AncestorOfPrevious DEF Block
      <4>5. QED
        BY <1>2, <2>2, <3>1, <3>2, <4>1, <4>2, <4>3, <4>4
    <3>3. CASE ~(Num(head) > base)
      BY <1>2, <1>4, <2>2, <3>1, <3>3
    <3>4. QED
      BY <3>2, <3>3
  <2>4. LogIsOwnChain'
    BY <1>1, <1>2, <2>3 DEF LogIsOwnChain
  <2>5. ReversibleIndexed'
    <3>1. ASSUME NEW n \in 1 .. Num(head'), n > base
          PROVE  AncestorAt(head', n) \in fork'.index
      <4>1. n \in 1 .. Num(head) /\ n \in 0 .. Num(head')
        BY <1>2, <2>3
      <4>2. QED
        BY <1>2, <2>1, <2>3, <3>1, <4>1
    <3>2. QED
      BY <1>1, <3>1 DEF ReversibleIndexed
  <2>6. SwitchPath'
    <3>1. pc' = pc /\ sw' = sw
      BY <1>4
    <3>2. IsCommonParent(sw.new, sw.old, sw.parent) /\ Num(sw.old) < Num(sw.new)
      BY <1>1 DEF SwitchPath
    <3>3. QED
      BY <2>3, <3>1, <3>2 DEF SwitchPath
  <2>7. BranchesIndexed'
    <3>1. ~OldRefused
      <4>1. /\ sw.old \in Block /\ WorldOK(world) /\ Num(sw.old) \in Nat
        BY <1>1, OnBranch
      <4>2. Previous(sw.old) = AncestorAt(sw.old, Num(sw.old) - 1)
        BY <4>1, OwnAncestor DEF Block
      <4>3. Num(sw.old) = sw.parent + 1 => Previous(sw.old) = AncestorAt(sw.old, sw.parent)
        BY <2>2, <4>1, <4>2
      <4>4. QED
        BY <1>1, <4>3 DEF OldRefused, AtCommonParent
    <3>2. IndexedAbove(sw.old) /\ (pc = "pop" => IndexedAbove(sw.new))
      BY <1>1, <3>1 DEF BranchesIndexed
    <3>3. IndexedAbove(sw.old)' /\ (pc = "pop" => IndexedAbove(sw.new)')
      BY <1>1, <1>4, <2>1, <3>2 DEF IndexedAbove
    <3>4. QED
      BY <1>1, <1>4, <3>3 DEF BranchesIndexed
  <2>8. CleanIsRewound'
    BY <1>1, <1>4 DEF CleanIsRewound
  <2>9. QED
    BY <2>4, <2>5, <2>6, <2>7, <2>8 DEF OwnChain
<1>5. QED
  BY <1>3, <1>4 DEF pop_block

\* A block that goes through after items of its number or above are gone went
\* through before.
LEMMA AppliesAgain ==
    ASSUME WorldOK(world), log \in Seq(Block),
           NEW f \in ForkDb(Block), NEW g \in ForkDb(Block), NEW b \in Block,
           lib[b] < Num(b), f.head = b, g.head = b,
           g.headLinked => f.headLinked, g.linked \subseteq f.linked,
           \A c \in Block : Num(c) < Num(b) => (c \in g.index <=> c \in f.index),
           Applies(g, b)
    PROVE  Applies(f, b)
<1>1. lib[b] \in Nat /\ Num(b) \in Nat /\ Len(log) \in Nat
  <2>1. lib[b] \in Nat
    BY DEF WorldOK, Block, lib
  <2>2. Num(b) \in Nat
    BY PreviousIsBlock DEF Block
  <2>3. QED
    BY <2>1, <2>2
<1>2. f.index \subseteq Block /\ g.index \subseteq Block
  BY DEF ForkDb
<1>3. ASSUME NEW n \in 1 .. Num(b), n < Num(b), MainBranchBlock(g, n) # <<>>
      PROVE  MainBranchBlock(f, n) # <<>>
  <2> DEFINE candidates == {c \in f.index : Num(c) = n}
             reached(h) == /\ n <= Num(h.head)
                           /\ \A m \in n + 1 .. Num(h.head) :
                                IF m = Num(h.head) THEN h.headLinked
                                ELSE IsLinked(h, {}, AncestorAt(h.head, m))
  <2>1. candidates = {c \in g.index : Num(c) = n}
    BY <1>2, <1>3
  <2>2. reached(g) => reached(f)
    <3>1. SUFFICES ASSUME reached(g), NEW m \in n + 1 .. Num(b),
                          ~(IF m = Num(b) THEN f.headLinked
                            ELSE IsLinked(f, {}, AncestorAt(b, m)))
                   PROVE  FALSE
      BY <1>1, <1>3
    <3>2. m # Num(b) /\ ~IsLinked(f, {}, AncestorAt(b, m)) /\ IsLinked(g, {}, AncestorAt(b, m))
      BY <3>1
    <3>3. m \in 1 .. Num(b) /\ m < Num(b)
      BY <1>1, <1>3, <3>1, <3>2
    <3>4. AncestorAt(b, m) \in Block /\ Num(AncestorAt(b, m)) < Num(b)
      BY <3>3, AncestorIsBlock DEF Block
    <3>5. AncestorAt(b, m) # b /\ (AncestorAt(b, m) \in g.index => AncestorAt(b, m) \in f.index)
      BY <1>1, <3>4
    <3>6. QED
      BY <3>2, <3>5 DEF IsLinked
  <2>3. AncestorAt(b, n) # <<>>
    <3>1. AncestorAt(b, n) \in Block
      BY <1>3, AncestorIsBlock DEF Block
    <3>2. QED
      BY <3>1 DEF WorldOK, Block
  <2>4. candidates # {} => (CHOOSE c \in candidates : TRUE) # <<>>
    BY <1>2 DEF WorldOK, Block
  <2>5. MainBranchBlock(f, n) = IF candidates = {} THEN <<>>
                                ELSE IF \A c, d \in candidates : c = d
                                     THEN CHOOSE c \in candidates : TRUE
                                     ELSE IF reached(f) THEN AncestorAt(b, n) ELSE <<>>
    BY DEF MainBranchBlock
  <2>6. MainBranchBlock(g, n) = IF candidates = {} THEN <<>>
                                ELSE IF \A c, d \in candidates : c = d
                                     THEN CHOOSE c \in candidates : TRUE
                                     ELSE IF reached(g) THEN AncestorAt(b, n) ELSE <<>>
    BY <2>1 DEF MainBranchBlock
  <2> HIDE DEF candidates, reached
  <2>7. QED
    BY <1>3, <2>2, <2>3, <2>4, <2>5, <2>6
<1>4. ASSUME NEW i \in DOMAIN LogPart(f, b)
      PROVE  LogPart(f, b)[i] # <<>>
  <2>1. i \in 1 .. (IF lib[b] > Len(log) THEN lib[b] - Len(log) ELSE 0)
    BY DEF LogPart
  <2>2. Len(log) + i \in 1 .. Num(b) /\ Len(log) + i < Num(b)
    BY <1>1, <2>1
  <2>3. i \in DOMAIN LogPart(g, b)
    BY <2>1 DEF LogPart
  <2>4. /\ LogPart(f, b)[i] = MainBranchBlock(f, Len(log) + i)
        /\ LogPart(g, b)[i] = MainBranchBlock(g, Len(log) + i)
    BY <2>1 DEF LogPart
  <2>5. LogPart(g, b)[i] # <<>>
    BY <2>3 DEF Applies, CanMigrate
  <2>6. QED
    BY <1>3, <2>2, <2>4, <2>5
<1>5. QED
  BY <1>4 DEF Applies, CanMigrate

\* What holds of the next block of the branch the state is on.
LEMMA NextOwn ==
    ASSUME ChainInv, SwitchPath, Switching, NEW tip \in Block,
           head = AncestorAt(tip, Num(head)), Num(head) < Num(tip)
    PROVE  /\ AncestorAt(tip, Num(head) + 1) \in Block
           /\ Num(AncestorAt(tip, Num(head) + 1)) = Num(head) + 1
           /\ Previous(AncestorAt(tip, Num(head) + 1)) = head
           /\ AncestorAt(tip, Num(head) + 1) # tip => Num(head) + 1 < Num(tip)
<1>1. TypeOK /\ WorldOK(world) /\ Num(head) \in Nat /\ Num(tip) \in Nat
  BY OnBranch, NumIsNat DEF ChainInv, TypeOK, Block
<1>2. Num(head) + 1 \in 1 .. Num(tip) /\ (Num(head) + 1) - 1 = Num(head)
  BY <1>1
<1>3. Previous(AncestorAt(tip, Num(head) + 1)) = AncestorAt(tip, (Num(head) + 1) - 1)
  BY <1>1, <1>2, PreviousOfAncestor DEF Block
<1>4. QED
  BY <1>1, <1>2, <1>3, NextOfBranch

\* After an apply_block() that threw, or one that did not, during a switch.
LEMMA SwitchedIndex ==
    ASSUME WorldOK(world), UNCHANGED world, NEW g \in ForkDb(Block)
    PROVE  /\ fork' = Settled(g, Held) => fork'.index = g.index
           /\ Done(g) => fork'.index = g.index /\ pc' = "idle"
BY SettledIndex DEF Done

\* The next block of the new branch.
LEMMA SwitchApplyOwn ==
    ASSUME ChainInv, OrderlyWorld, OwnChain, SwitchApply
    PROVE  OwnChain'
<1> DEFINE b == AncestorAt(sw.new, Num(head) + 1)
           f == SetHead(fork, Held, b)
           rest == BranchOf(sw.new, Num(b) - 1)
<1>1. /\ TypeOK /\ UndoReachesLog /\ Running /\ Switching /\ pc \in {"pop", "apply"}
      /\ UNCHANGED <<world, disk>> /\ fork \in ForkDb(Block)
      /\ LogIsOwnChain /\ ReversibleIndexed /\ SwitchPath /\ BranchesIndexed
      /\ pc = "pop" => AtCommonParent
  BY DEF ChainInv, TypeOK, OwnChain, SwitchApply, Running, Switching
<1>2. /\ WorldOK(world) /\ sw.new \in Block /\ sw.old \in Block
      /\ sw.parent \in Nat /\ Num(head) \in Nat /\ Num(sw.new) \in Nat /\ Num(sw.old) \in Nat
      /\ sw.parent < Num(sw.old) /\ sw.parent < Num(sw.new) /\ Num(sw.old) < Num(sw.new)
      /\ sw.parent <= Num(head)
  BY <1>1, OnBranch
<1>3. /\ head \in Block \cup {<<>>} /\ base = Len(log) /\ base <= Num(head) /\ base \in Nat
      /\ \A n \in 1 .. Num(head) : n > base => AncestorAt(head, n) \in fork.index
  BY <1>1 DEF TypeOK, UndoReachesLog, ReversibleIndexed
<1>4. head = AncestorAt(sw.new, Num(head)) /\ Num(head) < Num(sw.new)
  <2>1. CASE pc = "pop"
    BY <1>1, <1>2, <2>1, OnBranch DEF AtCommonParent
  <2>2. CASE pc = "apply"
    BY <1>1, <1>2, <2>2, OnBranch DEF Tip, ChainInv, SwitchOK
  <2>3. QED
    BY <1>1, <2>1, <2>2
<1>5. /\ b \in Block /\ Num(b) = Num(head) + 1 /\ Previous(b) = head
      /\ b # sw.new => Num(head) + 1 < Num(sw.new)
  BY <1>1, <1>2, <1>4, NextOwn
<1>6. IndexedAbove(sw.new) /\ IndexedAbove(sw.old)
  BY <1>1 DEF BranchesIndexed, OldRefused
<1>7. b \in fork.index
  <2>1. Num(head) + 1 \in 1 .. Num(sw.new) /\ Num(head) + 1 > sw.parent /\ Num(head) + 1 > base
    BY <1>2, <1>3, <1>4
  <2>2. QED
    BY <1>6, <2>1 DEF IndexedAbove
<1>8. /\ f \in ForkDb(Block) /\ f.index = fork.index /\ f.linked = fork.linked
      /\ f.head = b /\ f.headLinked = IsLinked(fork, Held, b)
  BY <1>1, <1>5, SetHeadTyped, SetHeadIndex
<1>9. \/ /\ ApplyOk(f, b)
         /\ \/ b = sw.new /\ Done(Migrated(f, b))
            \/ /\ b # sw.new
               /\ fork' = Settled(Migrated(f, b), Held)
               /\ pc' = "apply" /\ UNCHANGED sw
      \/ /\ ApplyThrows(f, b)
         /\ fork' = Settled(Remove(f, rest), Held)
         /\ pc' = "unwind" /\ UNCHANGED sw
      \/ /\ ApplyThrowsLate(f, b)
         /\ fork' = Settled(Remove(Migrated(f, b), rest), Held)
         /\ pc' = "unwind" /\ UNCHANGED sw
  BY DEF SwitchApply
<1>10. \A c \in rest : Num(c) >= Num(b)
  <2>1. TAKE c \in rest
  <2>2. PICK m \in Num(b) - 1 + 1 .. Len(sw.new) : c = AncestorAt(sw.new, m)
    BY DEF BranchOf
  <2>3. m \in 1 .. Num(sw.new) /\ m >= Num(b)
    BY <1>2, <1>5, <2>2 DEF Num
  <2>4. QED
    BY <1>2, <2>2, <2>3, AncestorIsBlock DEF Block
<1>11. \A m \in 1 .. Num(sw.new) : AncestorAt(sw.new, m) \in rest => m >= Num(b)
  BY <1>2, <1>10, AncestorIsBlock DEF Block
<1>12. rest = {AncestorAt(sw.new, m) : m \in Num(b) - 1 + 1 .. Num(sw.new)}
  BY DEF BranchOf, Num
<1> HIDE DEF b, f, rest
<1>13. /\ LogIsOwnChain' /\ base' \in Nat /\ base <= base'
       /\ ApplyOk(f, b) => head' = b
       /\ ApplyOk(f, b) => \A n \in 1 .. Num(b) :
                                n > base' => AncestorAt(b, n) \in Migrated(f, b).index
       /\ ApplyThrows(f, b) => UNCHANGED <<head, base, log>>
       /\ ApplyThrowsLate(f, b) => head' = head /\ b \in world.broken
       /\ ApplyOk(f, b) \/ ApplyThrowsLate(f, b) =>
                \A c \in f.index : Num(c) > base' => c \in Migrated(f, b).index
       /\ ApplyOk(f, b) \/ ApplyThrows(f, b) \/ ApplyThrowsLate(f, b)
  BY <1>1, <1>5, <1>7, <1>8, <1>9, ApplyOwn
<1>14. Migrated(f, b) \in ForkDb(Block)
  BY <1>2, <1>5, <1>8, MigratedTyped
<1>15. CASE ApplyOk(f, b) /\ b = sw.new /\ Done(Migrated(f, b))
  <2>1. fork'.index = Migrated(f, b).index /\ pc' = "idle"
    BY <1>1, <1>2, <1>14, <1>15, SwitchedIndex
  <2>2. QED
    BY <1>13, <1>15, <2>1, IdleOwn
<1>16. CASE /\ ApplyOk(f, b) /\ b # sw.new
            /\ fork' = Settled(Migrated(f, b), Held) /\ pc' = "apply" /\ UNCHANGED sw
  <2>1. fork'.index = Migrated(f, b).index
    BY <1>1, <1>2, <1>14, <1>16, SwitchedIndex
  <2>2. ReversibleIndexed'
    BY <1>13, <1>16, <2>1 DEF ReversibleIndexed
  <2>3. SwitchPath'
    <3>1. Num(head') \in sw.parent .. Num(sw.new) /\ head' = AncestorAt(sw.new, Num(head'))
      <4>1. Num(head') = Num(head) + 1 /\ head' = b /\ Num(head) + 1 <= Num(sw.new)
        BY <1>2, <1>4, <1>5, <1>13, <1>16
      <4>2. QED
        BY <1>2, <4>1 DEF b
    <3>2. QED
      BY <1>1, <1>16, <3>1 DEF SwitchPath, Switching, Tip
  <2>4. ASSUME NEW tip \in {sw.new, sw.old}, IndexedAbove(tip),
               NEW n \in 1 .. Num(tip), n > sw.parent, n > base'
        PROVE  AncestorAt(tip, n) \in fork'.index
    <3>1. n > base
      BY <1>3, <1>13, <2>4
    <3>2. AncestorAt(tip, n) \in fork.index
      BY <2>4, <3>1 DEF IndexedAbove
    <3>3. Num(AncestorAt(tip, n)) = n
      BY <1>2, <2>4, AncestorIsBlock DEF Block
    <3>4. QED
      BY <1>8, <1>13, <1>16, <2>1, <2>4, <3>2, <3>3
  <2>5. IndexedAbove(sw.new)' /\ IndexedAbove(sw.old)'
    BY <1>6, <1>16, <2>4 DEF IndexedAbove
  <2>6. BranchesIndexed' /\ CleanIsRewound'
    BY <1>16, <2>5 DEF BranchesIndexed, CleanIsRewound
  <2>7. QED
    BY <1>13, <2>2, <2>3, <2>6 DEF OwnChain
<1>17. ASSUME NEW g \in ForkDb(Block), fork' = Settled(Remove(g, rest), Held),
              g.linked \subseteq f.linked, g.index \subseteq f.index,
              \A c \in f.index : Num(c) > base' => c \in g.index,
              \/ ~Applies(f, b) /\ g = f /\ UNCHANGED <<head, base, log>>
              \/ b \in world.broken,
              pc' = "unwind", UNCHANGED sw, head' = head
       PROVE  OwnChain'
  <2>1. fork'.index = g.index \ rest /\ Remove(g, rest) \in ForkDb(Block)
    BY <1>1, <1>2, <1>17, RemoveTyped, RemoveIndex, SwitchedIndex
  <2>2. ReversibleIndexed'
    <3>1. ASSUME NEW n \in 1 .. Num(head), n > base'
          PROVE  AncestorAt(head, n) \in fork'.index
      <4>1. n > base /\ n < Num(b)
        BY <1>2, <1>3, <1>5, <1>13, <3>1
      <4>2. AncestorAt(head, n) \in fork.index
        BY <1>3, <3>1, <4>1
      <4>3. Num(AncestorAt(head, n)) = n
        BY <1>2, <1>3, <3>1, NumIsNat, AncestorIsBlock DEF Block
      <4>4. AncestorAt(head, n) \notin rest
        BY <1>2, <1>5, <1>10, <3>1, <4>1, <4>3
      <4>5. QED
        BY <1>8, <1>17, <2>1, <3>1, <4>2, <4>3, <4>4
    <3>2. QED
      BY <1>17, <3>1 DEF ReversibleIndexed
  <2>3. SwitchPath'
    <3>1. Tip' = sw.new /\ Num(head) \in sw.parent .. Num(sw.new)
      BY <1>2, <1>4, <1>17 DEF Tip
    <3>2. QED
      BY <1>1, <1>4, <1>17, <3>1 DEF SwitchPath, Switching
  <2>4. IndexedAbove(sw.old)' \/ OldRefused'
    <3>1. SUFFICES ASSUME NEW n \in 1 .. Num(sw.old), n > sw.parent, n > base',
                          AncestorAt(sw.old, n) \notin fork'.index
                   PROVE  OldRefused'
      BY <1>17 DEF IndexedAbove
    <3>2. AncestorAt(sw.old, n) \in fork.index /\ Num(AncestorAt(sw.old, n)) = n
      BY <1>2, <1>3, <1>6, <1>13, <3>1, AncestorIsBlock DEF Block, IndexedAbove
    <3>3. AncestorAt(sw.old, n) \in rest
      BY <1>8, <1>17, <2>1, <3>1, <3>2
    <3>4. AncestorAt(sw.old, n) = AncestorAt(sw.new, n)
      <4>1. PICK m \in Num(b) - 1 + 1 .. Num(sw.new) : AncestorAt(sw.old, n) = AncestorAt(sw.new, m)
        BY <1>12, <3>3
      <4>2. m \in 1 .. Num(sw.new)
        BY <1>2, <1>5, <4>1
      <4>3. Num(AncestorAt(sw.new, m)) = m
        BY <1>2, <4>2, AncestorIsBlock DEF Block
      <4>4. QED
        BY <3>2, <4>1, <4>3
    <3>5. \A k \in 1 .. Num(sw.old) : k > sw.parent /\ k < Num(sw.old) =>
              AncestorAt(sw.new, k) # AncestorAt(sw.old, k)
      <4>1. IsCommonParent(sw.new, sw.old, sw.parent)
        BY <1>1 DEF SwitchPath
      <4>2. Num(sw.new) = Len(sw.new) /\ Num(sw.old) = Len(sw.old)
        BY DEF Num
      <4>3. TAKE k \in 1 .. Num(sw.old)
      <4>4. HAVE k > sw.parent /\ k < Num(sw.old)
      <4>5. k \in sw.parent + 1 .. Len(sw.new) /\ k < Len(sw.new) /\ k < Len(sw.old)
        BY <1>2, <4>2, <4>4
      <4>6. QED
        BY <4>1, <4>5 DEF IsCommonParent
    <3>6. n = Num(sw.old)
      BY <1>2, <3>1, <3>4, <3>5
    <3>7. sw.old = AncestorAt(sw.new, n) /\ n \in 0 .. Num(sw.new)
      BY <1>2, <3>4, <3>6, OwnAncestor DEF Block
    <3>8. Num(sw.old) = sw.parent + 1
      <4>1. SUFFICES ASSUME sw.parent + 1 < Num(sw.old) PROVE FALSE
        BY <1>2
      <4>2. sw.parent + 1 \in 0 .. n /\ sw.parent + 1 \in 1 .. Num(sw.old) /\ sw.parent + 1 > sw.parent
        BY <1>2, <3>6, <4>1
      <4>3. AncestorAt(sw.old, sw.parent + 1) = AncestorAt(sw.new, sw.parent + 1)
        BY <1>2, <3>7, <4>2, AncestorOfAncestor DEF Block
      <4>4. QED
        BY <3>5, <4>1, <4>2, <4>3
    <3>9. n >= Num(b)
      BY <1>2, <1>11, <3>1, <3>3, <3>4
    <3>10. Num(head) + 1 = Num(sw.old) /\ b = sw.old
      BY <1>2, <1>5, <3>6, <3>7, <3>8, <3>9 DEF b
    <3>12. ASSUME b \notin world.broken, (Applies(SetHead(fork, Held, sw.old), sw.old))'
           PROVE  FALSE
      <4> DEFINE h == SetHead(fork', Held, b)
      <4>1. ~Applies(f, b) /\ g = f /\ UNCHANGED <<head, base, log>>
        BY <1>17, <3>12
      <4>2. Held' = Held
        BY <1>17 DEF Held
      <4>3. Applies(h, b)
        BY <1>1, <1>17, <3>10, <3>12, <4>1, <4>2 DEF Applies, BlockApplies, CanMigrate, LogPart, lib
      <4>4. fork' \in ForkDb(Block) /\ fork'.linked \subseteq f.linked
        BY <1>17, <2>1, SettledTyped, SettledIndex, RemoveIndex
      <4>5. /\ h \in ForkDb(Block) /\ h.index = fork'.index /\ h.linked = fork'.linked
            /\ h.head = b /\ h.headLinked = IsLinked(fork', Held, b)
        BY <1>5, <4>4, SetHeadTyped, SetHeadIndex
      <4>6. b \in Held
        <5>1. Held = BranchOf(sw.new, sw.parent) \cup BranchOf(sw.old, sw.parent)
          BY DEF Held
        <5>2. sw.parent + 1 \in sw.parent + 1 .. Len(sw.old) /\ sw.old = AncestorAt(sw.old, sw.parent + 1)
          BY <1>2, <3>8, OwnAncestor DEF Num, Block
        <5>3. QED
          BY <3>10, <5>1, <5>2 DEF BranchOf
      <4>7. h.headLinked => f.headLinked
        BY <1>8, <4>4, <4>5, <4>6 DEF IsLinked
      <4>8. \A c \in Block : Num(c) < Num(b) => (c \in h.index <=> c \in f.index)
        <5>1. TAKE c \in Block
        <5>2. HAVE Num(c) < Num(b)
        <5>3. Num(c) \in Nat /\ Num(b) \in Nat
          BY <1>2, <1>5, PreviousIsBlock DEF Block
        <5>4. c \notin rest
          BY <1>10, <5>2, <5>3
        <5>5. QED
          BY <2>1, <4>1, <4>5, <5>4
      <4>9. lib[b] < Num(b) /\ log \in Seq(Block)
        BY <1>1, <1>5 DEF OrderlyWorld, TypeOK
      <4> HIDE DEF h
      <4>10. Applies(f, b)
        BY <1>2, <1>5, <1>8, <4>3, <4>4, <4>5, <4>7, <4>8, <4>9, AppliesAgain
      <4>11. QED
        BY <4>1, <4>10
    <3>13. head = Previous(sw.old)
      BY <1>5, <3>10
    <3>14. QED
      BY <1>1, <1>17, <3>8, <3>10, <3>12, <3>13 DEF OldRefused
  <2>5. BranchesIndexed' /\ CleanIsRewound'
    BY <1>17, <2>4 DEF BranchesIndexed, CleanIsRewound
  <2>6. QED
    BY <1>13, <2>2, <2>3, <2>5 DEF OwnChain
<1>18. CASE /\ ApplyThrows(f, b) /\ fork' = Settled(Remove(f, rest), Held)
            /\ pc' = "unwind" /\ UNCHANGED sw
  BY <1>8, <1>13, <1>17, <1>18 DEF ApplyThrows
<1>19. CASE /\ ApplyThrowsLate(f, b) /\ fork' = Settled(Remove(Migrated(f, b), rest), Held)
            /\ pc' = "unwind" /\ UNCHANGED sw
  <2>1. Migrated(f, b).index \subseteq f.index /\ Migrated(f, b).linked \subseteq f.linked
    BY <1>8 DEF Migrated, SetMaxSize, ForkDb
  <2>2. QED
    BY <1>13, <1>14, <1>17, <1>19, <2>1
<1>20. QED
  BY <1>9, <1>15, <1>16, <1>18, <1>19

\* The next block of the old branch.
LEMMA SwitchRestoreOwn ==
    ASSUME ChainInv, OrderlyWorld, OwnChain, SwitchRestore
    PROVE  OwnChain'
<1> DEFINE b == AncestorAt(sw.old, Num(head) + 1)
           f == SetHead(fork, Held, b)
<1>1. /\ TypeOK /\ UndoReachesLog /\ Running /\ Switching /\ pc \in {"unwind", "restore"}
      /\ UNCHANGED <<world, disk>> /\ fork \in ForkDb(Block)
      /\ LogIsOwnChain /\ ReversibleIndexed /\ SwitchPath /\ BranchesIndexed
      /\ pc = "unwind" => AtCommonParent
  BY DEF ChainInv, TypeOK, OwnChain, SwitchRestore, Running, Switching
<1>2. /\ WorldOK(world) /\ sw.old \in Block /\ sw.parent \in Nat /\ Num(head) \in Nat
      /\ Num(sw.old) \in Nat /\ sw.parent < Num(sw.old) /\ sw.parent <= Num(head)
  BY <1>1, OnBranch
<1>3. base = Len(log) /\ base <= Num(head) /\ base \in Nat
      /\ \A n \in 1 .. Num(head) : n > base => AncestorAt(head, n) \in fork.index
  BY <1>1 DEF TypeOK, UndoReachesLog, ReversibleIndexed
<1>4. head = AncestorAt(sw.old, Num(head)) /\ Num(head) < Num(sw.old)
  <2>1. CASE pc = "unwind"
    BY <1>1, <1>2, <2>1, OnBranch DEF AtCommonParent
  <2>2. CASE pc = "restore"
    BY <1>1, <1>2, <2>2, OnBranch DEF Tip, ChainInv, SwitchOK
  <2>3. QED
    BY <1>1, <2>1, <2>2
<1>5. /\ b \in Block /\ Num(b) = Num(head) + 1 /\ Previous(b) = head
      /\ b # sw.old => Num(head) + 1 < Num(sw.old)
  BY <1>1, <1>2, <1>4, NextOwn
<1>6. /\ f \in ForkDb(Block) /\ f.index = fork.index /\ f.head = b
  BY <1>1, <1>5, SetHeadTyped, SetHeadIndex
<1>7. \/ /\ ApplyOk(f, b)
         /\ \/ b = sw.old /\ Done(Migrated(f, b))
            \/ /\ b # sw.old
               /\ fork' = Settled(Migrated(f, b), Held)
               /\ pc' = "restore" /\ UNCHANGED sw
      \/ ApplyThrows(f, b) /\ Done(f)
      \/ ApplyThrowsLate(f, b) /\ Done(Migrated(f, b))
  BY DEF SwitchRestore
<1>8. ApplyOk(f, b) => IndexedAbove(sw.old)
  <2>1. SUFFICES ASSUME OldRefused, ApplyOk(f, b) PROVE FALSE
    BY <1>1 DEF BranchesIndexed
  <2>2. Num(head) + 1 = Num(sw.old)
    BY <1>1, <1>2, <2>1, OnBranch DEF OldRefused
  <2>3. b = sw.old
    BY <1>2, <2>2, OwnAncestor DEF Block
  <2>4. QED
    BY <2>1, <2>3 DEF OldRefused, ApplyOk
<1>9. IndexedAbove(sw.old) => b \in fork.index
  <2>1. Num(head) + 1 \in 1 .. Num(sw.old) /\ Num(head) + 1 > sw.parent /\ Num(head) + 1 > base
    BY <1>2, <1>3, <1>4
  <2>2. QED
    BY <2>1 DEF IndexedAbove
<1> HIDE DEF b, f
<1>11. /\ LogIsOwnChain' /\ base' \in Nat /\ base <= base'
       /\ ApplyOk(f, b) => head' = b
       /\ ApplyOk(f, b) => \A n \in 1 .. Num(b) :
                                n > base' => AncestorAt(b, n) \in Migrated(f, b).index
       /\ ApplyThrows(f, b) => UNCHANGED <<head, base, log>>
       /\ ApplyThrowsLate(f, b) => head' = head
       /\ ApplyOk(f, b) \/ ApplyThrowsLate(f, b) =>
                \A c \in f.index : Num(c) > base' => c \in Migrated(f, b).index
  BY <1>1, <1>5, <1>6, <1>7, <1>8, <1>9, ApplyOwn
<1>12. Migrated(f, b) \in ForkDb(Block)
  BY <1>2, <1>5, <1>6, MigratedTyped
<1>13. CASE ApplyOk(f, b) /\ b = sw.old /\ Done(Migrated(f, b))
  <2>1. fork'.index = Migrated(f, b).index /\ pc' = "idle"
    BY <1>1, <1>2, <1>12, <1>13, SwitchedIndex
  <2>2. QED
    BY <1>11, <1>13, <2>1, IdleOwn
<1>14. CASE /\ ApplyOk(f, b) /\ b # sw.old
            /\ fork' = Settled(Migrated(f, b), Held) /\ pc' = "restore" /\ UNCHANGED sw
  <2>1. fork'.index = Migrated(f, b).index
    BY <1>1, <1>2, <1>12, <1>14, SwitchedIndex
  <2>2. ReversibleIndexed'
    BY <1>11, <1>14, <2>1 DEF ReversibleIndexed
  <2>3. SwitchPath'
    <3>1. Num(head') \in sw.parent .. Num(sw.old) /\ head' = AncestorAt(sw.old, Num(head'))
      <4>1. Num(head') = Num(head) + 1 /\ head' = b /\ Num(head) + 1 <= Num(sw.old)
        BY <1>2, <1>4, <1>5, <1>11, <1>14
      <4>2. QED
        BY <1>2, <4>1 DEF b
    <3>2. QED
      BY <1>1, <1>14, <3>1 DEF SwitchPath, Switching, Tip
  <2>4. ASSUME NEW n \in 1 .. Num(sw.old), n > sw.parent, n > base'
        PROVE  AncestorAt(sw.old, n) \in fork'.index
    <3>1. n > base /\ IndexedAbove(sw.old)
      BY <1>3, <1>8, <1>11, <1>14, <2>4
    <3>2. AncestorAt(sw.old, n) \in fork.index
      BY <2>4, <3>1 DEF IndexedAbove
    <3>3. Num(AncestorAt(sw.old, n)) = n
      BY <1>2, <2>4, AncestorIsBlock DEF Block
    <3>4. QED
      BY <1>6, <1>11, <1>14, <2>1, <2>4, <3>2, <3>3
  <2>5. IndexedAbove(sw.old)'
    BY <1>14, <2>4 DEF IndexedAbove
  <2>6. BranchesIndexed' /\ CleanIsRewound'
    BY <1>14, <2>5 DEF BranchesIndexed, CleanIsRewound
  <2>7. QED
    BY <1>11, <2>2, <2>3, <2>6 DEF OwnChain
<1>15. ASSUME NEW g \in ForkDb(Block), Done(g), head' = head,
              \A c \in f.index : Num(c) > base' => c \in g.index
       PROVE  OwnChain'
  <2>1. fork'.index = g.index /\ pc' = "idle"
    BY <1>1, <1>2, <1>15, SwitchedIndex
  <2>2. ASSUME NEW n \in 1 .. Num(head), n > base'
        PROVE  AncestorAt(head, n) \in g.index
    <3>1. n > base
      BY <1>3, <1>11, <2>2
    <3>2. AncestorAt(head, n) \in fork.index
      BY <1>3, <2>2, <3>1
    <3>3. Num(AncestorAt(head, n)) = n
      BY <1>1, <1>2, <2>2, NumIsNat, AncestorIsBlock DEF TypeOK, Block
    <3>4. QED
      BY <1>6, <1>15, <2>2, <3>2, <3>3
  <2>3. QED
    BY <1>11, <1>15, <2>1, <2>2, IdleOwn
<1>16. QED
  BY <1>6, <1>7, <1>11, <1>12, <1>13, <1>14, <1>15

\* The node is stopped, started or replays its log.
LEMMA RestartOwn ==
    ASSUME ChainInv, OwnChain, CloseBegin \/ CloseEnd \/ Crash \/ Open \/ Reindex
    PROVE  OwnChain'
<1>1. /\ TypeOK /\ WorldOK(world) /\ head \in Block \cup {<<>>} /\ Num(head) \in Nat
      /\ log \in Seq(Block) /\ Len(log) \in Nat /\ Len(log) <= Num(head)
      /\ LogIsOwnChain /\ CleanIsRewound
  BY NumIsNat DEF ChainInv, TypeOK, UndoReachesLog, OwnChain, Block
<1>2. CASE CloseBegin
  <2>1. /\ UNCHANGED <<log, base>> /\ base = Len(log) /\ pc' = "closing"
        /\ head' = AncestorAt(head, Len(log))
    BY <1>2 DEF CloseBegin, ChainInv, UndoReachesLog, Running
  <2>2. Num(head') = Len(log) /\ \A n \in 0 .. Len(log) : AncestorAt(head', n) = AncestorAt(head, n)
    <3>1. Len(log) \in 0 .. Num(head)
      BY <1>1
    <3>2. head \in Seq(Label) /\ Num(head) = Len(head)
      BY <1>1, PathIsSeq DEF Block
    <3>3. QED
      BY <1>1, <2>1, <3>1, <3>2, PrefixLength, AncestorOfAncestor DEF Block, AncestorAt, Num
  <2>3. LogIsOwnChain'
    BY <1>1, <2>1, <2>2 DEF LogIsOwnChain
  <2>4. QED
    BY <2>1, <2>2, <2>3 DEF OwnChain, ReversibleIndexed, Running, SwitchPath, Switching,
       BranchesIndexed, CleanIsRewound
<1>3. CASE CloseEnd \/ Crash
  <2>1. /\ UNCHANGED <<head, log>> /\ pc' = "down"
        /\ pc = "closing" \/ disk' # "clean"
    BY <1>3 DEF CloseEnd, Crash
  <2>2. LogIsOwnChain'
    BY <1>1, <2>1 DEF LogIsOwnChain
  <2>3. QED
    BY <1>1, <2>1, <2>2 DEF OwnChain, ReversibleIndexed, Running, SwitchPath, Switching,
       BranchesIndexed, CleanIsRewound
<1>4. CASE Open
  <2>1. UNCHANGED <<head, log>> /\ pc' = "idle" /\ base' = Num(head)
    BY <1>4 DEF Open
  <2>2. LogIsOwnChain'
    BY <1>1, <2>1 DEF LogIsOwnChain
  <2>3. \A n \in 1 .. Num(head') : ~(n > base')
    BY <1>1, <2>1
  <2>4. QED
    BY <2>1, <2>2, <2>3, IdleOwn
<1>5. CASE Reindex
  <2>1. CASE log = <<>> /\ head' = <<>> /\ UNCHANGED <<log, pc>> /\ pc = "down"
    <3>1. Len(log') = 0 /\ Num(head') = 0
      BY <2>1 DEF Num
    <3>2. LogIsOwnChain'
      BY <3>1 DEF LogIsOwnChain
    <3>3. QED
      BY <2>1, <3>1, <3>2 DEF OwnChain, ReversibleIndexed, Running, SwitchPath, Switching,
         BranchesIndexed, CleanIsRewound
  <2>2. CASE /\ log # <<>> /\ UNCHANGED log /\ pc' = "idle"
             /\ \A i \in 1 .. Len(log) : log[i] = AncestorAt(log[Len(log)], i)
             /\ head' = log[Len(log)] /\ base' = Num(head')
    <3>1. Len(log) \in 1 .. Len(log) /\ head' \in Block
      BY <1>1, <2>2
    <3>2. head' = AncestorAt(head', Len(log)) /\ head' = AncestorAt(head, Len(log))
      BY <1>1, <2>2, <3>1 DEF LogIsOwnChain
    <3>3. Num(head') = Len(log)
      BY <1>1, <3>1, <3>2, NumIsNat, AncestorIsBlock DEF Block
    <3>4. LogIsOwnChain'
      BY <1>1, <2>2, <3>3 DEF LogIsOwnChain
    <3>5. \A n \in 1 .. Num(head') : ~(n > base')
      BY <1>1, <2>2, <3>3
    <3>6. QED
      BY <2>2, <3>4, <3>5, IdleOwn
  <2>3. QED
    BY <1>5, <2>1, <2>2 DEF Reindex
<1>6. QED
  BY <1>2, <1>3, <1>4, <1>5

\* The world does not change.
LEMMA WorldStays == [Next]_vars => UNCHANGED world
BY DEF vars, Next, push_block, PushOnHead, PushOnShorterFork, PushOnBrokenBranch,
   PushOnLongerFork, Switch, pop_block, SwitchApply, SwitchRestore, CloseBegin, CloseEnd,
   Crash, Open, Reindex

LEMMA InitOwn == Init => OrderlyInv
BY DEF Init, OrderlyInv, OwnChain, LogIsOwnChain, ReversibleIndexed, SwitchPath, Switching,
   BranchesIndexed, CleanIsRewound, Num

LEMMA StepOwn == ChainInv /\ OrderlyInv /\ [Next]_vars => OrderlyInv'
<1> SUFFICES ASSUME ChainInv, OrderlyInv, [Next]_vars, OrderlyWorld' PROVE OwnChain'
  BY DEF OrderlyInv
<1>1. OrderlyWorld /\ OwnChain
  BY WorldStays DEF OrderlyInv, OrderlyWorld, Block, lib
<1>2. CASE UNCHANGED vars
  BY <1>1, <1>2 DEF vars, OwnChain, LogIsOwnChain, ReversibleIndexed, Running, SwitchPath,
     Switching, Tip, BranchesIndexed, IndexedAbove, OldRefused, Applies, BlockApplies,
     CanMigrate, LogPart, lib, Held, CleanIsRewound
<1>3. ASSUME NEW b \in world.blocks, push_block(b) PROVE OwnChain'
  BY <1>1, <1>3, PushOwn DEF Block
<1>4. CASE Switch
  BY <1>1, <1>4, PopOwn, SwitchApplyOwn, SwitchRestoreOwn DEF Switch
<1>5. CASE CloseBegin \/ CloseEnd \/ Crash \/ Open \/ Reindex
  BY <1>1, <1>5, RestartOwn
<1>6. QED
  BY <1>2, <1>3, <1>4, <1>5 DEF Next

\* The inductive invariant: whatever can be undone or has to be applied in a fork
\* switch is found in the fork database by id, the state is on one of the two
\* branches of the switch, and what is in the log is on the state's chain.
THEOREM OrderlyInvariant == Spec => []OrderlyInv
  BY ChainInvariant, InitOwn, StepOwn, PTL DEF Spec

\* For any tree of blocks and any of them refused, early or late, with crashes,
\* restarts and replays: as long as no known block is pushed again and no block makes
\* itself irreversible, the log is the beginning of the state's own chain
\* (migrate_irreversible_state, fetch_block_on_main_branch_by_number).
THEOREM LogStaysOnChain == Spec => [](OrderlyWorld => LogIsOwnChain)
<1>1. OrderlyInv => (OrderlyWorld => LogIsOwnChain)
  BY DEF OrderlyInv, OwnChain
<1>2. QED
  BY <1>1, OrderlyInvariant, PTL

\* In such a world a state that was closed in an orderly way, or wiped, is one that
\* open() takes: its head is the last block of the log.
THEOREM CloseThenOpen == Spec => [](OrderlyWorld => CleanCloseReopens)
<1>1. ChainInv /\ OrderlyInv => (OrderlyWorld => CleanCloseReopens)
  <2>1. SUFFICES ASSUME ChainInv, OwnChain, pc = "down", disk = "clean", head # <<>>
                 PROVE  InLog(head)
    BY DEF OrderlyInv, CleanCloseReopens, StateMatchesLog
  <2>2. /\ WorldOK(world) /\ head \in Block /\ Num(head) = Len(log)
        /\ \A i \in 1 .. Len(log) : log[i] = AncestorAt(head, i)
    BY <2>1 DEF ChainInv, TypeOK, OwnChain, CleanIsRewound, LogIsOwnChain
  <2>3. Num(head) \in 1 .. Len(log) /\ AncestorAt(head, Num(head)) = head
    BY <2>2, PreviousIsBlock, OwnAncestor DEF Block
  <2>4. QED
    BY <2>2, <2>3 DEF InLog
<1>2. QED
  BY <1>1, ChainInvariant, OrderlyInvariant, PTL

\* A replay brings the node to the end of its log, which is on its chain.
LEMMA ReindexRefines == ChainInv /\ OwnChain /\ Reindex => AbsStep
<1> SUFFICES ASSUME ChainInv, OwnChain, Reindex PROVE AbsStep
  OBVIOUS
<1>1. /\ WorldOK(world) /\ head \in Block \cup {<<>>} /\ log \in Seq(Block) /\ Len(log) \in Nat
      /\ Len(log) <= Num(head) /\ \A i \in 1 .. Len(log) : log[i] = AncestorAt(head, i)
      /\ UNCHANGED log
  BY DEF ChainInv, TypeOK, OwnChain, LogIsOwnChain, Reindex
<1>2. head \in Seq(Label) /\ Num(head) = Len(head) /\ Len(head) \in Nat
  BY <1>1, PathIsSeq DEF Block
<1>3. Len(log) \in Len(log) .. Len(head)
  BY <1>1, <1>2
<1>4. head' = SubSeq(head, 1, Len(log))
  <2>1. CASE log = <<>> /\ head' = <<>>
    BY <1>2, <2>1
  <2>2. CASE log # <<>> /\ head' = log[Len(log)]
    <3>1. Len(log) \in 1 .. Len(log)
      BY <1>1, <2>2
    <3>2. QED
      BY <1>1, <2>2, <3>1 DEF AncestorAt
  <2>3. QED
    BY <2>1, <2>2 DEF Reindex
<1>5. QED
  BY <1>1, <1>3, <1>4 DEF AbsStep, Abs!Next, Abs!Rewind

\* In such a world a node that is closed, killed, opened and replayed at any time
\* implements FinalChain: nothing ever takes back a block of the log.
THEOREM RestartRefinement == Spec /\ OrderlyWorld => Implements
<1>1. Init => Abs!Init
  BY DEF Init, Abs!Init
<1>2. OrderlyWorld /\ [Next]_vars => OrderlyWorld'
  BY WorldStays DEF OrderlyWorld, Block, lib
<1>3. ChainInv /\ OrderlyInv /\ OrderlyWorld /\ [Next]_vars => [Abs!Next]_(Abs!vars)
  BY StepRefines, ReindexRefines DEF AbsStep, OrderlyInv
<1>4. QED
  BY <1>1, <1>2, <1>3, ChainInvariant, OrderlyInvariant, PTL DEF Spec, Implements, Abs!Spec

-----------------------------------------------------------------------------
(* As long as no block is refused the head is the fork choice.              *)
(*                                                                          *)
(* What a block makes irreversible must be shared by all blocks that are as *)
(* high: those who confirmed it are too many for the others to keep up. And *)
(* a first block that is not a child of genesis would become the head of    *)
(* the fork database, but not of the state.                                 *)

MajorityWorld ==
    /\ AllValid
    /\ ~world.early
    /\ \A a, b \in Block : Num(b) >= Num(a) => AncestorAt(b, lib[a]) = AncestorAt(a, lib[a])

\* The head when the push that is under way began.
HeadBefore == IF pc \in {"pop", "apply"} THEN sw.old ELSE head

\* Every block that could take over shares what cannot be undone.
BaseIsShared ==
    \A b \in Block : Num(b) >= Num(HeadBefore) => AncestorAt(b, base) = AncestorAt(HeadBefore, base)

\* The branches of all known blocks can be followed down to the base.
Traced ==
    \A b \in fork.index :
        /\ \A n \in 1 .. Num(b) : n >= base => AncestorAt(b, n) \in fork.index
        /\ Num(b) > base /\ Num(b) > 1 => b \in fork.linked

\* Both heads of an idle node.
IdleChoice ==
    pc = "idle" =>
        /\ fork.head = head
        /\ head # <<>> => head \in fork.index
        /\ \A b \in fork.index : Num(b) <= Num(head)

\* While blocks are popped the head of the fork database steps back with the
\* head of the state.
PopChoice ==
    pc = "pop" =>
        /\ sw.old \in fork.index
        /\ IsCommonParent(sw.new, sw.old, sw.parent) /\ sw.parent >= base
        /\ Num(head) \in sw.parent .. Num(sw.old) /\ head = AncestorAt(sw.old, Num(head))
        /\ fork.head = AncestorAt(sw.new, Num(head) + 1)
        /\ Num(head) > sw.parent => fork.headLinked

SwitchChoice ==
    pc \in {"pop", "apply"} =>
        /\ sw.new \in fork.index /\ Num(sw.new) = Num(sw.old) + 1
        /\ \A b \in fork.index : Num(b) <= Num(sw.new)
        /\ pc = "apply" => head = AncestorAt(sw.new, Num(head))

Choice ==
    /\ pc \in {"idle", "pop", "apply"} /\ base <= Num(HeadBefore)
    /\ BaseIsShared /\ Traced /\ IdleChoice /\ PopChoice /\ SwitchChoice

ChoiceInv == MajorityWorld => Choice

\* A set of natural numbers has a least one.
LEMMA Least ==
    ASSUME NEW T, T \subseteq Nat, T # {}
    PROVE  \E x \in T : \A y \in T : x <= y
<1> DEFINE R == {p \in Nat \X Nat : p[1] < p[2]}
<1>1. IsWellFoundedOn(R, Nat)
  BY NatLessThanWellFounded DEF OpToRel
<1>2. \A x \in Nat, y \in Nat : y < x => <<y, x>> \in R
  OBVIOUS
<1> HIDE DEF R
<1>3. PICK x \in T : \A y \in T : ~(<<y, x>> \in R)
  BY <1>1, WFMin
<1>4. ASSUME NEW y \in T PROVE x <= y
  <2>1. x \in Nat /\ y \in Nat
    OBVIOUS
  <2>2. ~(y < x)
    BY <1>2, <1>3, <2>1
  <2>3. QED
    BY <2>1, <2>2
<1>5. QED
  BY <1>4

\* Two branches, if they could be followed to the end, have a common parent.
LEMMA CommonParentExists ==
    ASSUME NEW w, WorldOK(w), NEW a \in w.blocks, NEW b \in w.blocks
    PROVE  \E n \in Nat : IsCommonParent(a, b, n)
<1> DEFINE N == IF Len(a) < Len(b) THEN Len(a) ELSE Len(b)
           Back == {k \in 1 .. N : AncestorAt(a, N - k) = AncestorAt(b, N - k)}
<1>1. /\ a \in Seq(Label) /\ b \in Seq(Label)
      /\ Len(a) \in Nat \ {0} /\ Len(b) \in Nat \ {0} /\ N \in Nat \ {0}
      /\ N <= Len(a) /\ N <= Len(b)
  BY PreviousIsBlock, PathIsSeq DEF Num
<1>2. AncestorAt(a, 0) = <<>> /\ AncestorAt(b, 0) = <<>>
  BY <1>1 DEF AncestorAt
<1> HIDE DEF N
<1>3. N \in Back
  BY <1>1, <1>2
<1>4. Back \subseteq Nat
  BY <1>1
<1>5. PICK x \in Back : \A k \in Back : x <= k
  <2> HIDE DEF Back
  <2>1. QED
    BY <1>3, <1>4, Least
<1>6. /\ x \in 1 .. N /\ N - x \in Nat /\ N - x < Len(a) /\ N - x < Len(b)
      /\ AncestorAt(a, N - x) = AncestorAt(b, N - x)
  BY <1>1, <1>5
<1>7. ASSUME NEW m \in N - x + 1 .. Len(a), m < Len(a), m < Len(b)
      PROVE  AncestorAt(a, m) # AncestorAt(b, m)
  <2>1. m < N /\ m \in Nat
    BY <1>1, <1>6, <1>7 DEF N
  <2>2. N - m \in 1 .. N /\ N - m < x /\ N - (N - m) = m
    BY <1>1, <1>6, <1>7, <2>1
  <2>3. N - m \notin Back
    <3> HIDE DEF Back
    <3>1. \A k \in Back : ~(k < x)
      BY <1>5, <1>6, <1>4
    <3>2. QED
      BY <2>2, <3>1
  <2>4. QED
    BY <2>2, <2>3
<1>8. IsCommonParent(a, b, N - x)
  BY <1>6, <1>7 DEF IsCommonParent
<1>9. QED
  BY <1>6, <1>8

\* A block that becomes the new head, or is applied on the way to it, leaves
\* everything that could take over on the same base.
LEMMA ShareStep ==
    ASSUME WorldOK(world), MajorityWorld, NEW ref \in Block \cup {<<>>},
           NEW applied \in Block, NEW next \in Block,
           Num(ref) <= Num(next), Num(applied) <= Num(next),
           \A c \in Block : Num(c) >= Num(ref) => AncestorAt(c, base) = AncestorAt(ref, base),
           NEW c \in Block, Num(c) >= Num(next)
    PROVE  AncestorAt(c, Max(base, lib[applied])) = AncestorAt(next, Max(base, lib[applied]))
<1>1. /\ Num(ref) \in Nat /\ Num(applied) \in Nat /\ Num(next) \in Nat /\ Num(c) \in Nat
  BY NumIsNat DEF Block
<1>2. AncestorAt(c, base) = AncestorAt(next, base)
  BY <1>1
<1>3. AncestorAt(c, lib[applied]) = AncestorAt(next, lib[applied])
  <2>1. Num(c) >= Num(applied) /\ Num(next) >= Num(applied)
    BY <1>1
  <2>2. QED
    BY <2>1 DEF MajorityWorld
<1>4. QED
  BY <1>2, <1>3 DEF Max

-----------------------------------------------------------------------------
(* What the operations of the fork database do to the branches it knows. *)

TracedIn(f, low) ==
    \A b \in f.index :
        /\ \A n \in 1 .. Num(b) : n >= low => AncestorAt(b, n) \in f.index
        /\ Num(b) > low /\ Num(b) > 1 => b \in f.linked

\* The parent of a block above the base is known.
LEMMA TracedParent ==
    ASSUME WorldOK(world), NEW f \in ForkDb(Block), NEW low \in Nat, TracedIn(f, low),
           NEW b \in f.index, Num(b) > low, Num(b) > 1
    PROVE  Previous(b) \in f.index
<1>1. b \in Block /\ Num(b) \in Nat
  BY PreviousIsBlock DEF ForkDb, Block
<1>2. Previous(b) = AncestorAt(b, Num(b) - 1) /\ Num(b) - 1 \in 1 .. Num(b) /\ Num(b) - 1 >= low
  BY <1>1, OwnAncestor DEF Block
<1>3. QED
  BY <1>2 DEF TracedIn

LEMMA TracedSettled ==
    ASSUME WorldOK(world), NEW f \in ForkDb(Block), NEW low \in Nat, TracedIn(f, low), NEW held
    PROVE  TracedIn(Settled(f, held), low)
<1>1. Settled(f, held).index = f.index
  BY SettledIndex
<1>2. \A b \in f.index : b \in f.linked /\ Previous(b) \in f.index => b \in Settled(f, held).linked
  BY DEF Settled, ForkDb
<1>3. QED
  BY <1>1, <1>2, TracedParent DEF TracedIn

\* Only a first block has no parent.
LEMMA TracedPushed ==
    ASSUME WorldOK(world), fork \in ForkDb(Block), NEW low \in Nat, TracedIn(fork, low),
           NEW b \in Block, Num(b) > 1 => Previous(b) \in fork.index /\ fork.head # <<>>
    PROVE  TracedIn(Pushed(b), low)
<1> DEFINE f == PushBlock(fork, b)
<1>1. /\ f \in ForkDb(Block) /\ f.index = fork.index \cup {b} /\ Num(b) \in Nat \ {0}
      /\ fork.linked \subseteq f.linked
      /\ b \in fork.index \/ (Num(b) > 1 => b \in f.linked)
  <2>1. f \in ForkDb(Block) /\ Num(b) \in Nat \ {0}
    BY PreviousIsBlock, PushBlockTyped DEF Block
  <2>2. /\ f.index = fork.index \cup {b}
        /\ f.linked = IF (fork.head # <<>> /\ Num(b) > 1) /\ b \notin fork.index
                      THEN fork.linked \cup {b} ELSE fork.linked
    BY DEF PushBlock, ForkDb
  <2>3. QED
    BY <2>1, <2>2
<1>2. ASSUME NEW n \in 1 .. Num(b), n >= low PROVE AncestorAt(b, n) \in f.index
  <2>1. CASE n = Num(b)
    BY <1>1, <2>1, OwnAncestor DEF Block
  <2>2. CASE n < Num(b)
    <3>1. /\ Num(b) > 1 /\ Previous(b) \in fork.index
          /\ Num(Previous(b)) = Num(b) - 1 /\ n \in 1 .. Num(b) - 1 /\ n \in 0 .. Num(b) - 1
      BY <1>1, <1>2, <2>2, PreviousIsBlock DEF Block
    <3>2. AncestorAt(Previous(b), n) \in fork.index
      BY <1>2, <3>1 DEF TracedIn
    <3>3. QED
      BY <1>1, <3>1, <3>2, AncestorOfPrevious DEF Block
  <2>3. QED
    BY <1>1, <1>2, <2>1, <2>2
<1>3. TracedIn(f, low)
  BY <1>1, <1>2 DEF TracedIn
<1>4. QED
  BY <1>1, <1>3, TracedSettled DEF Pushed

\* A migration prunes what is below its base.
LEMMA MigratedHead ==
    ASSUME WorldOK(world), NEW f \in ForkDb(Block), NEW b \in Block, f.head = b
    PROVE  /\ Migrated(f, b) \in ForkDb(Block)
           /\ Migrated(f, b).head = b /\ Migrated(f, b).linked = f.linked
           /\ Migrated(f, b).headLinked = f.headLinked
           /\ Migrated(f, b).index \subseteq f.index
           /\ \A c \in f.index : Num(c) >= lib[b] => c \in Migrated(f, b).index
<1> DEFINE s == Num(b) - lib[b] + 1
           sized == [f EXCEPT !.maxSize = s]
<1>1. lib[b] \in Nat /\ lib[b] <= Num(b) /\ Num(b) \in Nat /\ b # <<>>
  BY PreviousIsBlock DEF WorldOK, Block, lib
<1>2. sized.head = b /\ sized.maxSize = s /\ sized.index = f.index
  BY DEF ForkDb
<1>3. Horizon(sized) = IF Num(b) > s THEN Num(b) - s ELSE 0
  BY <1>2 DEF Horizon
<1>4. \A c \in f.index : Num(c) >= lib[b] => Num(c) >= Horizon(sized)
  BY <1>1, <1>3, PreviousIsBlock DEF ForkDb, Block
<1>5. Migrated(f, b) = [sized EXCEPT !.index = {d \in @ : Num(d) >= Horizon(sized)}]
  BY <1>1 DEF Migrated, SetMaxSize
<1>6. Migrated(f, b).index = {d \in f.index : Num(d) >= Horizon(sized)}
  BY <1>2, <1>5 DEF ForkDb
<1>7. /\ Migrated(f, b).head = b /\ Migrated(f, b).linked = f.linked
      /\ Migrated(f, b).headLinked = f.headLinked
  BY <1>5 DEF ForkDb
<1> HIDE DEF sized
<1>8. QED
  BY <1>4, <1>6, <1>7, MigratedTyped

LEMMA TracedMigrated ==
    ASSUME WorldOK(world), NEW f \in ForkDb(Block), NEW b \in Block, f.head = b,
           NEW low \in Nat, TracedIn(f, low), NEW high \in Nat, low <= high, lib[b] <= high
    PROVE  TracedIn(Migrated(f, b), high)
<1> DEFINE g == Migrated(f, b)
<1>1. /\ g.linked = f.linked /\ g.index \subseteq f.index
      /\ \A c \in f.index : Num(c) >= lib[b] => c \in g.index
  BY MigratedHead
<1>2. lib[b] \in Nat
  BY DEF WorldOK, Block, lib
<1> HIDE DEF g
<1>3. ASSUME NEW d \in g.index, NEW n \in 1 .. Num(d), n >= high
      PROVE  AncestorAt(d, n) \in g.index
  <2>1. d \in Block /\ n \in Nat /\ n >= low
    BY <1>1, <1>3, PreviousIsBlock DEF ForkDb, Block
  <2>2. AncestorAt(d, n) \in f.index /\ Num(AncestorAt(d, n)) = n
    BY <1>1, <1>3, <2>1, AncestorIsBlock DEF TracedIn, Block
  <2>3. QED
    BY <1>1, <1>2, <1>3, <2>1, <2>2
<1>4. ASSUME NEW d \in g.index, Num(d) > high, Num(d) > 1 PROVE d \in g.linked
  <2>1. d \in Block /\ Num(d) \in Nat
    BY <1>1, <1>4, PreviousIsBlock DEF ForkDb, Block
  <2>2. QED
    BY <1>1, <1>4, <2>1 DEF TracedIn
<1>5. QED
  BY <1>3, <1>4 DEF TracedIn, g

\* The next block goes through: its migration finds what it has to write.
LEMMA GoesThrough ==
    ASSUME WorldOK(world), AllValid, log \in Seq(Block), NEW f \in ForkDb(Block),
           NEW b \in Block, f.head = b, b \in f.index, Previous(b) = head,
           TracedIn(f, Len(log)), Num(b) > Len(log) /\ Num(b) > 1 => f.headLinked
    PROVE  Applies(f, b) /\ b \notin world.broken
<1>1. /\ Num(b) \in Nat /\ lib[b] \in Nat /\ lib[b] <= Num(b) /\ Len(log) \in Nat
      /\ b \notin world.invalid /\ b \notin world.broken /\ <<>> \notin Block
  <2>1. Num(b) \in Nat
    BY PreviousIsBlock DEF Block
  <2>2. lib[b] \in Nat /\ lib[b] <= Num(b)
    BY DEF WorldOK, Block, lib
  <2>3. QED
    BY <2>1, <2>2 DEF WorldOK, Block, AllValid
<1>2. ASSUME NEW n \in Len(log) + 1 .. lib[b] PROVE MainBranchBlock(f, n) # <<>>
  <2> DEFINE candidates == {c \in f.index : Num(c) = n}
  <2>1. n \in 1 .. Num(b) /\ n \in Nat /\ n > Len(log)
    BY <1>1
  <2>2. AncestorAt(b, n) \in candidates /\ AncestorAt(b, n) # <<>>
    BY <1>1, <2>1, AncestorIsBlock DEF TracedIn, Block
  <2>3. ASSUME NEW m \in n + 1 .. Num(b)
        PROVE  IF m = Num(b) THEN f.headLinked ELSE IsLinked(f, {}, AncestorAt(b, m))
    <3>1. m \in 1 .. Num(b) /\ m > Len(log) /\ m > 1
      BY <1>1, <2>1
    <3>2. AncestorAt(b, m) \in f.index /\ Num(AncestorAt(b, m)) = m
      BY <3>1, AncestorIsBlock DEF TracedIn, Block
    <3>3. AncestorAt(b, m) \in f.linked
      BY <3>1, <3>2 DEF TracedIn
    <3>4. QED
      BY <1>1, <3>1, <3>2, <3>3 DEF IsLinked
  <2>4. (CHOOSE c \in candidates : TRUE) \in Block
    BY <2>2 DEF ForkDb
  <2>5. \/ MainBranchBlock(f, n) = CHOOSE c \in candidates : TRUE
        \/ MainBranchBlock(f, n) = AncestorAt(b, n)
    <3>1. n <= Num(f.head)
      BY <1>1, <2>1
    <3>2. candidates # {}
      BY <2>2
    <3>3. QED
      BY <2>3, <3>1, <3>2 DEF MainBranchBlock
  <2> HIDE DEF candidates
  <2>6. QED
    BY <1>1, <2>2, <2>4, <2>5
<1>3. \A i \in DOMAIN LogPart(f, b) : LogPart(f, b)[i] # <<>>
  <2>1. DOMAIN LogPart(f, b) = 1 .. (IF lib[b] > Len(log) THEN lib[b] - Len(log) ELSE 0)
    BY DEF LogPart
  <2>2. \A i \in DOMAIN LogPart(f, b) : LogPart(f, b)[i] = MainBranchBlock(f, Len(log) + i)
    BY DEF LogPart
  <2>3. \A i \in DOMAIN LogPart(f, b) : Len(log) + i \in Len(log) + 1 .. lib[b]
    BY <1>1, <2>1
  <2>4. QED
    BY <1>2, <2>2, <2>3
<1>4. QED
  BY <1>1, <1>3 DEF Applies, BlockApplies, CanMigrate

-----------------------------------------------------------------------------
(* Every step keeps the choice. *)

LEMMA TracedIsIn == Traced <=> TracedIn(fork, base)
BY DEF Traced, TracedIn

\* What the state of a running node gives every step.
ChoiceNow ==
    /\ TypeOK /\ WorldOK(world) /\ fork \in ForkDb(Block)
    /\ head \in Block \cup {<<>>} /\ Num(head) \in Nat /\ log \in Seq(Block)
    /\ base = Len(log) /\ base \in Nat /\ base <= Num(head)
    /\ MajorityWorld /\ Choice /\ TracedIn(fork, base)

LEMMA ChoiceFacts ==
    ASSUME ChainInv, MajorityWorld, Choice
    PROVE  ChoiceNow
<1>1. TypeOK /\ UndoReachesLog /\ Running
  BY DEF ChainInv, Choice, Running
<1>2. WorldOK(world) /\ head \in Block \cup {<<>>} /\ log \in Seq(Block) /\ fork \in ForkDb(Block)
  BY <1>1 DEF TypeOK
<1>3. Num(head) \in Nat /\ base = Len(log) /\ base \in Nat /\ base <= Num(head)
  BY <1>1, <1>2, NumIsNat DEF UndoReachesLog, Block
<1>4. QED
  BY <1>1, <1>2, <1>3, TracedIsIn DEF ChoiceNow, Choice

\* The next block of the chain is applied, as the head of the fork database.
LEMMA AppliedNow ==
    ASSUME ChoiceNow, UNCHANGED world, NEW f \in ForkDb(Block), NEW b \in Block,
           f.head = b, b \in f.index, Previous(b) = head, TracedIn(f, base),
           Num(b) > 1 => f.headLinked
    PROVE  /\ Applies(f, b) /\ b \notin world.broken /\ Num(b) = Num(head) + 1
           /\ Max(base, lib[b]) \in Nat /\ Max(base, lib[b]) <= Num(b)
           /\ Migrated(f, b) \in ForkDb(Block) /\ Migrated(f, b).head = b
           /\ Migrated(f, b).index \subseteq f.index
           /\ \A c \in f.index : Num(c) >= Num(b) => c \in Migrated(f, b).index
           /\ TracedIn(Migrated(f, b), Max(base, lib[b]))
<1>1. /\ WorldOK(world) /\ log \in Seq(Block) /\ base = Len(log) /\ base \in Nat
      /\ base <= Num(head) /\ AllValid /\ Num(head) \in Nat
  BY DEF ChoiceNow, MajorityWorld
<1>2. /\ Num(b) \in Nat /\ Num(b) = Num(head) + 1
      /\ lib[b] \in Nat /\ lib[b] <= Num(b)
  <2>1. Num(b) \in Nat /\ Num(b) = Num(head) + 1
    BY <1>1, PreviousIsBlock DEF Block
  <2>2. lib[b] \in Nat /\ lib[b] <= Num(b)
    BY <1>1 DEF WorldOK, Block, lib
  <2>3. QED
    BY <2>1, <2>2
<1>3. Applies(f, b) /\ b \notin world.broken
  BY <1>1, GoesThrough
<1>4. /\ Max(base, lib[b]) \in Nat /\ Max(base, lib[b]) <= Num(b)
      /\ base <= Max(base, lib[b]) /\ lib[b] <= Max(base, lib[b])
  BY <1>1, <1>2 DEF Max
<1>5. TracedIn(Migrated(f, b), Max(base, lib[b]))
  BY <1>1, <1>4, TracedMigrated
<1>6. /\ Migrated(f, b) \in ForkDb(Block) /\ Migrated(f, b).head = b
      /\ Migrated(f, b).index \subseteq f.index
      /\ \A c \in f.index : Num(c) >= lib[b] => c \in Migrated(f, b).index
  BY <1>1, MigratedHead
<1>7. \A c \in f.index : Num(c) >= Num(b) => Num(c) >= lib[b]
  BY <1>1, <1>2, PreviousIsBlock DEF ForkDb, Block
<1>8. QED
  BY <1>2, <1>3, <1>4, <1>5, <1>6, <1>7

\* apply_block() ends well, and the switch or the push with it.
LEMMA ChoiceDone ==
    ASSUME ChoiceNow, UNCHANGED world, NEW g \in ForkDb(Block), Done(g),
           g.head = head', head' \in g.index \/ head' = <<>>, base' \in Nat, TracedIn(g, base'),
           base' <= Num(head'), \A c \in g.index : Num(c) <= Num(head'),
           \A c \in Block : Num(c) >= Num(head') => AncestorAt(c, base') = AncestorAt(head', base')
    PROVE  Choice'
<1>1. /\ fork' = Settled(g, {}) /\ pc' = "idle" /\ fork'.index = g.index /\ fork'.head = g.head
      /\ WorldOK(world) /\ Block' = Block
  BY SettledIndex DEF Done, ChoiceNow, Block
<1>2. TracedIn(fork', base')
  BY <1>1, TracedSettled
<1>3. Traced'
  BY <1>2 DEF Traced, TracedIn
<1>4. HeadBefore' = head'
  BY <1>1 DEF HeadBefore
<1>5. BaseIsShared'
  BY <1>1, <1>4 DEF BaseIsShared
<1>6. IdleChoice' /\ PopChoice' /\ SwitchChoice'
  BY <1>1 DEF IdleChoice, PopChoice, SwitchChoice
<1>7. QED
  BY <1>1, <1>3, <1>4, <1>5, <1>6 DEF Choice

\* The branches of a block that is one higher than the head lead to a common
\* parent that is not below the base.
LEMMA BranchesMeet ==
    ASSUME ChoiceNow, pc = "idle", NEW f \in ForkDb(Block), NEW b \in Block, b \in f.index,
           head \in f.index, TracedIn(f, base), Num(b) = Num(head) + 1, Previous(b) # head,
           NEW n \in Nat, IsCommonParent(b, head, n)
    PROVE  n >= base /\ n < Num(head) /\ BranchesFetched(f, b, head, n)
<1>1. /\ WorldOK(world) /\ head \in Block /\ base \in Nat /\ base <= Num(head) /\ Num(head) \in Nat
      /\ Num(b) \in Nat /\ Len(b) = Num(b) /\ Len(head) = Num(head)
  BY DEF ChoiceNow, ForkDb, Num
<1>2. AncestorAt(b, base) = AncestorAt(head, base)
  BY <1>1 DEF ChoiceNow, Choice, BaseIsShared, HeadBefore
<1>3. base < Num(head)
  <2>1. base = Num(head) => AncestorAt(b, base) = Previous(b) /\ AncestorAt(head, base) = head
    BY <1>1, OwnAncestor DEF Block
  <2>2. QED
    BY <1>1, <1>2, <2>1
<1>4. n >= base /\ n < Num(head)
  <2>1. n < Num(head) /\ (n < base => AncestorAt(b, base) # AncestorAt(head, base))
    BY <1>1, <1>3 DEF IsCommonParent
  <2>2. QED
    BY <1>1, <1>2, <2>1
<1>5. ASSUME NEW a \in {b, head}, NEW c \in BranchOf(a, n + 1)
      PROVE  IsLinked(f, {}, c)
  <2>1. a \in Block /\ a \in f.index /\ Num(a) = Len(a) /\ Num(a) \in Nat
    BY <1>1
  <2>2. PICK m \in n + 1 + 1 .. Len(a) : c = AncestorAt(a, m)
    BY DEF BranchOf
  <2>3. m \in 1 .. Num(a) /\ m > base /\ m > 1 /\ m >= base
    BY <1>1, <1>4, <2>1, <2>2
  <2>4. c \in f.index /\ Num(c) = m
    BY <1>1, <2>1, <2>2, <2>3, AncestorIsBlock DEF TracedIn, Block
  <2>5. c \in f.linked
    BY <2>3, <2>4 DEF TracedIn
  <2>6. QED
    BY <2>4, <2>5 DEF IsLinked
<1>6. QED
  BY <1>4, <1>5 DEF BranchesFetched

\* Pushing a block, known or not.
LEMMA ChoicePush ==
    ASSUME ChainInv, MajorityWorld, Choice, NEW b \in Block, push_block(b)
    PROVE  Choice'
<1> DEFINE f == Pushed(b)
<1>1. /\ ChoiceNow /\ pc = "idle" /\ UNCHANGED <<world, disk>> /\ Delivered(b)
      /\ ~world.early
  BY ChoiceFacts DEF push_block, PushOnHead, PushOnShorterFork, PushOnBrokenBranch,
     PushOnLongerFork, Delivered, MajorityWorld
<1>2. /\ WorldOK(world) /\ fork \in ForkDb(Block) /\ head \in Block \cup {<<>>}
      /\ Num(head) \in Nat /\ base \in Nat /\ base <= Num(head) /\ TracedIn(fork, base)
  BY <1>1 DEF ChoiceNow
<1>3. /\ fork.head = head /\ (head # <<>> => head \in fork.index)
      /\ \A c \in fork.index : Num(c) <= Num(head)
  BY <1>1 DEF Choice, IdleChoice
<1>4. \A c \in Block : Num(c) >= Num(head) => AncestorAt(c, base) = AncestorAt(head, base)
  BY <1>1 DEF Choice, BaseIsShared, HeadBefore
<1>5. /\ Num(b) \in Nat \ {0} /\ Num(Previous(b)) = Num(b) - 1
      /\ Previous(b) \in Block \cup {<<>>}
  BY <1>2, PreviousIsBlock DEF Block
<1>6. /\ Num(b) > 1 => Previous(b) \in fork.index /\ fork.head # <<>>
      /\ Num(b) <= Num(head) + 1
  <2>1. Num(b) = 1 \/ Previous(b) \in fork.index
    BY <1>1 DEF Delivered
  <2>2. Previous(b) \in fork.index => Num(Previous(b)) <= Num(head)
    BY <1>3
  <2>3. Num(<<>>) = 0
    BY DEF Num
  <2>4. QED
    BY <1>2, <1>3, <1>5, <2>1, <2>2, <2>3
<1>7. /\ f \in ForkDb(Block) /\ f.index = fork.index \cup {b} /\ TracedIn(f, base)
      /\ f.head = IF Num(b) > Num(head) THEN b ELSE head
      /\ Num(b) > Num(head) /\ Num(b) > 1 => f.headLinked
  <2>1. PushBlock(fork, b) \in ForkDb(Block)
    BY <1>2, PushBlockTyped
  <2>2. f \in ForkDb(Block)
    BY <2>1, SettledTyped DEF Pushed
  <2>3. TracedIn(f, base)
    BY <1>2, <1>6, TracedPushed
  <2>4. head = <<>> => Num(b) > Num(head)
    BY <1>5 DEF Num
  <2>5. /\ PushBlock(fork, b).index = fork.index \cup {b}
        /\ PushBlock(fork, b).head = IF Num(b) > Num(head) THEN b ELSE head
        /\ Num(b) > Num(head) =>
             PushBlock(fork, b).headLinked = (fork.head # <<>> /\ Num(b) > 1)
    BY <1>2, <1>3, <2>4 DEF PushBlock, ForkDb
  <2>6. /\ f.index = fork.index \cup {b} /\ f.head = IF Num(b) > Num(head) THEN b ELSE head
        /\ Num(b) > Num(head) /\ Num(b) > 1 => f.headLinked
    BY <1>6, <2>1, <2>5 DEF Pushed, Settled, ForkDb
  <2>7. QED
    BY <2>2, <2>3, <2>6
<1>8. CASE PushOnHead(b)
  <2>1. /\ (ApplyOk(f, b) /\ Done(Migrated(f, b))) \/ ~Applies(f, b) \/ b \in world.broken
        /\ Previous(f.head) = head
    BY <1>8 DEF PushOnHead, ApplyThrows, ApplyThrowsLate, f
  <2> HIDE DEF f
  <2>2. f.head = b /\ Previous(b) = head /\ Num(b) > Num(head)
    <3>1. head \in Block => Previous(head) # head
      BY <1>2, PreviousIsBlock DEF Block
    <3>2. head = <<>> => Num(b) > Num(head)
      BY <1>5 DEF Num
    <3>3. QED
      BY <1>2, <1>7, <2>1, <3>1, <3>2
  <2> DEFINE k == Max(base, lib[b])
             g == Migrated(f, b)
  <2>3. /\ Applies(f, b) /\ b \notin world.broken
        /\ Num(b) = Num(head) + 1 /\ k \in Nat /\ k <= Num(b)
        /\ g \in ForkDb(Block) /\ g.head = b /\ g.index \subseteq f.index
        /\ \A c \in f.index : Num(c) >= Num(b) => c \in g.index
        /\ TracedIn(g, k)
    BY <1>1, <1>7, <2>2, AppliedNow
  <2>4. head' = b /\ base' = k /\ Done(g)
    BY <2>1, <2>3 DEF ApplyOk, Migrate
  <2>5. \A c \in Block : Num(c) >= Num(b) => AncestorAt(c, k) = AncestorAt(b, k)
    BY <1>2, <1>4, <1>5, <2>2, ShareStep
  <2> HIDE DEF k, g
  <2>6. b \in g.index /\ \A c \in g.index : Num(c) <= Num(b)
    BY <1>2, <1>3, <1>5, <1>7, <2>3, PreviousIsBlock DEF ForkDb, Block
  <2>7. QED
    BY <1>1, <2>3, <2>4, <2>5, <2>6, ChoiceDone
<1>9. CASE PushOnShorterFork(b)
  <2>1. Done(f) /\ UNCHANGED <<head, base, log>> /\ Num(f.head) <= Num(head)
    BY <1>9 DEF PushOnShorterFork, f
  <2> HIDE DEF f
  <2>2. f.head = head /\ Num(b) <= Num(head)
    BY <1>2, <1>5, <1>7, <2>1
  <2>3. (head \in f.index \/ head = <<>>) /\ \A c \in f.index : Num(c) <= Num(head)
    BY <1>3, <1>7, <2>2
  <2>4. QED
    BY <1>1, <1>2, <1>4, <1>7, <2>1, <2>2, <2>3, ChoiceDone
<1>10. ASSUME Previous(f.head) # head, Num(f.head) > Num(head)
       PROVE  /\ f.head = b /\ Num(b) = Num(head) + 1 /\ head \in Block /\ head \in f.index
              /\ Num(b) > 1 /\ f.headLinked
  <2> HIDE DEF f
  <2>1. f.head = b /\ Num(b) = Num(head) + 1
    BY <1>2, <1>5, <1>6, <1>7, <1>10
  <2>2. head # <<>>
    <3>1. Num(<<>>) = 0 /\ (head = <<>> => Num(Previous(b)) = 0 /\ ~(Num(Previous(b)) > 0))
      BY <1>5, <2>1 DEF Num
    <3>2. Previous(b) \in Block => Num(Previous(b)) > 0
      BY <1>2, PreviousIsBlock DEF Block
    <3>3. QED
      BY <1>5, <1>10, <2>1, <3>1, <3>2
  <2>3. Num(b) > 1
    BY <1>2, <2>1, <2>2, PreviousIsBlock DEF Block
  <2>4. QED
    BY <1>2, <1>3, <1>5, <1>7, <2>1, <2>2, <2>3
<1>11. CASE PushOnBrokenBranch(b)
  <2>1. /\ Previous(f.head) # head /\ Num(f.head) > Num(head)
        /\ ~\E n \in 0 .. Num(head) : BranchesFetched(f, f.head, head, n)
    BY <1>11 DEF PushOnBrokenBranch, f
  <2> HIDE DEF f
  <2>2. /\ f.head = b /\ Num(b) = Num(head) + 1 /\ head \in Block /\ head \in f.index
        /\ b \in f.index
    BY <1>7, <1>10, <2>1
  <2>3. PICK n \in Nat : IsCommonParent(b, head, n)
    BY <1>2, <2>2, CommonParentExists DEF Block
  <2>4. n < Num(head) /\ BranchesFetched(f, b, head, n)
    BY <1>1, <1>7, <2>1, <2>2, <2>3, BranchesMeet
  <2>5. n \in 0 .. Num(head)
    BY <1>2, <2>4
  <2>6. QED
    BY <2>1, <2>2, <2>4, <2>5
<1>12. CASE PushOnLongerFork(b)
  <2>1. /\ Previous(f.head) # head /\ Num(f.head) > Num(head)
        /\ fork' = f /\ pc' = "pop" /\ UNCHANGED <<head, base, log>>
    BY <1>12 DEF PushOnLongerFork, f
  <2>2. PICK n \in 0 .. Num(head) :
           /\ BranchesFetched(f, f.head, head, n)
           /\ sw' = [new |-> f.head, old |-> head, parent |-> n]
    BY <1>12 DEF PushOnLongerFork, f
  <2> HIDE DEF f
  <2>3. /\ f.head = b /\ Num(b) = Num(head) + 1 /\ head \in Block /\ head \in f.index
        /\ b \in f.index /\ Num(b) > 1 /\ f.headLinked
    BY <1>7, <1>10, <2>1
  <2>4. /\ sw'.new = b /\ sw'.old = head /\ sw'.parent = n /\ n \in Nat
        /\ IsCommonParent(b, head, n)
    BY <2>2, <2>3 DEF BranchesFetched
  <2>5. n >= base /\ n < Num(head)
    BY <1>1, <1>7, <2>1, <2>3, <2>4, BranchesMeet
  <2>6. AncestorAt(b, Num(head) + 1) = b /\ AncestorAt(head, Num(head)) = head
    BY <1>2, <2>3, OwnAncestor DEF Block
  <2>7. PopChoice'
    BY <1>2, <2>1, <2>3, <2>4, <2>5, <2>6 DEF PopChoice
  <2>8. SwitchChoice'
    <3>1. \A c \in f.index : Num(c) <= Num(b)
      <4>1. \A c \in fork.index : Num(c) \in Nat
        BY <1>2, PreviousIsBlock DEF ForkDb, Block
      <4>2. QED
        BY <1>2, <1>3, <1>5, <1>7, <2>3, <4>1
    <3>2. QED
      BY <2>1, <2>3, <2>4, <3>1 DEF SwitchChoice
  <2>9. BaseIsShared' /\ base' <= Num(HeadBefore')
    <3>1. HeadBefore' = head /\ Block' = Block
      BY <1>1, <2>1, <2>4 DEF HeadBefore, Block
    <3>2. QED
      BY <1>2, <1>4, <2>1, <3>1 DEF BaseIsShared
  <2>10. Traced'
    BY <1>7, <2>1 DEF Traced, TracedIn
  <2>11. QED
    BY <2>1, <2>7, <2>8, <2>9, <2>10 DEF Choice, IdleChoice
<1>13. QED
  BY <1>8, <1>9, <1>11, <1>12 DEF push_block

\* A pop goes through: the branches are linked down to the common parent.
LEMMA ChoicePop ==
    ASSUME ChainInv, MajorityWorld, Choice, pop_block
    PROVE  Choice'
<1>1. /\ ChoiceNow /\ pc = "pop" /\ UNCHANGED <<world, base, log>> /\ ~AtCommonParent
  BY ChoiceFacts DEF pop_block, Choice
<1>2. /\ WorldOK(world) /\ fork \in ForkDb(Block) /\ Num(head) \in Nat /\ base \in Nat
      /\ TracedIn(fork, base) /\ TypeOK
  BY <1>1 DEF ChoiceNow
<1>3. /\ sw.old \in fork.index /\ IsCommonParent(sw.new, sw.old, sw.parent)
      /\ sw.parent >= base
      /\ Num(head) \in sw.parent .. Num(sw.old) /\ head = AncestorAt(sw.old, Num(head))
      /\ fork.head = AncestorAt(sw.new, Num(head) + 1)
      /\ Num(head) > sw.parent => fork.headLinked
  BY <1>1 DEF Choice, PopChoice
<1>4. /\ sw.new \in fork.index /\ Num(sw.new) = Num(sw.old) + 1
      /\ \A c \in fork.index : Num(c) <= Num(sw.new)
  BY <1>1 DEF Choice, SwitchChoice
<1>5. /\ sw.old \in Block /\ sw.new \in Block /\ sw.parent \in Nat
      /\ Num(sw.old) \in Nat /\ Num(sw.new) \in Nat
  BY <1>2, <1>3, <1>4, PreviousIsBlock DEF TypeOK, ForkDb, Block
<1>6. Num(head) > sw.parent /\ Num(head) > base /\ Num(head) \in 1 .. Num(sw.old)
      /\ Num(head) # sw.parent
  BY <1>1, <1>2, <1>3, <1>5 DEF AtCommonParent
<1>7. head \in fork.index /\ head \in Block
  <2>1. AncestorAt(sw.old, Num(head)) \in fork.index
    BY <1>2, <1>3, <1>6 DEF TracedIn
  <2>2. QED
    BY <1>2, <1>3, <2>1 DEF ForkDb
<1>8. fork.head \in Block /\ Num(fork.head) = Num(head) + 1
  <2>1. Num(head) + 1 \in 1 .. Num(sw.new)
    BY <1>4, <1>5, <1>6
  <2>2. QED
    BY <1>2, <1>3, <1>5, <2>1, AncestorIsBlock DEF Block
<1>9. HeadIsFound /\ CanPop(fork)
  <2>1. fork.head # <<>>
    BY <1>2, <1>8 DEF WorldOK, Block
  <2>2. QED
    BY <1>3, <1>6, <1>7, <2>1 DEF HeadIsFound, CanPop
<1> DEFINE p == Previous(fork.head)
           f == PopBlock(fork, Held)
<1>10. /\ fork' = Settled(f, Held) /\ head' = Previous(head) /\ UNCHANGED <<pc, sw>>
  BY <1>1, <1>6, <1>9 DEF pop_block
<1>11. head' = AncestorAt(sw.old, Num(head) - 1) /\ Num(head') = Num(head) - 1
  <2>1. Previous(AncestorAt(sw.old, Num(head))) = AncestorAt(sw.old, Num(head) - 1)
    BY <1>2, <1>5, <1>6, PreviousOfAncestor DEF Block
  <2>2. Num(Previous(head)) = Num(head) - 1
    BY <1>2, <1>7, PreviousIsBlock DEF Block
  <2>3. QED
    BY <1>3, <1>10, <2>1, <2>2
<1>12. /\ p = AncestorAt(sw.new, Num(head)) /\ p \in fork.index /\ p \in Block
       /\ Num(p) = Num(head)
  <2>1. Num(head) + 1 \in 1 .. Num(sw.new) /\ (Num(head) + 1) - 1 = Num(head)
        /\ Num(head) \in 1 .. Num(sw.new)
    BY <1>4, <1>5, <1>6
  <2>2. p = AncestorAt(sw.new, Num(head))
    BY <1>2, <1>3, <1>5, <2>1, PreviousOfAncestor DEF Block
  <2>3. p \in fork.index
    BY <1>2, <1>4, <1>6, <2>1, <2>2 DEF TracedIn
  <2>4. Num(p) = Num(head)
    BY <1>2, <1>5, <2>1, <2>2, AncestorIsBlock DEF Block
  <2>5. QED
    BY <1>2, <2>2, <2>3, <2>4 DEF ForkDb
<1> HIDE DEF p
<1>13. /\ f \in ForkDb(Block) /\ f.index = fork.index /\ f.linked = fork.linked /\ f.head = p
       /\ f.headLinked = IsLinked(fork, Held, p)
  BY <1>2, <1>12, SetHeadTyped, SetHeadIndex DEF PopBlock, p
<1> HIDE DEF f
<1>14. fork'.index = fork.index /\ fork'.head = p /\ TracedIn(fork', base)
  <2>1. TracedIn(f, base)
    BY <1>2, <1>13 DEF TracedIn
  <2>2. QED
    BY <1>2, <1>10, <1>13, <2>1, SettledIndex, TracedSettled
<1>15. ASSUME Num(head') > sw.parent PROVE fork'.headLinked
  <2>1. Num(p) > base /\ Num(p) > 1
    BY <1>2, <1>3, <1>5, <1>11, <1>12, <1>15
  <2>2. p \in fork.linked
    BY <1>2, <1>12, <2>1 DEF TracedIn
  <2>3. f.headLinked
    BY <1>12, <1>13, <2>2 DEF IsLinked
  <2>4. Previous(p) \in fork.index
    BY <1>2, <1>12, <2>1, TracedParent
  <2>5. QED
    BY <1>10, <1>13, <2>3, <2>4 DEF Settled, ForkDb
<1>16. PopChoice'
  <2>1. Num(head') \in sw.parent .. Num(sw.old)
    BY <1>5, <1>6, <1>11
  <2>2. Num(head') + 1 = Num(head)
    BY <1>2, <1>11
  <2>3. QED
    BY <1>1, <1>3, <1>10, <1>11, <1>12, <1>14, <1>15, <2>1, <2>2 DEF PopChoice
<1>17. SwitchChoice' /\ IdleChoice'
  BY <1>1, <1>4, <1>10, <1>14 DEF SwitchChoice, IdleChoice
<1>18. BaseIsShared' /\ base' <= Num(HeadBefore')
  <2>1. HeadBefore' = sw.old /\ HeadBefore = sw.old /\ Block' = Block
    BY <1>1, <1>10 DEF HeadBefore, Block
  <2>2. QED
    BY <1>1, <2>1 DEF ChoiceNow, Choice, BaseIsShared
<1>19. QED
  BY <1>1, <1>10, <1>14, <1>16, <1>17, <1>18 DEF Choice, Traced, TracedIn

\* The next block of the new branch goes through.
LEMMA ChoiceApply ==
    ASSUME ChainInv, MajorityWorld, Choice, SwitchApply
    PROVE  Choice'
<1> DEFINE b == AncestorAt(sw.new, Num(head) + 1)
           f == SetHead(fork, Held, b)
           k == Max(base, lib[b])
           g == Migrated(f, b)
<1>1. /\ ChoiceNow /\ TypeOK /\ pc \in {"pop", "apply"} /\ UNCHANGED <<world, disk>>
      /\ pc = "pop" => AtCommonParent
  BY ChoiceFacts DEF SwitchApply, ChainInv
<1>2. /\ WorldOK(world) /\ fork \in ForkDb(Block) /\ Num(head) \in Nat /\ base \in Nat
      /\ base <= Num(head) /\ TracedIn(fork, base)
  BY <1>1 DEF ChoiceNow
<1>3. /\ sw.new \in fork.index /\ Num(sw.new) = Num(sw.old) + 1
      /\ \A c \in fork.index : Num(c) <= Num(sw.new)
      /\ pc = "apply" => head = AncestorAt(sw.new, Num(head))
  BY <1>1 DEF Choice, SwitchChoice
<1>4. /\ sw.old \in Block /\ sw.new \in Block /\ sw.parent \in Nat
      /\ Num(sw.old) \in Nat /\ Num(sw.new) \in Nat
      /\ sw.parent < Num(sw.new) /\ sw.parent < Num(sw.old)
      /\ pc = "apply" => Num(head) < Num(sw.new)
  <2>1. /\ sw.old \in Block /\ sw.new \in Block /\ sw.parent \in Nat
        /\ sw.parent < Num(sw.new) /\ sw.parent < Num(sw.old)
        /\ pc = "apply" => Num(head) < Num(sw.new)
    BY <1>1 DEF ChainInv, TypeOK, SwitchOK, Switching
  <2>2. QED
    BY <1>2, <2>1, PreviousIsBlock DEF Block
<1>5. head = AncestorAt(sw.new, Num(head)) /\ Num(head) < Num(sw.new)
  <2>1. CASE pc = "pop"
    <3>1. AncestorAt(sw.new, sw.parent) = AncestorAt(sw.old, sw.parent)
      BY <1>1, <2>1 DEF Choice, PopChoice, IsCommonParent
    <3>2. Num(head) = sw.parent
      BY <1>1, <1>4, <2>1, AtParent
    <3>3. QED
      BY <1>1, <1>4, <2>1, <3>1, <3>2 DEF AtCommonParent
  <2>2. QED
    BY <1>1, <1>3, <1>4, <2>1
<1>6. /\ b \in Block /\ Num(b) = Num(head) + 1 /\ Previous(b) = head
      /\ b # sw.new => Num(b) < Num(sw.new)
  <2>1. /\ b \in Block /\ Num(b) = Num(head) + 1
        /\ b # sw.new => Num(b) < Num(sw.new)
    BY <1>1, <1>4, <1>5, NextOfBranch
  <2>2. Num(head) + 1 \in 1 .. Num(sw.new) /\ (Num(head) + 1) - 1 = Num(head)
    BY <1>2, <1>4, <1>5
  <2>3. Previous(b) = head
    BY <1>2, <1>4, <1>5, <2>2, PreviousOfAncestor DEF Block
  <2>4. QED
    BY <2>1, <2>3
<1>7. b \in fork.index
  <2>1. Num(head) + 1 \in 1 .. Num(sw.new) /\ Num(head) + 1 >= base
    BY <1>2, <1>4, <1>5
  <2>2. QED
    BY <1>2, <1>3, <2>1 DEF TracedIn
<1> HIDE DEF b
<1>8. /\ f \in ForkDb(Block) /\ f.index = fork.index /\ f.linked = fork.linked /\ f.head = b
      /\ f.headLinked = IsLinked(fork, Held, b)
  BY <1>2, <1>6, SetHeadTyped, SetHeadIndex
<1> HIDE DEF f
<1>9. TracedIn(f, base)
  BY <1>2, <1>8 DEF TracedIn
<1>10. Num(b) > 1 => f.headLinked
  <2>1. Num(b) > base
    BY <1>2, <1>6
  <2>2. Num(b) > 1 => b \in fork.linked
    BY <1>2, <1>7, <2>1 DEF TracedIn
  <2>3. QED
    BY <1>7, <1>8, <2>2 DEF IsLinked
<1>11. /\ Applies(f, b) /\ b \notin world.broken
       /\ k \in Nat /\ k <= Num(b)
       /\ g \in ForkDb(Block) /\ g.head = b /\ g.index \subseteq f.index
       /\ \A c \in f.index : Num(c) >= Num(b) => c \in g.index
       /\ TracedIn(g, k)
  BY <1>1, <1>6, <1>7, <1>8, <1>9, <1>10, AppliedNow
<1>12. /\ head' = b /\ base' = k
       /\ \/ b = sw.new /\ Done(g)
          \/ /\ b # sw.new
             /\ fork' = Settled(g, Held) /\ pc' = "apply" /\ UNCHANGED sw
  BY <1>11 DEF SwitchApply, ApplyOk, ApplyThrows, ApplyThrowsLate, Migrate, b, f
<1>13. /\ HeadBefore = sw.old /\ base <= Num(sw.old)
       /\ \A c \in Block : Num(c) >= Num(sw.old) => AncestorAt(c, base) = AncestorAt(sw.old, base)
  BY <1>1 DEF Choice, BaseIsShared, HeadBefore
<1>14. \A c \in g.index : c \in Block /\ Num(c) <= Num(sw.new)
  BY <1>3, <1>8, <1>11 DEF ForkDb
<1>15. sw.new \in g.index
  <2>1. Num(sw.new) >= Num(b)
    BY <1>2, <1>4, <1>5, <1>6
  <2>2. QED
    BY <1>3, <1>8, <1>11, <2>1
<1> HIDE DEF g
<1>16. CASE b = sw.new /\ Done(g)
  <2>1. \A c \in Block : Num(c) >= Num(b) => AncestorAt(c, k) = AncestorAt(b, k)
    <3>1. Num(sw.old) <= Num(b) /\ Num(b) <= Num(b)
      BY <1>3, <1>4, <1>16
    <3>2. QED
      BY <1>2, <1>4, <1>6, <1>13, <3>1, ShareStep
  <2> HIDE DEF k
  <2>2. QED
    BY <1>1, <1>11, <1>12, <1>14, <1>15, <1>16, <2>1, ChoiceDone
<1>17. CASE /\ b # sw.new
            /\ fork' = Settled(g, Held) /\ pc' = "apply" /\ UNCHANGED sw
  <2>1. Num(b) <= Num(sw.old)
    BY <1>2, <1>3, <1>4, <1>6, <1>17
  <2>2. \A c \in Block : Num(c) >= Num(sw.old) => AncestorAt(c, k) = AncestorAt(sw.old, k)
    <3>1. Num(sw.old) <= Num(sw.old)
      BY <1>4
    <3>2. QED
      BY <1>2, <1>4, <1>6, <1>13, <2>1, <3>1, ShareStep
  <2> HIDE DEF k
  <2>3. HeadBefore' = sw.old /\ Block' = Block
    BY <1>1, <1>17 DEF HeadBefore, Block
  <2>4. BaseIsShared' /\ base' <= Num(HeadBefore')
    BY <1>2, <1>4, <1>6, <1>11, <1>12, <2>1, <2>2, <2>3 DEF BaseIsShared
  <2>5. TracedIn(fork', base') /\ fork'.index = g.index
    BY <1>2, <1>11, <1>12, <1>17, TracedSettled, SettledIndex
  <2>6. head' = AncestorAt(sw.new, Num(head'))
    BY <1>6, <1>12 DEF b
  <2>7. SwitchChoice'
    BY <1>3, <1>14, <1>15, <1>17, <2>5, <2>6 DEF SwitchChoice
  <2>8. QED
    BY <1>17, <2>4, <2>5, <2>7 DEF Choice, Traced, TracedIn, IdleChoice, PopChoice
<1>18. QED
  BY <1>12, <1>16, <1>17

LEMMA InitChoice == Init => ChoiceInv
<1> SUFFICES ASSUME Init PROVE Choice
  BY DEF ChoiceInv
<1>1. /\ pc = "idle" /\ head = <<>> /\ base = 0 /\ fork = EmptyForkDb
      /\ HeadBefore = <<>> /\ Num(HeadBefore) = 0
  BY DEF Init, HeadBefore, Num
<1>2. fork.index = {} /\ fork.head = <<>>
  BY <1>1 DEF EmptyForkDb
<1>3. WorldOK(world)
  BY WorldsAssumption DEF Init
<1>4. BaseIsShared
  <2>1. SUFFICES ASSUME NEW c \in Block PROVE AncestorAt(c, 0) = AncestorAt(<<>>, 0)
    BY <1>1 DEF BaseIsShared
  <2>2. c \in Seq(Label)
    BY <1>3 DEF WorldOK, Block
  <2>3. QED
    BY <2>2 DEF AncestorAt
<1>5. QED
  BY <1>1, <1>2, <1>4 DEF Choice, Traced, IdleChoice, PopChoice, SwitchChoice

\* Without restarts, and with no block refused, only pushes and switches are left.
LEMMA StepChoice == ~Restarts /\ ChainInv /\ ChoiceInv /\ [Next]_vars => ChoiceInv'
<1> SUFFICES ASSUME ~Restarts, ChainInv, ChoiceInv, [Next]_vars, MajorityWorld' PROVE Choice'
  BY DEF ChoiceInv
<1>1. MajorityWorld /\ Choice
  BY WorldStays DEF ChoiceInv, MajorityWorld, AllValid, Block, lib
<1>2. CASE UNCHANGED vars
  BY <1>1, <1>2 DEF vars, Choice, HeadBefore, BaseIsShared, Block, Traced, IdleChoice,
     PopChoice, SwitchChoice
<1>3. ASSUME NEW b \in world.blocks, push_block(b) PROVE Choice'
  BY <1>1, <1>3, ChoicePush DEF Block
<1>4. CASE Switch
  <2>1. ~SwitchRestore
    BY <1>1 DEF SwitchRestore, Choice
  <2>2. QED
    BY <1>1, <1>4, <2>1, ChoicePop, ChoiceApply DEF Switch
<1>5. ~(CloseBegin \/ CloseEnd \/ Crash \/ Open \/ Reindex)
  BY <1>1 DEF CloseBegin, CloseEnd, Crash, Open, Reindex, Choice
<1>6. QED
  BY <1>2, <1>3, <1>4, <1>5 DEF Next

\* The inductive invariant: every known branch is there down to the base, all blocks that
\* could take over share the base, and during a switch the two heads move together.
THEOREM ChoiceInvariant == ~Restarts => (Spec => []ChoiceInv)
<1>1. CASE ~Restarts
  <2>1. ChainInv /\ ChoiceInv /\ [Next]_vars => ChoiceInv'
    BY <1>1, StepChoice
  <2>2. QED
    BY <2>1, ChainInvariant, InitChoice, PTL DEF Spec
<1>2. QED
  BY <1>1

\* For any tree of blocks, none refused and any pushed again, whose last irreversible
\* blocks are confirmed by more than the minorities can outgrow: in a node that is not
\* restarted the head of the state is a highest known block and the head of the fork
\* database (push_block).
THEOREM ForkChoice == ~Restarts => (Spec => [](MajorityWorld => HeadIsForkChoice))
<1>1. ChoiceInv => (MajorityWorld => HeadIsForkChoice)
  BY DEF ChoiceInv, Choice, IdleChoice, HeadIsForkChoice
<1>2. QED
  BY <1>1, ChoiceInvariant, PTL

-----------------------------------------------------------------------------
(* A fork switch that fails is undone. *)

\* No block of a chain is refused, and what each makes irreversible is so already.
AppliedTo(low, tip) ==
    \A n \in 1 .. Num(tip) :
        /\ lib[AncestorAt(tip, n)] <= low
        /\ AncestorAt(tip, n) \notin world.invalid \cup world.broken

\* The branch that a switch is moving to can be popped block by block, as the fork
\* database has its links, and is one block ahead of the state while it is unwound.
NewLinked ==
    pc \in {"pop", "apply", "unwind"} =>
        \A m \in sw.parent + 2 .. Num(sw.new) : AncestorAt(sw.new, m) \in fork.linked

UnwindsTogether ==
    pc = "unwind" =>
        /\ Num(head) < Num(sw.new)
        /\ base <= sw.parent =>
              /\ fork.head = AncestorAt(sw.new, Num(head) + 1)
              /\ Num(head) > sw.parent => fork.headLinked

Restorable ==
    /\ AppliedTo(base, head)
    /\ Switching => AppliedTo(base, sw.old)
    /\ NewLinked /\ UnwindsTogether

RestorableInv == OrderlyWorld => Restorable


\* What the last irreversible block was when a chain was applied, it is at least later.
LEMMA AppliedLater ==
    ASSUME WorldOK(world), NEW tip \in Block \cup {<<>>}, NEW low \in Nat, NEW high \in Nat,
           low <= high, AppliedTo(low, tip)
    PROVE  AppliedTo(high, tip)
<1>1. \A n \in 1 .. Num(tip) : AncestorAt(tip, n) \in Block
  <2>1. tip = <<>> => 1 .. Num(tip) = {}
    BY DEF Num
  <2>2. QED
    BY <2>1, AncestorIsBlock DEF Block
<1>2. \A b \in Block : lib[b] \in Nat
  BY DEF WorldOK, Block, lib
<1>3. QED
  BY <1>1, <1>2 DEF AppliedTo

LEMMA AppliedBelow ==
    ASSUME WorldOK(world), NEW tip \in Block \cup {<<>>}, NEW n \in 0 .. Num(tip),
           NEW low, AppliedTo(low, tip)
    PROVE  AppliedTo(low, AncestorAt(tip, n))
<1>1. tip \in Seq(Label) /\ Num(tip) = Len(tip) /\ Len(tip) \in Nat
  BY PathIsSeq DEF Block
<1>2. Num(AncestorAt(tip, n)) = n
  BY <1>1, PrefixLength DEF AncestorAt, Num
<1>3. \A m \in 1 .. n : m \in 1 .. Num(tip) /\ AncestorAt(AncestorAt(tip, n), m) = AncestorAt(tip, m)
  BY <1>1, AncestorOfAncestor DEF Block
<1>4. QED
  BY <1>2, <1>3 DEF AppliedTo

LEMMA AppliedNext ==
    ASSUME WorldOK(world), NEW b \in Block, NEW low, AppliedTo(low, Previous(b)),
           lib[b] <= low, b \notin world.invalid \cup world.broken
    PROVE  AppliedTo(low, b)
<1>1. Num(b) \in Nat \ {0} /\ Num(Previous(b)) = Num(b) - 1
  BY PreviousIsBlock DEF Block
<1>2. ASSUME NEW n \in 1 .. Num(b)
      PROVE  /\ lib[AncestorAt(b, n)] <= low
             /\ AncestorAt(b, n) \notin world.invalid \cup world.broken
  <2>1. CASE n = Num(b)
    BY <2>1, OwnAncestor DEF Block
  <2>2. CASE n # Num(b)
    <3>1. n \in 1 .. Num(Previous(b)) /\ n \in 0 .. Num(b) - 1
      BY <1>1, <2>2
    <3>2. AncestorAt(Previous(b), n) = AncestorAt(b, n)
      BY <3>1, AncestorOfPrevious DEF Block
    <3>3. QED
      BY <3>1, <3>2 DEF AppliedTo
  <2>3. QED
    BY <2>1, <2>2
<1>3. QED
  BY <1>2 DEF AppliedTo

\* However apply_block() ends, the chain of the state is applied, and a block that
\* was refused is not part of it.
LEMMA ApplyRestorable ==
    ASSUME ChainInv, OrderlyWorld, Running, AppliedTo(base, head),
           NEW f, NEW b \in Block,
           ApplyOk(f, b) \/ ApplyThrows(f, b) \/ ApplyThrowsLate(f, b)
    PROVE  /\ AppliedTo(base', head') /\ base <= base' /\ base' \in Nat
           /\ ~ApplyOk(f, b) => head' = head
<1>1. /\ WorldOK(world) /\ head \in Block \cup {<<>>} /\ Num(head) \in Nat
      /\ base \in Nat /\ base <= Num(head)
  BY NumIsNat DEF ChainInv, TypeOK, UndoReachesLog, Block
<1>2. /\ Num(b) \in Nat /\ Num(Previous(b)) = Num(b) - 1
      /\ lib[b] \in Nat /\ lib[b] < Num(b)
  <2>1. Num(b) \in Nat /\ Num(Previous(b)) = Num(b) - 1
    BY <1>1, PreviousIsBlock DEF Block
  <2>2. lib[b] \in Nat /\ lib[b] < Num(b)
    BY <1>1 DEF WorldOK, Block, lib, OrderlyWorld
  <2>3. QED
    BY <2>1, <2>2
<1> DEFINE k == Max(base, lib[b])
<1>3. k \in Nat /\ base <= k /\ lib[b] <= k /\ (Previous(b) = head => Num(b) > k)
  BY <1>1, <1>2 DEF Max
<1>4. AppliedTo(k, head)
  BY <1>1, <1>3, AppliedLater
<1>5. CASE ApplyOk(f, b)
  <2>1. Previous(b) = head /\ b \notin world.invalid \cup world.broken /\ head' = b /\ base' = k
    BY <1>5 DEF ApplyOk, Applies, BlockApplies, Migrate
  <2> HIDE DEF k
  <2>2. AppliedTo(k, b)
    BY <1>1, <1>3, <1>4, <2>1, AppliedNext
  <2>3. QED
    BY <1>3, <1>5, <2>1, <2>2
<1>6. CASE ApplyThrows(f, b)
  BY <1>1, <1>6 DEF ApplyThrows
<1>7. CASE ApplyThrowsLate(f, b)
  <2>1. Previous(b) = head /\ base' = k /\ head' = IF Num(b) > k THEN head ELSE b
    BY <1>7 DEF ApplyThrowsLate, Applies, BlockApplies, Migrate
  <2> HIDE DEF k
  <2>2. QED
    BY <1>3, <1>4, <2>1
<1>8. QED
  BY <1>5, <1>6, <1>7

\* A switch keeps the items of its branches, and with them their links.
LEMMA HeldLinks ==
    ASSUME TypeOK, sw.new \in Block, NEW g \in ForkDb(Block),
           \A m \in sw.parent + 2 .. Num(sw.new) : AncestorAt(sw.new, m) \in g.linked
    PROVE  \A m \in sw.parent + 2 .. Num(sw.new) :
              AncestorAt(sw.new, m) \in Settled(g, Held).linked
<1>1. /\ WorldOK(world) /\ sw.parent \in Nat /\ Num(sw.new) \in Nat /\ Num(sw.new) = Len(sw.new)
  BY PreviousIsBlock DEF TypeOK, Block, Num
<1>2. ASSUME NEW m \in sw.parent + 1 .. Num(sw.new)
      PROVE  AncestorAt(sw.new, m) \in Held
  BY <1>1 DEF Held, BranchOf
<1>3. ASSUME NEW m \in sw.parent + 2 .. Num(sw.new)
      PROVE  AncestorAt(sw.new, m) \in Settled(g, Held).linked
  <2>1. /\ m \in sw.parent + 1 .. Num(sw.new) /\ m - 1 \in sw.parent + 1 .. Num(sw.new)
        /\ m \in 1 .. Num(sw.new)
    BY <1>1
  <2>2. Previous(AncestorAt(sw.new, m)) = AncestorAt(sw.new, m - 1)
    BY <1>1, <2>1, PreviousOfAncestor DEF Block
  <2>3. AncestorAt(sw.new, m) \in Held /\ AncestorAt(sw.new, m - 1) \in Held
    BY <1>2, <2>1
  <2>4. AncestorAt(sw.new, m) \in g.linked
    BY <1>3
  <2>5. QED
    BY <2>2, <2>3, <2>4 DEF Settled, ForkDb
<1>4. QED
  BY <1>3

\* Between two pushes only the state's own chain matters.
LEMMA IdleRestorable ==
    ASSUME UNCHANGED world, pc' \notin {"pop", "apply", "unwind", "restore"}, AppliedTo(base', head')
    PROVE  Restorable'
BY DEF Restorable, AppliedTo, lib, Switching, NewLinked, UnwindsTogether

LEMMA PushRestorable ==
    ASSUME ChainInv, OrderlyWorld, Restorable, NEW b \in Block, push_block(b)
    PROVE  Restorable'
<1> DEFINE f == Pushed(b)
<1>1. /\ UNCHANGED <<world, disk>> /\ pc = "idle" /\ Running /\ AppliedTo(base, head)
      /\ WorldOK(world) /\ fork \in ForkDb(Block)
  BY DEF push_block, PushOnHead, PushOnShorterFork, PushOnBrokenBranch, PushOnLongerFork,
     Delivered, Running, Restorable, ChainInv, TypeOK
<1>2. f \in ForkDb(Block)
  BY <1>1, PushBlockTyped, SettledTyped DEF Pushed
<1>3. CASE PushOnHead(b)
  <2>1. /\ pc' = "idle"
        /\ ApplyOk(f, b) \/ ApplyThrows(f, b) \/ ApplyThrowsLate(f, b)
    BY <1>3 DEF PushOnHead, Done
  <2> HIDE DEF f
  <2>2. QED
    BY <1>1, <2>1, ApplyRestorable, IdleRestorable
<1>4. CASE PushOnShorterFork(b) \/ PushOnBrokenBranch(b)
  <2>1. pc' = "idle" /\ UNCHANGED <<head, base>>
    BY <1>4 DEF PushOnShorterFork, PushOnBrokenBranch, Done
  <2>2. QED
    BY <1>1, <2>1, IdleRestorable
<1>5. CASE PushOnLongerFork(b)
  <2>1. PICK n \in 0 .. Num(head) :
           /\ BranchesFetched(f, f.head, head, n)
           /\ sw' = [new |-> f.head, old |-> head, parent |-> n]
    BY <1>5 DEF PushOnLongerFork
  <2>2. fork' = f /\ pc' = "pop" /\ UNCHANGED <<head, base>>
    BY <1>5 DEF PushOnLongerFork
  <2> HIDE DEF f
  <2>3. f.head \in f.index /\ f.head \in Block /\ sw'.new = f.head /\ sw'.old = head /\ sw'.parent = n
    BY <1>2, <2>1 DEF BranchesFetched, ForkDb
  <2>4. ASSUME NEW m \in n + 2 .. Num(f.head) PROVE AncestorAt(f.head, m) \in f.linked
    <3>1. AncestorAt(f.head, m) \in BranchOf(f.head, n + 1)
      BY <2>4 DEF BranchOf, Num
    <3>2. IsLinked(f, {}, AncestorAt(f.head, m))
      BY <2>1, <3>1 DEF BranchesFetched
    <3>3. QED
      BY <2>3, <3>2 DEF IsLinked
  <2>5. NewLinked' /\ UnwindsTogether'
    BY <2>2, <2>3, <2>4 DEF NewLinked, UnwindsTogether
  <2>6. QED
    BY <1>1, <2>2, <2>3, <2>5 DEF Restorable, AppliedTo, lib
<1>6. QED
  BY <1>3, <1>4, <1>5 DEF push_block


\* While a failed switch is unwound nothing ends it before the common parent, as long
\* as that can be reached.
LEMMA UnwindGoesOn ==
    ASSUME ChainInv, OwnChain, Restorable, pc = "unwind", ~AtCommonParent, base <= sw.parent
    PROVE  HeadIsFound /\ CanPop(fork)
<1>1. /\ WorldOK(world) /\ sw.new \in Block /\ sw.parent \in Nat /\ Num(head) \in Nat
      /\ Num(head) \in sw.parent .. Num(Tip) /\ Tip = sw.new
      /\ AtCommonParent <=> Num(head) = sw.parent
      /\ head \in Block \cup {<<>>} /\ base \in Nat /\ Running
      /\ Num(sw.new) \in Nat /\ Num(head) < Num(sw.new)
  BY OnBranch DEF OwnChain, ChainInv, TypeOK, Switching, Tip, Running, Restorable, UnwindsTogether
<1>2. Num(head) > sw.parent /\ Num(head) \in 1 .. Num(head) /\ Num(head) > base
  BY <1>1
<1>3. head \in fork.index
  <2>1. AncestorAt(head, Num(head)) = head
    BY <1>1, OwnAncestor DEF Block
  <2>2. QED
    BY <1>1, <1>2, <2>1 DEF OwnChain, ReversibleIndexed
<1>4. fork.head = AncestorAt(sw.new, Num(head) + 1) /\ fork.headLinked
  BY <1>2 DEF Restorable, UnwindsTogether
<1>5. fork.head # <<>>
  <2>1. Num(head) + 1 \in 1 .. Num(sw.new)
    BY <1>1
  <2>2. fork.head \in Block
    BY <1>1, <1>4, <2>1, AncestorIsBlock DEF Block
  <2>3. QED
    BY <1>1, <2>2 DEF WorldOK, Block
<1>6. QED
  BY <1>3, <1>4, <1>5 DEF HeadIsFound, CanPop

LEMMA PopRestorable ==
    ASSUME ChainInv, OrderlyWorld, OwnChain, Restorable, pop_block
    PROVE  Restorable'
<1>1. /\ UNCHANGED <<world, base, log>> /\ pc \in {"pop", "unwind"} /\ ~AtCommonParent
      /\ AppliedTo(base, head) /\ AppliedTo(base, sw.old) /\ NewLinked /\ UnwindsTogether
      /\ Switching /\ TypeOK /\ fork \in ForkDb(Block)
  BY DEF pop_block, Restorable, Switching, ChainInv, TypeOK
<1>2. /\ WorldOK(world) /\ sw.new \in Block /\ sw.old \in Block /\ sw.parent \in Nat
      /\ Num(head) \in Nat /\ Num(sw.new) \in Nat /\ Num(sw.old) \in Nat
      /\ sw.parent < Num(sw.old) /\ Num(head) \in sw.parent .. Num(Tip)
      /\ head = AncestorAt(Tip, Num(head)) /\ Tip \in Block
      /\ AtCommonParent <=> Num(head) = sw.parent
      /\ head \in Block \cup {<<>>} /\ base \in Nat
  BY <1>1, OnBranch DEF OwnChain, TypeOK
<1>3. CASE Done(fork) /\ UNCHANGED head
  BY <1>1, <1>3, IdleRestorable DEF Done
<1>4. CASE /\ HeadIsFound /\ CanPop(fork)
           /\ fork' = Settled(PopBlock(fork, Held), Held)
           /\ head' = IF Num(head) > base THEN Previous(head) ELSE head
           /\ UNCHANGED <<pc, sw>>
  <2> DEFINE p == Previous(fork.head)
             g == PopBlock(fork, Held)
  <2>1. Num(head) > sw.parent /\ head \in Block /\ Num(head) - 1 \in 0 .. Num(head)
    <3>1. Num(head) > sw.parent
      BY <1>1, <1>2
    <3>2. QED
      BY <1>2, <3>1, NumIsNat DEF Block
  <2>2. Num(Previous(head)) = Num(head) - 1 /\ AppliedTo(base, Previous(head))
    <3>1. Previous(head) = AncestorAt(head, Num(head) - 1)
      BY <1>2, <2>1, OwnAncestor DEF Block
    <3>2. Num(Previous(head)) = Num(head) - 1
      BY <1>2, <2>1, PreviousIsBlock DEF Block
    <3>3. QED
      BY <1>1, <1>2, <2>1, <3>1, <3>2, AppliedBelow
  <2>3. AppliedTo(base, head')
    BY <1>1, <1>4, <2>2
  <2>4. fork.head \in Block
    BY <1>1, <1>4 DEF CanPop, ForkDb
  <2>5. p \in Block \cup {<<>>}
    BY <1>2, <2>4, PreviousIsBlock DEF Block
  <2>6. /\ g \in ForkDb(Block) /\ g.linked = fork.linked /\ g.head = p
        /\ g.headLinked = IsLinked(fork, Held, p)
    BY <1>1, <2>5, SetHeadTyped, SetHeadIndex DEF PopBlock
  <2> HIDE DEF g
  <2>7. NewLinked'
    <3>1. fork' = Settled(g, Held)
      BY <1>4 DEF g
    <3>2. QED
      BY <1>1, <1>2, <1>4, <2>6, <3>1, HeldLinks DEF NewLinked
  <2>8. ASSUME pc = "unwind" PROVE UnwindsTogether'
    <3>1. Num(head) < Num(sw.new) /\ Num(head') < Num(sw.new)
      BY <1>1, <1>2, <1>4, <2>2, <2>8 DEF UnwindsTogether
    <3>2. ASSUME base <= sw.parent
          PROVE  /\ fork'.head = AncestorAt(sw.new, Num(head') + 1)
                 /\ Num(head') > sw.parent => fork'.headLinked
      <4>1. Num(head') = Num(head) - 1 /\ Num(head') + 1 = Num(head)
        BY <1>2, <1>4, <2>1, <2>2, <3>2
      <4>2. fork.head = AncestorAt(sw.new, Num(head) + 1)
        BY <1>1, <2>8, <3>2 DEF UnwindsTogether
      <4>3. Num(head) + 1 \in 1 .. Num(sw.new) /\ (Num(head) + 1) - 1 = Num(head)
        BY <1>2, <3>1
      <4>4. p = AncestorAt(sw.new, Num(head))
        BY <1>2, <4>2, <4>3, PreviousOfAncestor DEF Block
      <4>5. fork'.head = p
        BY <1>4, <2>6, SettledIndex DEF g
      <4>6. ASSUME Num(head') > sw.parent PROVE fork'.headLinked
        <5>1. /\ Num(head) \in sw.parent + 2 .. Num(sw.new)
              /\ Num(head) \in sw.parent + 1 .. Len(sw.new) /\ Num(head) \in 1 .. Num(sw.new)
              /\ Num(head) - 1 \in sw.parent + 1 .. Len(sw.new)
          BY <1>2, <2>1, <3>1, <4>1, <4>6 DEF Num
        <5>2. p \in fork.linked
          BY <1>1, <4>4, <5>1 DEF NewLinked
        <5>3. p \in Held /\ AncestorAt(sw.new, Num(head) - 1) \in Held
          BY <4>4, <5>1 DEF Held, BranchOf
        <5>4. Previous(p) \in Held
          BY <1>2, <4>4, <5>1, <5>3, PreviousOfAncestor DEF Block
        <5>5. g.headLinked
          BY <2>6, <5>2, <5>3 DEF IsLinked
        <5> HIDE DEF p
        <5>6. QED
          BY <1>4, <2>6, <5>4, <5>5 DEF Settled, ForkDb, g
      <4>7. QED
        BY <4>1, <4>4, <4>5, <4>6
    <3>3. QED
      BY <1>1, <1>4, <3>1, <3>2 DEF UnwindsTogether
  <2>9. UnwindsTogether'
    BY <1>1, <1>4, <2>8 DEF UnwindsTogether
  <2>10. QED
    BY <1>1, <1>4, <2>3, <2>7, <2>9 DEF Restorable, AppliedTo, lib, Switching
<1>5. QED
  BY <1>3, <1>4 DEF pop_block

LEMMA SwitchApplyRestorable ==
    ASSUME ChainInv, OrderlyWorld, OwnChain, Restorable, SwitchApply
    PROVE  Restorable'
<1> DEFINE b == AncestorAt(sw.new, Num(head) + 1)
           f == SetHead(fork, Held, b)
           rest == BranchOf(sw.new, Num(b) - 1)
<1>1. /\ TypeOK /\ Running /\ Switching /\ pc \in {"pop", "apply"}
      /\ UNCHANGED <<world, disk>> /\ fork \in ForkDb(Block) /\ SwitchPath
      /\ pc = "pop" => AtCommonParent
      /\ AppliedTo(base, head) /\ AppliedTo(base, sw.old) /\ NewLinked
  BY DEF ChainInv, TypeOK, OwnChain, SwitchApply, Running, Switching, Restorable
<1>2. /\ WorldOK(world) /\ sw.new \in Block /\ sw.old \in Block
      /\ sw.parent \in Nat /\ Num(head) \in Nat /\ Num(sw.new) \in Nat /\ Num(sw.old) \in Nat
      /\ sw.parent < Num(sw.new) /\ sw.parent <= Num(head) /\ base \in Nat
  BY <1>1, OnBranch DEF TypeOK
<1>3. head = AncestorAt(sw.new, Num(head)) /\ Num(head) < Num(sw.new)
  <2>1. CASE pc = "pop"
    BY <1>1, <1>2, <2>1, OnBranch DEF AtCommonParent
  <2>2. CASE pc = "apply"
    BY <1>1, <1>2, <2>2, OnBranch DEF Tip, ChainInv, SwitchOK
  <2>3. QED
    BY <1>1, <2>1, <2>2
<1>4. b \in Block /\ Num(b) = Num(head) + 1 /\ Previous(b) = head
  BY <1>1, <1>2, <1>3, NextOwn
<1>5. /\ f \in ForkDb(Block) /\ f.linked = fork.linked /\ f.head = b
      /\ f.headLinked = IsLinked(fork, Held, b)
  BY <1>1, <1>4, SetHeadTyped, SetHeadIndex
<1>6. \/ /\ ApplyOk(f, b)
         /\ \/ Done(Migrated(f, b))
            \/ fork' = Settled(Migrated(f, b), Held) /\ pc' = "apply" /\ UNCHANGED sw
      \/ /\ ApplyThrows(f, b) \/ ApplyThrowsLate(f, b)
         /\ \E g \in {f, Migrated(f, b)} : fork' = Settled(Remove(g, rest), Held)
         /\ pc' = "unwind" /\ UNCHANGED sw
  BY DEF SwitchApply
<1> HIDE DEF f, rest
<1>7. /\ AppliedTo(base', head') /\ base <= base' /\ base' \in Nat
      /\ ~ApplyOk(f, b) => head' = head
  <2> HIDE DEF b
  <2>1. QED
    BY <1>1, <1>4, <1>6, ApplyRestorable
<1>8. AppliedTo(base', sw.old)
  BY <1>1, <1>2, <1>7, AppliedLater
<1>9. ASSUME NEW g \in {f, Migrated(f, b)}
      PROVE  /\ g \in ForkDb(Block) /\ g.linked = fork.linked
             /\ g.head = b /\ g.headLinked = f.headLinked
  <2> HIDE DEF b
  <2>1. QED
    BY <1>2, <1>4, <1>5, MigratedHead
<1>10. CASE Done(Migrated(f, b))
  BY <1>1, <1>7, <1>10, IdleRestorable DEF Done
<1>11. CASE fork' = Settled(Migrated(f, b), Held) /\ pc' = "apply" /\ UNCHANGED sw
  <2>1. NewLinked'
    <3> DEFINE g == Migrated(f, b)
    <3>1. g \in ForkDb(Block) /\ g.linked = fork.linked /\ fork' = Settled(g, Held)
      BY <1>9, <1>11
    <3> HIDE DEF g
    <3>2. QED
      BY <1>1, <1>2, <1>11, <3>1, HeldLinks DEF NewLinked
  <2>2. QED
    BY <1>1, <1>7, <1>8, <1>11, <2>1 DEF Restorable, AppliedTo, lib, Switching, UnwindsTogether
<1>12. CASE /\ ApplyThrows(f, b) \/ ApplyThrowsLate(f, b)
            /\ \E g \in {f, Migrated(f, b)} : fork' = Settled(Remove(g, rest), Held)
            /\ pc' = "unwind" /\ UNCHANGED sw
  <2>1. PICK g \in {f, Migrated(f, b)} : fork' = Settled(Remove(g, rest), Held)
    BY <1>12
  <2> DEFINE h == Remove(g, rest)
  <2>2. /\ h \in ForkDb(Block) /\ h.linked = fork.linked
        /\ h.head = b /\ h.headLinked = f.headLinked
    <3>1. /\ g \in ForkDb(Block) /\ g.linked = fork.linked
          /\ g.head = b /\ g.headLinked = f.headLinked
      BY <1>9
    <3> HIDE DEF b
    <3>2. QED
      BY <3>1, RemoveTyped DEF Remove, ForkDb
  <2>3. fork' = Settled(h, Held)
    BY <2>1
  <2> HIDE DEF h
  <2>4. NewLinked'
    BY <1>1, <1>2, <1>12, <2>2, <2>3, HeldLinks DEF NewLinked
  <2>5. head' = head
    BY <1>6, <1>7, <1>12 DEF ApplyThrows, ApplyThrowsLate, ApplyOk
  <2>6. fork'.head = b
    BY <2>2, <2>3, SettledIndex
  <2>7. ASSUME Num(head) > sw.parent PROVE fork'.headLinked
    <3>1. /\ Num(head) + 1 \in sw.parent + 2 .. Num(sw.new)
          /\ Num(head) + 1 \in sw.parent + 1 .. Len(sw.new)
          /\ Num(head) \in sw.parent + 1 .. Len(sw.new)
      BY <1>2, <1>3, <2>7 DEF Num
    <3>2. b \in fork.linked
      BY <1>1, <3>1 DEF NewLinked
    <3>3. b \in Held /\ head \in Held
      BY <1>3, <3>1 DEF Held, BranchOf
    <3>4. h.headLinked
      BY <1>5, <2>2, <3>2, <3>3 DEF IsLinked
    <3> HIDE DEF b
    <3>5. QED
      BY <1>4, <2>2, <2>3, <3>3, <3>4 DEF Settled, ForkDb
  <2>8. UnwindsTogether'
    BY <1>3, <1>12, <2>5, <2>6, <2>7 DEF UnwindsTogether
  <2>9. QED
    BY <1>1, <1>7, <1>8, <1>12, <2>4, <2>8 DEF Restorable, AppliedTo, lib, Switching
<1>13. QED
  BY <1>6, <1>10, <1>11, <1>12


\* What is to be restored was applied before, and is applied again.
LEMMA RestoreGoesOn ==
    ASSUME ChainInv, OwnChain, Restorable, SwitchRestore
    PROVE  LET b == AncestorAt(sw.old, Num(head) + 1)
               f == SetHead(fork, Held, b)
           IN  /\ b \in Block /\ ApplyOk(f, b)
               /\ pc' = "idle" => b = sw.old
<1> DEFINE b == AncestorAt(sw.old, Num(head) + 1)
           f == SetHead(fork, Held, b)
<1>1. /\ TypeOK /\ UndoReachesLog /\ Running /\ Switching /\ pc \in {"unwind", "restore"}
      /\ UNCHANGED <<world, disk>> /\ fork \in ForkDb(Block) /\ SwitchPath
      /\ pc = "unwind" => AtCommonParent
      /\ AppliedTo(base, sw.old)
  BY DEF ChainInv, TypeOK, OwnChain, SwitchRestore, Running, Switching, Restorable
<1>2. /\ WorldOK(world) /\ sw.old \in Block /\ Num(head) \in Nat /\ Num(sw.old) \in Nat
      /\ sw.parent \in Nat /\ sw.parent < Num(sw.old) /\ base = Len(log)
  BY <1>1, OnBranch DEF UndoReachesLog
<1>3. head = AncestorAt(sw.old, Num(head)) /\ Num(head) < Num(sw.old)
  <2>1. CASE pc = "unwind"
    BY <1>1, <1>2, <2>1, OnBranch DEF AtCommonParent
  <2>2. CASE pc = "restore"
    BY <1>1, <1>2, <2>2, OnBranch DEF Tip, ChainInv, SwitchOK
  <2>3. QED
    BY <1>1, <2>1, <2>2
<1>4. b \in Block /\ Num(b) = Num(head) + 1 /\ Previous(b) = head
  BY <1>1, <1>2, <1>3, NextOwn
<1>5. lib[b] <= base /\ b \notin world.invalid \cup world.broken
  <2>1. Num(head) + 1 \in 1 .. Num(sw.old)
    BY <1>2, <1>3
  <2>2. QED
    BY <1>1, <2>1 DEF AppliedTo
<1>6. f.head = b
  BY <1>1, SetHeadIndex
<1>7. ApplyOk(f, b) \/ ApplyThrows(f, b) \/ ApplyThrowsLate(f, b)
  BY DEF SwitchRestore
<1>8. pc' = "idle" /\ ApplyOk(f, b) => b = sw.old
  <2>1. Applies(f, b) /\ b \notin world.broken /\ ApplyOk(f, b)
          => ~ApplyThrows(f, b) /\ ~ApplyThrowsLate(f, b)
    BY DEF ApplyThrows, ApplyThrowsLate
  <2>2. ApplyOk(f, b) => Applies(f, b) /\ b \notin world.broken
    BY DEF ApplyOk
  <2>3. ApplyOk(f, b) => (b = sw.old \/ pc' = "restore")
    BY <2>1, <2>2 DEF SwitchRestore
  <2>4. QED
    BY <2>3
<1> HIDE DEF f, b
<1>9. Applies(f, b)
  <2>1. lib[b] \in Nat /\ ~(lib[b] > Len(log))
    BY <1>2, <1>4, <1>5 DEF WorldOK, Block, lib
  <2>2. DOMAIN LogPart(f, b) = {}
    BY <2>1 DEF LogPart
  <2>3. QED
    BY <1>4, <1>5, <1>6, <2>2 DEF Applies, BlockApplies, CanMigrate
<1>10. ApplyOk(f, b)
  BY <1>5, <1>7, <1>9 DEF ApplyThrows, ApplyThrowsLate
<1>11. QED
  BY <1>4, <1>8, <1>10 DEF b, f

LEMMA SwitchRestoreRestorable ==
    ASSUME ChainInv, OrderlyWorld, OwnChain, Restorable, SwitchRestore
    PROVE  Restorable'
<1> DEFINE b == AncestorAt(sw.old, Num(head) + 1)
           f == SetHead(fork, Held, b)
<1>1. /\ Running /\ UNCHANGED <<world, disk>> /\ WorldOK(world) /\ base \in Nat
      /\ AppliedTo(base, head) /\ AppliedTo(base, sw.old) /\ sw.old \in Block
  BY DEF SwitchRestore, Running, ChainInv, TypeOK, SwitchOK, Switching, Restorable
<1>2. b \in Block /\ ApplyOk(f, b)
  BY RestoreGoesOn
<1>3. pc' \in {"idle", "restore"} /\ (pc' = "restore" => UNCHANGED sw)
  BY DEF SwitchRestore, Done
<1> HIDE DEF f, b
<1>4. AppliedTo(base', head') /\ base <= base' /\ base' \in Nat
  BY <1>1, <1>2, ApplyRestorable
<1>5. AppliedTo(base', sw.old)
  BY <1>1, <1>4, AppliedLater
<1>6. QED
  BY <1>1, <1>3, <1>4, <1>5 DEF Restorable, AppliedTo, lib, Switching, NewLinked,
     UnwindsTogether

\* A restarted node has a state whose chain was applied.
LEMMA RestartRestorable ==
    ASSUME ChainInv, OrderlyWorld, OwnChain, Restorable,
           CloseBegin \/ CloseEnd \/ Crash \/ Open \/ Reindex
    PROVE  Restorable'
<1>1. /\ UNCHANGED world /\ WorldOK(world) /\ head \in Block \cup {<<>>} /\ Num(head) \in Nat
      /\ base \in Nat /\ log \in Seq(Block) /\ AppliedTo(base, head)
      /\ Len(log) <= Num(head) /\ \A i \in 1 .. Len(log) : log[i] = AncestorAt(head, i)
  BY NumIsNat DEF CloseBegin, CloseEnd, Crash, Open, Reindex, ChainInv, TypeOK, Restorable,
     OwnChain, LogIsOwnChain, Block
<1>2. ASSUME NEW tip \in Block \cup {<<>>}, NEW low, AppliedTo(low, tip)
      PROVE  AppliedTo(Num(tip), tip)
  <2>1. \A n \in 1 .. Num(tip) : AncestorAt(tip, n) \in Block /\ Num(AncestorAt(tip, n)) = n
    <3>1. tip = <<>> => 1 .. Num(tip) = {}
      BY DEF Num
    <3>2. QED
      BY <1>1, <3>1, AncestorIsBlock DEF Block
  <2>2. \A c \in Block : lib[c] \in Nat /\ lib[c] <= Num(c)
    BY <1>1 DEF WorldOK, Block, lib
  <2>3. Num(tip) \in Nat
    BY <1>1, NumIsNat DEF Block
  <2>4. \A n \in 1 .. Num(tip) : lib[AncestorAt(tip, n)] <= Num(tip)
    <3>1. TAKE n \in 1 .. Num(tip)
    <3>2. lib[AncestorAt(tip, n)] \in Nat /\ lib[AncestorAt(tip, n)] <= n
      BY <2>1, <2>2
    <3>3. QED
      BY <2>3, <3>2
  <2>5. QED
    BY <1>2, <2>4 DEF AppliedTo
<1>3. CASE CloseBegin
  <2>1. base <= Num(head)
    BY <1>3 DEF CloseBegin, ChainInv, UndoReachesLog, Running
  <2>2. AppliedTo(base, AncestorAt(head, base))
    BY <1>1, <2>1, AppliedBelow
  <2>3. QED
    BY <1>1, <1>3, <2>2, IdleRestorable DEF CloseBegin
<1>4. CASE CloseEnd \/ Crash
  BY <1>1, <1>4, IdleRestorable DEF CloseEnd, Crash
<1>5. CASE Open
  BY <1>1, <1>2, <1>5, IdleRestorable DEF Open
<1>6. CASE Reindex
  <2>1. CASE log = <<>> /\ head' = <<>> /\ base' = 0 /\ UNCHANGED pc
    <3>1. pc' = "down"
      BY <1>6, <2>1 DEF Reindex
    <3>2. AppliedTo(base', head')
      BY <2>1 DEF AppliedTo, Num
    <3>3. QED
      BY <1>1, <3>1, <3>2, IdleRestorable
  <2>2. CASE log # <<>> /\ head' = log[Len(log)] /\ base' = Num(head') /\ pc' = "idle"
    <3>1. Len(log) \in 1 .. Len(log) /\ Len(log) \in 0 .. Num(head) /\ log[Len(log)] \in Block
      BY <1>1, <2>2
    <3>2. head' = AncestorAt(head, Len(log)) /\ head' \in Block
      BY <1>1, <2>2, <3>1
    <3>3. AppliedTo(base, head')
      BY <1>1, <3>1, <3>2, AppliedBelow
    <3>4. AppliedTo(base', head')
      BY <1>2, <2>2, <3>2, <3>3
    <3>5. QED
      BY <1>1, <2>2, <3>4, IdleRestorable
  <2>3. QED
    BY <1>6, <2>1, <2>2 DEF Reindex
<1>7. QED
  BY <1>3, <1>4, <1>5, <1>6

LEMMA InitRestorable == Init => RestorableInv
BY DEF Init, RestorableInv, Restorable, AppliedTo, Num, Switching, NewLinked, UnwindsTogether

LEMMA StepRestorable == ChainInv /\ OrderlyInv /\ RestorableInv /\ [Next]_vars => RestorableInv'
<1> SUFFICES ASSUME ChainInv, OrderlyInv, RestorableInv, [Next]_vars, OrderlyWorld'
             PROVE  Restorable'
  BY DEF RestorableInv
<1>1. OrderlyWorld /\ OwnChain /\ Restorable
  BY WorldStays DEF OrderlyInv, RestorableInv, OrderlyWorld, Block, lib
<1>2. CASE UNCHANGED vars
  BY <1>1, <1>2 DEF vars, Restorable, AppliedTo, lib, Switching, NewLinked, UnwindsTogether
<1>3. ASSUME NEW b \in world.blocks, push_block(b) PROVE Restorable'
  BY <1>1, <1>3, PushRestorable DEF Block
<1>4. CASE Switch
  BY <1>1, <1>4, PopRestorable, SwitchApplyRestorable, SwitchRestoreRestorable DEF Switch
<1>5. CASE CloseBegin \/ CloseEnd \/ Crash \/ Open \/ Reindex
  BY <1>1, <1>5, RestartRestorable
<1>6. QED
  BY <1>2, <1>3, <1>4, <1>5 DEF Next

\* The inductive invariant: the state's chain was applied in full and what it makes
\* irreversible is so already, and the links that an unwinding follows are alive.
THEOREM RestorableInvariant == Spec => []RestorableInv
  BY ChainInvariant, OrderlyInvariant, InitRestorable, StepRestorable, PTL DEF Spec

\* For any tree of blocks, any of them refused, early or late, and a node that may crash
\* and restart, as long as no known block is pushed again and none makes itself
\* irreversible: a fork switch that fails ends on the branch it began on, unless it had
\* made a block above the common parent irreversible (_push_block).
THEOREM SwitchRestores == Spec /\ OrderlyWorld => FailedSwitchRestores
<1> DEFINE Ends == (pc \in {"unwind", "restore"} /\ pc' = "idle")
                      => head' = sw.old \/ base > sw.parent
<1>1. ChainInv /\ OrderlyInv /\ RestorableInv /\ OrderlyWorld /\ [Next]_vars => [Ends]_vars
  <2>1. SUFFICES ASSUME ChainInv, OwnChain, Restorable, Next, pc \in {"unwind", "restore"},
                        pc' = "idle", ~(base > sw.parent)
                 PROVE  head' = sw.old
    BY DEF OrderlyInv, RestorableInv
  <2>2. base <= sw.parent
    BY <2>1 DEF ChainInv, TypeOK
  <2>3. pop_block \/ SwitchRestore
    BY <2>1 DEF Next, push_block, PushOnHead, PushOnShorterFork, PushOnBrokenBranch,
       PushOnLongerFork, Delivered, Switch, SwitchApply, CloseBegin, CloseEnd, Crash, Open,
       Reindex
  <2>4. ~pop_block
    <3>1. SUFFICES ASSUME pop_block PROVE FALSE
      OBVIOUS
    <3>2. pc = "unwind" /\ ~AtCommonParent
      BY <2>1, <3>1 DEF pop_block
    <3>3. HeadIsFound /\ CanPop(fork)
      BY <2>1, <2>2, <3>2, UnwindGoesOn
    <3>4. UNCHANGED pc
      BY <3>1, <3>3 DEF pop_block
    <3>5. QED
      BY <2>1, <3>2, <3>4
  <2>5. QED
    <3>1. SwitchRestore
      BY <2>3, <2>4
    <3> DEFINE b == AncestorAt(sw.old, Num(head) + 1)
    <3>2. ApplyOk(SetHead(fork, Held, b), b) /\ b = sw.old
      BY <2>1, <3>1, RestoreGoesOn
    <3>3. QED
      BY <3>2 DEF ApplyOk
<1>2. OrderlyWorld /\ [Next]_vars => OrderlyWorld'
  BY WorldStays DEF OrderlyWorld, Block, lib
<1> HIDE DEF Ends
<1>3. Spec /\ OrderlyWorld => [][Ends]_vars
  BY <1>1, <1>2, ChainInvariant, OrderlyInvariant, RestorableInvariant, PTL DEF Spec
<1>4. QED
  BY <1>3 DEF Ends, FailedSwitchRestores
================================================================================
