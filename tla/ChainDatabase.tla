------------------------------ MODULE ChainDatabase ------------------------------
(****************************************************************************)
(* How a node accepts blocks: the fork database, the chain state with its   *)
(* undo stack, the last irreversible block and the block log, as driven by  *)
(* database::push_block, pop_block, migrate_irreversible_state, open, close *)
(* and reindex (libraries/chain/database.cpp).                              *)
(*                                                                          *)
(* The handlers run under the write lock, one at a time.  A fork switch is  *)
(* modelled block by block (each pop and each apply_block is a step)        *)
(* because it may fail, and the process may die, between two of them.       *)
(*                                                                          *)
(* Applying a block is deterministic, so the blocks there are, the ones     *)
(* whose application throws and the last irreversible block each leads to   *)
(* are given by a "world", chosen once.                                     *)
(****************************************************************************)
EXTENDS ForkDatabase

CONSTANTS
    Label,          \* what tells the children of a block apart
    Worlds,         \* the worlds to consider: records
                    \*   blocks   the blocks that exist and their ancestors
                    \*   invalid  those refused by _apply_block
                    \*   broken   those refused by validate_invariants
                    \*   lib      the last irreversible number after each block
                    \*   again    whether a block is pushed again when it is known
                    \*   early    whether a block is pushed before its parent
    Restarts        \* whether the node is stopped and started

VARIABLES
    world,      \* the chosen world
    head,       \* head_block_id() of the state: a block, or <<>> at genesis
    base,       \* the number of the block the undo stack can go back to
    log,        \* the block log, a sequence of blocks
    fork,       \* the fork database
    pc,         \* "idle", "pop", "apply", "unwind", "restore", "closing", "down"
    sw,         \* the fork switch under way: [new, old, parent]
    disk        \* "clean", "dirty": state of a process that died,
                \* "torn": some indexes rewound and some not

vars == <<world, head, base, log, fork, pc, sw, disk>>

WorldOK(w) ==
    /\ w.blocks \subseteq Seq(Label) \ {<<>>}
    /\ \A b \in w.blocks : \A n \in 1 .. Num(b) : AncestorAt(b, n) \in w.blocks
    /\ w.invalid \subseteq w.blocks
    /\ w.broken \subseteq w.blocks
    /\ w.lib \in [w.blocks \cup {<<>>} -> Nat]
    /\ {w.again, w.early} \subseteq BOOLEAN
    /\ w.lib[<<>>] = 0
    /\ \A b \in w.blocks : w.lib[Previous(b)] <= w.lib[b] /\ w.lib[b] <= Num(b)

ASSUME WorldsAssumption == \A w \in Worlds : WorldOK(w)
ASSUME RestartsAssumption == Restarts \in BOOLEAN

NoSwitch == [new |-> <<>>, old |-> <<>>, parent |-> 0]

Init ==
    /\ world \in Worlds
    /\ head = <<>>
    /\ base = 0
    /\ log = <<>>
    /\ fork = EmptyForkDb
    /\ pc = "idle"
    /\ sw = NoSwitch
    /\ disk = "clean"

-----------------------------------------------------------------------------
\* apply_block() on top of the current head with fork database f.

Max(m, n) == IF m > n THEN m ELSE n

lib == world.lib

\* validate_block_header() wants the block to build on the head; everything
\* else that _apply_block() may refuse is in world.invalid.
BlockApplies(b) == Previous(b) = head /\ b \notin world.invalid

\* migrate_irreversible_state() is the last thing _apply_block() does, and it
\* throws before it writes anything.
LogPart(f, b) ==
    [i \in 1 .. (IF lib[b] > Len(log) THEN lib[b] - Len(log) ELSE 0) |->
        MainBranchBlock(f, Len(log) + i)]

CanMigrate(f, b) ==
    /\ f.head = <<>> \/ Num(f.head) = Num(b)
    /\ \A i \in DOMAIN LogPart(f, b) : LogPart(f, b)[i] # <<>>

\* Mutant: off by one at the wrong side.
MigratedTooSmall(f, b) == SetMaxSize(f, Num(b) - lib[b] - 1)

Migrated(f, b) == SetMaxSize(f, Num(b) - lib[b] + 1)

\* Mutant: nothing is committed.
MigrateWithoutCommit(f, b) ==
    /\ log' = log \o LogPart(f, b)
    /\ base' = base

\* The block log and the undo stack after the migration; committing forgets the
\* undo states up to the last irreversible block.
Migrate(f, b) ==
    /\ log' = log \o LogPart(f, b)
    /\ base' = Max(base, lib[b])

Applies(f, b) == BlockApplies(b) /\ CanMigrate(f, b)

\* The three ends of apply_block() inside its undo session.
ApplyOk(f, b) ==
    /\ Applies(f, b) /\ b \notin world.broken
    /\ Migrate(f, b)
    /\ head' = b

ApplyThrows(f, b) ==
    /\ ~Applies(f, b)
    /\ UNCHANGED <<head, base, log>>

\* Mutant: the session is taken to be there still.
ApplyThrowsLateUndone(f, b) ==
    /\ Applies(f, b) /\ b \in world.broken
    /\ Migrate(f, b)
    /\ head' = head

\* validate_invariants() throws after the migration: the session is undone if
\* there still is something to undo.
ApplyThrowsLate(f, b) ==
    /\ Applies(f, b) /\ b \in world.broken
    /\ Migrate(f, b)
    /\ head' = IF Num(b) > Max(base, lib[b]) THEN head ELSE b

-----------------------------------------------------------------------------
\* push_block()

\* Whether the caller hands this block to the database.
Delivered(b) ==
    /\ pc = "idle"
    /\ b \in world.blocks
    /\ world.again \/ b \notin fork.index
    /\ world.early \/ Num(b) = 1 \/ Previous(b) \in fork.index

\* fork_database::push_block() accepts it.
Accepted(b) == ~TooOld(fork, b) /\ ~Unlinkable(fork, b)

\* The fork database with the block: the item that was its head dies with it,
\* unless the index has it.
Pushed(b) == Settled(PushBlock(fork, b), {})

Done(f) ==
    /\ fork' = Settled(f, {})
    /\ pc' = "idle"
    /\ sw' = NoSwitch

\* The new head of the fork database builds on the state's head: the pushed
\* block is applied; when that throws it leaves the fork database.
PushOnHead(b) ==
  \E f \in {Pushed(b)} :
    /\ Delivered(b) /\ Accepted(b)
    /\ Previous(f.head) = head
    /\ \/ ApplyOk(f, b) /\ Done(Migrated(f, b))
       \/ ApplyThrows(f, b) /\ Done(Remove(f, {b}))
       \/ ApplyThrowsLate(f, b) /\ Done(Remove(Migrated(f, b), {b}))
    /\ UNCHANGED <<world, disk>>

\* Mutant: a branch that is longer by one block is only remembered, too.
PushOnBarelyLongerFork(b) ==
  \E f \in {Pushed(b)} :
    /\ Delivered(b) /\ Accepted(b)
    /\ Previous(f.head) # head
    /\ Num(f.head) <= Num(head) + 1
    /\ Done(f)
    /\ UNCHANGED <<world, head, base, log, disk>>

\* A block of a branch that is not longer: it is only remembered.
PushOnShorterFork(b) ==
  \E f \in {Pushed(b)} :
    /\ Delivered(b) /\ Accepted(b)
    /\ Previous(f.head) # head
    /\ Num(f.head) <= Num(head)
    /\ Done(f)
    /\ UNCHANGED <<world, head, base, log, disk>>

\* The branch of the new fork head is longer, but the two branches cannot be
\* followed back to a common parent: the push throws.
PushOnBrokenBranch(b) ==
  \E f \in {Pushed(b)} :
    /\ Delivered(b) /\ Accepted(b)
    /\ Previous(f.head) # head
    /\ Num(f.head) > Num(head)
    /\ ~\E n \in 0 .. Num(head) : BranchesFetched(f, f.head, head, n)
    /\ Done(f)
    /\ UNCHANGED <<world, head, base, log, disk>>

\* The branch is longer: the fork switch begins.
PushOnLongerFork(b) ==
  \E f \in {Pushed(b)} :
    /\ Delivered(b) /\ Accepted(b)
    /\ Previous(f.head) # head
    /\ Num(f.head) > Num(head)
    /\ \E n \in 0 .. Num(head) :
          /\ BranchesFetched(f, f.head, head, n)
          /\ sw' = [new |-> f.head, old |-> head, parent |-> n]
    /\ fork' = f
    /\ pc' = "pop"
    /\ UNCHANGED <<world, head, base, log, disk>>

\* The items the two branches of the switch keep alive.
Held == BranchOf(sw.new, sw.parent) \cup BranchOf(sw.old, sw.parent)

AtCommonParent == head = AncestorAt(sw.old, sw.parent)

\* fetch_block_by_id(): in the fork database or in the block log.
InLog(b) == Num(b) \in 1 .. Len(log) /\ log[Num(b)] = b

HeadIsFound == head \in fork.index \/ InLog(head)

\* Mutant: a block below the undo stack is popped as well.
pop_any_block ==
    /\ pc \in {"pop", "unwind"}
    /\ ~AtCommonParent
    /\ \/ /\ HeadIsFound /\ CanPop(fork)
          /\ fork' = Settled(PopBlock(fork, Held), Held)
          /\ head' = Previous(head)
          /\ UNCHANGED <<pc, sw>>
       \/ /\ ~(HeadIsFound /\ CanPop(fork))
          /\ Done(fork)
          /\ UNCHANGED head
    /\ UNCHANGED <<world, base, log, disk>>

\* pop_block(): the fork head steps back, then the state; undo() of an empty
\* undo stack does nothing.
pop_block ==
    /\ pc \in {"pop", "unwind"}
    /\ ~AtCommonParent
    /\ \/ /\ HeadIsFound /\ CanPop(fork)
          /\ fork' = Settled(PopBlock(fork, Held), Held)
          /\ head' = IF Num(head) > base THEN Previous(head) ELSE head
          /\ UNCHANGED <<pc, sw>>
       \/ /\ ~(HeadIsFound /\ CanPop(fork))
          /\ Done(fork)
          /\ UNCHANGED head
    /\ UNCHANGED <<world, base, log, disk>>

\* The next block of the new branch.  When it throws, it and the blocks after
\* it leave the fork database and the old branch is to be restored.
SwitchApply ==
    LET b == AncestorAt(sw.new, Num(head) + 1)
        f == SetHead(fork, Held, b)
        rest == BranchOf(sw.new, Num(b) - 1)
        fails(g) == /\ fork' = Settled(Remove(g, rest), Held)
                    /\ pc' = "unwind"
                    /\ UNCHANGED sw
    IN
    /\ pc = "apply" \/ (pc = "pop" /\ AtCommonParent)
    /\ \/ /\ ApplyOk(f, b)
          /\ IF b = sw.new THEN Done(Migrated(f, b))
             ELSE /\ fork' = Settled(Migrated(f, b), Held)
                  /\ pc' = "apply"
                  /\ UNCHANGED sw
       \/ ApplyThrows(f, b) /\ fails(f)
       \/ ApplyThrowsLate(f, b) /\ fails(Migrated(f, b))
    /\ UNCHANGED <<world, disk>>

\* Mutant: only the first block of the old branch comes back.
SwitchRestoreFirst ==
    LET b == AncestorAt(sw.old, Num(head) + 1)
        f == SetHead(fork, Held, b)
    IN
    /\ pc = "restore" \/ (pc = "unwind" /\ AtCommonParent)
    /\ \/ ApplyOk(f, b) /\ Done(Migrated(f, b))
       \/ ApplyThrows(f, b) /\ Done(f)
       \/ ApplyThrowsLate(f, b) /\ Done(Migrated(f, b))
    /\ UNCHANGED <<world, disk>>

\* The next block of the old branch; nothing catches what it throws.
SwitchRestore ==
    LET b == AncestorAt(sw.old, Num(head) + 1)
        f == SetHead(fork, Held, b)
    IN
    /\ pc = "restore" \/ (pc = "unwind" /\ AtCommonParent)
    /\ \/ /\ ApplyOk(f, b)
          /\ IF b = sw.old THEN Done(Migrated(f, b))
             ELSE /\ fork' = Settled(Migrated(f, b), Held)
                  /\ pc' = "restore"
                  /\ UNCHANGED sw
       \/ ApplyThrows(f, b) /\ Done(f)
       \/ ApplyThrowsLate(f, b) /\ Done(Migrated(f, b))
    /\ UNCHANGED <<world, disk>>

-----------------------------------------------------------------------------
\* Mutant: close() without undo_all().
CloseWithoutUndo ==
    /\ Restarts
    /\ pc = "idle"
    /\ disk' = "clean"
    /\ pc' = "closing"
    /\ UNCHANGED <<world, head, base, log, fork, sw>>

\* close(): undo_all() rewinds one index after the other, the one that holds
\* the head block first.
CloseBegin ==
    /\ Restarts
    /\ pc = "idle"
    /\ head' = AncestorAt(head, base)
    /\ disk' = IF Num(head) > base THEN "torn" ELSE "clean"
    /\ pc' = "closing"
    /\ UNCHANGED <<world, base, log, fork, sw>>

CloseEnd ==
    /\ pc = "closing"
    /\ disk' = "clean"
    /\ pc' = "down"
    /\ fork' = EmptyForkDb
    /\ UNCHANGED <<world, head, base, log, sw>>

\* The process dies: the fork database and the undo stack are gone, the state
\* keeps its reversible blocks.
Crash ==
    /\ Restarts
    /\ pc # "down"
    /\ disk' = IF disk = "torn" THEN "torn" ELSE "dirty"
    /\ pc' = "down"
    /\ fork' = EmptyForkDb
    /\ sw' = NoSwitch
    /\ UNCHANGED <<world, head, base, log>>

StateMatchesLog == head = <<>> \/ InLog(head)

\* open() of a state that does not match the block log throws and the program
\* exits.
Open ==
    /\ pc = "down"
    /\ StateMatchesLog
    /\ base' = Num(head)
    /\ fork' = IF head = <<>> THEN EmptyForkDb ELSE StartBlock(EmptyForkDb, head)
    /\ pc' = "idle"
    /\ UNCHANGED <<world, head, log, sw, disk>>

\* reindex(): wipe the state and apply the block log to it; an empty log is
\* refused after the state was wiped.
Reindex ==
    /\ pc = "down"
    /\ disk' = "clean"
    /\ \/ /\ log = <<>>
          /\ head' = <<>>
          /\ base' = 0
          /\ UNCHANGED <<fork, pc>>
       \/ /\ log # <<>>
          /\ \A i \in 1 .. Len(log) : log[i] = AncestorAt(log[Len(log)], i)
          /\ head' = log[Len(log)]
          /\ base' = Num(head')
          /\ fork' = StartBlock([EmptyForkDb EXCEPT !.maxSize = Num(head') - lib[head'] + 1],
                                head')
          /\ pc' = "idle"
    /\ UNCHANGED <<world, log, sw>>

push_block(b) ==
    \/ PushOnHead(b)
    \/ PushOnShorterFork(b)
    \/ PushOnBrokenBranch(b)
    \/ PushOnLongerFork(b)

Switch == pop_block \/ SwitchApply \/ SwitchRestore

Next ==
    \/ \E b \in world.blocks : push_block(b)
    \/ Switch
    \/ CloseBegin \/ CloseEnd \/ Crash \/ Open \/ Reindex

Spec == Init /\ [][Next]_vars

\* Peers offer every block again and again until it is taken, and a handler
\* that began goes on to its end.
AllBlocks == UNION {w.blocks : w \in Worlds}

Fairness ==
    /\ \A b \in AllBlocks : WF_vars(b \in world.blocks /\ push_block(b))
    /\ WF_vars(Switch)

FairSpec == Spec /\ Fairness

\* The same with a scheduler that never passes over a block that is worth
\* pushing whenever the node is idle.
StrongFairness ==
    /\ \A b \in AllBlocks : SF_vars(b \in world.blocks /\ push_block(b))
    /\ WF_vars(Switch)

StronglyFairSpec == Spec /\ StrongFairness

-----------------------------------------------------------------------------
Block == world.blocks
Running == pc \notin {"closing", "down"}

TypeOK ==
    /\ WorldOK(world)
    /\ head \in Block \cup {<<>>}
    /\ base \in Nat
    /\ log \in Seq(Block)
    /\ fork \in ForkDb(Block)
    /\ pc \in {"idle", "pop", "apply", "unwind", "restore", "closing", "down"}
    /\ sw \in [new : Block \cup {<<>>}, old : Block \cup {<<>>}, parent : Nat]
    /\ disk \in {"clean", "dirty", "torn"}

\* The block log is the beginning of the state's own chain: what was written as
\* irreversible (migrate_irreversible_state) is never undone by a fork switch,
\* a failed push, a restart or a crash, and no block of another branch is
\* written.
LogIsOwnChain ==
    /\ Len(log) <= Num(head)
    /\ \A i \in 1 .. Len(log) : log[i] = AncestorAt(head, i)

\* While the node runs, the blocks that can be undone are exactly those that
\* are not in the block log (migrate_irreversible_state commits what it wrote,
\* open() and reindex() start the undo stack at the log's end), and no undo,
\* failed switch or restart takes the state behind the log.
UndoReachesLog ==
    /\ Len(log) <= Num(head)
    /\ Running => base = Len(log)

\* A node that was closed in an orderly way can be opened again without a
\* replay (open(), "Chain state does not match block log").
CleanCloseReopens == (pc = "down" /\ disk = "clean") => StateMatchesLog

\* Every open state is the state of its head block: one that an interrupted
\* close() left half rewound is not used (database.cpp:92 "This should return
\* us to the state at the last irreversible block").
OpenStateIsWhole == pc \notin {"closing", "down"} => disk # "torn"

\* A failed fork switch brings the node back to the branch it was on, unless the
\* switch made a block above the common parent irreversible before it failed
\* (_push_block: the restoring of the good fork after an exception).
FailedSwitchRestores ==
    [][(pc \in {"unwind", "restore"} /\ pc' = "idle")
           => head' = sw.old \/ base > sw.parent]_vars

\* A failed push leaves the node on its branch in any case (database.cpp:524 "every
\* partial change is unwound").
PartialChangesUnwound ==
    [][(pc \in {"unwind", "restore"} /\ pc' = "idle") => head' = sw.old]_vars

AllValid == world.invalid \cup world.broken = {}

\* Fork choice: as long as no block is refused, between two pushes the head of the
\* fork database is the head of the state and no known block is higher, whatever
\* is pushed again and wherever the last irreversible block is (push_block walks
\* the one tree to find the branches of the other).
HeadIsForkChoice ==
    (AllValid /\ pc = "idle") =>
        fork.head = head /\ \A b \in fork.index : Num(b) <= Num(head)

\* A chain of blocks none of which is refused.
ValidChain(b) == \A n \in 1 .. Num(b) : AncestorAt(b, n) \notin world.invalid \cup world.broken

\* The node ends up on a longest valid chain and stays on one: no refused block
\* and no order of delivery keeps it away (fork_database.hpp:39-41 "will
\* maintain a linked tree of all blocks that branch from the start_block").
Converges ==
    <>[](\A b \in Block : ValidChain(b) => Num(b) <= Num(head))

\* The same when no block is refused: fork switches alone lose no branch.
ConvergesIfAllValid == AllValid => Converges

Abs == INSTANCE FinalChain WITH chain <- head, final <- Len(log)

\* A node keeps to one chain up to the last block of its log: fork switches,
\* given up or not, blocks that fail late, restarts and replays only ever
\* rewind what is not in the log (pop_block and undo() with migrate_irreversible_state).
Implements == Abs!Spec
================================================================================
