------------------------------ MODULE ForkDatabase ------------------------------
(****************************************************************************)
(* The tree of recent blocks (libraries/chain/fork_database.cpp) as values  *)
(* and operators on them.                                                   *)
(*                                                                          *)
(* A block id commits to the block's whole ancestry, so a block IS its path *)
(* from genesis: a nonempty sequence, its number is the length, its parent  *)
(* the sequence without the last element.  <<>> is the zero id.             *)
(*                                                                          *)
(* A fork database is a record:                                             *)
(*   index       the blocks found by id (_index);                           *)
(*   linked      the items whose weak pointer to the previous item is alive *)
(*               (items: the index, the head, the branches a caller holds); *)
(*   head        _head, <<>> when it is null.  remove() and set_max_size()  *)
(*               may take the head's block out of the index;                *)
(*   headLinked  whether the head item's own pointer to its parent is alive *)
(*               (the head need not be the item the index has for that id); *)
(*   maxSize     _max_size.                                                 *)
(****************************************************************************)
EXTENDS Integers, Sequences

CONSTANT DefaultMaxSize     \* _max_size in a new process (1024)

ASSUME DefaultMaxSizeAssumption == DefaultMaxSize \in Nat \ {0}

Num(b) == Len(b)
Previous(b) == SubSeq(b, 1, Len(b) - 1)
AncestorAt(b, n) == SubSeq(b, 1, n)

ForkDb(blocks) ==
    [index : SUBSET blocks, linked : SUBSET blocks, head : blocks \cup {<<>>},
     headLinked : BOOLEAN, maxSize : Nat]

EmptyForkDb ==
    [index |-> {}, linked |-> {}, head |-> <<>>, headLinked |-> FALSE,
     maxSize |-> DefaultMaxSize]

\* start_block(): an item without a parent becomes the head.
StartBlock(f, b) ==
    [f EXCEPT !.index = @ \cup {b}, !.head = b, !.headLinked = FALSE]

\* Items die when nothing refers to them any more, and with an item the weak
\* pointers to it.  held: the items the caller's branches keep alive.
Settled(f, held) ==
    LET items == f.index \cup held \cup {f.head} IN
    [f EXCEPT
        !.linked = {b \in @ : b \in items /\ Previous(b) \in items},
        !.headLinked = @ /\ Previous(f.head) \in items]

\* The oldest number that is still accepted, minus one.
Horizon(f) == IF Num(f.head) > f.maxSize THEN Num(f.head) - f.maxSize ELSE 0

TooOld(f, b) == f.head # <<>> /\ Num(b) <= Horizon(f)
Unlinkable(f, b) == f.head # <<>> /\ Num(b) > 1 /\ Previous(b) \notin f.index

\* Mutant: a block as high as the head takes over.
PushBlockTies(f, b) ==
    LET links == f.head # <<>> /\ Num(b) > 1
        wins == f.head = <<>> \/ Num(b) >= Num(f.head)
    IN  [f EXCEPT
            !.index = @ \cup {b},
            !.linked = IF links /\ b \notin f.index THEN @ \cup {b} ELSE @,
            !.head = IF wins THEN b ELSE @,
            !.headLinked = IF wins THEN links ELSE @]

\* Mutant: only a child of the head takes over.
PushBlockOnHeadOnly(f, b) ==
    LET links == f.head # <<>> /\ Num(b) > 1
        wins == f.head = <<>> \/ Previous(b) = f.head
    IN  [f EXCEPT
            !.index = @ \cup {b},
            !.linked = IF links /\ b \notin f.index THEN @ \cup {b} ELSE @,
            !.head = IF wins THEN b ELSE @,
            !.headLinked = IF wins THEN links ELSE @]

\* _push_block(): a block that is known already is not inserted again, but its
\* new item may become the head.
PushBlock(f, b) ==
    LET links == f.head # <<>> /\ Num(b) > 1
        wins == f.head = <<>> \/ Num(b) > Num(f.head)
    IN  [f EXCEPT
            !.index = @ \cup {b},
            !.linked = IF links /\ b \notin f.index THEN @ \cup {b} ELSE @,
            !.head = IF wins THEN b ELSE @,
            !.headLinked = IF wins THEN links ELSE @]

\* The item found by walking from the index or from a held branch, and whether
\* its parent is alive.
IsLinked(f, held, b) ==
    \/ b \in f.index \cup held /\ b \in f.linked
    \/ b \notin f.index \cup held /\ b = f.head /\ f.headLinked

SetHead(f, held, b) == [f EXCEPT !.head = b, !.headLinked = IsLinked(f, held, b)]

CanPop(f) == f.head # <<>> /\ f.headLinked

PopBlock(f, held) == SetHead(f, held, Previous(f.head))

Remove(f, bs) == [f EXCEPT !.index = @ \ bs]

SetMaxSize(f, s) ==
    LET sized == [f EXCEPT !.maxSize = s]
    IN  IF f.head = <<>> THEN sized
        ELSE [sized EXCEPT !.index = {b \in @ : Num(b) >= Horizon(sized)}]

\* fetch_branch_from() walks both branches back to items with the same
\* previous id: the number of that common parent.  When one block descends from
\* the other, the older block itself is the last item of both branches.
IsCommonParent(a, b, n) ==
    /\ n < Len(a) /\ n < Len(b)
    /\ AncestorAt(a, n) = AncestorAt(b, n)
    /\ \A m \in n + 1 .. Len(a) :
          m < Len(a) /\ m < Len(b) => AncestorAt(a, m) # AncestorAt(b, m)

BranchOf(a, n) == {AncestorAt(a, m) : m \in n + 1 .. Len(a)}

\* Every step of the two walks but the last finds its parent alive.
BranchesFetched(f, a, b, n) ==
    /\ IsCommonParent(a, b, n)
    /\ a \in f.index
    /\ b \in f.index
    /\ \A c \in BranchOf(a, n + 1) \cup BranchOf(b, n + 1) : IsLinked(f, {}, c)

\* Mutant: any block of that number.
AnyBlock(f, n) ==
    LET candidates == {b \in f.index : Num(b) = n}
    IN  IF candidates = {} THEN <<>> ELSE CHOOSE b \in candidates : TRUE

\* fetch_block_on_main_branch_by_number(): the only block of that number, or
\* the one met on the way back from the head; <<>> when there is none.
MainBranchBlock(f, n) ==
    LET candidates == {b \in f.index : Num(b) = n}
        reached == /\ n <= Num(f.head)
                   /\ \A m \in n + 1 .. Num(f.head) :
                        IF m = Num(f.head) THEN f.headLinked
                        ELSE IsLinked(f, {}, AncestorAt(f.head, m))
    IN  IF candidates = {} THEN <<>>
        ELSE IF \A c, d \in candidates : c = d THEN CHOOSE b \in candidates : TRUE
        ELSE IF reached THEN AncestorAt(f.head, n) ELSE <<>>
================================================================================
