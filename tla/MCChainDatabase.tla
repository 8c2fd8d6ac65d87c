---------------------------- MODULE MCChainDatabase ----------------------------
EXTENDS ChainDatabase

CONSTANTS
    Blocks,         \* how many blocks exist
    LateBlocks,     \* how many exist when one may be refused late
    Lags            \* distances of the last irreversible block from the head

Labels == 1 .. Blocks

\* Every tree of the blocks 1 .. Blocks in which a block is younger than its
\* parent; 0 is genesis.
Parents(n) == {p \in [1 .. n -> 0 .. n - 1] : \A i \in 1 .. n : p[i] < i}

PathsOf(p) ==
    LET path[i \in DOMAIN p] ==
            IF p[i] = 0 THEN <<i>> ELSE Append(path[p[i]], i)
    IN  {path[i] : i \in DOMAIN p}

Trees(n) == {PathsOf(p) : p \in Parents(n)}

\* The last irreversible block follows the head at a distance, or stays at
\* genesis until one block makes everything below it irreversible.
LibOf(bs) ==
    {[b \in bs \cup {<<>>} |-> Max(0, Len(b) - lag)] : lag \in Lags}
    \cup
    {[b \in bs \cup {<<>>} |->
        IF Len(b) >= Len(j) /\ AncestorAt(b, Len(j)) = j THEN Len(j) - 1 ELSE 0] : j \in bs}

\* The irreversible blocks of any two valid branches agree: simings that
\* confirmed one branch have not confirmed a conflicting one.
Agreeing(w) ==
    \A a, b \in w.blocks \ w.invalid :
        LET n == IF w.lib[a] < w.lib[b] THEN w.lib[a] ELSE w.lib[b]
        IN  AncestorAt(a, n) = AncestorAt(b, n)

AtMostOne(bs) == {{}} \cup {{b} : b \in bs}

\* n blocks, all valid, pushed again and again.
ValidWorlds(n) ==
    UNION {
        [blocks : {bs}, invalid : {{}}, broken : {{}}, lib : LibOf(bs),
         again : {TRUE}, early : {FALSE}] : bs \in Trees(n)}

\* n blocks of which _apply_block() may refuse one.
RefusingWorlds(n, again) ==
    UNION {
        [blocks : {bs}, invalid : AtMostOne(bs), broken : {{}}, lib : LibOf(bs),
         again : {again}, early : {FALSE}] : bs \in Trees(n)}

\* n blocks in any order, of which _apply_block() and validate_invariants() may
\* refuse one each.
LateWorlds(n) ==
    UNION {
        [blocks : {bs}, invalid : AtMostOne(bs), broken : AtMostOne(bs), lib : LibOf(bs),
         again : {FALSE}, early : {TRUE}] : bs \in Trees(n)}

RestartWorlds ==
    {w \in RefusingWorlds(Blocks, FALSE) \cup LateWorlds(LateBlocks) : Agreeing(w)}

RedeliveryWorlds == {w \in RefusingWorlds(Blocks, TRUE) : Agreeing(w)}

\* The simings that do not confirm a block are too few to build a branch
\* without it as high as the block that makes it irreversible.
MinorityStaysLow(w) ==
    \A a, b \in w.blocks \ w.invalid :
        LET n == w.lib[a]
        IN  (n > w.lib[Previous(a)] /\ Num(b) >= n /\ AncestorAt(b, n) # AncestorAt(a, n))
                => Num(b) < Num(a)

HonestWorlds ==
    {w \in ValidWorlds(Blocks) \cup RefusingWorlds(Blocks, FALSE) :
        Agreeing(w) /\ MinorityStaysLow(w)}

\* The same, of blocks none of which is refused and some are pushed again.
MajorityWorlds == {w \in ValidWorlds(Blocks) : MinorityStaysLow(w)}

\* Two branches over one root, of which the longer is valid and some block of
\* the shorter may be refused; nothing is irreversible yet.
ForkWorlds ==
    LET main == {<<1>>, <<1, 2>>, <<1, 2, 4>>}
        other == {<<1, 3>>, <<1, 3, 5>>, <<1, 3, 5, 6>>}
    IN  [blocks : {main \cup other}, invalid : {{}, {<<1, 2>>}, {<<1, 2, 4>>}}, broken : {{}},
         lib : {[b \in main \cup other \cup {<<>>} |-> 0]}, again : {TRUE}, early : {FALSE}]

\* Every block is irreversible at once; a branch is refused, and later one of two
\* children of the only valid block.
SelfFinalWorlds ==
    LET refused == {<<2>>, <<2, 3>>, <<1, 4>>}
        bs == refused \cup {<<1>>, <<1, 5>>}
    IN  [blocks : {bs}, invalid : {refused}, broken : {{}},
         lib : {[b \in bs \cup {<<>>} |-> Len(b)]}, again : {FALSE}, early : {FALSE}]

\* Twelve blocks for the fifth of one branch to make its ancestors irreversible in the
\* middle of a switch to that branch. <<1, 3>> is refused when its branch overtakes;
\* its descendants stay known, and blocks that follow them keep the head of the fork
\* database there. When the other branch is the highest again, several blocks of it
\* are applied at once, and the last is refused.
StrandedLabels == 1 .. 12

StrandedWorlds ==
    LET tip == <<1, 2, 5, 9, 10, 11>>
        main == {AncestorAt(tip, n) : n \in 1 .. 5}
        side == {<<1, 3>>, <<1, 3, 4>>, <<1, 3, 6>>, <<1, 3, 4, 7>>, <<1, 3, 6, 8>>,
                 <<1, 3, 6, 8, 12>>}
        bs == main \cup side \cup {tip}
    IN  [blocks : {bs}, invalid : {side \cup {tip}}, broken : {{}},
         lib : {[b \in bs \cup {<<>>} |-> IF Len(b) >= 5 /\ b \notin side THEN 4 ELSE 0]},
         again : {FALSE}, early : {FALSE}]
================================================================================
