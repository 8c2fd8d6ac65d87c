---------------------------- MODULE MCNodeSync ----------------------------
EXTENDS NodeSync, TLC

CONSTANTS b1, b2, b3, c2, p1, p2

MCParent == b1 :> None @@ b2 :> b1 @@ b3 :> b2 @@ c2 :> b1

\* The chains of the peers do not change
Static(ofP, ofQ, own, refused, n) ==
    [first |-> p1 :> ofP @@ p2 :> ofQ, last |-> p1 :> ofP @@ p2 :> ofQ,
     own |-> own, refused |-> refused, losses |-> n]

\* or both peers have block 1, as we do, and grow
Growing(ofP, ofQ, refused, n) ==
    [Static(b1, b1, b1, refused, n) EXCEPT !.last = p1 :> ofP @@ p2 :> ofQ]

MCWorlds == {Static(b3, b2, b1, {b3}, 0), Static(b2, b2, b1, {}, 1),
             Growing(b2, b2, {}, 0), Growing(c2, b1, {c2}, 1)}
MCStatic == {Static(b3, b3, None, {}, 0)}
MCGrowing == {Growing(b3, c2, {}, 0)}
=============================================================================
