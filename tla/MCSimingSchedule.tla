---------------------------- MODULE MCSimingSchedule ----------------------------
EXTENDS SimingSchedule

MCSimings == 1 .. 6
MCAdores == 0 .. 1
MCSilent == {{}, {2}, 2 .. 6}
MCGroups == {2 .. 6, {5, 6}, {2, 3, 4}}

\* Two orders of all simings, and so of those that are elected.
MCOrders ==
    {SelectSeq(o, LAMBDA w : w \in S) :
        o \in {<<1, 2, 3, 4, 5, 6>>, <<4, 2, 5, 1, 6, 3>>}, S \in SUBSET MCSimings}
================================================================================
