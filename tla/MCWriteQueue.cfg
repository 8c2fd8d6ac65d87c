SPECIFICATION FairSpec
CONSTANTS
    a1 = a1
    a2 = a2
    P2p = p2p
    Main = main
    None = none
    Api = {a1, a2}
    ShutdownOrder <- DefaultOrder
    HoldBounded = TRUE
INVARIANTS
    TypeOK
    WaitersAreServed
    StoppedIsUnused
PROPERTIES
    EveryCallerTold
    ShutdownEnds
CHECK_DEADLOCK FALSE
