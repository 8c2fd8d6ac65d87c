SPECIFICATION Spec
CONSTANTS
    Blocks = 5
    LateBlocks = 4
    Lags = {0, 1, 2}
    Label <- Labels
    Worlds <- RestartWorlds
    DefaultMaxSize = 5
    Restarts = TRUE
INVARIANTS
    TypeOK
    LogIsOwnChain
    UndoReachesLog
    CleanCloseReopens
PROPERTIES
    Implements
CHECK_DEADLOCK FALSE
