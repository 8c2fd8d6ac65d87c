SPECIFICATION Spec
CONSTANTS
    Blocks = 5
    LateBlocks = 4
    Lags = {0, 1, 2}
    Label <- Labels
    Worlds <- SelfFinalWorlds
    DefaultMaxSize = 5
    Restarts = FALSE
INVARIANTS
    LogIsOwnChain
CHECK_DEADLOCK FALSE
