SPECIFICATION Spec
CONSTANTS
    Blocks = 3
    LateBlocks = 2
    Lags = {0, 1, 2}
    Label <- Labels
    Worlds <- RestartWorlds
    DefaultMaxSize = 5
    Restarts = TRUE
INVARIANTS
    OpenStateIsWhole
CHECK_DEADLOCK FALSE
