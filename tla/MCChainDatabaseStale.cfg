SPECIFICATION StronglyFairSpec
CONSTANTS
    Blocks = 6
    LateBlocks = 6
    Lags = {0, 1, 2}
    Label <- Labels
    Worlds <- ForkWorlds
    DefaultMaxSize = 5
    Restarts = FALSE
PROPERTIES
    Converges
CHECK_DEADLOCK FALSE
