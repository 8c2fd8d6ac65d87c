\* Without a run: after a restart the head need not be the fork choice.
SPECIFICATION Spec
CONSTANTS
    Blocks = 6
    LateBlocks = 1
    Lags = {0, 1, 2}
    Label <- Labels
    Worlds <- MajorityWorlds
    DefaultMaxSize = 5
    Restarts = TRUE
INVARIANTS
    HeadIsForkChoice
CHECK_DEADLOCK FALSE
