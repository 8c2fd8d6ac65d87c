SPECIFICATION FairSpec
CONSTANTS
    Blocks = 5
    LateBlocks = 4
    Lags = {0, 1, 2}
    Label <- Labels
    Worlds <- HonestWorlds
    DefaultMaxSize = 5
    Restarts = FALSE
INVARIANT HeadIsForkChoice
PROPERTIES
    FailedSwitchRestores
    ConvergesIfAllValid
CHECK_DEADLOCK FALSE
