\* Without a run: a failed switch that has made a block irreversible is not undone.
SPECIFICATION Spec
CONSTANTS
    Blocks = 1
    LateBlocks = 1
    Lags = {0}
    Label <- StrandedLabels
    Worlds <- StrandedWorlds
    DefaultMaxSize = 8
    Restarts = FALSE
PROPERTIES
    PartialChangesUnwound
CHECK_DEADLOCK FALSE
