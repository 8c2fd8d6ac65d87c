SPECIFICATION Spec
CONSTANTS
    a = a
    b = b
    Block = {a, b}
    InitialLog <- NoBlocks
    MaxBlocks = 5
INVARIANT IndexAndHeadMatchLog
