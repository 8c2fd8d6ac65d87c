SPECIFICATION Spec
CONSTANTS
    a = a
    b = b
    Block = {a, b}
    InitialLog <- TwoBlocks
    MaxBlocks = 5
INVARIANTS
    TypeOK
    IndexAndHeadMatchLog
    FlushedBlocksSurvive
