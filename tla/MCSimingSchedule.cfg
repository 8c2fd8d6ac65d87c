SPECIFICATION Spec
CONSTANTS
    Simings <- MCSimings
    InitSiming = 1
    MaxSimings = 4
    StartAdoring = 6
    BlocksPerDay = 5
    MaxUndoHistory = 12
    Adores <- MCAdores
    Silent <- MCSilent
    Orders <- MCOrders
    Groups <- MCGroups
    MaxBlocks = 16
    MaxMissed = 3
    MaxSlips = 1
    MaxChanges = 3
INVARIANT TypeOK
INVARIANT FinalityLag
INVARIANT SomeoneCanSign
PROPERTY IrreversibleHasQuorum
CHECK_DEADLOCK FALSE
