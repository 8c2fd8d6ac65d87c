SPECIFICATION Spec
CONSTANTS
    pay = pay
    spend = spend
    other = other
    vote = vote
    Tx = {pay, spend, other, vote}
    Needs <- Uses
    Conflicts <- Excludes
    Expiration <- Expires
    MaxAhead = 3
    MaxTime = 4
    MaxBlocks = 3
    MaxBlockTxs = 2
    MaxPending = 3
INVARIANTS
    TypeOK
    NoTwice
    SessionIsPending
    OwedIsKept
CHECK_DEADLOCK FALSE
