CONSTANTS
    Handle = {1, 2}
    Chunk = 2
    MaxArrivals = 3
    MaxPosted = 1
    SerialLogin = TRUE
    Reuse = TRUE
    LingerFails = TRUE
SPECIFICATION FairSpec
INVARIANTS
    OperationsCounted
    PoolIntact
    ListSound
    OneOwner
    Listening
    UniquePlayerNumbers
PROPERTY ListedCollected
