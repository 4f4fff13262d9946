CONSTANTS
    Capacity = 32
    Header = 2
    Size <- Sizes
    Byte <- Bytes
    MaxAttacks = 2
    MaxGames = 3
SPECIFICATION FairSpec
INVARIANTS
    HandledWhole
    SessionLasts
    InStep
PROPERTY MatchEnds
CHECK_DEADLOCK FALSE
