CONSTANTS
    Capacity = 5
    MaxBytes = 4
    Byte <- Bytes
    PacketSize = {1, 2}
    MaxPosted = 2
SPECIFICATION SendSpec
CHECK_DEADLOCK FALSE
INVARIANT NothingLost
