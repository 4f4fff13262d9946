CONSTANTS
    Capacity = 7
    MaxBytes = 12
    Byte <- Bytes
    PacketSize = {1, 2, 3}
    MaxPosted = 1
SPECIFICATION FairSendSpec
CHECK_DEADLOCK FALSE
INVARIANTS
    SendTypeOK
    InOrder
    NothingLost
PROPERTY AllSent
