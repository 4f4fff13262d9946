CONSTANTS
    Capacity = 6
    Byte = {x, y}
    MaxChunk = 3
SPECIFICATION Spec
INVARIANTS
    TypeOK
    RegionsApart
    HalfCapacity
    ReceiveIntoFreeSpace
PROPERTY RefinesStream
