CONSTANTS
    MaxDevices = 4
    MaxFaults = 3
    MaxMessages = 2
SPECIFICATION FairDisplaySpec
INVARIANTS
    OneDevice
    OnlyBrushesForgotten
PROPERTY Repainted
CHECK_DEADLOCK FALSE
