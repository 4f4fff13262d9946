CONSTANTS
    Producer = {accepter, other}
    Consumer = {loop, worker}
    Waiting = {accepter, other, worker}
    QSize = 2
    Item = {a, b}
    Nobody = Nobody
SPECIFICATION FairSpec
INVARIANTS
    TypeOK
    SomeoneAwake
PROPERTIES
    RefinesQueue
    EveryItemQueued
