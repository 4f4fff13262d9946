CONSTANTS
    Side = 3
    Ship = {3, 4, 5}
    ShipLength <- SmallShips
SPECIFICATION FairSpec
INVARIANTS
    MapArrives
    AnswersTrue
PROPERTIES
    GameEnds
    ImplementsBoard
CHECK_DEADLOCK FALSE
