CONSTANTS
    c1 = c1
    c2 = c2
    c3 = c3
    cruiser = cruiser
    Client = {c1, c2}
    Width = 2
    Height = 1
    Ship = {cruiser}
    ShipLength <- OneShip
    Empty = Empty
    MaxGames = 2
    SerialLogin = TRUE
    MayLeave = {c1}
    LingerFails = {c1, c2}
SPECIFICATION FairSpec
INVARIANTS
    OneTurn
    ViewsAgree
    TurnsCountAttacks
    ScoreAgrees
    BacklogFits
    NoSurprise
PROPERTIES
    MatchCompletes
    SurvivorTold
