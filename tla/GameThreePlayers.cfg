CONSTANTS
    c1 = c1
    c2 = c2
    c3 = c3
    cruiser = cruiser
    Client = {c1, c2, c3}
    Width = 1
    Height = 1
    Ship = {cruiser}
    ShipLength <- OneShip
    Empty = Empty
    MaxGames = 1
    SerialLogin = FALSE
    MayLeave = {c1, c2, c3}
    LingerFails = {c1, c2, c3}
SPECIFICATION Spec
SYMMETRY Twins
INVARIANTS
    ListsAgree
