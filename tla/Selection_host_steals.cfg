\* A listen server whose host clicks on a piece somebody else holds.
CONSTANTS
    Player = {p1, p2}
    Furniture = {f1, f2}
    Component = {location}
    Value = {v1, v2}
    Host = p1
    NoPlayer = NoPlayer
    NoFurniture = NoFurniture
    Nobody = Nobody
    Departed = Departed
    MaxPlayers = 2
    MaxRequests = 1
    MaxMoves = 1
SPECIFICATION Spec
INVARIANTS
    LockMatchesSlot
