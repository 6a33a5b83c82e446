\* One client that swaps one piece for another while its moves are in flight.
CONSTANTS
    Player = {p1}
    Furniture = {f1, f2}
    Component = {location}
    Value = {v1, v2}
    MaxPlayers = 1
    MaxRequests = 2
    MaxMoves = 2
    Host = NoPlayer
    NoPlayer = NoPlayer
    NoFurniture = NoFurniture
    NoUpdate = NoUpdate
SYMMETRY PieceSymmetry
SPECIFICATION ViewSpec
INVARIANTS
    AgreeUnlessStray
