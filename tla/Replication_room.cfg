\* A listen-server host and a client share a piece, its location and its rotation,
\* and the one slot of the pool.
CONSTANTS
    Player = {h, p1}
    Furniture = {f1}
    Component = {location, rotation}
    Value = {v1, v2}
    MaxPlayers = 1
    MaxRequests = 2
    MaxMoves = 2
    Host = h
    NoPlayer = NoPlayer
    NoFurniture = NoFurniture
    NoUpdate = NoUpdate
SYMMETRY GuestSymmetry
SPECIFICATION ViewSpec
INVARIANTS
    PoolAgrees
    AgreeUnlessStray
