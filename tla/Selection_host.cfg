\* A listen server: p1 plays in the process of the server.  Weak fairness of the
\* reliable calls; no symmetry, because of the liveness property.
CONSTANTS
    Player = {p1, p2}
    Furniture = {f1, f2}
    Component = {location}
    Value = {v1, v2}
    Host = p1
    NoPlayer = NoPlayer
    NoFurniture = NoFurniture
    Nobody = Nobody
    Departed = Departed
    MaxPlayers = 2
    MaxRequests = 2
    MaxMoves = 1
SPECIFICATION Spec
INVARIANTS
    PoolAgrees
    NoGhostLock
PROPERTIES
    DeselectionArrives
