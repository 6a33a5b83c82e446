\* A dedicated server: two players, two pieces, two reliable calls and
\* one move in flight per player.  There is one slot, so that one of two players
\* in the room has slot -1.
CONSTANTS
    Player = {p1, p2}
    Furniture = {f1, f2}
    Component = {location}
    Value = {v1, v2}
    Host = NoPlayer
    NoPlayer = NoPlayer
    NoFurniture = NoFurniture
    Nobody = Nobody
    Departed = Departed
    MaxPlayers = 1
    MaxRequests = 2
    MaxMoves = 1
SYMMETRY RemoteSymmetry
SPECIFICATION Spec
INVARIANTS
    LockExclusive
    LockMatchesSlot
PROPERTIES
    MisledByRefusal
    MisattributedByJoin
    ImplementsLock
