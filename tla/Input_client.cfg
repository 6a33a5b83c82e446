\* One client with two pieces in reach.
CONSTANTS
    Furniture = {f1, f2}
    NoFurniture = NoFurniture
SYMMETRY FurnitureSymmetry
SPECIFICATION Spec
INVARIANTS
    GesturesFollowButtons
    GesturesOnSelection
    HoverIsCurrent
PROPERTIES
    ServerIsTold
    HiddenByDrag
