----------------------- MODULE MCFurnitureReplication -----------------------
(* FurnitureReplication for TLC.  The pieces, their components and the     *)
(* values are interchangeable, and so are the players but for the host.    *)
EXTENDS FurnitureReplication, TLC

PieceSymmetry ==
    Permutations(Furniture) \cup Permutations(Component) \cup Permutations(Value)
GuestSymmetry == PieceSymmetry \cup Permutations(Player \ {Host})
=============================================================================
