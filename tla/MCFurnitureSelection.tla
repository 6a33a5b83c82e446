------------------------- MODULE MCFurnitureSelection -------------------------
(* FurnitureSelection and its refinement for TLC.                          *)
EXTENDS SelectionRefinement, TLC

\* Players are interchangeable as long as none of them is the host.
RemoteSymmetry == Permutations(Player) \cup Permutations(Furniture)
=============================================================================
