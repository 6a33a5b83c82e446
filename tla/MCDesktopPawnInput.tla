-------------------------- MODULE MCDesktopPawnInput --------------------------
(* DesktopPawnInput for TLC.                                               *)
EXTENDS DesktopPawnInput, TLC

FurnitureSymmetry == Permutations(Furniture)
=============================================================================
