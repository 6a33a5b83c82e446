------------------------- MODULE SelectionRefinement -------------------------
(***************************************************************************)
(* Without a listen-server host, FurnitureSelection implements the         *)
(* exclusive lock of FurnitureLock.                                        *)
(***************************************************************************)
EXTENDS FurnitureSelection

CONSTANTS Nobody, Departed

ASSUME OwnersAssumption == /\ Nobody \notin Player
                           /\ Departed \notin Player
                           /\ Nobody # Departed

\* The owner of a piece: the player whose pawn has it selected on the server.
\* A piece that is locked although no pawn has it selected was left behind by
\* a player who departed.
Owner ==
    [f \in Furniture |->
        IF slot[f] = 0 THEN Nobody
        ELSE IF \E p \in Player : serverSel[p] = f
        THEN CHOOSE p \in Player : serverSel[p] = f
        ELSE Departed]

Lock == INSTANCE FurnitureLock WITH owner <- Owner

\* Selecting, deselecting, leaving and moving furniture through the network
\* is the exclusive lock of FurnitureLock: every server step acquires, swaps,
\* releases or abandons one lock, or moves a piece on behalf of its owner.
ImplementsLock == Lock!Spec
=============================================================================
