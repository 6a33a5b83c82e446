---------------------------- MODULE FurnitureLock ----------------------------
(***************************************************************************)
(* What the selection of furniture promises to the players of a room: an   *)
(* exclusive lock on each piece, at most one piece per player, and only    *)
(* the owner of a piece moves it.  A player who takes another piece gives  *)
(* up the previous one in the same step.  A player who leaves does not     *)
(* give up anything: the piece stays locked on behalf of Departed.         *)
(***************************************************************************)
CONSTANTS Player, Furniture, Transform,
          Nobody,       \* the owner of an unlocked piece
          Departed      \* the owner of a piece whose player has left

VARIABLES owner, at

vars == <<owner, at>>

Init ==
    /\ owner = [f \in Furniture |-> Nobody]
    /\ at \in [Furniture -> Transform]

Acquire(p, f) ==
    /\ owner[f] = Nobody
    /\ owner' = [g \in Furniture |-> IF g = f THEN p
                                     ELSE IF owner[g] = p THEN Nobody
                                     ELSE owner[g]]
    /\ UNCHANGED at

Release(p, f) ==
    /\ owner[f] = p
    /\ owner' = [owner EXCEPT ![f] = Nobody]
    /\ UNCHANGED at

Abandon(p, f) ==
    /\ owner[f] = p
    /\ owner' = [owner EXCEPT ![f] = Departed]
    /\ UNCHANGED at

Move(p, f) ==
    /\ owner[f] = p
    /\ \E t \in Transform : at' = [at EXCEPT ![f] = t]
    /\ UNCHANGED owner

Next ==
    \E p \in Player, f \in Furniture :
        \/ Acquire(p, f)
        \/ Release(p, f)
        \/ Abandon(p, f)
        \/ Move(p, f)

Spec == Init /\ [][Next]_vars

=============================================================================
