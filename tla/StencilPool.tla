----------------------------- MODULE StencilPool -----------------------------
(***************************************************************************)
(* The pool of stencil slots of AIoroomGameState: one flag per slot, the   *)
(* slot number being the index of the flag plus MinStencilSlot.            *)
(***************************************************************************)
EXTENDS Integers

CONSTANT MaxPlayers     \* the number of slots (10 in the shipped game)

ASSUME MaxPlayersAssumption == MaxPlayers \in Nat

MinStencilSlot == 1

PoolIndex == 0 .. MaxPlayers - 1

StencilSlots == MinStencilSlot .. MaxPlayers

\* What ReserveStencilSlot returns once every flag is set.
NoStencilSlot == -1

\* UsedStencilSlots.Init(false, MaxPlayers)
EmptyPool == [i \in PoolIndex |-> FALSE]

FreeIndices(used) == {i \in PoolIndex : ~used[i]}

\* TArray::IndexOfByKey returns the first match.
FirstFree(used) ==
    CHOOSE i \in FreeIndices(used) : \A j \in FreeIndices(used) : i <= j

\* The value ReserveStencilSlot returns ...
ReservedSlot(used) ==
    IF FreeIndices(used) = {} THEN NoStencilSlot
                              ELSE FirstFree(used) + MinStencilSlot

\* ... and what it leaves in the pool.
ReserveStencilSlot(used) ==
    IF FreeIndices(used) = {} THEN used
                              ELSE [used EXCEPT ![FirstFree(used)] = TRUE]

\* Mutant: the slot number is taken for the index.
ReleaseAtSlotNumber(used, slot) == [used EXCEPT ![slot] = FALSE]

\* Mutant: the slot is never given back.
ReleaseNothing(used, slot) == used

\* EXCEPT leaves a function alone outside its domain: the IsValidIndex guard.
ReleaseStencilSlot(used, slot) ==
    [used EXCEPT ![slot - MinStencilSlot] = FALSE]
=============================================================================
