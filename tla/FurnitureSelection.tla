-------------------------- MODULE FurnitureSelection --------------------------
(***************************************************************************)
(* The life of a selection lock across the network: players join and       *)
(* leave, clients select, deselect and move furniture optimistically, and  *)
(* the server handles their calls.                                         *)
(*                                                                         *)
(* SelectedFurniture of ADesktopPawn is not replicated: the server's copy  *)
(* of the pawn (serverSel) and the owning client's copy (clientSel) are    *)
(* two variables.  The pawn of a listen-server host has only one copy;     *)
(* Host names that player, and both variables then hold the same value.    *)
(***************************************************************************)
EXTENDS Integers, Sequences, StencilPool

CONSTANTS
    Player,         \* the players who may join the room
    Furniture,      \* the AFurnitureActors of the level
    Component,      \* what one call moves: the location, or the rotation
    Value,          \* the values of a location, and those of a rotation
    Host,           \* the listen-server's own player, or NoPlayer
    NoPlayer,       \* there is no host: a dedicated server
    NoFurniture,    \* nullptr
    MaxRequests,    \* bound: reliable calls of one player in flight
    MaxMoves        \* bound: unreliable moves of one player in flight

ASSUME SelectionAssumption == /\ NoFurniture \notin Furniture
                              /\ NoPlayer \notin Player
                              /\ Host \in Player \cup {NoPlayer}
                              /\ MaxRequests \in Nat
                              /\ MaxMoves \in Nat

VARIABLES
    joined,     \* the players whose pawn and player state exist on the server
    used,       \* AIoroomGameState::UsedStencilSlots
    stencil,    \* AIoroomPlayerState::StencilSlot of each player
    slot,       \* AFurnitureActor::SelectingStencilSlot of each piece
    at,         \* the server's location and rotation of each piece
    serverSel,  \* SelectedFurniture of each pawn, as the server holds it
    clientSel,  \* SelectedFurniture of each pawn, as its client holds it
    requests,   \* reliable calls in flight: a piece for Server_SelectFurniture,
                \* NoFurniture for Server_DeselectFurniture
    moves       \* unreliable Server_DragFurniture and Server_RotateFurniture
                \* calls in flight: "part" says which of the two it is and "to"
                \* is the argument.  "of" is the piece the client was moving,
                \* which the call does not carry.

serverVars == <<joined, used, stencil, slot, at, serverSel>>
clientVars == <<clientSel, requests, moves>>
vars == <<serverVars, clientVars>>

MaybeFurniture == Furniture \cup {NoFurniture}

Transform == [Component -> Value]
Move == [of : Furniture, part : Component, to : Value]

TypeOK ==
    /\ joined \in SUBSET Player
    /\ used \in [PoolIndex -> BOOLEAN]
    /\ stencil \in [Player -> StencilSlots \cup {0, NoStencilSlot}]
    /\ slot \in [Furniture -> StencilSlots \cup {0, NoStencilSlot}]
    /\ at \in [Furniture -> Transform]
    /\ serverSel \in [Player -> MaybeFurniture]
    /\ clientSel \in [Player -> MaybeFurniture]
    /\ requests \in [Player -> Seq(MaybeFurniture)]
    /\ moves \in [Player -> Seq(Move)]

Init ==
    /\ joined = {}
    /\ used = EmptyPool
    /\ stencil = [p \in Player |-> 0]
    /\ slot = [f \in Furniture |-> 0]
    /\ at \in [Furniture -> Transform]
    /\ serverSel = [p \in Player |-> NoFurniture]
    /\ clientSel = [p \in Player |-> NoFurniture]
    /\ requests = [p \in Player |-> <<>>]
    /\ moves = [p \in Player |-> <<>>]

-----------------------------------------------------------------------------
(* Joining and leaving                                                     *)

\* The player state begins play on the server: InitializePlayerColor takes a
\* slot from the pool, or -1 when none is left.  Nothing caps the number of
\* players, so a player joins all the same.
Join(p) ==
    /\ p \notin joined
    /\ joined' = joined \cup {p}
    /\ stencil' = [stencil EXCEPT ![p] = ReservedSlot(used)]
    /\ used' = ReserveStencilSlot(used)
    /\ UNCHANGED <<slot, at, serverSel, clientVars>>

\* The player state ends play: its slot goes back to the pool and the pawn is
\* destroyed with its calls in flight.  SelectingStencilSlot of the piece it
\* had selected is left as it is.  The room closes when the host leaves.
Leave(p) ==
    /\ p \in joined
    /\ p # Host
    /\ joined' = joined \ {p}
    /\ used' = ReleaseStencilSlot(used, stencil[p])
    /\ stencil' = [stencil EXCEPT ![p] = 0]
    /\ serverSel' = [serverSel EXCEPT ![p] = NoFurniture]
    /\ clientSel' = [clientSel EXCEPT ![p] = NoFurniture]
    /\ requests' = [requests EXCEPT ![p] = <<>>]
    /\ moves' = [moves EXCEPT ![p] = <<>>]
    /\ UNCHANGED <<slot, at>>

-----------------------------------------------------------------------------
(* Handlers of the server                                                  *)

\* Mutant: a lock with slot -1 does not count.
SelectableUnlessOutlined(f) == slot[f] <= 0

IsSelectableFurniture(f) == slot[f] = 0

\* OnDeselected on a piece, or on nothing.
OnDeselected(slots, f) ==
    IF f = NoFurniture THEN slots ELSE [slots EXCEPT ![f] = 0]

\* OnSelected: the lock is the slot number of the player who takes it.
OnSelected(slots, f, s) == [slots EXCEPT ![f] = s]

\* Mutant: the previous piece is deselected before the new one is checked.
DeselectBeforeCheck(p, f) ==
    IF f = NoFurniture \/ ~IsSelectableFurniture(f)
    THEN OnDeselected(slot, serverSel[p])
    ELSE OnSelected(OnDeselected(slot, serverSel[p]), f, stencil[p])

\* Mutant: the previous piece is not deselected.
SwapKeepsOldLock(p, f) ==
    IF f = NoFurniture
    THEN OnDeselected(slot, serverSel[p])
    ELSE IF IsSelectableFurniture(f) THEN OnSelected(slot, f, stencil[p]) ELSE slot

\* The slots after Server_SelectFurniture and after Server_DeselectFurniture,
\* when p asks for f and when p asks for NoFurniture.
SlotsAfter(p, f) ==
    IF f = NoFurniture
    THEN OnDeselected(slot, serverSel[p])
    ELSE IF ~IsSelectableFurniture(f)
    THEN slot
    ELSE OnSelected(OnDeselected(slot, serverSel[p]), f, stencil[p])

\* Mutant: Server_DeselectFurniture leaves SelectedFurniture as it is.
DeselectKeepsPointer(p, f) ==
    IF f = NoFurniture \/ ~IsSelectableFurniture(f) THEN serverSel[p] ELSE f

\* SelectedFurniture of p's pawn on the server after the same calls: it stays
\* when the piece asked for is locked.
SelectionAfter(p, f) ==
    IF f # NoFurniture /\ ~IsSelectableFurniture(f) THEN serverSel[p] ELSE f

ReceiveRequest(p) ==
    /\ requests[p] # <<>>
    /\ slot' = SlotsAfter(p, Head(requests[p]))
    /\ serverSel' = [serverSel EXCEPT ![p] = SelectionAfter(p, Head(requests[p]))]
    /\ requests' = [requests EXCEPT ![p] = Tail(@)]
    /\ UNCHANGED <<joined, used, stencil, at, clientSel, moves>>

\* Server_DragFurniture and Server_RotateFurniture move whatever the pawn has
\* selected on the server: the one its location, the other its rotation.
ReceiveMove(p) ==
    /\ moves[p] # <<>>
    /\ at' = IF serverSel[p] = NoFurniture
             THEN at
             ELSE [at EXCEPT ![serverSel[p]][Head(moves[p]).part] = Head(moves[p]).to]
    /\ moves' = [moves EXCEPT ![p] = Tail(@)]
    /\ UNCHANGED <<joined, used, stencil, slot, serverSel, clientSel, requests>>

\* The unreliable calls may be lost.  Nothing orders them with the reliable
\* ones, which may wait for a retransmission.
LoseMove(p) ==
    /\ moves[p] # <<>>
    /\ moves' = [moves EXCEPT ![p] = Tail(@)]
    /\ UNCHANGED <<serverVars, clientSel, requests>>

-----------------------------------------------------------------------------
(* The pawn of a remote client                                             *)

IsRemote(p) == p \in joined /\ p # Host

\* LeftClickingReleased over the piece that was pressed: the call is sent and
\* the selection is taken for granted, whoever holds the piece.
ClickFurniture(p, f) ==
    /\ IsRemote(p)
    /\ Len(requests[p]) < MaxRequests
    /\ requests' = [requests EXCEPT ![p] = Append(@, f)]
    /\ clientSel' = [clientSel EXCEPT ![p] = f]
    /\ UNCHANGED <<serverVars, moves>>

\* Mutant: the selection is dropped without a call to the server.
ClickNothingLocally(p) ==
    /\ IsRemote(p)
    /\ clientSel[p] # NoFurniture
    /\ clientSel' = [clientSel EXCEPT ![p] = NoFurniture]
    /\ UNCHANGED <<serverVars, requests, moves>>

\* LeftClickingReleased over anything else.
ClickNothing(p) ==
    /\ IsRemote(p)
    /\ clientSel[p] # NoFurniture
    /\ Len(requests[p]) < MaxRequests
    /\ requests' = [requests EXCEPT ![p] = Append(@, NoFurniture)]
    /\ clientSel' = [clientSel EXCEPT ![p] = NoFurniture]
    /\ UNCHANGED <<serverVars, moves>>

\* HandleDrag and NudgeSelectedFurniture move the location, HandleRotate the
\* rotation, which need not change by it.
MoveFurniture(p, c, t) ==
    /\ IsRemote(p)
    /\ clientSel[p] # NoFurniture
    /\ Len(moves[p]) < MaxMoves
    /\ moves' = [moves EXCEPT ![p] = Append(@, [of |-> clientSel[p], part |-> c, to |-> t])]
    /\ UNCHANGED <<serverVars, clientSel, requests>>

-----------------------------------------------------------------------------
(* The pawn of the listen-server host: the same functions, but a call to   *)
(* the server runs in place, on the same SelectedFurniture.                *)

HostClickFurniture(p, f) ==
    /\ p \in joined /\ p = Host
    /\ slot' = SlotsAfter(p, f)
    /\ serverSel' = [serverSel EXCEPT ![p] = f]
    /\ clientSel' = [clientSel EXCEPT ![p] = f]
    /\ UNCHANGED <<joined, used, stencil, at, requests, moves>>

\* Mutant: the host's deselection does not reach the server's handler.
HostForgetsLocally(p) ==
    /\ p \in joined /\ p = Host
    /\ clientSel[p] # NoFurniture
    /\ clientSel' = [clientSel EXCEPT ![p] = NoFurniture]
    /\ UNCHANGED <<serverVars, requests, moves>>

HostClickNothing(p) ==
    /\ p \in joined /\ p = Host
    /\ clientSel[p] # NoFurniture
    /\ slot' = SlotsAfter(p, NoFurniture)
    /\ serverSel' = [serverSel EXCEPT ![p] = NoFurniture]
    /\ clientSel' = [clientSel EXCEPT ![p] = NoFurniture]
    /\ UNCHANGED <<joined, used, stencil, at, requests, moves>>

HostMoveFurniture(p, c, t) ==
    /\ p \in joined /\ p = Host
    /\ clientSel[p] # NoFurniture
    /\ at' = [at EXCEPT ![clientSel[p]][c] = t]
    /\ UNCHANGED <<joined, used, stencil, slot, serverSel, clientVars>>

-----------------------------------------------------------------------------
Next ==
    \E p \in Player :
        \/ Join(p)
        \/ Leave(p)
        \/ ReceiveRequest(p)
        \/ ReceiveMove(p)
        \/ LoseMove(p)
        \/ ClickNothing(p)
        \/ HostClickNothing(p)
        \/ \E f \in Furniture : ClickFurniture(p, f) \/ HostClickFurniture(p, f)
        \/ \E c \in Component, t \in Value :
               MoveFurniture(p, c, t) \/ HostMoveFurniture(p, c, t)

\* A reliable call is retransmitted until it arrives.
Fairness == \A p \in Player : WF_vars(ReceiveRequest(p))

Spec == Init /\ [][Next]_vars /\ Fairness

-----------------------------------------------------------------------------
(* Properties                                                              *)

\* The pool and the players agree: a slot is marked as used exactly when one
\* connected player holds it, and no two connected players share a slot of
\* the pool.  Joins and departures in any order neither leak a slot nor hand
\* out one twice (ReserveStencilSlot, ReleaseStencilSlot).
PoolAgrees ==
    /\ \A i \in PoolIndex :
           used[i] <=> \E p \in joined : stencil[p] = i + MinStencilSlot
    /\ \A p, q \in joined :
           stencil[p] = stencil[q] /\ stencil[p] # NoStencilSlot => p = q

\* On the server no two pawns ever have the same piece selected: whatever the
\* order in which their calls arrive, the check of IsSelectableFurniture and
\* the assignment of the lock are one step (Server_SelectFurniture).
LockExclusive ==
    \A p, q \in Player :
        serverSel[p] = serverSel[q] /\ serverSel[p] # NoFurniture => p = q

\* The piece a pawn has selected on the server carries the stencil slot of
\* its player, so every client outlines it in the colour of who holds it.
LockMatchesSlot ==
    \A p \in Player :
        serverSel[p] # NoFurniture => /\ p \in joined
                                      /\ slot[serverSel[p]] = stencil[p]

\* The selection p's pawn will have on the server once the calls in flight
\* are handled, if none is refused.
FinalRequest(p) ==
    IF requests[p] = <<>> THEN serverSel[p] ELSE requests[p][Len(requests[p])]

\* No ghost lock: once a client has nothing selected and its calls have been
\* handled, the server holds nothing for it either, although its earlier
\* calls may have been refused or swapped one piece for another.
NoGhostLock ==
    \A p \in Player :
        clientSel[p] = NoFurniture => FinalRequest(p) = NoFurniture

\* A lock is never taken over.  It is given up by its holder, and only then
\* free for somebody else (IsSelectableFurniture in Server_SelectFurniture).
NoTakeoverStep ==
    \A f \in Furniture :
        slot[f] # 0 /\ slot'[f] # slot[f]
            => /\ slot'[f] = 0
               /\ \E p \in joined : serverSel[p] = f /\ serverSel'[p] # f

NoTakeover == [][NoTakeoverStep]_vars

\* A piece moves only while it is locked by the connected player who moves
\* it (Server_DragFurniture and Server_RotateFurniture).
MovedByHolderStep ==
    \A f \in Furniture :
        at'[f] # at[f]
            => \E p \in joined : serverSel[p] = f /\ slot[f] = stencil[p]

MovedByHolderOnly == [][MovedByHolderStep]_vars

\* A client that clicks on nothing eventually has nothing locked on the
\* server, unless it selects something else first or leaves.
DeselectionArrives ==
    \A p \in Player :
        clientSel[p] = NoFurniture
            ~> serverSel[p] = NoFurniture \/ clientSel[p] # NoFurniture

\* What p's client believes is what the server will have.
Believes(p) == FinalRequest(p) = clientSel[p]

\* A client is misled only by a refusal: its belief about its selection turns
\* wrong only when the server refuses a piece that is locked by another player
\* or by nobody any more.  From then on its drags move another piece, or none
\* (the assignment after Server_SelectFurniture in LeftClickingReleased).
MisledByRefusal ==
    [][\A p \in joined \cap joined' :
           Believes(p) /\ ~Believes(p)'
               => /\ requests[p] # <<>> /\ requests'[p] = Tail(requests[p])
                  /\ Head(requests[p]) \notin {NoFurniture, serverSel[p]}
                  /\ slot[Head(requests[p])] # 0]_vars

\* A piece wears the outline of p although p has not selected it.
Misattributed(f, p) ==
    p \in joined /\ slot[f] > 0 /\ slot[f] = stencil[p] /\ serverSel[p] # f

\* A wrong outline never comes from a selection, a swap or a refusal, only from
\* a slot that is given to a new player while a piece left locked by an earlier
\* one still carries it (EndPlay clears no lock).
MisattributedByJoin ==
    [][\A f \in Furniture, p \in Player :
           Misattributed(f, p)' /\ ~Misattributed(f, p) => p \notin joined]_vars
=============================================================================
