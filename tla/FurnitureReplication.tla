-------------------------- MODULE FurnitureReplication --------------------------
(***************************************************************************)
(* What the players see of the furniture: FurnitureSelection, together     *)
(* with the replicated movement that carries the server's transforms to    *)
(* the clients and the moves a client makes on its own copy before the     *)
(* server has heard of them.                                               *)
(*                                                                         *)
(* The server compares each piece with what it compared last, and sends    *)
(* location and rotation to every client when either differs, whatever the *)
(* clients have done to their copies.  A lost update is sent again, with   *)
(* the latest values.                                                      *)
(***************************************************************************)
EXTENDS FurnitureSelection

CONSTANT NoUpdate

ASSUME NoUpdateAssumption == NoUpdate \notin Transform

VARIABLES
    shadow,     \* the transform each piece had when it was compared last
    update,     \* the update of each piece in flight to each client
    shownAt,    \* where each client shows each piece
    stray       \* history: what each client may show out of place, the location
                \* or the rotation of which piece

viewVars == <<shadow, update, shownAt, stray>>
allVars == <<vars, viewVars>>

ViewTypeOK ==
    /\ TypeOK
    /\ shadow \in [Furniture -> Transform]
    /\ update \in [Player -> [Furniture -> Transform \cup {NoUpdate}]]
    /\ shownAt \in [Player -> [Furniture -> Transform]]
    /\ stray \in [Player -> SUBSET (Furniture \X Component)]

ViewInit ==
    /\ Init
    /\ shadow = at
    /\ update = [p \in Player |-> [f \in Furniture |-> NoUpdate]]
    /\ shownAt = [p \in Player |-> at]
    /\ stray = [p \in Player |-> {}]

-----------------------------------------------------------------------------
(* Replicated movement                                                     *)

\* Mutant: the client that joins sees the furniture as the level places it.
JoinSeesLevel(p) ==
    /\ Join(p)
    /\ update' = [update EXCEPT ![p] = [f \in Furniture |-> NoUpdate]]
    /\ stray' = [stray EXCEPT ![p] = {}]
    /\ UNCHANGED <<shadow, shownAt>>

\* A client that joins receives the furniture as it stands.
JoinView(p) ==
    /\ Join(p)
    /\ update' = [update EXCEPT ![p] = [f \in Furniture |-> NoUpdate]]
    /\ shownAt' = [shownAt EXCEPT ![p] = at]
    /\ stray' = [stray EXCEPT ![p] = {}]
    /\ UNCHANGED shadow

Replicate(f) ==
    /\ shadow[f] # at[f]
    /\ shadow' = [shadow EXCEPT ![f] = at[f]]
    /\ update' = [p \in Player |->
                     IF IsRemote(p) THEN [update[p] EXCEPT ![f] = at[f]] ELSE update[p]]
    /\ UNCHANGED <<vars, shownAt, stray>>

\* An update overwrites what the client has done to its copy meanwhile.
ReceiveUpdate(p, f) ==
    /\ IsRemote(p)
    /\ update[p][f] # NoUpdate
    /\ shownAt' = [shownAt EXCEPT ![p][f] = update[p][f]]
    /\ update' = [update EXCEPT ![p][f] = NoUpdate]
    /\ stray' = [stray EXCEPT ![p] = @ \ ({f} \X Component)]
    /\ UNCHANGED <<vars, shadow>>

-----------------------------------------------------------------------------
(* The steps of FurnitureSelection                                         *)

\* Mutant: the copy is moved and the server is not called.
MoveOnlyLocally(p, c, t) ==
    /\ IsRemote(p)
    /\ clientSel[p] # NoFurniture
    /\ shownAt' = [shownAt EXCEPT ![p][clientSel[p]][c] = t]
    /\ stray' = [stray EXCEPT ![p] = @ \ {<<clientSel[p], c>>}]
    /\ UNCHANGED <<vars, shadow, update>>

\* SetActorLocation or SetActorRotation on the client's copy comes with the
\* call to the server.
MoveView(p, c, t) ==
    /\ MoveFurniture(p, c, t)
    /\ shownAt' = [shownAt EXCEPT ![p][clientSel[p]][c] = t]
    /\ stray' = [stray EXCEPT ![p] = @ \ {<<clientSel[p], c>>}]
    /\ UNCHANGED <<shadow, update>>

\* What a move in flight moves for its mover: a rotation does not make up for a
\* drag that is lost.
Target(m) == <<m.of, m.part>>

\* A move of p is the last in flight of what it moves.
NothingFollows(p) ==
    \A i \in 2 .. Len(moves[p]) : Target(moves[p][i]) # Target(moves[p][1])

\* The piece goes back to where it was compared last before it is compared
\* again: the clients that show it elsewhere are not told.
PutBack(f) == at[f] # shadow[f] /\ at'[f] = shadow[f]

AllPutBack == {f \in Furniture : PutBack(f)} \X Component

\* What a move leaves out of place: on every client the pieces it puts back,
\* but for what the mover has moved itself; on the mover's own client that, when
\* the server moves another piece or none.
ReceiveMoveView(p) ==
    /\ ReceiveMove(p)
    /\ LET mine == {Target(Head(moves[p]))}
           missed == serverSel[p] # Head(moves[p]).of /\ NothingFollows(p)
       IN  stray' = [q \in Player |->
                        IF q # p THEN stray[q] \cup AllPutBack
                        ELSE (stray[p] \cup (AllPutBack \ mine))
                                 \cup (IF missed THEN mine ELSE {})]
    /\ UNCHANGED <<shadow, update, shownAt>>

LoseMoveView(p) ==
    /\ LoseMove(p)
    /\ stray' = IF NothingFollows(p)
                THEN [stray EXCEPT ![p] = @ \cup {Target(Head(moves[p]))}] ELSE stray
    /\ UNCHANGED <<shadow, update, shownAt>>

HostMoveView(p, c, t) ==
    /\ HostMoveFurniture(p, c, t)
    /\ stray' = [q \in Player |-> stray[q] \cup AllPutBack]
    /\ UNCHANGED <<shadow, update, shownAt>>

\* The steps that move nothing.
OtherStep(p) ==
    /\ \/ Leave(p)
       \/ ReceiveRequest(p)
       \/ ClickNothing(p)
       \/ HostClickNothing(p)
       \/ \E f \in Furniture : ClickFurniture(p, f) \/ HostClickFurniture(p, f)
    /\ UNCHANGED viewVars

ViewNext ==
    \/ \E p \in Player :
           \/ JoinView(p)
           \/ ReceiveMoveView(p)
           \/ LoseMoveView(p)
           \/ OtherStep(p)
           \/ \E c \in Component, t \in Value : MoveView(p, c, t) \/ HostMoveView(p, c, t)
           \/ \E f \in Furniture : ReceiveUpdate(p, f)
    \/ \E f \in Furniture : Replicate(f)

ViewSpec == ViewInit /\ [][ViewNext]_allVars

-----------------------------------------------------------------------------
(* Properties                                                              *)

\* Nothing that concerns the piece is on its way between p and the server.
Settled(p, f) ==
    moves[p] = <<>> /\ update[p][f] = NoUpdate /\ shadow[f] = at[f]

\* When nothing is on its way, a client shows a piece where the server has it,
\* its location and its rotation.  It shows the one, or the other, out of place
\* for good only when its last move of it was lost or moved something else, or
\* when a move of another player, or one meant for another piece or component,
\* put the piece back before the server saw a difference: no other mix of drags,
\* rotations, updates that overwrite them, swaps, hand-overs, joins and
\* departures does that.
AgreeUnlessStray ==
    \A p \in Player, f \in Furniture, c \in Component :
        IsRemote(p) /\ Settled(p, f) /\ <<f, c>> \notin stray[p]
            => shownAt[p][f][c] = at[f][c]
=============================================================================
