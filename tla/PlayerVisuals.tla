----------------------------- MODULE PlayerVisuals -----------------------------
(***************************************************************************)
(* How the colour of a player reaches its pawn: on the server, where the   *)
(* player state, the pawn and a next-tick callback come in any order, and  *)
(* on the machine of a viewer, where the two properties of the player      *)
(* state and the link from pawn to player state arrive in any order, and   *)
(* where the two actors of a player who has left stay until their          *)
(* destruction arrives.                                                    *)
(*                                                                         *)
(* A colour is named by the slot it belongs to: colour s is the parameter  *)
(* PlayerColor_<s - 1> of PlayerColorMPC.                                  *)
(***************************************************************************)
EXTENDS Integers, StencilPool

CONSTANTS Player,   \* the players who may join
          Viewer    \* the remote machines that see them

VARIABLES
    entered,    \* the players whose player state exists on the server
    begun,      \* ... and has begun play
    possessed,  \* ... and whose controller possesses a pawn
    callback,   \* the players whose SetTimerForNextTick callback is pending
    used,       \* AIoroomGameState::UsedStencilSlots
    stencil,    \* AIoroomPlayerState::StencilSlot, of who has left the last one
    color,      \* AIoroomPlayerState::AssignedColor, likewise
    body,       \* the colour of the pawn on the server, likewise
    leaving,    \* the actors of players who have left that a viewer still has
    seen,       \* what of each player has arrived at each viewer
    shown       \* the colour of the player's pawn at each viewer

serverVars == <<entered, begun, possessed, callback, used, stencil, color, body>>
viewerVars == <<leaving, seen, shown>>
vars == <<serverVars, viewerVars>>

White == 0          \* FLinearColor::White, the initial AssignedColor
Black == -1         \* the value of a parameter the collection does not have
Unpainted == -2     \* ApplyPlayerVisuals was never called on the pawn
Colors == StencilSlots \cup {White, Black}

Properties == {"StencilSlot", "AssignedColor"}
Link == "PlayerState"
Parts == Properties \cup {Link}
Actors == {"PlayerState", "Pawn"}

TypeOK ==
    /\ entered \in SUBSET Player
    /\ begun \in SUBSET entered
    /\ possessed \in SUBSET entered
    /\ callback \in SUBSET Player
    /\ used \in [PoolIndex -> BOOLEAN]
    /\ stencil \in [Player -> StencilSlots \cup {0, NoStencilSlot}]
    /\ color \in [Player -> Colors]
    /\ body \in [Player -> Colors \cup {Unpainted}]
    /\ leaving \in [Viewer -> [Player -> SUBSET Actors]]
    /\ seen \in [Viewer -> [Player -> SUBSET Parts]]
    /\ shown \in [Viewer -> [Player -> Colors \cup {Unpainted}]]

Init ==
    /\ entered = {} /\ begun = {} /\ possessed = {} /\ callback = {}
    /\ used = EmptyPool
    /\ stencil = [p \in Player |-> 0]
    /\ color = [p \in Player |-> White]
    /\ body = [p \in Player |-> Unpainted]
    /\ leaving = [v \in Viewer |-> [p \in Player |-> {}]]
    /\ seen = [v \in Viewer |-> [p \in Player |-> {}]]
    /\ shown = [v \in Viewer |-> [p \in Player |-> Unpainted]]

-----------------------------------------------------------------------------
(* The server                                                              *)

\* The player state is spawned.  The name p stands for new actors: it is not
\* reused while the callback of the previous player state is pending or a viewer
\* still has one of the previous actors.
Enter(p) ==
    /\ p \notin entered /\ p \notin callback
    /\ \A v \in Viewer : leaving[v][p] = {}
    /\ entered' = entered \cup {p}
    /\ stencil' = [stencil EXCEPT ![p] = 0]
    /\ color' = [color EXCEPT ![p] = White]
    /\ body' = [body EXCEPT ![p] = Unpainted]
    /\ UNCHANGED <<begun, possessed, callback, used, viewerVars>>

\* Mutant: a player without a slot gets the first colour.
SlotColorOrFirst(slot) == IF slot \in StencilSlots THEN slot ELSE MinStencilSlot

\* The parameter PlayerColor_<slot - 1> of the collection.
SlotColor(slot) == IF slot \in StencilSlots THEN slot ELSE Black

\* BeginPlay: InitializePlayerColor.
BeginPlay(p) ==
    /\ p \in entered \ begun
    /\ begun' = begun \cup {p}
    /\ stencil' = [stencil EXCEPT ![p] = ReservedSlot(used)]
    /\ used' = ReserveStencilSlot(used)
    /\ color' = [color EXCEPT ![p] = SlotColor(ReservedSlot(used))]
    /\ callback' = callback \cup {p}
    /\ UNCHANGED <<entered, possessed, body, viewerVars>>

\* ADesktopPawn::PossessedBy: before or after BeginPlay of the player state.
PossessedBy(p) ==
    /\ p \in entered \ possessed
    /\ possessed' = possessed \cup {p}
    /\ body' = [body EXCEPT ![p] = color[p]]
    /\ UNCHANGED <<entered, begun, callback, used, stencil, color, viewerVars>>

\* Mutant: the callback is left out.
NextTickPaintsNothing(p) ==
    /\ p \in callback
    /\ callback' = callback \ {p}
    /\ UNCHANGED <<entered, begun, possessed, used, stencil, color, body, viewerVars>>

\* The callback paints the pawn, if there is one.  EndPlay does not cancel the
\* callback: it may find a player state whose pawn is gone.
NextTick(p) ==
    /\ p \in callback
    /\ callback' = callback \ {p}
    /\ body' = IF p \in possessed THEN [body EXCEPT ![p] = color[p]] ELSE body
    /\ UNCHANGED <<entered, begun, possessed, used, stencil, color, viewerVars>>

\* EndPlay: the slot goes back to the pool and the actors of the player are gone
\* on the server.  The viewers are told of the destruction later.
EndPlay(p) ==
    /\ p \in entered
    /\ used' = ReleaseStencilSlot(used, stencil[p])
    /\ entered' = entered \ {p} /\ begun' = begun \ {p} /\ possessed' = possessed \ {p}
    /\ leaving' = [v \in Viewer |-> [leaving[v] EXCEPT ![p] = Actors]]
    /\ UNCHANGED <<callback, stencil, color, body, seen, shown>>

-----------------------------------------------------------------------------
(* A viewer                                                                *)

\* The viewer has the actor, or will have it with its first update: that of a
\* player who is there, or of one whose destruction has not arrived.  Updates sent
\* before the player left may still arrive.
Known(v, p, actor) == p \in entered \/ actor \in leaving[v][p]

\* The viewer's copies of StencilSlot and AssignedColor.
KnownSlot(parts, p) == IF "StencilSlot" \in parts THEN stencil[p] ELSE 0
KnownColor(parts, p) == IF "AssignedColor" \in parts THEN color[p] ELSE White

\* Mutant: a colour that arrives after the slot does not repaint the pawn.
OnRepSlotOnly(v, p, arrived) ==
    /\ Known(v, p, "PlayerState") /\ stencil[p] # 0
    /\ arrived \cap seen[v][p] = {}
    /\ seen' = [seen EXCEPT ![v][p] = @ \cup arrived]
    /\ shown' = IF Link \in seen[v][p] /\ "StencilSlot" \in arrived
                THEN [shown EXCEPT ![v][p] = KnownColor(seen[v][p] \cup arrived, p)]
                ELSE shown
    /\ UNCHANGED <<serverVars, leaving>>

\* OnRep_StencilSlot and OnRep_AssignedColor: the properties that arrive in
\* one bunch are all set before the first of the functions runs.
OnRepProperties(v, p, arrived) ==
    /\ Known(v, p, "PlayerState") /\ stencil[p] # 0
    /\ arrived \cap seen[v][p] = {}
    /\ seen' = [seen EXCEPT ![v][p] = @ \cup arrived]
    /\ shown' = IF Link \in seen[v][p]
                THEN [shown EXCEPT ![v][p] = KnownColor(seen[v][p] \cup arrived, p)]
                ELSE shown
    /\ UNCHANGED <<serverVars, leaving>>

\* ADesktopPawn::OnRep_PlayerState.
OnRepPlayerState(v, p) ==
    /\ Known(v, p, "PlayerState") /\ Known(v, p, "Pawn") /\ body[p] # Unpainted
    /\ Link \notin seen[v][p]
    /\ seen' = [seen EXCEPT ![v][p] = @ \cup {Link}]
    /\ shown' = IF KnownSlot(seen[v][p], p) > 0
                THEN [shown EXCEPT ![v][p] = KnownColor(seen[v][p], p)]
                ELSE shown
    /\ UNCHANGED <<serverVars, leaving>>

\* The pawn is out of the viewer's range: it is destroyed there, and comes
\* back as a new actor.  The player state is always relevant.
PawnOutOfRange(v, p) ==
    /\ Link \in seen[v][p]
    /\ seen' = [seen EXCEPT ![v][p] = @ \ {Link}]
    /\ shown' = [shown EXCEPT ![v][p] = Unpainted]
    /\ UNCHANGED <<serverVars, leaving>>

\* The destruction of the player state of a player who has left: its pawn loses
\* the link to it and keeps its colour.
PlayerStateDestroyed(v, p) ==
    /\ "PlayerState" \in leaving[v][p]
    /\ leaving' = [leaving EXCEPT ![v][p] = @ \ {"PlayerState"}]
    /\ seen' = [seen EXCEPT ![v][p] = {}]
    /\ UNCHANGED <<serverVars, shown>>

\* The destruction of the pawn, before or after that of the player state.
PawnDestroyed(v, p) ==
    /\ "Pawn" \in leaving[v][p]
    /\ leaving' = [leaving EXCEPT ![v][p] = @ \ {"Pawn"}]
    /\ seen' = [seen EXCEPT ![v][p] = @ \ {Link}]
    /\ shown' = [shown EXCEPT ![v][p] = Unpainted]
    /\ UNCHANGED serverVars

Next ==
    \E p \in Player :
        \/ Enter(p)
        \/ BeginPlay(p)
        \/ PossessedBy(p)
        \/ NextTick(p)
        \/ EndPlay(p)
        \/ \E v \in Viewer :
               \/ \E arrived \in SUBSET Properties \ {{}} : OnRepProperties(v, p, arrived)
               \/ OnRepPlayerState(v, p)
               \/ PawnOutOfRange(v, p)
               \/ PlayerStateDestroyed(v, p)
               \/ PawnDestroyed(v, p)

Spec == Init /\ [][Next]_vars

-----------------------------------------------------------------------------
(* Properties                                                              *)

\* Whatever the order of BeginPlay, PossessedBy and the next-tick callback,
\* the pawn wears the colour of its player on the server once all have run.
ServerPaints ==
    \A p \in begun \cap possessed : p \notin callback => body[p] = color[p]

\* "Cover all replication orderings": once both properties and the link have
\* arrived, in any order, the viewer sees the pawn in the player's colour.  A
\* player beyond the pool has no colour of a slot and may stay unpainted
\* (the test of OnRep_PlayerState).
EveryOrderingPaintsHolders ==
    \A v \in Viewer, p \in Player :
        seen[v][p] = Parts /\ stencil[p] > 0 => shown[v][p] = color[p]

\* The holders of slots are painted, on the server and on every viewer.
HoldersArePainted == ServerPaints /\ EveryOrderingPaintsHolders

\* "Visually distinct colors": two pawns a viewer shows in the colour of one slot
\* are never those of two players who are there.  A slot is handed on before the
\* viewers learn that its holder has left: one of the two pawns has then left and
\* waits for its destruction.  And whoever wears the colour of a slot has this
\* slot, or had it when it left: a player beyond the pool never wears one.
SharedOnlyWithLeavers ==
    \A v \in Viewer : \A p, q \in Player :
        /\ shown[v][p] \in StencilSlots =>
               shown[v][p] = stencil[p] /\ Known(v, p, "Pawn")
        /\ shown[v][p] = shown[v][q] /\ shown[v][p] \in StencilSlots /\ p # q
               => "Pawn" \in leaving[v][p] \cup leaving[v][q]
=============================================================================
