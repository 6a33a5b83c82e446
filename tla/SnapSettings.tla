------------------------------ MODULE SnapSettings ------------------------------
(* The grid and rotation steps of the local player, in one process.  They   *)
(* are kept by the player state, which is not told to anybody else, and by  *)
(* its view model, which the widgets find by a context name in a collection *)
(* that outlives the worlds.  Player states of local and other players      *)
(* begin and end play in any order.                                         *)
EXTENDS Naturals, FiniteSets

CONSTANTS
    PlayerState,    \* the AIoroomPlayerStates of this process, each used once
    MaxLocal,       \* bound on the local players at a time
    NoPlayerState   \* nullptr

ASSUME SnapAssumption == NoPlayerState \notin PlayerState /\ MaxLocal \in Nat

VARIABLES
    begun, alive,           \* BeginPlay was called; EndPlay was not
    local,                  \* those of the local players
    GridSnap, RotationSnap, \* of the player states
    linked,                 \* the pawns that know their player state
    view,                   \* the fields of SnapSettingsViewModel, or NoView
    collection,             \* whose view model is registered
    ready,                  \* OnViewModelsReady was called
    \* history
    late,                   \* began before their controller was there
    overlapped              \* two local player states were alive at a time

playerVars == <<begun, alive, local, linked>>
snapVars == <<GridSnap, RotationSnap>>
collectionVars == <<collection, ready>>
vars == <<playerVars, snapVars, view, collectionVars, late, overlapped>>

\* Minimum, Fine, Small, Medium, Large
Count == 5
Snaps == 0 .. Count - 1
GridDefault == 2
RotationDefault == 1
NoView == [none |-> TRUE]
Views == [grid : Snaps, rotation : Snaps]

Init ==
    /\ begun = {} /\ alive = {} /\ local = {} /\ linked = {}
    /\ GridSnap = [p \in PlayerState |-> GridDefault]
    /\ RotationSnap = [p \in PlayerState |-> RotationDefault]
    /\ view = [p \in PlayerState |-> NoView]
    /\ collection = NoPlayerState /\ ready = {}
    /\ late = {} /\ overlapped = FALSE

-----------------------------------------------------------------------------
(* Player states come and go                                               *)

\* AddViewModelInstance refuses a second view model of the same context.
AddViewModelInstance(p) ==
    IF collection = NoPlayerState
    THEN collection' = p /\ ready' = ready \cup {p}
    ELSE UNCHANGED collectionVars

RegisterIf(p, wanted) ==
    IF wanted
    THEN /\ view' = [view EXCEPT ![p] = [grid |-> GridSnap[p], rotation |-> RotationSnap[p]]]
         /\ AddViewModelInstance(p)
    ELSE UNCHANGED <<view, collectionVars>>

\* Mutant: the controller need not be a local one.
RegisterAnyController(p, controller) == RegisterIf(p, controller # "none")

InitializeViewModels(p, controller) == RegisterIf(p, controller = "local")

\* Nothing makes up for a controller that was not there: on a client the
\* player state may arrive before the controller that owns it.
BeginPlay(p, mine, controller) ==
    /\ p \notin begun
    /\ mine => controller \in {"none", "local"} /\ Cardinality(local \cap alive) < MaxLocal
    /\ ~mine => controller \in {"none", "remote"}
    /\ begun' = begun \cup {p} /\ alive' = alive \cup {p}
    /\ local' = IF mine THEN local \cup {p} ELSE local
    /\ late' = IF mine /\ controller = "none" THEN late \cup {p} ELSE late
    /\ overlapped' = (overlapped \/ (mine /\ local \cap alive # {}))
    /\ InitializeViewModels(p, controller)
    /\ UNCHANGED <<linked, snapVars>>

\* OnRep_PlayerState, or possession on the server.
LinkPawn(p) ==
    /\ p \in alive \ linked
    /\ linked' = linked \cup {p}
    /\ UNCHANGED <<begun, alive, local, snapVars, view, collectionVars, late, overlapped>>

\* Mutant: it is removed by players who never had one.
RemoveAlways(p) == collection' = NoPlayerState

\* The removal is by the context name, whoever registered it.
RemoveViewModels(p) ==
    collection' = IF view[p] = NoView THEN collection ELSE NoPlayerState

EndPlay(p) ==
    /\ p \in alive
    /\ alive' = alive \ {p} /\ linked' = linked \ {p}
    /\ RemoveViewModels(p)
    /\ UNCHANGED <<begun, local, snapVars, view, ready, late, overlapped>>

-----------------------------------------------------------------------------
(* The widgets                                                             *)

NextSnap(snap) == (snap + 1) % Count

\* SetGridSnap and SetRotationSnap write the player state first.
CycleGridSnap(p) ==
    /\ collection = p
    /\ GridSnap' = [GridSnap EXCEPT ![p] = NextSnap(@)]
    /\ view' = [view EXCEPT ![p].grid = GridSnap'[p]]
    /\ UNCHANGED <<playerVars, RotationSnap, collectionVars, late, overlapped>>

CycleRotationSnap(p) ==
    /\ collection = p
    /\ RotationSnap' = [RotationSnap EXCEPT ![p] = NextSnap(@)]
    /\ view' = [view EXCEPT ![p].rotation = RotationSnap'[p]]
    /\ UNCHANGED <<playerVars, GridSnap, collectionVars, late, overlapped>>

\* GridSnapToText and RotationSnapToText
GridSnapToText == <<1, 5, 20, 50, 100>>
RotationSnapToText == <<1, 5, 15, 45, 90>>

\* The tables of GetGridStep and GetRotStep.
GridSteps == <<1, 5, 20, 50, 100>>
RotSteps == <<1, 5, 15, 45, 90>>

\* Mutant: a step is changed in this table and not in that of the widgets.
RotStepsApart == <<1, 5, 15, 30, 90>>
GetRotStepApart(p) == RotStepsApart[RotationSnap[p] + 1]

GetGridStep(p) == GridSteps[GridSnap[p] + 1]
GetRotStep(p) == RotSteps[RotationSnap[p] + 1]

\* NudgeSelectedFurniture and HandleRotate: without a player state they take
\* the literals 20 and 15.
GridStep(p) == IF p \in linked THEN GetGridStep(p) ELSE 20
RotationStep(p) == IF p \in linked THEN GetRotStep(p) ELSE 15

Next ==
    \/ \E p \in PlayerState, mine \in BOOLEAN, controller \in {"none", "remote", "local"} :
           BeginPlay(p, mine, controller)
    \/ \E p \in PlayerState : LinkPawn(p) \/ EndPlay(p) \/ CycleGridSnap(p) \/ CycleRotationSnap(p)

Spec == Init /\ [][Next]_vars

-----------------------------------------------------------------------------
(* Properties                                                              *)

\* The variables have their types; only player states of local players whose
\* controller was there have a view model.
TypeOK ==
    /\ begun \subseteq PlayerState /\ alive \subseteq begun /\ linked \subseteq alive
    /\ local \subseteq begun /\ late \subseteq local
    /\ GridSnap \in [PlayerState -> Snaps] /\ RotationSnap \in [PlayerState -> Snaps]
    /\ view \in [PlayerState -> Views \cup {NoView}]
    /\ collection \in PlayerState \cup {NoPlayerState} /\ ready \subseteq begun
    /\ overlapped \in BOOLEAN

\* No widget is bound to the view model of a player state that has ended:
\* whoever is registered is alive (RemoveViewModels), and was told so.
RegisteredIsAlive ==
    collection # NoPlayerState => collection \in alive /\ collection \in ready

\* As long as local players do not overlap, the one that plays has its view
\* model registered, whatever players and worlds came and went before, unless
\* the player state began before its controller was there.
LocalIsServed == ~overlapped => \A p \in (alive \cap local) \ late : collection = p

\* A living player loses the registration only when local players overlap,
\* to the end of another local one, be it one that was refused or one that has
\* lost its own (RemoveViewModels goes by the context name).
LostOnlyToLocal ==
    [][\A p \in PlayerState :
           collection = p /\ collection' # p /\ p \in alive'
               => overlapped /\ (local \cap alive) \ alive' # {}]_vars

\* The steps the widgets show are those by which the pawn nudges and rotates,
\* once the pawn knows its player state.
StepsAreShown ==
    \A p \in linked :
        collection = p =>
            /\ GridSnapToText[view[p].grid + 1] = GridStep(p)
            /\ RotationSnapToText[view[p].rotation + 1] = RotationStep(p)
=============================================================================
