--------------------------- MODULE SnapSettingsProofs ---------------------------
(***************************************************************************)
(* Theorems about SnapSettings, for any player states and however many     *)
(* local players there may be at a time.                                   *)
(***************************************************************************)
EXTENDS SnapSettings, TLAPS

\* Whoever is registered is a living local player with a view model.
Registered ==
    collection # NoPlayerState =>
        /\ collection \in alive \cap local /\ collection \in ready
        /\ view[collection] # NoView

\* A view model is made by BeginPlay of a local player whose controller is
\* there, and says what its player state says.
ViewsAgree ==
    \A p \in PlayerState : view[p] # NoView =>
        /\ p \in local \ late
        /\ view[p] = [grid |-> GridSnap[p], rotation |-> RotationSnap[p]]

\* Without an overlap there is at most one local player at a time.
OneLocal == ~overlapped => \A p, q \in alive \cap local : p = q

SnapInv == TypeOK /\ Registered /\ ViewsAgree /\ OneLocal /\ LocalIsServed

-----------------------------------------------------------------------------
LEMMA NextSnapType == \A snap \in Snaps : NextSnap(snap) \in Snaps
  BY DEF NextSnap, Snaps, Count

LEMMA ViewIsNotNoView == NoView \notin Views
<1>1. \A v \in Views : DOMAIN v = {"grid", "rotation"}
  BY DEF Views
<1>2. DOMAIN NoView = {"none"}
  BY DEF NoView
<1>3. "grid" \notin {"none"}
  OBVIOUS
<1>4. QED
  BY <1>1, <1>2, <1>3

\* A new view model has the fields of its player state.
LEMMA NewView ==
    ASSUME TypeOK, NEW p \in PlayerState
    PROVE  /\ [grid |-> GridSnap[p], rotation |-> RotationSnap[p]] \in Views
           /\ [grid |-> GridSnap[p], rotation |-> RotationSnap[p]] # NoView
<1>1. [grid |-> GridSnap[p], rotation |-> RotationSnap[p]] \in Views
  BY DEF TypeOK, Views
<1>2. QED
  BY <1>1, ViewIsNotNoView

LEMMA SnapInvInit == Init => SnapInv
<1> SUFFICES ASSUME Init PROVE SnapInv
  OBVIOUS
<1>1. TypeOK
  <2>1. GridDefault \in Snaps /\ RotationDefault \in Snaps
    BY DEF Snaps, Count, GridDefault, RotationDefault
  <2>2. view \in [PlayerState -> Views \cup {NoView}]
    BY DEF Init
  <2>3. QED
    BY <2>1, <2>2 DEF Init, TypeOK
<1>2. Registered /\ ViewsAgree /\ OneLocal /\ LocalIsServed
  BY DEF Init, Registered, ViewsAgree, OneLocal, LocalIsServed
<1>3. QED
  BY <1>1, <1>2 DEF SnapInv

-----------------------------------------------------------------------------
\* What InitializeViewModels leaves behind.
LEMMA AfterInitialize ==
    ASSUME TypeOK, NEW p \in PlayerState, NEW controller, InitializeViewModels(p, controller)
    PROVE  /\ view' \in [PlayerState -> Views \cup {NoView}]
           /\ \A q \in PlayerState : q # p => view'[q] = view[q]
           /\ controller # "local" => UNCHANGED <<view, collection, ready>>
           /\ controller = "local" =>
                  /\ view'[p] = [grid |-> GridSnap[p], rotation |-> RotationSnap[p]]
                  /\ view'[p] # NoView
                  /\ IF collection = NoPlayerState
                     THEN collection' = p /\ ready' = ready \cup {p}
                     ELSE collection' = collection /\ ready' = ready
<1>1. CASE controller = "local"
  <2>1. view' = [view EXCEPT ![p] = [grid |-> GridSnap[p], rotation |-> RotationSnap[p]]]
    BY <1>1 DEF InitializeViewModels, RegisterIf
  <2>2. QED
    BY <1>1, <2>1, NewView
    DEF InitializeViewModels, RegisterIf, AddViewModelInstance, collectionVars, TypeOK
<1>2. CASE controller # "local"
  BY <1>2 DEF InitializeViewModels, RegisterIf, collectionVars, TypeOK
<1>3. QED
  BY <1>1, <1>2

LEMMA BeginPlayKeeps ==
    ASSUME SnapInv, NEW p \in PlayerState, NEW mine \in BOOLEAN,
           NEW controller \in {"none", "remote", "local"}, BeginPlay(p, mine, controller)
    PROVE  SnapInv'
<1> USE DEF SnapInv
<1>1. /\ view' \in [PlayerState -> Views \cup {NoView}]
      /\ \A q \in PlayerState : q # p => view'[q] = view[q]
      /\ controller # "local" => UNCHANGED <<view, collection, ready>>
      /\ controller = "local" =>
             /\ view'[p] = [grid |-> GridSnap[p], rotation |-> RotationSnap[p]]
             /\ view'[p] # NoView
             /\ IF collection = NoPlayerState
                THEN collection' = p /\ ready' = ready \cup {p}
                ELSE collection' = collection /\ ready' = ready
  BY AfterInitialize DEF BeginPlay
<1>2. /\ p \notin begun /\ p \notin local /\ p \notin alive /\ p \notin late
      /\ begun' = begun \cup {p} /\ alive' = alive \cup {p}
      /\ local' = IF mine THEN local \cup {p} ELSE local
      /\ late' = IF mine /\ controller = "none" THEN late \cup {p} ELSE late
      /\ overlapped' = (overlapped \/ (mine /\ local \cap alive # {}))
      /\ controller = "local" => mine
      /\ mine => controller \in {"none", "local"}
      /\ UNCHANGED <<linked, GridSnap, RotationSnap>>
  BY DEF BeginPlay, TypeOK, snapVars
<1>3. TypeOK'
  <2>1. /\ begun' \subseteq PlayerState /\ alive' \subseteq begun' /\ linked' \subseteq alive'
        /\ local' \subseteq begun' /\ late' \subseteq local' /\ overlapped' \in BOOLEAN
    BY <1>2 DEF TypeOK
  <2>2. collection' \in PlayerState \cup {NoPlayerState} /\ ready' \subseteq begun'
    BY <1>1, <1>2 DEF TypeOK
  <2>3. QED
    BY <1>1, <1>2, <2>1, <2>2 DEF TypeOK
<1>4. Registered'
  <2>1. CASE collection' = collection /\ ready' = ready
    <3>1. collection # NoPlayerState => collection # p /\ collection \in PlayerState
      BY <1>2 DEF Registered, TypeOK
    <3>2. QED
      BY <1>1, <1>2, <2>1, <3>1 DEF Registered
  <2>2. CASE ~(collection' = collection /\ ready' = ready)
    BY <1>1, <1>2, <2>2 DEF Registered
  <2>3. QED
    BY <2>1, <2>2
<1>5. ViewsAgree'
  <2>1. view[p] = NoView
    BY <1>2 DEF ViewsAgree, TypeOK
  <2>2. ASSUME NEW q \in PlayerState, view'[q] # NoView
        PROVE  /\ q \in local' \ late'
               /\ view'[q] = [grid |-> GridSnap'[q], rotation |-> RotationSnap'[q]]
    <3>1. CASE q = p
      BY <1>1, <1>2, <2>1, <2>2, <3>1
    <3>2. CASE q # p
      BY <1>1, <1>2, <2>2, <3>2 DEF ViewsAgree
    <3>3. QED
      BY <3>1, <3>2
  <2>3. QED
    BY <2>2 DEF ViewsAgree
<1>6. OneLocal'
  BY <1>2 DEF OneLocal
<1>7. LocalIsServed'
  <2>1. SUFFICES ASSUME ~overlapped', NEW q \in (alive' \cap local') \ late'
                 PROVE  collection' = q
    BY DEF LocalIsServed
  <2>2. ~overlapped /\ (mine => local \cap alive = {})
    BY <1>2, <2>1
  <2>3. CASE q = p
    <3>1. mine /\ controller = "local"
      BY <1>2, <2>1, <2>3
    <3>2. collection = NoPlayerState
      BY <2>2, <3>1 DEF Registered
    <3>3. QED
      BY <1>1, <2>3, <3>1, <3>2
  <2>4. CASE q # p
    <3>1. q \in (alive \cap local) \ late /\ ~mine
      BY <1>2, <2>1, <2>2, <2>4
    <3>2. collection = q
      BY <2>2, <3>1 DEF LocalIsServed
    <3>3. QED
      BY <1>1, <1>2, <3>1, <3>2
  <2>5. QED
    BY <2>3, <2>4
<1>8. QED
  BY <1>3, <1>4, <1>5, <1>6, <1>7

LEMMA EndPlayKeeps ==
    ASSUME SnapInv, NEW p \in PlayerState, EndPlay(p)
    PROVE  SnapInv'
<1> USE DEF SnapInv
<1>1. /\ p \in alive /\ alive' = alive \ {p} /\ linked' = linked \ {p}
      /\ collection' = IF view[p] = NoView THEN collection ELSE NoPlayerState
      /\ UNCHANGED <<begun, local, GridSnap, RotationSnap, view, ready, late, overlapped>>
  BY DEF EndPlay, RemoveViewModels, snapVars
<1>2. TypeOK'
  BY <1>1 DEF TypeOK
<1>3. Registered'
  BY <1>1 DEF Registered
<1>4. ViewsAgree' /\ OneLocal'
  BY <1>1 DEF ViewsAgree, OneLocal
<1>5. LocalIsServed'
  <2>1. SUFFICES ASSUME ~overlapped, NEW q \in (alive \cap local) \ late, q # p
                 PROVE  collection' = q
    BY <1>1 DEF LocalIsServed
  <2>2. p \notin local
    BY <1>1, <2>1 DEF OneLocal
  <2>3. view[p] = NoView
    BY <2>2 DEF ViewsAgree
  <2>4. QED
    BY <1>1, <2>1, <2>3 DEF LocalIsServed
<1>6. QED
  BY <1>2, <1>3, <1>4, <1>5

\* A change of a step reaches the player state and its view model together.
LEMMA CycleKeeps ==
    ASSUME SnapInv, NEW p \in PlayerState, CycleGridSnap(p) \/ CycleRotationSnap(p)
    PROVE  SnapInv'
<1> USE DEF SnapInv
<1>1. collection = p /\ view[p] # NoView
      /\ view[p] = [grid |-> GridSnap[p], rotation |-> RotationSnap[p]]
  BY SnapAssumption
  DEF CycleGridSnap, CycleRotationSnap, Registered, ViewsAgree
<1>2. /\ GridSnap' \in [PlayerState -> Snaps] /\ RotationSnap' \in [PlayerState -> Snaps]
      /\ \A q \in PlayerState : q # p =>
             GridSnap'[q] = GridSnap[q] /\ RotationSnap'[q] = RotationSnap[q]
  BY NextSnapType DEF CycleGridSnap, CycleRotationSnap, TypeOK
<1>3. view' = [view EXCEPT ![p] = [grid |-> GridSnap'[p], rotation |-> RotationSnap'[p]]]
  <2>1. CASE CycleGridSnap(p)
    <3>1. view' = [view EXCEPT ![p] = [view[p] EXCEPT !.grid = GridSnap'[p]]]
      BY <2>1 DEF CycleGridSnap
    <3>2. [view[p] EXCEPT !.grid = GridSnap'[p]]
              = [grid |-> GridSnap'[p], rotation |-> RotationSnap'[p]]
      BY <1>1, <2>1 DEF CycleGridSnap
    <3>3. QED
      BY <3>1, <3>2
  <2>2. CASE CycleRotationSnap(p)
    <3>1. view' = [view EXCEPT ![p] = [view[p] EXCEPT !.rotation = RotationSnap'[p]]]
      BY <2>2 DEF CycleRotationSnap
    <3>2. [view[p] EXCEPT !.rotation = RotationSnap'[p]]
              = [grid |-> GridSnap'[p], rotation |-> RotationSnap'[p]]
      BY <1>1, <2>2 DEF CycleRotationSnap
    <3>3. QED
      BY <3>1, <3>2
  <2>3. QED
    BY <2>1, <2>2
<1>4. UNCHANGED <<begun, alive, local, linked, collection, ready, late, overlapped>>
  BY DEF CycleGridSnap, CycleRotationSnap, playerVars, collectionVars
<1>5. /\ [grid |-> GridSnap'[p], rotation |-> RotationSnap'[p]] \in Views
      /\ [grid |-> GridSnap'[p], rotation |-> RotationSnap'[p]] # NoView
  <2>1. [grid |-> GridSnap'[p], rotation |-> RotationSnap'[p]] \in Views
    BY <1>2 DEF Views
  <2>2. QED
    BY <2>1, ViewIsNotNoView
<1>6. TypeOK'
  BY <1>2, <1>3, <1>4, <1>5 DEF TypeOK
<1>7. \A q \in PlayerState :
          view'[q] = IF q = p THEN [grid |-> GridSnap'[p], rotation |-> RotationSnap'[p]]
                              ELSE view[q]
  BY <1>3 DEF TypeOK
<1>8. Registered'
  BY <1>1, <1>4, <1>5, <1>7 DEF Registered
<1>9. ViewsAgree'
  BY <1>1, <1>2, <1>4, <1>7 DEF ViewsAgree
<1>10. OneLocal' /\ LocalIsServed'
  BY <1>4 DEF OneLocal, LocalIsServed
<1>11. QED
  BY <1>6, <1>8, <1>9, <1>10

LEMMA SnapInvStep == SnapInv /\ [Next]_vars => SnapInv'
<1> SUFFICES ASSUME SnapInv, [Next]_vars PROVE SnapInv'
  OBVIOUS
<1>1. ASSUME NEW p \in PlayerState, LinkPawn(p) PROVE SnapInv'
  BY <1>1
  DEF LinkPawn, SnapInv, TypeOK, Registered, ViewsAgree, OneLocal, LocalIsServed, snapVars,
      collectionVars
<1>2. CASE UNCHANGED vars
  BY <1>2
  DEF SnapInv, TypeOK, Registered, ViewsAgree, OneLocal, LocalIsServed, vars, playerVars,
      snapVars, collectionVars
<1>3. QED
  BY <1>1, <1>2, BeginPlayKeeps, EndPlayKeeps, CycleKeeps DEF Next

-----------------------------------------------------------------------------
\* Type correctness: only living player states of local players are linked,
\* registered or late.
THEOREM TypeCorrect == Spec => []TypeOK
<1>1. SnapInv => TypeOK
  BY DEF SnapInv
<1>2. QED
  BY <1>1, SnapInvInit, SnapInvStep, PTL DEF Spec

\* No widget is ever bound to the view model of a player state that has ended.
THEOREM NoEndedPlayerIsBound == Spec => []RegisteredIsAlive
<1>1. SnapInv => RegisteredIsAlive
  BY DEF SnapInv, Registered, RegisteredIsAlive
<1>2. QED
  BY <1>1, SnapInvInit, SnapInvStep, PTL DEF Spec

\* A local player that meets no other is served, however many players and
\* worlds came and went before it.
THEOREM LocalPlayerIsServed == Spec => []LocalIsServed
<1>1. SnapInv => LocalIsServed
  BY DEF SnapInv
<1>2. QED
  BY <1>1, SnapInvInit, SnapInvStep, PTL DEF Spec

\* The two tables of steps are the same, so the widgets show what the pawn does.
THEOREM StepsAgree == Spec => []StepsAreShown
<1>1. ASSUME SnapInv, NEW p \in linked, collection = p
      PROVE  /\ GridSnapToText[view[p].grid + 1] = GridStep(p)
             /\ RotationSnapToText[view[p].rotation + 1] = RotationStep(p)
  <2>1. p \in PlayerState /\ p # NoPlayerState /\ view[p] # NoView
    BY <1>1, SnapAssumption DEF SnapInv, TypeOK, Registered
  <2>2. view[p] = [grid |-> GridSnap[p], rotation |-> RotationSnap[p]]
    BY <1>1, <2>1 DEF SnapInv, ViewsAgree
  <2>3. view[p].grid = GridSnap[p] /\ view[p].rotation = RotationSnap[p]
    BY <2>2
  <2>4. QED
    BY <1>1, <2>3
    DEF GridStep, RotationStep, GetGridStep, GetRotStep, GridSnapToText, RotationSnapToText,
        GridSteps, RotSteps
<1>2. SnapInv => StepsAreShown
  BY <1>1 DEF StepsAreShown
<1>3. QED
  BY <1>2, SnapInvInit, SnapInvStep, PTL DEF Spec

\* A living player loses the registration to the end of another local player,
\* and only when local players overlap.
THEOREM RegistrationIsKept == Spec => LostOnlyToLocal
<1> DEFINE Kept ==
        \A p \in PlayerState :
            collection = p /\ collection' # p /\ p \in alive'
                => overlapped /\ (local \cap alive) \ alive' # {}
<1>1. ASSUME SnapInv, Next PROVE Kept
  <2>1. SUFFICES ASSUME NEW p \in PlayerState, collection = p, collection' # p, p \in alive'
                 PROVE  overlapped /\ (local \cap alive) \ alive' # {}
    OBVIOUS
  <2>2. p # NoPlayerState /\ p \in alive \cap local
    BY <1>1, <2>1, SnapAssumption DEF SnapInv, Registered
  <2>3. PICK q \in PlayerState : EndPlay(q)
    BY <1>1, <2>1, <2>2
    DEF Next, BeginPlay, InitializeViewModels, RegisterIf, AddViewModelInstance, LinkPawn,
        CycleGridSnap, CycleRotationSnap, collectionVars
  <2>4. q # p /\ q \in alive /\ q \notin alive' /\ view[q] # NoView
    BY <2>1, <2>3 DEF EndPlay, RemoveViewModels
  <2>5. q \in local
    BY <1>1, <2>4 DEF SnapInv, ViewsAgree
  <2>6. QED
    BY <1>1, <2>2, <2>4, <2>5 DEF SnapInv, OneLocal
<1>2. SnapInv /\ [Next]_vars => [Kept]_vars
  BY <1>1
<1>3. QED
  BY <1>2, SnapInvInit, SnapInvStep, PTL DEF Spec, LostOnlyToLocal
=============================================================================
