------------------------ MODULE DesktopPawnInputProofs ------------------------
(***************************************************************************)
(* Theorems about the input of a pawn, for any furniture.                  *)
(***************************************************************************)
EXTENDS DesktopPawnInput, TLAPS

\* The gesture invariants in one: a press or a gesture needs its button, and
\* a drag its selection.
GestureInv ==
    /\ NoStuckGesture
    /\ DragsTheSelection
    /\ ManipulatorFollowsSelection

LEMMA GestureInvInit == Init => GestureInv
  BY DEF Init, GestureInv, NoStuckGesture, DragsTheSelection, ManipulatorFollowsSelection

LEMMA GestureInvStep == GestureInv /\ [Next]_vars => GestureInv'
<1> SUFFICES ASSUME GestureInv, [Next]_vars PROVE GestureInv'
  OBVIOUS
<1> USE DEF GestureInv, NoStuckGesture, DragsTheSelection, ManipulatorFollowsSelection
<1>1. ASSUME NEW hit \in MaybeFurniture, NEW grip \in Handles, NEW flat \in BOOLEAN,
             LeftClicking(hit, grip, flat)
      PROVE  GestureInv'
  BY <1>1
  DEF LeftClicking, Press, GrabRing, NudgeSelectedFurniture, gestureVars, selectionVars
<1>2. ASSUME NEW moved \in BOOLEAN, NEW flat \in BOOLEAN, LeftClickingHeld(moved, flat)
      PROVE  GestureInv'
  BY <1>2
  DEF LeftClickingHeld, BecomeGesture, StartDrag, StartOrbit, Rotate, Drag, Orbit,
      buttonVars
<1>3. CASE LeftClickingReleased
  BY <1>3 DEF LeftClickingReleased, EndGesture, SelectPressed, Deselect
<1>4. CASE OnCameraControlStarted \/ OnCameraControlStopped
  BY <1>4
  DEF OnCameraControlStarted, OnCameraControlStopped, gestureVars, selectionVars
<1>5. CASE OnPanStarted
  BY <1>5 DEF OnPanStarted, selectionVars
<1>6. CASE OnPanStopped
  BY <1>6 DEF OnPanStopped, gestureVars, selectionVars
<1>7. ASSUME NEW hit \in MaybeFurniture, NEW grip \in Handles, Tick(hit, grip)
      PROVE  GestureInv'
  BY <1>7 DEF Tick, buttonVars, gestureVars, selectionVars
<1>8. ASSUME NEW f \in Furniture, ReplicateLock(f)
      PROVE  GestureInv'
  BY <1>8 DEF ReplicateLock, buttonVars, gestureVars, selectionVars
<1>9. CASE UNCHANGED vars
  BY <1>9 DEF vars, buttonVars, gestureVars, selectionVars
<1>10. QED
  BY <1>1, <1>2, <1>3, <1>4, <1>5, <1>6, <1>7, <1>8, <1>9 DEF Next, Event

\* However the three buttons interleave, no gesture outlives its button.
THEOREM GesturesEnd == Spec => []NoStuckGesture
<1>1. GestureInv => NoStuckGesture
  BY DEF GestureInv
<1>2. QED
  BY <1>1, GestureInvInit, GestureInvStep, PTL DEF Spec

\* A drag always moves the piece it was anchored on.
THEOREM DragsStayOnSelection == Spec => []DragsTheSelection
<1>1. GestureInv => DragsTheSelection
  BY DEF GestureInv
<1>2. QED
  BY <1>1, GestureInvInit, GestureInvStep, PTL DEF Spec

\* The handles of the manipulator never act on a piece that is not selected.
THEOREM ManipulatorFollows == Spec => []ManipulatorFollowsSelection
<1>1. GestureInv => ManipulatorFollowsSelection
  BY DEF GestureInv
<1>2. QED
  BY <1>1, GestureInvInit, GestureInvStep, PTL DEF Spec

-----------------------------------------------------------------------------
(* The hover material                                                      *)

\* A tick leaves at most the piece it hovers highlighted, which is not selected.
LEMMA TickKeepsOverlay ==
    ASSUME OverlayIsHovered, NEW hit \in MaybeFurniture, NEW grip \in Handles,
           Tick(hit, grip)
    PROVE  OverlayIsHovered'
<1>1. overlay' \subseteq {hovered'}
  BY DEF Tick, UpdateHover, OverlayIsHovered
<1>2. \A f \in overlay' : f \in overlay \/ CanHover(f)
  BY DEF Tick, UpdateHover
<1>3. selected' = selected
  BY DEF Tick, selectionVars
<1>4. QED
  BY <1>1, <1>2, <1>3 DEF OverlayIsHovered, CanHover

LEMMA OverlayStep == TypeOK /\ OverlayIsHovered /\ [Next]_vars => OverlayIsHovered'
<1> SUFFICES ASSUME TypeOK, OverlayIsHovered, [Next]_vars PROVE OverlayIsHovered'
  OBVIOUS
<1>1. CASE LeftClickingReleased
  <2>1. NoFurniture \notin overlay
    BY InputAssumption DEF TypeOK
  <2>2. QED
    BY <1>1, <2>1 DEF LeftClickingReleased, EndGesture, SelectPressed, Deselect, OverlayIsHovered
<1>2. ASSUME NEW hit \in MaybeFurniture, NEW grip \in Handles, Tick(hit, grip)
      PROVE  OverlayIsHovered'
  BY <1>2, TickKeepsOverlay
<1>3. ASSUME \/ \E hit \in MaybeFurniture, grip \in Handles, flat \in BOOLEAN :
                    LeftClicking(hit, grip, flat)
             \/ \E moved, flat \in BOOLEAN : LeftClickingHeld(moved, flat)
             \/ OnCameraControlStarted \/ OnCameraControlStopped
             \/ OnPanStarted \/ OnPanStopped
             \/ \E f \in Furniture : ReplicateLock(f)
             \/ UNCHANGED vars
      PROVE  UNCHANGED <<hovered, overlay, selected>>
  BY <1>3
  DEF LeftClicking, LeftClickingHeld, OnCameraControlStarted,
      OnCameraControlStopped, OnPanStarted, OnPanStopped, ReplicateLock, vars,
      hoverVars, selectionVars
<1>4. QED
  BY <1>1, <1>2, <1>3 DEF Next, Event, OverlayIsHovered

-----------------------------------------------------------------------------
(* The cursor                                                              *)

\* The two fields of the cursor that a tick leaves behind.
LEMMA CursorAfterTick ==
    ASSUME cursor \in [shown : BOOLEAN, shape : Shapes],
           NEW hit \in MaybeFurniture, NEW grip \in Handles, Tick(hit, grip)
    PROVE  /\ cursor' \in [shown : BOOLEAN, shape : Shapes]
           /\ cursor'.shown => (cursor'.shape = "Hand" <=> hovered' # NoFurniture)
<1>1. CASE camera
  <2>1. cursor' = [cursor EXCEPT !.shown = FALSE]
    BY <1>1 DEF Tick, UpdateCursor
  <2>2. QED
    BY <2>1
<1>2. CASE ~camera /\ InGesture
  <2>1. cursor' = [shown |-> TRUE, shape |-> "GrabHandClosed"]
    BY <1>2 DEF Tick, UpdateCursor
  <2>2. hovered' = NoFurniture
    BY <1>2 DEF Tick, UpdateHover
  <2>3. QED
    BY <2>1, <2>2 DEF Shapes
<1>3. CASE ~camera /\ ~InGesture
  <2>1. cursor' = [shown |-> TRUE,
                   shape |-> IF hovered' # NoFurniture THEN "Hand" ELSE "Default"]
    BY <1>3 DEF Tick, UpdateCursor
  <2>2. QED
    BY <2>1 DEF Shapes
<1>4. QED
  BY <1>1, <1>2, <1>3

\* What a tick leaves hovered can be selected.
LEMMA TickHoversSelectable ==
    ASSUME NEW hit \in MaybeFurniture, NEW grip \in Handles, Tick(hit, grip),
           hovered' # NoFurniture
    PROVE  CanHover(hovered)' /\ ~camera' /\ ~InGesture'
<1>1. ~camera /\ ~InGesture /\ CanHover(hit) /\ hovered' = hit
  BY DEF Tick, UpdateHover
<1>2. UNCHANGED <<camera, lmb, selected, locked>>
  BY DEF Tick, buttonVars, gestureVars, selectionVars
<1>3. QED
  BY <1>1, <1>2 DEF CanHover, InGesture, IsSelectableFurniture

CursorInv ==
    /\ cursor \in [shown : BOOLEAN, shape : Shapes]
    /\ HandMeansHover
    /\ HoverIsSelectable

\* In every order of camera buttons, gestures, locks and ticks the hand is shown
\* exactly while a piece is hovered, and every tick that leaves a piece hovered
\* has found that it can be selected.
THEOREM HandOverSelectable == Spec => [](HandMeansHover /\ HoverIsSelectable)
<1>1. Init => CursorInv
  BY DEF Init, CursorInv, HandMeansHover, HoverIsSelectable, Shapes
<1>2. ASSUME CursorInv, [Next]_vars PROVE CursorInv'
  <2>1. CASE \E hit \in MaybeFurniture, grip \in Handles : Tick(hit, grip)
    <3>1. PICK hit \in MaybeFurniture, grip \in Handles : Tick(hit, grip)
      BY <2>1
    <3>2. HoverIsSelectable'
      BY <3>1, TickHoversSelectable DEF HoverIsSelectable
    <3>3. QED
      BY <1>2, <3>1, <3>2, CursorAfterTick DEF CursorInv, HandMeansHover
  <2>2. CASE Event /\ ticked' = FALSE
    <3>1. UNCHANGED <<hovered, cursor>>
      BY <2>2
      DEF Event, LeftClicking, LeftClickingHeld, LeftClickingReleased, OnCameraControlStarted,
          OnCameraControlStopped, OnPanStarted, OnPanStopped, ReplicateLock, hoverVars
    <3>2. QED
      BY <1>2, <2>2, <3>1 DEF CursorInv, HandMeansHover, HoverIsSelectable
  <2>3. CASE UNCHANGED vars
    BY <1>2, <2>3
    DEF vars, buttonVars, gestureVars, selectionVars, hoverVars, CursorInv, HandMeansHover,
        HoverIsSelectable, CanHover, InGesture, IsSelectableFurniture
  <2>4. QED
    BY <1>2, <2>1, <2>2, <2>3 DEF Next
<1>3. CursorInv => HandMeansHover /\ HoverIsSelectable
  BY DEF CursorInv
<1>4. QED
  BY <1>1, <1>2, <1>3, PTL DEF Spec

-----------------------------------------------------------------------------
(* The calls                                                               *)

\* What a release tells the server.
LEMMA ReleaseTells ==
    ASSUME LeftClickingReleased
    PROVE  /\ selected' # selected =>
                  \/ selected' # NoFurniture /\ sent' = Call("select", selected')
                  \/ selected' = NoFurniture /\ sent' = Call("deselect", NoFurniture)
           /\ sent'.call = "select" => sent'.of = selected'
           /\ sent'.call = "deselect" => selected # NoFurniture /\ selected' = NoFurniture
           /\ sent'.call \notin {"drag", "rotate"}
<1>1. CASE lmb # "Pressed"
  BY <1>1 DEF LeftClickingReleased, EndGesture, NoCall
<1>2. CASE lmb = "Pressed" /\ pressed # NoFurniture
  BY <1>2 DEF LeftClickingReleased, SelectPressed, Call
<1>3. CASE lmb = "Pressed" /\ pressed = NoFurniture
  BY <1>3 DEF LeftClickingReleased, Deselect, Call, NoCall
<1>4. QED
  BY <1>1, <1>2, <1>3

\* The server is told of every change of the selection, and of nothing else.
THEOREM EveryChangeIsTold == Spec => ServerIsTold
<1> DEFINE Told ==
        /\ selected' # selected =>
              \/ selected' # NoFurniture /\ sent' = Call("select", selected')
              \/ selected' = NoFurniture /\ sent' = Call("deselect", NoFurniture)
        /\ sent'.call = "select" => sent'.of = selected'
        /\ sent'.call = "deselect" => selected # NoFurniture /\ selected' = NoFurniture
        /\ sent'.call \in {"drag", "rotate"} => sent'.of = selected
<1>1. ASSUME Next PROVE Told
  <2>1. ASSUME NEW hit \in MaybeFurniture, NEW grip \in Handles, NEW flat \in BOOLEAN,
               LeftClicking(hit, grip, flat)
        PROVE  Told
    BY <2>1
    DEF LeftClicking, Press, GrabRing, NudgeSelectedFurniture, selectionVars, Call, NoCall
  <2>2. ASSUME NEW moved \in BOOLEAN, NEW flat \in BOOLEAN, LeftClickingHeld(moved, flat)
        PROVE  Told
    BY <2>2 DEF LeftClickingHeld, BecomeGesture, Rotate, Drag, Orbit, Call, NoCall
  <2>3. CASE LeftClickingReleased
    BY <2>3, ReleaseTells
  <2>4. ASSUME \/ OnCameraControlStarted \/ OnCameraControlStopped
               \/ OnPanStarted \/ OnPanStopped
               \/ \E hit \in MaybeFurniture, grip \in Handles : Tick(hit, grip)
               \/ \E f \in Furniture : ReplicateLock(f)
        PROVE  sent' = NoCall /\ UNCHANGED selected
    BY <2>4
    DEF OnCameraControlStarted, OnCameraControlStopped, OnPanStarted, OnPanStopped,
        Tick, ReplicateLock, selectionVars
  <2>5. sent' = NoCall /\ UNCHANGED selected => Told
    BY DEF NoCall
  <2>6. QED
    BY <1>1, <2>1, <2>2, <2>3, <2>4, <2>5 DEF Next, Event
<1>2. QED
  BY <1>1, PTL DEF Spec, ServerIsTold

-----------------------------------------------------------------------------
(* The camera flags and the types                                          *)

\* The two camera buttons share one flag: it is set while both are held, it is
\* never set without one, and a pan is a pan of its own button.
THEOREM CameraFollows == Spec => []CameraFollowsButtons
<1>1. Init => CameraFollowsButtons
  BY DEF Init, CameraFollowsButtons
<1>2. ASSUME CameraFollowsButtons, [Next]_vars PROVE CameraFollowsButtons'
  <2>1. CASE OnCameraControlStarted
    BY <1>2, <2>1 DEF OnCameraControlStarted, CameraFollowsButtons
  <2>2. CASE OnCameraControlStopped
    BY <1>2, <2>2 DEF OnCameraControlStopped, CameraFollowsButtons
  <2>3. CASE OnPanStarted
    BY <1>2, <2>3 DEF OnPanStarted, CameraFollowsButtons
  <2>4. CASE OnPanStopped
    BY <1>2, <2>4 DEF OnPanStopped, CameraFollowsButtons
  <2>5. CASE \E hit \in MaybeFurniture, grip \in Handles, flat \in BOOLEAN :
                 LeftClicking(hit, grip, flat)
    BY <1>2, <2>5 DEF LeftClicking, CameraFollowsButtons
  <2>6. CASE LeftClickingReleased
    BY <1>2, <2>6 DEF LeftClickingReleased, CameraFollowsButtons
  <2>7. CASE \/ \E moved, flat \in BOOLEAN : LeftClickingHeld(moved, flat)
             \/ \E hit \in MaybeFurniture, grip \in Handles : Tick(hit, grip)
             \/ \E f \in Furniture : ReplicateLock(f)
             \/ UNCHANGED vars
    BY <1>2, <2>7
    DEF LeftClickingHeld, Tick, ReplicateLock, buttonVars, vars, CameraFollowsButtons
  <2>8. QED
    BY <1>2, <2>1, <2>2, <2>3, <2>4, <2>5, <2>6, <2>7 DEF Next, Event
<1>3. QED
  BY <1>1, <1>2, PTL DEF Spec

\* However the three buttons interleave, the gesture and the camera follow them.
THEOREM ButtonsEndGestures == Spec => []GesturesFollowButtons
<1>1. NoStuckGesture /\ CameraFollowsButtons => GesturesFollowButtons
  BY DEF GesturesFollowButtons
<1>2. QED
  BY <1>1, GesturesEnd, CameraFollows, PTL

\* Drags, and the handles of the manipulator, act on the selection.
THEOREM GesturesStayOnSelection == Spec => []GesturesOnSelection
<1>1. DragsTheSelection /\ ManipulatorFollowsSelection => GesturesOnSelection
  BY DEF GesturesOnSelection
<1>2. QED
  BY <1>1, DragsStayOnSelection, ManipulatorFollows, PTL

LEMMA CallTypes ==
    /\ NoCall \in [call : Calls, of : MaybeFurniture]
    /\ \A name \in Calls, f \in MaybeFurniture :
           Call(name, f) \in [call : Calls, of : MaybeFurniture]
    /\ {"none", "select", "deselect", "drag", "rotate", "orbit"} \subseteq Calls
  BY DEF NoCall, Call, Calls, MaybeFurniture

LEMMA TypeOKInit == Init => TypeOK
<1> SUFFICES ASSUME Init PROVE TypeOK
  OBVIOUS
<1>1. cursor \in [shown : BOOLEAN, shape : Shapes]
  BY DEF Init, Shapes
<1>2. sent \in [call : Calls, of : MaybeFurniture]
  BY CallTypes DEF Init
<1>3. NoFurniture \in MaybeFurniture /\ "Idle" \in LMBState /\ "None" \in Handles
  BY DEF MaybeFurniture, LMBState, Handles
<1>4. QED
  BY <1>1, <1>2, <1>3 DEF Init, TypeOK

\* A click, a held button and a release send one of the calls of the interface
\* about a piece or nothing.
LEMMA ButtonsKeepTypes ==
    ASSUME TypeOK, ticked' \in BOOLEAN,
           \/ \E hit \in MaybeFurniture, grip \in Handles, flat \in BOOLEAN :
                  LeftClicking(hit, grip, flat)
           \/ \E moved, flat \in BOOLEAN : LeftClickingHeld(moved, flat)
           \/ LeftClickingReleased
    PROVE  TypeOK'
<1>0. /\ NoFurniture \in MaybeFurniture /\ "None" \in Handles
      /\ {"Idle", "Pressed", "Orbiting", "Dragging", "Rotating"} \subseteq LMBState
  BY DEF MaybeFurniture, LMBState, Handles
<1>1. ASSUME NEW hit \in MaybeFurniture, NEW grip \in Handles, NEW flat \in BOOLEAN,
             LeftClicking(hit, grip, flat)
      PROVE  TypeOK'
  <2>1. /\ sent' \in [call : Calls, of : MaybeFurniture]
        /\ lmb' \in LMBState /\ pressed' \in MaybeFurniture
    BY <1>0, <1>1, CallTypes
    DEF LeftClicking, Press, GrabRing, NudgeSelectedFurniture, gestureVars, TypeOK
  <2>2. down' \in SUBSET Buttons
    BY <1>1 DEF LeftClicking, TypeOK, Buttons
  <2>3. QED
    BY <1>1, <2>1, <2>2 DEF LeftClicking, selectionVars, hoverVars, TypeOK
<1>2. ASSUME NEW moved \in BOOLEAN, NEW flat \in BOOLEAN, LeftClickingHeld(moved, flat)
      PROVE  TypeOK'
  <2>1. sent' \in [call : Calls, of : MaybeFurniture]
    BY <1>0, <1>2, CallTypes
    DEF LeftClickingHeld, BecomeGesture, Rotate, Drag, Orbit, TypeOK
  <2>2. lmb' \in LMBState
    BY <1>0, <1>2
    DEF LeftClickingHeld, BecomeGesture, StartDrag, StartOrbit, Rotate, Drag, Orbit, TypeOK
  <2>3. hidden' \in BOOLEAN
    BY <1>2
    DEF LeftClickingHeld, BecomeGesture, StartDrag, StartOrbit, Rotate, Drag, Orbit, TypeOK
  <2>4. QED
    BY <1>2, <2>1, <2>2, <2>3 DEF LeftClickingHeld, buttonVars, hoverVars, TypeOK
<1>3. CASE LeftClickingReleased
  <2>1. sent' \in [call : Calls, of : MaybeFurniture]
    BY <1>0, <1>3, CallTypes
    DEF LeftClickingReleased, EndGesture, SelectPressed, Deselect, TypeOK
  <2>2. /\ selected' \in MaybeFurniture /\ manipulator' \in MaybeFurniture
        /\ hidden' \in BOOLEAN /\ handle' \in Handles /\ overlay' \in SUBSET Furniture
    BY <1>0, <1>3
    DEF LeftClickingReleased, EndGesture, SelectPressed, Deselect, TypeOK
  <2>3. QED
    BY <1>0, <1>3, <2>1, <2>2 DEF LeftClickingReleased, TypeOK
<1>4. QED
  BY <1>1, <1>2, <1>3

LEMMA TickKeepsTypes ==
    ASSUME TypeOK, ticked' \in BOOLEAN,
           NEW hit \in MaybeFurniture, NEW grip \in Handles, Tick(hit, grip)
    PROVE  TypeOK'
<1>1. hovered' \in MaybeFurniture /\ overlay' \in SUBSET Furniture
  BY DEF Tick, UpdateHover, CanHover, TypeOK, MaybeFurniture
<1>2. cursor' \in [shown : BOOLEAN, shape : Shapes]
  BY DEF Tick, UpdateCursor, TypeOK, Shapes
<1>3. handle' \in Handles
  BY DEF Tick, UpdateManipulatorHover, TypeOK, Handles
<1>4. QED
  BY <1>1, <1>2, <1>3, CallTypes
  DEF Tick, TypeOK, buttonVars, gestureVars, selectionVars

LEMMA TypeOKStep == TypeOK /\ [Next]_vars => TypeOK'
<1> SUFFICES ASSUME TypeOK, [Next]_vars PROVE TypeOK'
  OBVIOUS
<1>0. ticked' \in BOOLEAN
  BY DEF Next, vars, TypeOK
<1>1. CASE OnCameraControlStarted \/ OnCameraControlStopped \/ OnPanStarted \/ OnPanStopped
  <2>1. /\ NoFurniture \in MaybeFurniture /\ "Idle" \in LMBState
        /\ {"RMB", "MMB"} \subseteq Buttons
    BY DEF MaybeFurniture, LMBState, Buttons
  <2>2. QED
    BY <1>0, <1>1, <2>1, CallTypes
    DEF OnCameraControlStarted, OnCameraControlStopped, OnPanStarted, OnPanStopped, TypeOK,
        gestureVars, selectionVars, hoverVars
<1>2. CASE \E f \in Furniture : ReplicateLock(f)
  BY <1>0, <1>2, CallTypes
  DEF ReplicateLock, TypeOK, buttonVars, gestureVars, selectionVars, hoverVars
<1>3. CASE UNCHANGED vars
  BY <1>3 DEF vars, buttonVars, gestureVars, selectionVars, hoverVars, TypeOK
<1>4. QED
  BY <1>0, <1>1, <1>2, <1>3, ButtonsKeepTypes, TickKeepsTypes DEF Next, Event

\* Type correctness: whatever the order of events, ticks and locks, the pawn
\* selects, hovers and sends calls about pieces of furniture or nothing.
THEOREM TypeCorrect == Spec => []TypeOK
<1>1. TypeOK /\ [Next]_vars => TypeOK'
  BY TypeOKStep
<1>2. QED
  BY <1>1, TypeOKInit, PTL DEF Spec

\* No highlight is ever left behind on a piece the cursor has left, or put on the
\* selection.
THEOREM NoHighlightLeftBehind == Spec => []OverlayIsHovered
<1>1. Init => OverlayIsHovered
  BY DEF Init, OverlayIsHovered
<1>2. QED
  BY <1>1, OverlayStep, TypeCorrect, PTL DEF Spec

\* Highlight and hand follow the hovered piece, and what every tick leaves
\* hovered is neither locked nor selected.
THEOREM HoverStaysCurrent == Spec => []HoverIsCurrent
<1>1. OverlayIsHovered /\ HandMeansHover /\ HoverIsSelectable => HoverIsCurrent
  BY DEF HoverIsCurrent
<1>2. QED
  BY <1>1, NoHighlightLeftBehind, HandOverSelectable, PTL

\* The manipulator is hidden by a drag only, and shown again by its end unless a
\* pan ended it.
THEOREM HiddenOnlyByDrag == Spec => HiddenByDrag
<1> DEFINE Shown ==
        /\ hidden' /\ ~hidden => lmb' = "Dragging"
        /\ hidden /\ lmb = "Dragging" /\ lmb' # "Dragging"
               => ~hidden' \/ "MMB" \in down' \ down
        /\ hidden /\ ~hidden' => lmb = "Dragging" \/ lmb = "Pressed"
<1>1. ASSUME GestureInv, TypeOK, Next PROVE Shown
  <2>1. ASSUME NEW hit \in MaybeFurniture, NEW grip \in Handles, NEW flat \in BOOLEAN,
               LeftClicking(hit, grip, flat)
        PROVE  Shown
    BY <1>1, <2>1 DEF LeftClicking, selectionVars, GestureInv, NoStuckGesture
  <2>2. ASSUME NEW moved \in BOOLEAN, NEW flat \in BOOLEAN, LeftClickingHeld(moved, flat)
        PROVE  Shown
    BY <1>1, <2>2
    DEF LeftClickingHeld, BecomeGesture, StartDrag, StartOrbit, Rotate, Drag, Orbit, TypeOK
  <2>3. CASE LeftClickingReleased
    BY <1>1, <2>3 DEF LeftClickingReleased, EndGesture, SelectPressed, Deselect, TypeOK
  <2>4. CASE OnPanStarted
    BY <2>4 DEF OnPanStarted, selectionVars
  <2>5. CASE \/ OnCameraControlStarted \/ OnCameraControlStopped \/ OnPanStopped
             \/ \E hit \in MaybeFurniture, grip \in Handles : Tick(hit, grip)
             \/ \E f \in Furniture : ReplicateLock(f)
    BY <2>5
    DEF OnCameraControlStarted, OnCameraControlStopped, OnPanStopped, Tick, ReplicateLock,
        gestureVars, selectionVars
  <2>6. QED
    BY <1>1, <2>1, <2>2, <2>3, <2>4, <2>5 DEF Next, Event
<1>2. GestureInv /\ TypeOK /\ [Next]_vars => (GestureInv /\ TypeOK)'
  BY GestureInvStep, TypeOKStep
<1>3. GestureInv /\ TypeOK /\ [Next]_vars => [Shown]_vars
  BY <1>1
<1>4. QED
  BY <1>2, <1>3, GestureInvInit, TypeOKInit, PTL DEF Spec, HiddenByDrag
=============================================================================
