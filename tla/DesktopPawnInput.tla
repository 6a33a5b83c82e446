--------------------------- MODULE DesktopPawnInput ---------------------------
(***************************************************************************)
(* The locally controlled ADesktopPawn of one remote client: the left      *)
(* mouse button, the two camera buttons, hovering, the manipulator, and    *)
(* the calls they send to the server.  Input events and ticks interleave   *)
(* freely with the locks that arrive by replication.                       *)
(*                                                                         *)
(* Geometry is reduced to its outcome: the piece under the cursor, the     *)
(* manipulator handle under the cursor, whether the mouse has left the     *)
(* drag threshold, whether the ray through the cursor is horizontal.       *)
(***************************************************************************)
CONSTANTS Furniture,
          NoFurniture       \* nullptr

ASSUME InputAssumption == NoFurniture \notin Furniture

VARIABLES
    down,           \* the mouse buttons that are held
    lmb,            \* LeftClickState
    camera,         \* bCameraControlActive
    panning,        \* bIsPanning
    pressed,        \* PressedFurniture
    selected,       \* SelectedFurniture, the client's copy
    hovered,        \* HoveredFurniture
    overlay,        \* the pieces that wear the hover material
    manipulator,    \* the piece ActiveManipulator is attached to
    hidden,         \* ActiveManipulator is hidden in game
    handle,         \* HoveredHandle of ActiveManipulator
    cursor,         \* the cursor of the player controller
    locked,         \* the pieces with SelectingStencilSlot # 0 on this client
    sent,           \* the last call the event sent to the server, if any
    ticked          \* history: nothing has happened since the last tick

buttonVars == <<down, camera, panning>>
gestureVars == <<lmb, pressed>>
selectionVars == <<selected, manipulator, hidden>>
hoverVars == <<hovered, overlay, handle, cursor>>
vars == <<buttonVars, gestureVars, selectionVars, hoverVars, locked, sent, ticked>>

Buttons == {"LMB", "RMB", "MMB"}
LMBState == {"Idle", "Pressed", "Orbiting", "Dragging", "Rotating"}
\* The four arrows behave alike: "Arrow" stands for each of them.
Handles == {"None", "Arrow", "Rotate"}
Shapes == {"Default", "Hand", "GrabHandClosed"}
MaybeFurniture == Furniture \cup {NoFurniture}

NoCall == [call |-> "none", of |-> NoFurniture]
Call(name, f) == [call |-> name, of |-> f]
Calls == {"none", "select", "deselect", "drag", "rotate", "orbit"}

TypeOK ==
    /\ down \in SUBSET Buttons
    /\ lmb \in LMBState
    /\ camera \in BOOLEAN /\ panning \in BOOLEAN
    /\ pressed \in MaybeFurniture
    /\ selected \in MaybeFurniture
    /\ hovered \in MaybeFurniture
    /\ overlay \in SUBSET Furniture
    /\ manipulator \in MaybeFurniture
    /\ hidden \in BOOLEAN
    /\ handle \in Handles
    /\ cursor \in [shown : BOOLEAN, shape : Shapes]
    /\ locked \in SUBSET Furniture
    /\ sent \in [call : Calls, of : MaybeFurniture]
    /\ ticked \in BOOLEAN

Init ==
    /\ down = {} /\ camera = FALSE /\ panning = FALSE
    /\ lmb = "Idle" /\ pressed = NoFurniture
    /\ selected = NoFurniture
    /\ manipulator = NoFurniture /\ hidden = FALSE
    /\ hovered = NoFurniture /\ overlay = {} /\ handle = "None"
    /\ cursor = [shown |-> TRUE, shape |-> "Default"]
    /\ locked \in SUBSET Furniture
    /\ sent = NoCall /\ ticked = FALSE

-----------------------------------------------------------------------------
(* The left button                                                         *)

\* LeftClicking (Started).  A click on a handle of the manipulator rotates or
\* nudges the selection; any other click is the start of a press.
GrabRing(flat) ==
    /\ lmb' = IF flat THEN lmb ELSE "Rotating"
    /\ sent' = NoCall
    /\ UNCHANGED pressed

NudgeSelectedFurniture ==
    /\ sent' = Call("drag", selected)
    /\ UNCHANGED gestureVars

Press(hit) ==
    /\ pressed' = hit
    /\ lmb' = "Pressed"
    /\ sent' = NoCall

LeftClicking(hit, grip, flat) ==
    /\ "LMB" \notin down
    /\ down' = down \cup {"LMB"}
    /\ IF camera
       THEN sent' = NoCall /\ UNCHANGED gestureVars
       ELSE IF manipulator = NoFurniture \/ selected = NoFurniture \/ grip = "None"
       THEN Press(hit)
       ELSE IF grip = "Rotate" THEN GrabRing(flat) ELSE NudgeSelectedFurniture
    /\ UNCHANGED <<camera, panning, selectionVars, hoverVars, locked>>

\* LeftClickingHeld (Triggered) in the Pressed state: past the threshold the
\* gesture becomes a drag of the selection or an orbit of the camera.
StartDrag(flat) ==
    /\ lmb' = IF flat THEN lmb ELSE "Dragging"
    /\ hidden' = (hidden \/ (~flat /\ manipulator # NoFurniture))

StartOrbit ==
    /\ lmb' = "Orbiting"
    /\ UNCHANGED hidden

\* Mutant: whatever is pressed is dragged, selected or not.
DragWhateverIsPressed(moved, flat) ==
    /\ lmb = "Pressed"
    /\ moved
    /\ IF pressed # NoFurniture THEN StartDrag(flat) ELSE StartOrbit
    /\ sent' = NoCall

BecomeGesture(moved, flat) ==
    /\ lmb = "Pressed"
    /\ moved
    /\ IF pressed # NoFurniture /\ pressed = selected
       THEN StartDrag(flat) ELSE StartOrbit
    /\ sent' = NoCall

\* HandleRotate, HandleDrag and HandleOrbit.
Rotate(flat) ==
    /\ lmb = "Rotating"
    /\ sent' = IF selected = NoFurniture \/ flat THEN NoCall ELSE Call("rotate", selected)
    /\ UNCHANGED <<lmb, hidden>>

Drag(flat) ==
    /\ lmb = "Dragging"
    /\ sent' = IF selected = NoFurniture \/ flat THEN NoCall ELSE Call("drag", selected)
    /\ UNCHANGED <<lmb, hidden>>

Orbit ==
    /\ lmb = "Orbiting"
    /\ sent' = Call("orbit", NoFurniture)
    /\ UNCHANGED <<lmb, hidden>>

LeftClickingHeld(moved, flat) ==
    /\ "LMB" \in down
    /\ BecomeGesture(moved, flat) \/ Rotate(flat) \/ Drag(flat) \/ Orbit
    /\ UNCHANGED <<buttonVars, pressed, selected, manipulator, hoverVars, locked>>

\* LeftClickingReleased (Completed).  A press that did not become a gesture
\* selects the piece under it, or deselects.
\* Mutant: the call is saved when the client already sees the piece locked.
SelectWithoutTelling ==
    /\ sent' = IF pressed \in locked THEN NoCall ELSE Call("select", pressed)
    /\ overlay' = overlay \ {pressed}
    /\ selected' = pressed
    /\ manipulator' = pressed
    /\ hidden' = FALSE
    /\ handle' = "None"

SelectPressed ==
    /\ sent' = Call("select", pressed)
    /\ overlay' = overlay \ {pressed}
    /\ selected' = pressed
    /\ manipulator' = pressed
    /\ hidden' = FALSE
    /\ handle' = "None"

\* Mutant: the manipulator outlives the selection.
DeselectKeepsManipulator ==
    /\ sent' = IF selected = NoFurniture THEN NoCall ELSE Call("deselect", NoFurniture)
    /\ selected' = NoFurniture
    /\ UNCHANGED <<manipulator, hidden, handle, overlay>>

Deselect ==
    /\ sent' = IF selected = NoFurniture THEN NoCall ELSE Call("deselect", NoFurniture)
    /\ selected' = NoFurniture
    /\ manipulator' = NoFurniture
    /\ hidden' = FALSE
    /\ handle' = "None"
    /\ UNCHANGED overlay

\* Mutant: the end of a drag does not show the manipulator again.
EndGestureHidden ==
    /\ sent' = NoCall
    /\ UNCHANGED <<selected, manipulator, hidden, overlay, handle>>

EndGesture ==
    /\ hidden' = (hidden /\ lmb # "Dragging")
    /\ sent' = NoCall
    /\ UNCHANGED <<selected, manipulator, overlay, handle>>

\* Mutant: the camera swallows the release as it swallows the click.
ReleaseSwallowedByCamera ==
    /\ "LMB" \in down
    /\ down' = down \ {"LMB"}
    /\ IF camera THEN sent' = NoCall /\ UNCHANGED <<selectionVars, overlay, handle, gestureVars>>
       ELSE /\ IF lmb # "Pressed" THEN EndGesture
               ELSE IF pressed # NoFurniture THEN SelectPressed ELSE Deselect
            /\ lmb' = "Idle"
            /\ pressed' = NoFurniture
    /\ UNCHANGED <<camera, panning, hovered, cursor, locked>>

LeftClickingReleased ==
    /\ "LMB" \in down
    /\ down' = down \ {"LMB"}
    /\ IF lmb # "Pressed" THEN EndGesture
       ELSE IF pressed # NoFurniture THEN SelectPressed ELSE Deselect
    /\ lmb' = "Idle"
    /\ pressed' = NoFurniture
    /\ UNCHANGED <<camera, panning, hovered, cursor, locked>>

-----------------------------------------------------------------------------
(* The camera buttons                                                      *)

OnCameraControlStarted ==
    /\ "RMB" \notin down
    /\ down' = down \cup {"RMB"}
    /\ camera' = TRUE
    /\ sent' = NoCall
    /\ UNCHANGED <<panning, gestureVars, selectionVars, hoverVars, locked>>

OnCameraControlStopped ==
    /\ "RMB" \in down
    /\ down' = down \ {"RMB"}
    /\ camera' = FALSE
    /\ sent' = NoCall
    /\ UNCHANGED <<panning, gestureVars, selectionVars, hoverVars, locked>>

\* A pan cancels the gesture of the left button.
OnPanStarted ==
    /\ "MMB" \notin down
    /\ down' = down \cup {"MMB"}
    /\ panning' = TRUE
    /\ camera' = TRUE
    /\ lmb' = "Idle"
    /\ pressed' = NoFurniture
    /\ sent' = NoCall
    /\ UNCHANGED <<selectionVars, hoverVars, locked>>

\* Mutant: the camera flag is left to the other button.
PanStopsPanningOnly ==
    /\ "MMB" \in down
    /\ down' = down \ {"MMB"}
    /\ panning' = FALSE
    /\ sent' = NoCall
    /\ UNCHANGED <<camera, gestureVars, selectionVars, hoverVars, locked>>

OnPanStopped ==
    /\ "MMB" \in down
    /\ down' = down \ {"MMB"}
    /\ panning' = FALSE
    /\ camera' = FALSE
    /\ sent' = NoCall
    /\ UNCHANGED <<gestureVars, selectionVars, hoverVars, locked>>

-----------------------------------------------------------------------------
(* Tick: UpdateHover, UpdateCursor and UpdateManipulatorHover, in order    *)

\* The gestures during which nothing is hovered.
InGesture == lmb \in {"Orbiting", "Dragging", "Rotating"}

IsSelectableFurniture(f) == f \notin locked

CanHover(f) == f # NoFurniture /\ f # selected /\ IsSelectableFurniture(f)

\* Mutant: the piece that is still under the cursor is not looked at again.
UpdateHoverTrustsOld(hit) ==
    LET target == IF ~camera /\ ~InGesture /\ (CanHover(hit) \/ hit = hovered)
                  THEN hit ELSE NoFurniture
    IN  /\ hovered' = target
        /\ overlay' = IF target = hovered THEN overlay
                      ELSE IF target = NoFurniture THEN overlay \ {hovered}
                      ELSE (overlay \ {hovered}) \cup {target}

UpdateHover(hit) ==
    LET target == IF ~camera /\ ~InGesture /\ CanHover(hit) THEN hit ELSE NoFurniture
        \* somebody locked the piece since it was hovered
        kept == IF hovered \in locked THEN NoFurniture ELSE hovered
    IN  /\ hovered' = target
        /\ overlay' = IF target = NoFurniture THEN overlay \ {hovered}
                      ELSE IF target = kept THEN overlay
                      ELSE (overlay \ {hovered}) \cup {target}

\* Mutant: the cursor is updated before the hover.
UpdateCursorFirst ==
    cursor' = IF camera THEN [cursor EXCEPT !.shown = FALSE]
              ELSE [shown |-> TRUE,
                    shape |-> IF InGesture THEN "GrabHandClosed"
                              ELSE IF hovered # NoFurniture THEN "Hand"
                              ELSE "Default"]

UpdateCursor ==
    cursor' = IF camera THEN [cursor EXCEPT !.shown = FALSE]
              ELSE [shown |-> TRUE,
                    shape |-> IF InGesture THEN "GrabHandClosed"
                              ELSE IF hovered' # NoFurniture THEN "Hand"
                              ELSE "Default"]

UpdateManipulatorHover(grip) ==
    handle' = IF manipulator = NoFurniture THEN handle
              ELSE IF camera \/ InGesture THEN "None"
              ELSE grip

Tick(hit, grip) ==
    /\ UpdateHover(hit)
    /\ UpdateCursor
    /\ UpdateManipulatorHover(grip)
    /\ sent' = NoCall
    /\ UNCHANGED <<buttonVars, gestureVars, selectionVars, locked>>

-----------------------------------------------------------------------------
\* SelectingStencilSlot of a piece replicates: locked by this or by another
\* player, or free again.
ReplicateLock(f) ==
    /\ locked' = IF f \in locked THEN locked \ {f} ELSE locked \cup {f}
    /\ sent' = NoCall
    /\ UNCHANGED <<buttonVars, gestureVars, selectionVars, hoverVars>>

Event ==
    \/ \E hit \in MaybeFurniture, grip \in Handles, flat \in BOOLEAN :
           LeftClicking(hit, grip, flat)
    \/ \E moved, flat \in BOOLEAN : LeftClickingHeld(moved, flat)
    \/ LeftClickingReleased
    \/ OnCameraControlStarted
    \/ OnCameraControlStopped
    \/ OnPanStarted
    \/ OnPanStopped
    \/ \E f \in Furniture : ReplicateLock(f)

Next ==
    \/ Event /\ ticked' = FALSE
    \/ (\E hit \in MaybeFurniture, grip \in Handles : Tick(hit, grip)) /\ ticked' = TRUE

Spec == Init /\ [][Next]_vars

-----------------------------------------------------------------------------
(* Properties                                                              *)

\* No gesture outlives its button, however pans and looks interleave with
\* it: with the left button up there is no pressed piece and no gesture.
NoStuckGesture ==
    "LMB" \notin down => lmb = "Idle" /\ pressed = NoFurniture

\* The piece HandleDrag moves (SelectedFurniture) is the one the drag was
\* anchored on (PressedFurniture), for the whole drag.
DragsTheSelection ==
    lmb = "Dragging" => pressed = selected /\ selected # NoFurniture

\* The manipulator is attached to the selection and exists only with one, so
\* its handles never rotate or nudge a piece that is not selected.
ManipulatorFollowsSelection == manipulator = selected

\* At most the hovered piece wears the hover material, and the selection never
\* does, although both can change between two ticks.
OverlayIsHovered == overlay \subseteq {hovered} /\ selected \notin overlay

\* The hand is shown exactly while a piece is hovered.
HandMeansHover ==
    cursor.shown => (cursor.shape = "Hand" <=> hovered # NoFurniture)

\* What a piece was hovered for is looked at again by every tick: after one, and
\* until something else happens, a hovered piece is neither locked nor selected
\* and no gesture or camera button is active.  A piece that was locked, or
\* selected, in between stays hovered until the next tick only.
HoverIsSelectable ==
    ticked /\ hovered # NoFurniture => CanHover(hovered) /\ ~camera /\ ~InGesture

\* The server is told of every change of the client's selection by the call
\* that describes it, and of nothing else: FurnitureSelection starts from it.
ServerIsTold ==
    [][/\ selected' # selected =>
              \/ selected' # NoFurniture /\ sent' = Call("select", selected')
              \/ selected' = NoFurniture /\ sent' = Call("deselect", NoFurniture)
       /\ sent'.call = "select" => sent'.of = selected'
       /\ sent'.call = "deselect" => selected # NoFurniture /\ selected' = NoFurniture
       /\ sent'.call \in {"drag", "rotate"} => sent'.of = selected]_vars

\* Two buttons share one flag: releasing one of them ends the camera control of
\* the other, but with both held nothing is hovered or clicked, and with none
\* held the flag is never left set, which would hide the cursor for good.
CameraFollowsButtons ==
    /\ camera => down \cap {"RMB", "MMB"} # {}
    /\ {"RMB", "MMB"} \subseteq down => camera
    /\ panning <=> "MMB" \in down

\* The gesture and the camera follow the three buttons, in every order.
GesturesFollowButtons == NoStuckGesture /\ CameraFollowsButtons

\* What the gestures act on is the selection.
GesturesOnSelection == DragsTheSelection /\ ManipulatorFollowsSelection

\* Highlight and cursor tell what is hovered, and every tick what can be selected.
HoverIsCurrent == OverlayIsHovered /\ HandMeansHover /\ HoverIsSelectable

\* Only a drag hides the manipulator, and the end of the drag shows it again,
\* unless a pan ended it: then it stays hidden until a later drag ends or the
\* selection changes.
HiddenByDrag ==
    [][/\ hidden' /\ ~hidden => lmb' = "Dragging"
       /\ hidden /\ lmb = "Dragging" /\ lmb' # "Dragging"
              => ~hidden' \/ "MMB" \in down' \ down
       /\ hidden /\ ~hidden' => lmb = "Dragging" \/ lmb = "Pressed"]_vars
=============================================================================
