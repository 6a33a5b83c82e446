# Ioroom: TLA+ models, checks and proofs

Ioroom is an Unreal Engine room designer for several users. Each user flies a
camera pawn through a shared room, selects a piece of furniture, which locks
it for the others and outlines it in the user's colour, and drags, nudges or
rotates it. One user may host the room (listen server) or a dedicated server
may. The repository also carries the editor plugin RiderLink, which connects
the Unreal editor with the IDE over the RD framework.

This directory models the game's own logic, all of it under
`src/Source/UE_IoroomProject`, and the concurrent core of the plugin, under
`src/Plugins/Developer/RiderLink/Source`. It checks the models with TLC on
small instances, and proves the most important properties with TLAPS for all
values of the constants.

Contents: [1 the system](#1-the-system-and-its-parts),
[2 plan](#2-plan), [3 modules and code](#3-modules-and-the-code-they-model),
[4 runs](#4-runs), [5 findings](#5-what-the-code-says-and-does-not-do),
[6 proofs](#6-proofs), [7 what is left out](#7-what-is-not-modelled).

## 1 The system and its parts

The game:

| Part | State | Operations | Talks to |
|---|---|---|---|
| Stencil slot pool, `AIoroomGameState` | `UsedStencilSlots`, ten flags, on the server only | `ReserveStencilSlot` (first free flag, or -1), `ReleaseStencilSlot` | called by the player states |
| Player state, `AIoroomPlayerState` | `StencilSlot`, `AssignedColor` (replicated), the snap settings | `BeginPlay`/`InitializePlayerColor`, next-tick callback, `OnRep_*`, `EndPlay` | pool, pawn, view model collection |
| Pawn, selection, `ADesktopPawn` | `SelectedFurniture`, once on the server and once on the owning client, not replicated | reliable `Server_SelectFurniture`, `Server_DeselectFurniture`; unreliable `Server_DragFurniture`, `Server_RotateFurniture` | furniture, player state |
| Furniture, `AFurnitureActor` | `SelectingStencilSlot` (replicated; 0 = free), transform (replicated movement), hover material | `OnSelected`, `OnDeselected`, `OnHovered`, `OnUnhovered`, `OnRep_SelectingStencilSlot` | outline post process |
| Pawn, input, `ADesktopPawn` | `LeftClickState`, `PressedFurniture`, `HoveredFurniture`, `bCameraControlActive`, `bIsPanning`, `ActiveManipulator` | three mouse buttons, `Tick` (hover, cursor, manipulator) | sends the calls above |
| Manipulator, `AFurnitureManipulator` | target, `HoveredHandle`, visibility | attach, detach, hover a handle | pawn |
| Pawn, camera, `ADesktopPawn` | camera transform, once per machine | move, look, pan, zoom, orbit, with a server call each | itself on the server |
| Game instance, `UIoroomGameInstance` | detected hardware, the flag `bHasAutoDetectedGraphics`, saved quality groups | `Init`, `AutodetectGraphicsSettings`, `SetScalabilityLevel`, `GetCurrentScalabilityLevel` | engine settings, disk |
| Snap settings, `USnapSettingsViewModel` | grid and angle snapping, on/off and step | registration under a context name, setters, cycling | user interface, pawn |

The plugin:

| Part | State | Operations | Talks to |
|---|---|---|---|
| Send buffer, `ByteBufferAsyncProcessor` | containers `data`, `queue`, `pending_queue` with sequence numbers, state, thread | `put`, `pause`, `resume`, `acknowledge`, `terminate` | wire |
| Wire, `SocketWire::Base`, `Server` | socket, thread, sequence number received, balance of interrupts | accept or connect, send and read packages and acknowledgements, reconnect, stop | send buffer, broker, peer |
| Message broker, `MessageBroker` | subscriptions by id, entries of messages nobody is subscribed to | `advise_on`, `dispatch` (on the wire thread), the actions it queues (on the Scheduler) | wire, reactive entities |
| Link module, `FRiderLinkModule` | `EditorModel`, `RdIsModelAlive` | bind on connection, take back on its end | Scheduler, other modules |
| Game control, `FRiderGameControl` | one object per announced model, delegates of the editor, commands | tell the state of the play session, run commands, report results | Scheduler, game thread, IDE |
| Blueprint module, `FRiderBlueprintModule` | none; `sync_task_id` of `RdCall` | open a blueprint after a synchronous call back to the IDE | Scheduler, IDE |

The hard behaviours of the game are those of a replicated program without a
transaction:

* A client acts on its copy at once and tells the server afterwards. The
  server may refuse, and never says so.
* Reliable calls arrive in order, unreliable ones in any order relative to them or
  not at all. A move carries no piece, only where to.
* Slot, lock, pawn and player state of a leaving player end in different
  functions, and one of them (the lock) in none.
* Properties and links between actors reach a client in any order.
* On a listen server a "remote" call runs inside its caller, on the very
  variable the caller assigns next.
* Three buttons and the tick share two flags and one gesture state.
* The process may be killed between two writes of its settings.
* Player states begin and end while a collection that outlives them keeps
  one view model under one name.

Those of the plugin are threads and connections:

* A connection breaks anywhere, loses packages and acknowledgements, and the
  next one repeats what was not acknowledged while new messages are put.
* The thread of the send buffer and the actions of the broker let go of their
  locks between a decision and what they do about it.
* Messages come before the entity they are for is bound, and actions run after
  the connection they were queued on.
* Objects are destroyed on one thread while actions with plain pointers to
  them wait on another; a synchronous call times out and its answer comes late.

`PROJECT.json` lists these as hazards, each at its line.

What makes each part correct:

* pool: no slot leaks, none has two holders, whatever happens beyond slot 10;
* selection: locks are exclusive, never taken over, held by whom they name,
  never left behind by a client that has moved on; only the holder moves a piece;
* transforms: when nothing is in flight everybody sees a piece where it is and as it stands;
* input: gestures end with their button, a drag stays on its piece, highlight and
  hand are put right by every tick, the server hears of each change of the selection;
* colours: once everything has arrived, the pawn has the colour of its player, and
  no two players who are there share one;
* graphics: a level chosen by the user survives, a crash does not leave the
  game without a level, and a detection is not repeated;
* snap settings: the widgets are bound to the local player, and show the steps
  that the pawn uses;
* wire: what the sender forgets was read, and what is read is an ordered stream;
* broker: a message is delivered once, in order and to the entity of its connection, and
  nothing that is gone is used;
* plugin: the model announced is that of the connection, the IDE shows the
  state of the play session, and its requests are answered.

## 2 Plan

Order: the lock first, because all users of a room depend on it and its
failures need several of them; then what they see of it; then the local parts;
then the plugin, from the bytes up.

1. *Done.* `StencilPool`, `FurnitureLock` (abstract), `FurnitureSelection`
   (detailed), `SelectionRefinement` (the second implements the first).
2. *Done.* `DesktopPawnInput`: the client side. Its property `ServerIsTold` says
   that the calls it sends are those from which `FurnitureSelection` starts.
3. *Done.* `FurnitureReplication`: `FurnitureSelection` composed with
   replicated movement and the copies of the clients; `AgreeUnlessStray` proved.
4. *Done.* `PlayerVisuals`: slots and colours, server and viewers.
5. *Done.* `GraphicsTier`: launches, crashes, hardware.
6. *Done.* `SnapSettings`: registration, removal, cycling, the steps.
7. *Done.* `OrderedChannel` (abstract), `SocketWire` (detailed, implements it):
   send buffer, wire, reconnections.
8. *Done.* `MessageBroker`: dispatch, binding and the Scheduler.
9. *Done.* `RiderLink`: model, game control, commands, the synchronous call.
10. *Dropped.* Camera and the arithmetic of snapping and nudging: their results are
    products of floating-point numbers and frame times, and nothing in the code
    decides anything by them. What is discrete about them, the flags, the
    gestures and the steps, is in `DesktopPawnInput` and `SnapSettings`.

11. *Done.* Proofs for every module, `MessageBroker` and `RiderLink` last.

What a next step would take: an abstract mailbox that `MessageBroker` implements, and the
reactive types of RD (`RdProperty` with its master version, `RdMap`), should the plugin
be changed in this repository.

## 3 Modules and the code they model

`PROJECT.json` maps each definition to its lines. In the modules of the game a
C++ function is one step: the game code runs on the game thread only. Where a
function calls another in place, both are in the same action. In the modules of
the plugin a step is what a thread does under one lock, or between two places at
which another thread can come in.

### StencilPool

`GameState`: operators on the array of flags. `MaxPlayers` is the constant of
the same name (10). The pool is at its limit in `selection_dedicated`,
`replication_room` and `visuals_crowded`.

### FurnitureLock, FurnitureSelection, SelectionRefinement

`FurnitureLock` is what a user would expect: `owner` and `at` of each piece;
acquire (giving up another piece in the same step), release, abandon, move.

`FurnitureSelection` is the code. `serverSel` and `clientSel` are the two
copies of `SelectedFurniture`; `requests` and `moves` are the calls in flight.

| Action | Code |
|---|---|
| `Join`, `Leave` | `BeginPlay` and `EndPlay` of the player state, destruction of the pawn |
| `ClickFurniture`, `ClickNothing` | `LeftClickingReleased` on a client |
| `MoveFurniture` | `HandleDrag`, `HandleRotate`, `NudgeSelectedFurniture` |
| `ReceiveRequest` | `Server_SelectFurniture`, `Server_DeselectFurniture` with `OnSelected`, `OnDeselected`, `IsSelectableFurniture` |
| `ReceiveMove` | `Server_DragFurniture`, `Server_RotateFurniture` |
| `LoseMove` | an unreliable call that is lost |
| `HostClickFurniture`, `HostClickNothing`, `HostMoveFurniture` | the same functions where the call runs in place |

A transform is a function from `Component` to `Value`, and a move sets one
component: `Server_DragFurniture` sets the location only, `Server_RotateFurniture` the
rotation only, so that a rotation does not make up for a drag that was lost. The two
are the elements of `Component`; nothing in the module tells them apart, and the
proofs hold for any set of them.

Abstractions, all of which allow more than the program does: a user may click any piece at any time, as
`DesktopPawnInput` restricts clicks but not which piece is under the cursor;
`moves` is a queue of its own, so a move may be handled before a selection
that was sent earlier, or long after one that was sent later.

Assumed: a pawn has its player state when its calls are handled (the pawn is
possessed before it can send any), and a client whose connection ends disappears
in one step with its calls.

`SelectionRefinement` defines the owner of a piece from the concrete state: the
player whose pawn has it selected on the server; `Departed` when it is locked
and no pawn has it. That case is real (section 5): the abstract lock
contains it, so that it promises no more than the code keeps.

### FurnitureReplication

Extends `FurnitureSelection`: `shadow` is the value the engine compared last,
`update` what is on its way to each client, `shownAt` the client's copy of the
transform, both components of it: the engine compares and sends location and
rotation together. The engine's side is modelled from how `SetReplicatingMovement` is
used and marked external: an update is sent when the value differs
from the one compared last, a later one replaces an earlier one, and a
lost one is sent again. The shadow is shared by all clients; the engine may keep
one for each, which changes nothing as each is updated at the same comparison.

`stray` is a history variable: what a client may show out of place, a component of a
piece, with the three reasons for it (the last move in flight of it was lost; it moved
something else; the piece was put back before it was compared). Nothing in the model reads it but
the properties.

### DesktopPawnInput

One remote client, its three buttons and `Tick`. Locks arrive in between as any
set of pieces. Geometry is an input of the event: the piece under the cursor
(`hit`), the handle (`grip`, the four arrows being one value), whether the
mouse passed the threshold (`moved`), whether the ray is horizontal
(`flat`). A button is released only after it was pressed. The trackpad
variant of panning (Alt with the left button) is not modelled. `ticked` is a history
variable: the last event was a tick. A piece that is locked or selected stays hovered until
the next tick, in the code and in the model; `HoverIsSelectable` says that it does not
outlast it. The pawn is
assumed to have its manipulator class and the furniture its hover material,
as the content does.

### PlayerVisuals

`Enter`, `BeginPlay`, `PossessedBy`, `NextTick`, `EndPlay` on the server, in
any order the engine can produce; at a viewer the properties arrive together
or one by one (the engine usually bundles them), the link from pawn to player
state before, between or after, and pawns leave the viewer's range and
come back. `EndPlay` returns the slot and tells no viewer: the two actors of the player
are `leaving` at each viewer until `PlayerStateDestroyed` and `PawnDestroyed`, in either
order, and updates sent before may still arrive. Meanwhile the slot may be given to
another player. A colour is named by the slot it belongs to; a parameter that does not
exist yields black. The name of a player is not used again while the
callback of its previous player state is pending or a viewer has one of its actors.

### GraphicsTier

`Init` as three steps with a crash possible between any two: the level is
applied and saved, then the flag is saved. `chosen` is a history
variable. A launch may find other hardware than the last one. The benchmark
answers with any level.

### SnapSettings

One process: the player states of local and of other players, and the collection
of view models of the game instance, which outlives the worlds.

| Action | Code |
|---|---|
| `BeginPlay` | `BeginPlay`, `InitializeViewModels`, with the controller there or not |
| `LinkPawn` | `OnRep_PlayerState`, or possession |
| `EndPlay` | `EndPlay`, `RemoveViewModels` (by context name) |
| `CycleGridSnap`, `CycleRotationSnap` | the functions of the view model, with `SetGridSnap`, `SetRotationSnap` |

A context name that is taken is refused by the collection (engine, read from how
the return value is used). A player state is used once; a new world is a new
player state, and the one of the old world may end before or after it begins. The
four tables of steps, two in the player state and two in the texts, and the two
literals of the pawn are in the module as they are in the code.

### OrderedChannel, SocketWire

`OrderedChannel` is what two wires promise: messages in order and without a hole,
or all again from the first one, until the stream is broken.

`SocketWire` is one direction between two ends of this class. Message m is the m-th
one put, and its package has the number m; the containers of the send buffer are
kept as the boundaries between them.

| Action | Code |
|---|---|
| `Put` | `ByteBufferAsyncProcessor::put` |
| `Take`, `StartProcess`, `SendNext`, `EndProcess`, `ThreadExit` | `ThreadProc` and `process`, with `send0` for each chunk; the lock is not held between `Take` and `StartProcess` |
| `Attach`, `Resume` | the socket is set, then `resume` with `reprocess` |
| `ReadAck` | `acknowledge` |
| `Leave` | `receiverProc` returns, `pause` |
| `ReadPackage` | `read_package` of the other end: acknowledge, compare, deliver |
| `BreakLink`, `LoseInFlight` | the connection ends and loses a suffix of either direction |
| `Stop`, `Stopped` | `terminate`, with the bounded wait for the thread, and the closed socket |

`garbled` is set by the byte of a duplicate that enters the stream, `overtaken` is
a history variable: a message was sent between the new socket and its resume. Each
direction is modelled with this class at both ends. Heartbeats carry no state
that a later step reads and are left out. An exception thrown between `resume` and `pause`
(`SocketWire.cpp:142-150`) would leave without the `pause`, and the model has no such step:
the handler of `connected` in this repository only queues an action (`RiderLink.cpp:64`) and
`receiverProc` catches what a message throws, which leaves the closing actions of the connection.

### MessageBroker

One id whose entity is bound again on each connection, either to the default
scheduler or to the synchronous one (`custom`). The wire thread connects, dispatches and
ends lifetimes; the Scheduler runs its queue, an action at a time. Each function is cut
where the other thread can come in:

| Action | Code |
|---|---|
| `Connect` | the task of `InitProtocol` is queued, before the first message is read |
| `Disconnect`, `Unbind` | `LifetimeImpl::terminate`: the flag, then the closing actions from the last: that of `advise_on` erases the subscription, that of `bind` sets the id to null |
| `Dispatch` | `MessageBroker::dispatch` under the lock, in its branches |
| `RunBind`, `CheckTerminated`, `Subscribe`, `AddAction` | the new model, then `advise_on`: test of the lifetime, assignment, `add_action`. The lock keeps `dispatch` out (`Locked`) but not the end of the lifetime |
| `RunInvoke` | the action of `invoke`, which looks its entity up by the id it has now |
| `RunPump`, `PopMessage`, `InvokePopped`, `CheckEmpty`, `MoveEntry`, `EraseEntry`, `ReleaseNext`, `ReleaseDone` | the action of a message nobody was subscribed to; it holds the lock only to pop |
| `RunPumpErased`, `ReleaseToNull`, `DispatchDestroyed` | the undefined uses: the iterator of an erased entry, the null subscription that was read at the start, an entity that has been replaced |

`entry` is the incarnation of the map entry, so that an iterator to an erased one can be
told from one to its successor. A lifetime that ends between the test and `add_action`
makes it throw; the Scheduler catches that, and the subscription stays behind
(`subscription` of an earlier connection), or is made under the null id (`nulled`). The
model stops at an undefined use and names it in `undefined`: what follows it is
not defined either. Three accesses of the map of subscriptions are without the lock
(`MessageBroker.cpp:68`, the erasing at 143, and `rdid`); they are taken as atomic, so
that their order is modelled and the data race on the structure of the map is not.

History: `gap`, the messages dispatched while an entry was being given up, and `strays`,
those dispatched to the entity of an earlier connection.

### RiderLink

Three threads: the wire's (`Connect`, `Disconnect`, `ReceiveRequest`,
`ReceiveResponse`), the Scheduler's (`RunTask`, which runs the head of its queue,
`CallFails`), the game's (`PlaySessionChanges`, `RunGameTask`, `ShutdownModule`).
A model and a game control are named by the number of their connection.

| Task of the Scheduler | Code |
|---|---|
| `RunConnect`, `RunGone` | the two lambdas of `InitProtocol` with `ViewModel` of the game control module |
| `RunPlayState`, `RunInitialized`, `RunReply` | `ScheduleModelAction` of the delegates, of the end of the game control and of `SendRequestSucceed`/`Failed` |
| `RunCommand` | `RequestPlayWorldCommand`: refused in place or handed to the game thread |
| `RunOpen` | `openBlueprint`: the synchronous call `AllowSetForegroundWindow`, then the blueprint, or nothing when there is no root window (`RiderBlueprint.cpp:74`): `unopened` |
| `DropRequest` | a request nobody is subscribed to any more |

`MessageBroker` says how a request finds its handler; here it is a task that finds
its handler subscribed or not. While a synchronous call waits the Scheduler runs
nothing else, and the response is dispatched in place on the wire thread.

## 4 Runs

State counts are distinct states after symmetry.

| Run | Instance | Checks | Shows |
|---|---|---|---|
| `selection_dedicated` | 2 players, 1 slot, 2 pieces, 2 locations, 2 reliable and 1 unreliable call in flight each (216,774) | `LockExclusive`, `LockMatchesSlot`, `MisledByRefusal`, `MisattributedByJoin`, `ImplementsLock` | races for a piece, swaps, refused selections, overtaking moves, locks of a player without a slot; the code implements the abstract lock |
| `selection_host` | host and client, 2 slots, 2 pieces, 2 locations, as many calls in flight (37,208) | `PoolAgrees`, `NoGhostLock`, `DeselectionArrives` | calls that run in place; a deselection arrives behind any earlier calls |
| `replication_room` | host and client, 1 slot, 1 piece, 2 components with 2 values each, 2 calls of each kind in flight (1,090,438) | `PoolAgrees`, `AgreeUnlessStray` | hand-over, lost drags followed by rotations, updates that overwrite them, the pool beyond its limit |
| `replication_swaps` | 1 client, 2 pieces, 2 locations, 2 moves in flight (119,183) | `AgreeUnlessStray` | moves that overtake selections and land on the other piece |
| `input_client` | 2 pieces (10,234) | `GesturesFollowButtons`, `GesturesOnSelection`, `HoverIsCurrent`, `ServerIsTold`, `HiddenByDrag` | all interleavings of buttons, ticks and locks |
| `visuals_crowded` | 3 players, 2 slots, 1 viewer, one leaver at a time (1,281,703) | `HoldersArePainted`, `SharedOnlyWithLeavers` | all orders of arrival and of destruction, slots handed on before the viewer knows |
| `graphics_launches` | 3 families, memory on both sides of each threshold (1,603) | `ChoiceSurvives`, `RunningMeansDetected`, `SettledOnceDetected` | crashes at every write, new hardware, levels on both sides of each threshold |
| `snap_settings` | 3 player states, up to 2 local at a time (261,352) | `LocalIsServed`, `StepsAreShown`, `LostOnlyToLocal` | worlds and players that overlap, refused registrations, all steps |
| `socket_wire` | 3 messages, 4 connections (42,101) | `AcknowledgementsHold`, `DrainedIsReceived`, `RepeatsAreUnacknowledged`, `ImplementsChannel`, `Arrives` | connections that break anywhere and lose any suffix, stops, overtaking; the wire implements the abstract channel |
| `message_broker` | 4 messages, 2 connections, both kinds of scheduler (62,582) | `DeliveredInOrder`, `NothingIsLost`, `UndefinedAcrossConnections`, `NoStaleMessage`, `EveryMessageIsDelivered` | messages before, during and after binding, lifetimes that end in the middle of it, an entry used while it is given up |
| `rider_link` | 2 connections, 2 changes of the session, 1 command, 2 blueprints (1,603,641) | `ModelIsCurrent`, `IdeFollowsPlay`, `ModelIsTakenBack`, `DanglesOnlyLate`, `DroppedOnlyLate`, `RequestsAreAnswered` | lost connections at every step, late answers, no window, shutdown |
| `selection_host_steals` | host and client | `LockMatchesSlot` | violated: section 5 |

The type invariants are proved rather than run, and so are
`NoTakeover` and `MovedByHolderOnly`, which the abstract lock implies. Where several
small invariants say one thing of one part, a run checks their conjunction
(`GesturesFollowButtons` is `NoStuckGesture` and `CameraFollowsButtons`, and so on) and
a mutant of the code is given for each side of it.

**Bounds.** `MaxRequests` and `MaxMoves` bound the calls in flight of a player.
Two reliable calls are the least with which a refused selection, a swap and a
deselection are on the way together; what matters of a longer queue is its last
call (`FinalRequest`), which is why the proofs need no bound. One move is enough
to overtake or to follow any request; two are used where the order of two
moves of one client matters (`replication_swaps`). Two players suffice for every
conflict over a piece, and in `replication_room` the second is the one too many
for one slot. Two pieces are a swap.
Two values of a component tell moved from unmoved and allow a piece to come back. Both
components are in `replication_room`, whose property is about them; the other runs
have one, as who may move a piece does not depend on what is moved.
One slot for two
players is enough where only equality of slots matters (1 and -1 differ as 1 and 2
do), two slots where the order of reservation and release does. Viewers are
independent of each other, so one is enough. With three players and two slots one leaver at a time (`OneLeaverAtATime`) is enough for a slot to be
handed on while its previous holder is still shown. `BoundaryVRAM`
contains each threshold of `DetermineTierScalabilityLevel`, the value below it,
and 0.

Three messages are one acknowledged, one pending and one still queued; four
connections are enough to lose the first message, its repetition and the acknowledgement
of both, and the last one does not break, so that liveness has a connection to
happen on. Four messages of the broker are one popped, one waiting behind it, one in the
custom container and one of the next connection; a third connection, or a fifth message, has
been tried and shows nothing else. Two blueprints are one that times out
and one that finds what it left behind; two changes of the session are a pause or a
step in between. `MaxLocal` is 2 because the code of the collection has to keep
two local players apart, although the game creates one: with 1 the refused
registration would not happen. The theorems of section 6 hold without any of
these bounds.

**Symmetry** is used for players (but for the host), pieces, components and values, and only
where no liveness is checked.

**Deadlock** is checked but in four runs, whose systems do stop: the wire is
terminated, the module is shut down, the messages are used up, all player states
have ended.

**Fairness.** Of the game, weak fairness of `ReceiveRequest`: the calls
are declared `Reliable`, which the engine retransmits until they arrive, and
they are handled in order. Of the plugin, weak fairness of the steps of the threads
that never stop by themselves: the thread of the send buffer, the wire thread (which
reconnects in a loop) and the reader; the Scheduler (`RunTask`, `RunScheduler`), the
time-out of the synchronous call (`CallFails`) and the tasks of the game thread.
Users, moves, joins, departures, new messages, requests, lost connections and
shutdowns have none: nothing forces a user to act, and an unreliable call may always
be lost.

## 5 What the code says and does not do

`selection_host_steals` violates `LockMatchesSlot`: the host clicks on a locked
piece, the handler refuses, the click handler then assigns `SelectedFurniture` all the
same, and on the host that is the server's copy. The host moves a piece somebody
else holds. The comment at `DesktopPawn.cpp:622-624` says that a client can only move
furniture it has actually locked.

Properties that hold are stated beside it, so that the limits of the damage are
known: without a host, locks stay exclusive and correctly named even when the
pool is exhausted; `MisledByRefusal` and `MisattributedByJoin` name the only steps
at which a client is wrong about its selection and a lock about its holder;
`AgreeUnlessStray` names all the ways in which a screen may stay wrong.

Further observations on the game:

* A client whose selection was refused while it held another piece drags the new one
  on its screen and the old one on the server: a move carries no piece.
* Nobody clears the lock of a player who leaves. The piece stays locked and is
  later outlined in the colour of whoever gets the slot.
* A player without a slot locks a piece with -1: not selectable, not outlined. Such a
  player is never painted on a machine where the link from pawn to player state
  arrives last, because `OnRep_PlayerState` tests `StencilSlot > 0`.
* A move that is lost, or that overtakes its selection, changes nothing on the
  server. Replicated movement then has no difference to send and the client's
  copy stays where the client put it. `stray` records exactly this.
* Two camera buttons share one flag: releasing one ends the camera control of the
  other. A pan that begins during a drag leaves the manipulator hidden until
  a later drag ends or the selection changes.
* A drag that was lost is not repaired by the rotations that follow it: location and
  rotation travel in calls of their own.
* A slot is free again before the viewers know that its holder has left: for a moment two
  pawns may wear one colour (`SharedOnlyWithLeavers` says which).
* For levels 0 and 1 `SetScalabilityLevel` forces the texture group to 2, so that
  `GetCurrentScalabilityLevel` reads back -1, the engine's answer when the
  groups differ. Ray tracing is never switched off when the level is lowered.
* Without a player state the pawn rotates by 15 degrees and nudges by 20, the default
  of the grid but not of the rotation (5).

On the wire and the broker:

* A duplicate package makes `read_package` return `true`, which its caller takes for
  a length of 1: one stray byte enters the stream (`SocketWire.cpp:323-326`).
  Package 1 is always accepted, so that repeating it delivers everything after it again.
* Between the end of the lock (`ByteBufferAsyncProcessor.cpp:161`) and `process` the
  wire may lose its connection, get a new one and resume: a new message then overtakes
  those that are repeated. This is why most properties of the wire are conditional on
  `~overtaken`.
* A message whose send failed is in neither the data nor the pending queue; `resume`
  does not look at it, and it waits until another one is put (`Stranded`).
* The pending queue is trimmed only on reconnection; the length of a half-read message is
  reduced again after a reconnection (`SocketWire.cpp:349`); two ends that both
  repeat more than the connection's buffers hold would wait for each other; the wait
  for the thread at a stop is bounded, so it may outlive it.
* The action of the broker moves and erases the entry without the lock. A message that is
  dispatched in between may overtake others or be lost (`gap`), and the action of a
  later connection's message may find its entry gone.
* When custom messages wait behind an early one and the connection ends before the
  action of that one runs, the action has read a null subscription and dereferences it
  (`MessageBroker.cpp:97-99`; `undefined = "null"`).
* A lifetime that ends between the test and `add_action` in `advise_on` leaves a
  subscription of a dead entity, to which messages of the next connection are
  dispatched (`strays`); once that entity has been replaced it is used after its end.

On the plugin:

* The delegates of the editor are registered on the Scheduler's thread while the game
  thread may broadcast; the actions of the game control keep a plain pointer to it.
* A synchronous call that times out leaves `sync_task_id` set: later calls of that
  model fail at once, and the blueprint is opened all the same. The answer may come
  while the task is being destroyed (`WiredRdTaskImpl.h:44-60`).
* An `openBlueprint` that finds no root window is given up without a word
  (`RiderBlueprint.cpp:74`).
* A fifth client would overflow the two bits of `PackToMode` (`RiderGameControl.cpp:111-117`).

None of these contradicts a comment or a test of the repository.

## 6 Proofs

`tlapm` checks every proof to its leaves. Assumptions are only the named ASSUMEs
of the modules (the sentinels are not elements of the sets they stand beside;
the bounds are natural numbers; graphics memory is a set of natural numbers).
Sets of players, pieces, viewers, player states and slots are arbitrary, also
infinite or empty.

| Module | Theorem | States |
|---|---|---|
| `FurnitureProofs` | `TypeCorrect` | `Spec => []TypeOK` |
| | `PoolAgreement` | `Spec => []PoolAgrees` |
| | `Exclusion` | no two pawns hold a piece, without a host |
| | `SlotNamesHolder` | `[]LockMatchesSlot`, without a host |
| | `LocksAreNotTakenOver` | `NoTakeover`, without a host |
| | `OnlyHoldersMove` | `MovedByHolderOnly`, without a host |
| | `NoGhostLocks` | `[]NoGhostLock`, with or without a host |
| | `OnlyRefusalsMislead` | `MisledByRefusal`, with or without a host |
| | `OnlyJoinsMisattribute` | `MisattributedByJoin`, without a host |
| | `SelectionImplementsLock` | the code implements `FurnitureLock`, without a host |
| | `ViewTypeCorrect` | `[]ViewTypeOK` |
| | `ViewsAgree` | `[]AgreeUnlessStray`, with or without a host |
| `DesktopPawnInputProofs` | `TypeCorrect` | `Spec => []TypeOK` |
| | `GesturesEnd`, `CameraFollows`, `ButtonsEndGestures` | `[]GesturesFollowButtons` and its two sides |
| | `DragsStayOnSelection`, `ManipulatorFollows`, `GesturesStayOnSelection` | `[]GesturesOnSelection` and its two sides |
| | `NoHighlightLeftBehind`, `HandOverSelectable`, `HoverStaysCurrent` | `[]HoverIsCurrent` and its sides |
| | `EveryChangeIsTold` | `ServerIsTold` |
| | `HiddenOnlyByDrag` | `HiddenByDrag` |
| `PlayerVisualsProofs` | `TypeCorrect` | `Spec => []TypeOK` |
| | `ServerPaintsAll`, `ReplicationPaints`, `HoldersStayPainted` | `[]HoldersArePainted` and its two sides |
| | `ColorsAreDistinct` | `[]SharedOnlyWithLeavers` |
| `GraphicsTierProofs` | `TypeCorrect` | `Spec => []TypeOK` |
| | `ChoicesSurvive` | `[]ChoiceSurvives` |
| | `DetectedOnceRunning` | `[]RunningMeansDetected` |
| | `LevelIsSettled` | `SettledOnceDetected` |
| `SnapSettingsProofs` | `TypeCorrect` | `Spec => []TypeOK` |
| | `NoEndedPlayerIsBound` | `[]RegisteredIsAlive` |
| | `LocalPlayerIsServed` | `[]LocalIsServed` |
| | `StepsAgree` | `[]StepsAreShown` |
| | `RegistrationIsKept` | `LostOnlyToLocal` |
| `SocketWireProofs` | `TypeCorrect` | `Spec => []TypeOK` |
| | `NeverPopsEmpty`, `AcknowledgementsAreTrue`, `AcknowledgementsStayTrue` | `[]AcknowledgementsHold` and its two sides |
| | `NothingIsForgotten` | `[]DrainedIsReceived` |
| | `RepeatsOnlyUnacknowledged` | `RepeatsAreUnacknowledged` |
| | `Refinement` | the wire implements `OrderedChannel` |
| `MessageBrokerProofs` | `TypeCorrect` | `Spec => []TypeOK` |
| | `DeliveriesInOrder` | `[]DeliveredInOrder` |
| | `UndefinedOnlyAcrossConnections` | `[]UndefinedAcrossConnections` |
| | `NoStaleDelivery` | `[]NoStaleMessage` |
| | `MessagesAreKept` | `[]NothingIsLost`, the safety half of `EveryMessageIsDelivered` |
| `RiderLinkProofs` | `TypeCorrect` | `Spec => []TypeOK` |
| | `ModelStaysCurrent` | `[]ModelIsCurrent` |
| | `IdeKeepsUp` | `[]IdeFollowsPlay` |
| | `ModelsAreTakenBack` | `ModelIsTakenBack` |
| | `OnlyLateOnesDangle` | `DanglesOnlyLate` |
| | `RequestsAreKept`, `RequestsEndOnce` | a request is in one place until it has ended, and ends once |
| | `OnlyLateOnesAreDropped` | `DroppedOnlyLate`, the safety half of `RequestsAreAnswered` |

"Without a host" is the hypothesis `Host = NoPlayer`. It cannot be dropped: the
run `selection_host_steals` is the counterexample.

The arguments:

* **Pool** (`PoolInv`). `PoolAgrees` is not inductive: the leaving player's slot
  could be 0 or that of another. `StencilAssigned` adds that a connected
  player has a slot of the pool or -1. The lemmas about the pool, in
  `FurnitureProofs` and `PlayerVisualsProofs`, show that a reserved slot was free and
  that it is one of the pool.
* **Lock** (`LockInv`). `LockExclusive` and `LockMatchesSlot` need each other: a
  piece that is selectable has slot 0, the piece of a holder carries the holder's
  slot, and by `PoolInv` that is never 0, hence nobody holds a selectable
  piece. `AbsentAreQuiet` says that a player who has left holds nothing and has
  nothing in flight. Takeover and movement are then facts about single
  steps from `LockInv`, and so is the refinement.
* **Lock, refinement.** `OwnerIsHolder` reads the abstract owner off the state, and
  each concrete step is then shown to be one abstract step or a stutter: a granted
  request acquires (and releases in the same step), a departure abandons, a move
  moves for the owner; everything else stutters.
* **Ghost locks** (`GhostInv`). The last request in flight, or the server's
  selection when there is none, is nothing whenever the client has nothing.
  It uses that the host sends no calls. Handling a request may change the
  server's selection only to what was asked, and a refused one leaves it: the case
  that matters is a queue of one.
* **Screens** (`ViewInv`). `AgreeUnlessStray` speaks of settled pieces and says nothing
  of a step before. `Explained` does, for each component of a piece that is not stray and has
  no update in flight: the client shows either what was compared last or what its own last move
  in flight of this component says (`Flying`, `LastMove`); with none in flight it shows what the
  server has as soon as the piece has no difference left to send. `UpdatesAreLatest` says that an update
  in flight is the value compared last, `AbsentMoveNothing` that a client that joins
  starts without moves. The step that matters is `ReceiveMoveView`: a move in flight
  that lands where it should becomes a difference from the shadow, unless it puts the whole
  piece back, and that is what makes the client's copies stray.
* **Input** (`GestureInv`). With the button up there is no gesture; while a
  drag lasts, what is pressed is what is selected: the selection changes
  only in the release, which ends the drag, and the press only in a click, for
  which the button must be up, and in a pan, which ends the drag too. `HoverIsSelectable`
  needs no more than the step before: only `Tick` sets `ticked`, and it looks at the piece
  under the cursor again whether or not it is the one hovered so far.
* **Colours** (`PaintInv`). The type invariant, both properties and what a viewer can know of
  whom: nothing of a player before it has happened on the server (`NothingSent`,
  `NewIsBlank`), nothing of one whose actors are gone there (`GoneIsForgotten`).
  The slot and the colour of a player do not change while they
  are known, and whichever of the three parts arrives last paints with all of them.
  Distinct colours need another invariant, `ColorInv`: the slot of a player who
  is there is marked and nobody else's (`SlotsDistinct`, with `ReserveMarks` and
  `ReleaseKeepsOthers`), and a colour of a slot, on the server or on a viewer, is that of the
  player who has the slot or left with it (`OwnColors`). The players who have left are not among
  those whose slots differ: that is the exception of the property.
* **Graphics** (`DetectionInv`). A flag, or a process past detection,
  implies a saved level; a chosen level implies the flag, and a process that is detecting has
  none: so with the flag on disk no detection runs again, and only the user changes the level.
* **Snap settings** (`SnapInv`). Whoever is registered is alive and has a view model
  (`Registered`), whose fields are those of its player state (`ViewsAgree`); while local players
  have not overlapped there is one of them (`OneLocal`), so that the context name is
  free when it registers and only its own end takes it away.
* **Wire** (`IInv`). Packages and acknowledgements in flight were sent
  (`InFlightWasSent`) and, unless a message has overtaken others, packages are
  consecutive, begin no later than after the last one read, end with the last one sent on
  a resumed connection, and acknowledgements are behind what was read
  (`InFlightInOrder`). A repetition from the first unacknowledged message keeps this, as the
  acknowledged ones were read. The refinement is then immediate: a package read is
  the next one, a duplicate, which breaks the stream, or the first.

* **Broker** (`IInv`). The Scheduler's queue is in the order of time: for any two actions, of
  messages or of connections, the earlier one stands in front, and nothing is left in it that is
  older than the present entity (`QueueInOrder`). The entity of the connection is subscribed or
  its binding is on the way (`Bindings`). Each message that waits in the entry has an action of
  its own in the queue, and an action with another incarnation of the entry, or of one that is being
  given up, came meanwhile and from a later connection (`Pumps`): it is a message of `gap`. With
  `Hand`, what the running action has popped comes before all that waits, and it read no
  subscription only if the connection of its message is over; with `Customs`, what waits in the
  custom container is behind the rest of its connection, and has an entity as long as the
  connection lasts. `Stages` says which container is in use at which step, `Invokes` and
  `OfEntity` which entity a message in the queue or in the entry is for, and `Deliveries`, which is
  what makes order inductive, that what waits comes after what was delivered. The three properties
  of deliveries and undefined uses are part of the invariant.
  The split of `advise_on` is what costs most: between `Subscribe` and `AddAction` the subscription is there and the end of the
  lifetime does not remove it.
* **Broker, losses** (`NothingGetsLost`). From the invariant: an action that finds no
  entity has a message of a connection that is over in its hand (`Hand`), the container that is
  moved out holds no message but of `gap` (`Stages`), and what is released goes to the entity of
  the connection (`Customs`, `Bindings`).
* **Link** (`IInv`). All of it is about the order in the Scheduler's queue: beginnings stand
  in the order of their connections and are younger than the present model
  (`BeginningsInOrder`), an end is that of the present model and stands before all
  beginnings (`EndIsOfThePresentModel`), a model without connection has its end queued and a
  connection without model its beginning (`ModelIsOnItsWay`). With an empty queue this is
  `ModelIsCurrent`. A task of the game control queued in time stands before the end
  and the next beginning, so it finds its game control (`InTimeFindsIt`). The state last told is
  that of the session, or, with none on its way, what the IDE shows is (`LastToldIsPlay`).
* **Link, requests** (`RequestsInOnePlace`, `ServedInTime`). A request is queued, in the call the
  Scheduler waits in, on the game thread or in its report, according to its state, and in one of them
  only. A request stands behind the beginning of its connection; with `ModelIsOnItsWay` and
  `InTimeFindsIt` it is then run while its model is announced, and a report while the
  game control it belongs to exists.

Model-checked only: the liveness properties (`DeselectionArrives`, `Arrives`,
`RequestsAreAnswered`, `EveryMessageIsDelivered`). Fairness and leads-to are beyond the
prover; what of them is safety is proved: `NoGhostLock` (what a client that has given up its
selection leaves on the server), `NothingIsForgotten`, `MessagesAreKept` and
`OnlyLateOnesAreDropped`. What is left to TLC is that the threads get on.
Pure properties of recursive definitions do not occur: no module declares one.

## 7 What is not modelled

* **Camera movement**: numeric (section 2, item 10).
* **Drag, nudge and rotation geometry**: floating-point projections; only their
  outcome is an input here.
* **Mesh bounds, outlines, materials, widgets**: rendering. What a client shows of
  a lock is a copy of the replicated slot.
* **Game mode, player controller, camera component stub**: class defaults
  and one input mapping; no state that a later step reads.
* **Memory safety** of callbacks with plain pointers (the next-tick callback, the delegates of
  the editor, the task of a late response): outside what a state of the models
  expresses, but for `DanglesOnlyLate` and `undefined`, which tell when one is used after its end.
* **Log forwarding and play mode settings of the plugin**: `RiderLogging` and
  `FireAsyncAction` forward text; the play modes are a packing of four integers.
* **The rest of RD**: serialization, the reactive types built from the generated
  models, intrinsics, and the third-party libraries vendored with it (spdlog, clsocket,
  ordered-map, variant, optional and others). They are most of the lines of the
  repository and none of its own logic.
* **The other end of the wire** is the implementation of RD in the IDE, which is not in
  this repository; the model has this class at both ends.
* **`GetCurrentScalabilityLevel`**: it changes no state, and what it reads back is described in
  section 5.
* **Content and configuration.**
