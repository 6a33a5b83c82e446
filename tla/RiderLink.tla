------------------------------- MODULE RiderLink -------------------------------
(* The editor's end of the connection with the IDE: FRiderLinkModule keeps  *)
(* one EditorModel per connection, FRiderGameControl tells the IDE what the *)
(* play session does and runs its commands, FRiderBlueprintModule opens a   *)
(* blueprint after a synchronous call back to the IDE.  Three threads: the  *)
(* wire's, the one of the Scheduler, which runs its queue in order, and the *)
(* game's.  A model and a game control are named by the number of their     *)
(* connection; 0 is none.                                                   *)
EXTENDS Integers, Sequences

CONSTANTS
    MaxConnections,     \* bound on the connections
    MaxPlayChanges,     \* bound on the changes of the play session
    Commands,           \* play, pause, ... requests of the IDE
    Opens,              \* openBlueprint requests of the IDE
    None

ASSUME LinkAssumption ==
    /\ MaxConnections \in Nat /\ MaxPlayChanges \in Nat
    /\ Commands \cap Opens = {} /\ None \notin Commands \cup Opens

Requests == Commands \cup Opens

VARIABLES
    running,            \* FRiderGameControlModule is not shut down
    \* the wire
    connection, connected,
    \* the Scheduler: its queue, and the call it is waiting in
    queue, calling, sync_task_id,
    \* FRiderLinkModule, FRiderGameControlModule
    EditorModel, RdIsModelAlive, GameControl,
    \* the game thread
    playState, changes,
    gameTasks,          \* AsyncTask lambdas
    \* the IDE
    riderPlayState, request,
    \* history
    changed             \* the session changed under this game control

linkVars == <<connection, connected>>
schedulerVars == <<queue, calling, sync_task_id>>
modelVars == <<EditorModel, RdIsModelAlive, GameControl>>
gameVars == <<playState, changes, gameTasks>>
riderVars == <<riderPlayState, request>>
vars == <<running, linkVars, schedulerVars, modelVars, gameVars, riderVars, changed>>

PlayStates == {"Idle", "Play", "Pause"}

\* The lifetime of a connection lasts until the wire has lost it.
ConnectionLives(conn) == connected /\ connection = conn

\* late records that the task was queued after the end of its connection.
Task(kind, conn, what) ==
    [kind |-> kind, conn |-> conn, what |-> what, late |-> ~ConnectionLives(conn)]

Init ==
    /\ running = TRUE /\ connection = 0 /\ connected = FALSE
    /\ queue = <<>> /\ calling = None /\ sync_task_id = None
    /\ EditorModel = 0 /\ RdIsModelAlive = FALSE /\ GameControl = 0
    /\ playState \in {"Idle", "Play"} /\ changes = 0 /\ gameTasks = {}
    /\ riderPlayState = "Idle" /\ request = [r \in Requests |-> "none"]
    /\ changed = FALSE

-----------------------------------------------------------------------------
(* The wire thread. *)

Connect ==
    /\ ~connected /\ connection < MaxConnections
    /\ connection' = connection + 1
    /\ connected' = TRUE
    /\ queue' = Append(queue, Task("connect", connection + 1, None))
    /\ riderPlayState' = "Idle"
    /\ UNCHANGED <<running, calling, sync_task_id, modelVars, gameVars, request, changed>>

HasModel == RdIsModelAlive /\ EditorModel = connection

DisconnectQueueing(tasks) ==
    /\ connected
    /\ connected' = FALSE
    /\ queue' = queue \o tasks
    /\ UNCHANGED <<running, connection, calling, sync_task_id, EditorModel, gameVars,
                   riderVars, changed>>

\* Mutant: the model is never taken back.
ModelStays == DisconnectQueueing(<<>>) /\ UNCHANGED <<RdIsModelAlive, GameControl>>

\* Mutant: the model is taken back in place, on the wire's thread.
ModelGoesInPlace ==
    /\ DisconnectQueueing(<<>>)
    /\ RdIsModelAlive' = (RdIsModelAlive /\ ~HasModel)
    /\ GameControl' = IF HasModel THEN 0 ELSE GameControl

\* The end of the lifetime queues the end of the model, if its beginning has
\* been run, and cancels the call the Scheduler waits in.
Disconnect ==
    /\ DisconnectQueueing(IF HasModel THEN <<Task("gone", connection, None)>> ELSE <<>>)
    /\ UNCHANGED <<RdIsModelAlive, GameControl>>

ReceiveRequest(r) ==
    /\ connected
    /\ request[r] = "none"
    /\ request' = [request EXCEPT ![r] = "queued"]
    /\ queue' = Append(queue, Task("request", connection, r))
    /\ UNCHANGED <<running, linkVars, calling, sync_task_id, modelVars, gameVars,
                   riderPlayState, changed>>

\* What becomes of a blueprint once the IDE has been asked: without a valid
\* root window of the editor the handler returns and nobody is told.
Openings == {"opened", "unopened"}

EndCall ==
    /\ calling # None
    /\ \E opening \in Openings : request' = [request EXCEPT ![calling] = opening]
    /\ calling' = None
    /\ UNCHANGED <<running, linkVars, queue, modelVars, gameVars, riderPlayState, changed>>

\* The response is dispatched in place: the call ends.
ReceiveResponse ==
    /\ ConnectionLives(EditorModel)
    /\ EndCall
    /\ sync_task_id' = None

-----------------------------------------------------------------------------
(* The Scheduler. *)

NewModel(task, announced) ==
    /\ EditorModel' = task.conn
    /\ sync_task_id' = None
    /\ IF announced
       THEN /\ RdIsModelAlive' = TRUE
            /\ GameControl' = IF running THEN task.conn ELSE 0
            /\ changed' = FALSE
       ELSE UNCHANGED <<RdIsModelAlive, GameControl, changed>>
    /\ UNCHANGED <<calling, request, gameTasks, riderPlayState>>

\* Mutant: the new model is announced whatever became of its connection.
AnnounceAnyway(task) == NewModel(task, TRUE)

\* On a connection that was lost before this task the new model is bound to a
\* terminated lifetime, which throws before the model is announced.
RunConnect(task) == NewModel(task, ConnectionLives(task.conn))

RunGone(task) ==
    /\ RdIsModelAlive' = FALSE
    /\ GameControl' = 0
    /\ UNCHANGED <<EditorModel, sync_task_id, calling, request, gameTasks, riderPlayState, changed>>

\* An action of the game control keeps a plain pointer to it.
ActionKinds == {"playState", "initialized", "reply"}
FindsItDestroyed(task) == task.kind \in ActionKinds /\ GameControl # task.conn

\* An action of a single step fires twice: the IDE is left with the last.
RunPlayState(task) ==
    /\ riderPlayState' = IF GameControl = task.conn /\ ConnectionLives(task.conn)
                         THEN task.what ELSE riderPlayState
    /\ UNCHANGED <<modelVars, sync_task_id, calling, request, gameTasks, changed>>

\* playModeInitialized is written and nothing of the model reads it.
RunInitialized ==
    UNCHANGED <<modelVars, sync_task_id, calling, request, gameTasks, riderPlayState, changed>>

RunReply(task) ==
    /\ request' = [request EXCEPT ![task.what] =
                      IF GameControl = task.conn /\ ConnectionLives(task.conn)
                      THEN "answered" ELSE "dropped"]
    /\ UNCHANGED <<modelVars, sync_task_id, calling, gameTasks, riderPlayState, changed>>

\* The handlers of the commands live as long as the game control, that of
\* openBlueprint as long as the model, the subscriptions of both as long as
\* the connection.
Subscribed(task) ==
    /\ ConnectionLives(task.conn)
    /\ IF task.what \in Commands THEN GameControl = task.conn ELSE EditorModel = task.conn

DropRequest(task) ==
    /\ ~Subscribed(task)
    /\ request' = [request EXCEPT ![task.what] = "dropped"]
    /\ UNCHANGED <<modelVars, sync_task_id, calling, gameTasks, riderPlayState, changed>>

\* RequestPlayWorldCommand: a command that is not registered is refused here.
RunCommand(task) ==
    /\ Subscribed(task) /\ task.what \in Commands
    /\ \/ /\ request' = [request EXCEPT ![task.what] = "answered"]
          /\ UNCHANGED gameTasks
       \/ /\ request' = [request EXCEPT ![task.what] = "game"]
          /\ gameTasks' = gameTasks \cup {[conn |-> task.conn, what |-> task.what]}
    /\ UNCHANGED <<modelVars, sync_task_id, calling, riderPlayState, changed>>

OpenBlueprint(task) ==
    /\ Subscribed(task)
    /\ IF sync_task_id # None
       THEN /\ \E opening \in Openings : request' = [request EXCEPT ![task.what] = opening]
            /\ UNCHANGED <<calling, sync_task_id>>
       ELSE /\ calling' = task.what
            /\ sync_task_id' = task.what
            /\ UNCHANGED request
    /\ UNCHANGED <<modelVars, gameTasks, riderPlayState, changed>>

\* RdCall.sync: with a synchronous task left over it throws at once, and the
\* handler goes on all the same.
RunOpen(task) == task.what \in Opens /\ OpenBlueprint(task)

RunTask ==
    /\ calling = None
    /\ queue # <<>>
    /\ queue' = Tail(queue)
    /\ LET task == Head(queue)
       IN  \/ task.kind = "connect" /\ RunConnect(task)
           \/ task.kind = "gone" /\ RunGone(task)
           \/ task.kind = "playState" /\ RunPlayState(task)
           \/ task.kind = "initialized" /\ RunInitialized
           \/ task.kind = "reply" /\ RunReply(task)
           \/ task.kind = "request" /\ (DropRequest(task) \/ RunCommand(task) \/ RunOpen(task))
    /\ UNCHANGED <<running, linkVars, playState, changes>>

\* Mutant: only the end of the connection ends the call.
CallLastsAsConnection ==
    /\ ~ConnectionLives(EditorModel)
    /\ EndCall
    /\ UNCHANGED sync_task_id

\* Mutant: without a value the blueprint is not opened.
CallFailsForGood ==
    /\ calling # None
    /\ request' = [request EXCEPT ![calling] = "dropped"]
    /\ calling' = None
    /\ UNCHANGED <<running, linkVars, queue, sync_task_id, modelVars, gameVars, riderPlayState,
                   changed>>

\* No value in 200 milliseconds, or the lifetime ended: unwrapping the missing
\* value throws before the id of the synchronous task is cleared.
CallFails ==
    /\ EndCall
    /\ UNCHANGED sync_task_id

-----------------------------------------------------------------------------
(* The game thread. *)

\* Mutant: a single step is told the other way round.
AnnouncedReversed ==
    {<<"Idle", "Play", <<"Play">> >>, <<"Play", "Idle", <<"Idle">> >>,
     <<"Pause", "Idle", <<"Idle">> >>, <<"Play", "Pause", <<"Pause">> >>,
     <<"Pause", "Play", <<"Play">> >>, <<"Pause", "Pause", <<"Pause", "Play">> >>}

\* BeginPIE, EndPIE, PausePIE, ResumePIE, SingleStepPIE: what the one action
\* that is queued for each tells the IDE, in this order.
Announced ==
    {<<"Idle", "Play", <<"Play">> >>, <<"Play", "Idle", <<"Idle">> >>,
     <<"Pause", "Idle", <<"Idle">> >>, <<"Play", "Pause", <<"Pause">> >>,
     <<"Pause", "Play", <<"Play">> >>, <<"Pause", "Pause", <<"Play", "Pause">> >>}

LastTold(told) == told[Len(told)]

PlaySessionChanges ==
    /\ running
    /\ changes < MaxPlayChanges
    /\ changes' = changes + 1
    /\ \E a \in Announced :
          /\ playState = a[1]
          /\ playState' = a[2]
          /\ queue' = IF GameControl # 0
                      THEN Append(queue, Task("playState", GameControl, LastTold(a[3])))
                      ELSE queue
    /\ changed' = (changed \/ GameControl # 0)
    /\ UNCHANGED <<running, linkVars, calling, sync_task_id, modelVars, gameTasks, riderVars>>

\* TryExecuteAction succeeds or not; both are reported through the game control.
RunGameTask ==
    /\ \E t \in gameTasks :
          /\ gameTasks' = gameTasks \ {t}
          /\ queue' = Append(queue, Task("reply", t.conn, t.what))
          /\ request' = [request EXCEPT ![t.what] = "reply"]
    /\ UNCHANGED <<running, linkVars, calling, sync_task_id, modelVars, playState, changes,
                   riderPlayState, changed>>

\* ShutdownModule ends the lifetime of the module on the game thread: the game
\* control queues its last message and is destroyed.
ShutdownModule ==
    /\ running
    /\ running' = FALSE
    /\ queue' = IF GameControl # 0
                THEN Append(queue, Task("initialized", GameControl, None))
                ELSE queue
    /\ GameControl' = 0
    /\ UNCHANGED <<linkVars, calling, sync_task_id, EditorModel, RdIsModelAlive, gameVars,
                   riderVars, changed>>

Next ==
    \/ Connect \/ Disconnect \/ ReceiveResponse
    \/ \E r \in Requests : ReceiveRequest(r)
    \/ RunTask \/ CallFails
    \/ PlaySessionChanges \/ RunGameTask \/ ShutdownModule

Spec == Init /\ [][Next]_vars

Fairness == WF_vars(RunTask) /\ WF_vars(CallFails) /\ WF_vars(RunGameTask)
FairSpec == Spec /\ Fairness

-----------------------------------------------------------------------------
Tasks ==
    [kind : {"connect", "gone", "request"} \cup ActionKinds, conn : 1..MaxConnections,
     what : Requests \cup PlayStates \cup {None}, late : BOOLEAN]

TypeOK ==
    /\ running \in BOOLEAN /\ connection \in 0..MaxConnections /\ connected \in BOOLEAN
    /\ queue \in Seq(Tasks)
    /\ calling \in Opens \cup {None} /\ sync_task_id \in Opens \cup {None}
    /\ EditorModel \in 0..MaxConnections /\ RdIsModelAlive \in BOOLEAN
    /\ GameControl \in 0..MaxConnections
    /\ playState \in PlayStates /\ riderPlayState \in PlayStates
    /\ changes \in 0..MaxPlayChanges
    /\ gameTasks \subseteq [conn : 1..MaxConnections, what : Commands]
    /\ request \in [Requests -> {"none", "queued", "game", "reply", "answered", "opened", "unopened", "dropped"}]
    /\ changed \in BOOLEAN

\* Once the Scheduler is idle the model is announced exactly when there is a
\* connection, and it is the model of that connection.
ModelIsCurrent ==
    queue = <<>> =>
        /\ RdIsModelAlive <=> connected
        /\ connected => EditorModel = connection

\* The model is never replaced under those who look at it: it is taken back
\* first (the comment at RiderLink.cpp:101-102).
ModelIsTakenBack == [][RdIsModelAlive /\ RdIsModelAlive' => EditorModel' = EditorModel]_vars

\* With no message of the game control on its way the IDE shows the state of
\* the play session, from the first change after the connection on.
IdeFollowsPlay ==
    /\ GameControl # 0 /\ ConnectionLives(GameControl) /\ changed
    /\ \A i \in DOMAIN queue : queue[i].kind # "playState"
    => riderPlayState = playState

\* The actions of the game control keep a plain pointer to it: only those
\* queued after the end of the connection, or run after the shutdown of the
\* module, find it destroyed.
DanglesOnlyLate ==
    [][Len(queue') < Len(queue) /\ FindsItDestroyed(Head(queue))
         => ~running \/ Head(queue).late]_vars

\* Until the shutdown no request, and no report of a command, comes to nothing
\* but one the Scheduler comes to after its connection was lost, and a
\* blueprint whose handler, asked in time and done with its call, found no
\* window to show it in (RiderBlueprint.cpp:74).
DroppedOnlyLate ==
    [][\A r \in Requests :
          request[r] # request'[r] /\ request'[r] \in {"unopened", "dropped"} =>
              \/ ~running
              \/ queue # <<>> /\ ~ConnectionLives(Head(queue).conn)
              \/ /\ request'[r] = "unopened" /\ r \in Opens
                 /\ calling = r \/ ConnectionLives(EditorModel)]_vars

\* While its connection lasts every request of the IDE is run to its end: a
\* command is answered, a blueprint opened or given up for want of a window.
RequestsAreAnswered ==
    \A r \in Requests :
        (\E i \in DOMAIN queue : queue[i].what = r /\ ConnectionLives(queue[i].conn))
            ~> request[r] \in {"answered", "opened", "unopened"} \/ ~connected \/ ~running
=============================================================================
