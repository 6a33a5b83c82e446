---------------------------- MODULE RiderLinkProofs ----------------------------
(* What holds of the editor's end of the link for any number of connections *)
(* and of changes of the play session.  The Scheduler's queue is first in,  *)
(* first out: nearly everything follows from which tasks may stand in front *)
(* of which.                                                                *)
EXTENDS RiderLink, TLAPS

\* What a task carries goes with its kind, and no task, game task, model or
\* game control is of a connection that has not been made.
TasksAreWellFormed ==
    /\ EditorModel <= connection
    /\ connected => connection > 0
    /\ \A i \in 1..Len(queue) :
          /\ queue[i].conn <= connection
          /\ queue[i].kind = "playState" => queue[i].what \in PlayStates
          /\ queue[i].kind \in {"request", "reply"} => queue[i].what \in Requests
    /\ \A t \in gameTasks : t.conn <= connection

\* A queued beginning is of a model younger than the present one, and the
\* beginnings are in the order of their connections.
BeginningsInOrder ==
    \A i \in 1..Len(queue) : queue[i].kind = "connect" =>
        /\ queue[i].conn > EditorModel
        /\ \A j \in 1..Len(queue) :
              queue[j].kind = "connect" /\ i < j => queue[i].conn < queue[j].conn

\* A queued end is that of the present model, which has lost its connection;
\* there is no other, and no beginning is in front of it.
EndIsOfThePresentModel ==
    \A i \in 1..Len(queue) : queue[i].kind = "gone" =>
        /\ RdIsModelAlive /\ ~ConnectionLives(EditorModel)
        /\ \A j \in 1..Len(queue) :
              /\ queue[j].kind = "gone" => i = j
              /\ queue[j].kind = "connect" => i < j

\* A model that has lost its connection is about to be taken back, and a
\* connection without a model is about to get one.
ModelIsOnItsWay ==
    /\ RdIsModelAlive /\ ~ConnectionLives(EditorModel) =>
          \E i \in 1..Len(queue) : queue[i].kind = "gone"
    /\ connected /\ ~HasModel =>
          \E i \in 1..Len(queue) : queue[i].kind = "connect" /\ queue[i].conn = connection

\* The game control is that of the announced model.
ControlIsOfTheModel ==
    GameControl # 0 => running /\ RdIsModelAlive /\ GameControl = EditorModel

\* A task of the game control that was queued in time runs before its game
\* control is destroyed, and so does what it left to the game thread.
InTimeFindsIt ==
    running =>
        /\ \A i \in 1..Len(queue) : queue[i].kind \in ActionKinds /\ ~queue[i].late =>
              /\ GameControl = queue[i].conn
              /\ \A j \in 1..Len(queue) : queue[j].kind \in {"connect", "gone"} => i < j
        /\ \A t \in gameTasks : ConnectionLives(t.conn) => GameControl = t.conn

\* What the IDE shows, once it has read what is queued for it, is the state of
\* the play session.
TellsPlay(i) == queue[i].kind = "playState" /\ queue[i].conn = GameControl

LastToldIsPlay ==
    GameControl # 0 /\ ConnectionLives(GameControl) /\ changed =>
        /\ \A i \in 1..Len(queue) :
              TellsPlay(i) /\ (\A j \in 1..Len(queue) : TellsPlay(j) => j <= i)
                  => queue[i].what = playState
        /\ (\A i \in 1..Len(queue) : ~TellsPlay(i)) => riderPlayState = playState

IInv ==
    /\ TypeOK
    /\ TasksAreWellFormed
    /\ BeginningsInOrder
    /\ EndIsOfThePresentModel
    /\ ModelIsOnItsWay
    /\ ControlIsOfTheModel
    /\ InTimeFindsIt
    /\ LastToldIsPlay

-----------------------------------------------------------------------------
(* The queue. *)

\* What is appended comes last, and nothing else changes its place.
LEMMA AppendLast ==
    ASSUME NEW S, NEW q \in Seq(S), NEW t \in S
    PROVE  /\ Append(q, t) \in Seq(S)
           /\ Len(Append(q, t)) = Len(q) + 1
           /\ \A i \in 1..Len(q) : Append(q, t)[i] = q[i]
           /\ Append(q, t)[Len(q) + 1] = t
OBVIOUS

\* What is left without the head moves up by one place.
LEMMA TailMovesUp ==
    ASSUME NEW S, NEW q \in Seq(S), q # <<>>
    PROVE  /\ Tail(q) \in Seq(S)
           /\ Len(q) \in Nat \ {0} /\ Len(Tail(q)) = Len(q) - 1
           /\ \A i \in 1..Len(Tail(q)) : i + 1 \in 1..Len(q) /\ Tail(q)[i] = q[i + 1]
           /\ \A i \in 1..Len(q) : i # 1 => i - 1 \in 1..Len(Tail(q)) /\ Tail(q)[i - 1] = q[i]
           /\ Head(q) = q[1] /\ q[1] \in S
OBVIOUS

\* What is queued behind keeps its order.
LEMMA ConcatBehind ==
    ASSUME NEW S, NEW q \in Seq(S), NEW s \in Seq(S)
    PROVE  /\ q \o s \in Seq(S)
           /\ Len(q \o s) = Len(q) + Len(s)
           /\ \A i \in 1..Len(q) : (q \o s)[i] = q[i]
           /\ \A i \in 1..Len(s) : (q \o s)[Len(q) + i] = s[i]
OBVIOUS

\* A task is what it was made of.
LEMMA TaskIsTyped ==
    ASSUME NEW kind \in {"connect", "gone", "request"} \cup ActionKinds,
           NEW conn \in 1..MaxConnections, NEW what \in Requests \cup PlayStates \cup {None}
    PROVE  /\ Task(kind, conn, what) \in Tasks
           /\ Task(kind, conn, what).kind = kind /\ Task(kind, conn, what).conn = conn
           /\ Task(kind, conn, what).what = what
           /\ Task(kind, conn, what).late = ~ConnectionLives(conn)
<1>1. (~ConnectionLives(conn)) \in BOOLEAN
  OBVIOUS
<1> QED
  BY <1>1 DEF Task, Tasks

-----------------------------------------------------------------------------
\* The initial state satisfies the invariant.
LEMMA InitIInv == Init => IInv
<1> SUFFICES ASSUME Init PROVE IInv
  OBVIOUS
<1>1. queue \in Seq(Tasks) /\ Len(queue) = 0
  BY DEF Init
<1>2. TypeOK
  <2>1. connection \in 0..MaxConnections /\ changes \in 0..MaxPlayChanges
    BY LinkAssumption DEF Init
  <2>2. EditorModel \in 0..MaxConnections /\ GameControl \in 0..MaxConnections
    BY LinkAssumption DEF Init
  <2>3. request \in [Requests -> {"none", "queued", "game", "reply", "answered", "opened", "unopened", "dropped"}]
    BY DEF Init
  <2> QED
    BY <1>1, <2>1, <2>2, <2>3 DEF Init, TypeOK, PlayStates
<1> QED
  BY <1>1, <1>2 DEF Init, IInv, TasksAreWellFormed, BeginningsInOrder, EndIsOfThePresentModel,
     ModelIsOnItsWay, ControlIsOfTheModel, InTimeFindsIt, LastToldIsPlay, HasModel,
     ConnectionLives

-----------------------------------------------------------------------------
(* The wire thread. *)

\* A new connection: no task is of it yet, so the one that is queued is the
\* youngest beginning.
LEMMA ConnectStep == IInv /\ Connect => IInv'
<1> SUFFICES ASSUME IInv, Connect PROVE IInv'
  OBVIOUS
<1> USE DEF IInv
<1> DEFINE t == Task("connect", connection + 1, None)
<1>1. connection \in 0..MaxConnections /\ connection + 1 \in 1..MaxConnections
      /\ EditorModel \in Nat /\ GameControl \in Nat /\ EditorModel <= connection
  BY LinkAssumption DEF Connect, TypeOK, TasksAreWellFormed
<1>2. t \in Tasks /\ t.kind = "connect" /\ t.conn = connection + 1
  BY <1>1, TaskIsTyped
<1> HIDE DEF t
<1>3. /\ queue' \in Seq(Tasks) /\ Len(queue) \in Nat /\ Len(queue') = Len(queue) + 1
      /\ \A i \in 1..Len(queue) : queue'[i] = queue[i]
      /\ queue'[Len(queue) + 1] = t
  <2>1. queue \in Seq(Tasks) /\ queue' = Append(queue, t)
    BY DEF Connect, TypeOK, t
  <2> QED
    BY <2>1, <1>2, AppendLast
<1>4. \A i \in 1..Len(queue') : \/ i \in 1..Len(queue) /\ queue'[i] = queue[i]
                                \/ i = Len(queue) + 1 /\ queue'[i] = t
  BY <1>3
<1>5. \A i \in 1..Len(queue) : queue[i].conn \in 1..MaxConnections /\ queue[i].conn <= connection
  <2>1. \A i \in 1..Len(queue) : queue[i] \in Tasks
    BY DEF TypeOK
  <2> QED
    BY <2>1 DEF TasksAreWellFormed, Tasks
<1>6. ~ConnectionLives(EditorModel) /\ ~ConnectionLives(EditorModel)'
  BY <1>1 DEF Connect, ConnectionLives, modelVars
<1>a. TypeOK'
  BY <1>1, <1>3 DEF Connect, TypeOK, PlayStates, modelVars, gameVars
<1>b. TasksAreWellFormed'
  <2>1. \A u \in gameTasks : u.conn <= connection + 1
    BY <1>1 DEF TypeOK, TasksAreWellFormed
  <2> QED
    BY <1>1, <1>2, <1>4, <1>5, <2>1 DEF Connect, TasksAreWellFormed, modelVars, gameVars
<1>c. BeginningsInOrder'
  BY <1>1, <1>2, <1>3, <1>4, <1>5 DEF Connect, BeginningsInOrder, modelVars
<1>d. EndIsOfThePresentModel'
  BY <1>2, <1>3, <1>4, <1>6 DEF Connect, EndIsOfThePresentModel, modelVars
<1>e. ModelIsOnItsWay'
  <2>1. Len(queue) + 1 \in 1..Len(queue')
    BY <1>3
  <2>2. \A i \in 1..Len(queue) : i \in 1..Len(queue')
    BY <1>3
  <2>3. RdIsModelAlive => \E i \in 1..Len(queue') : queue'[i].kind = "gone"
    BY <1>3, <1>6, <2>2 DEF ModelIsOnItsWay
  <2>4. queue'[Len(queue) + 1].kind = "connect" /\ queue'[Len(queue) + 1].conn = connection'
    BY <1>2, <1>3 DEF Connect
  <2> QED
    BY <2>1, <2>3, <2>4 DEF Connect, ModelIsOnItsWay, modelVars
<1>f. ControlIsOfTheModel'
  BY DEF Connect, ControlIsOfTheModel, modelVars
<1>g. InTimeFindsIt'
  <2>1. \A u \in gameTasks : ~ConnectionLives(u.conn)'
    BY <1>1 DEF Connect, ConnectionLives, TypeOK, TasksAreWellFormed
  <2> QED
    BY <1>2, <1>3, <1>4, <2>1 DEF Connect, InTimeFindsIt, modelVars, gameVars, ActionKinds
<1>h. LastToldIsPlay'
  BY <1>1, <1>6 DEF Connect, LastToldIsPlay, ConnectionLives, ControlIsOfTheModel, modelVars
<1> QED
  BY <1>a, <1>b, <1>c, <1>d, <1>e, <1>f, <1>g, <1>h

\* With a model of its own the connection has no beginning left in the queue.
LEMMA NothingFollowsTheModel ==
    ASSUME IInv, RdIsModelAlive, ConnectionLives(EditorModel)
    PROVE  \A i \in 1..Len(queue) : queue[i].kind \notin {"connect", "gone"}
<1> USE DEF IInv
<1>1. \A i \in 1..Len(queue) : queue[i] \in Tasks
  BY DEF TypeOK
<1> QED
  BY <1>1 DEF TypeOK, TasksAreWellFormed, BeginningsInOrder, EndIsOfThePresentModel,
     ConnectionLives, Tasks

\* The end of a connection: the end of its model is queued behind everything
\* the game control has said in time.
LEMMA DisconnectStep == IInv /\ Disconnect => IInv'
<1> SUFFICES ASSUME IInv, Disconnect PROVE IInv'
  OBVIOUS
<1> USE DEF IInv
<1> DEFINE t == Task("gone", connection, None)
           s == IF HasModel THEN <<t>> ELSE <<>>
<1>1. connection \in 1..MaxConnections
  BY LinkAssumption DEF Disconnect, DisconnectQueueing, TypeOK, TasksAreWellFormed
<1>2. t \in Tasks /\ t.kind = "gone" /\ t.conn = connection
  BY <1>1, TaskIsTyped
<1>3. s \in Seq(Tasks) /\ (HasModel => Len(s) = 1 /\ s[1] = t) /\ (~HasModel => Len(s) = 0)
  BY <1>2
<1>4. queue \in Seq(Tasks) /\ queue' = queue \o s /\ connected /\ ~connected'
  BY DEF Disconnect, DisconnectQueueing, TypeOK
<1>5. UNCHANGED <<connection, EditorModel, RdIsModelAlive, GameControl, running, gameTasks>>
  BY DEF Disconnect, DisconnectQueueing, gameVars
<1> HIDE DEF s, t
<1>6. /\ queue' \in Seq(Tasks) /\ Len(queue) \in Nat /\ Len(queue') = Len(queue) + Len(s)
      /\ \A i \in 1..Len(queue) : queue'[i] = queue[i]
      /\ \A i \in 1..Len(s) : queue'[Len(queue) + i] = s[i]
  BY <1>3, <1>4, ConcatBehind
<1>7. \A i \in 1..Len(queue') : \/ i \in 1..Len(queue) /\ queue'[i] = queue[i]
                                \/ HasModel /\ i = Len(queue) + 1 /\ queue'[i] = t
  BY <1>3, <1>6
<1>8. HasModel => /\ ConnectionLives(EditorModel)
                  /\ \A i \in 1..Len(queue) : queue[i].kind \notin {"connect", "gone"}
  BY <1>4, NothingFollowsTheModel DEF HasModel, ConnectionLives
<1>9. \A i \in 1..Len(queue) : i \in 1..Len(queue')
  BY <1>3, <1>6
<1>a. TypeOK'
  BY <1>6 DEF Disconnect, DisconnectQueueing, TypeOK, gameVars, riderVars
<1>b. TasksAreWellFormed'
  BY <1>1, <1>2, <1>4, <1>5, <1>7 DEF TasksAreWellFormed
<1>c. BeginningsInOrder'
  BY <1>2, <1>5, <1>6, <1>7 DEF BeginningsInOrder
<1>d. EndIsOfThePresentModel'
  <2>1. ~ConnectionLives(EditorModel)'
    BY <1>4 DEF ConnectionLives
  <2>2. CASE HasModel
    BY <1>2, <1>5, <1>6, <1>7, <1>8, <2>1, <2>2 DEF EndIsOfThePresentModel, HasModel
  <2>3. CASE ~HasModel
    BY <1>5, <1>6, <1>7, <2>1, <2>3 DEF EndIsOfThePresentModel
  <2> QED
    BY <2>2, <2>3
<1>e. ModelIsOnItsWay'
  <2>1. CASE HasModel
    <3>1. Len(s) = 1 /\ s[1] = t
      BY <1>3, <2>1
    <3>2. queue'[Len(queue) + 1] = s[1] /\ Len(queue) + 1 \in 1..Len(queue')
      BY <1>6, <3>1
    <3> QED
      BY <1>2, <3>1, <3>2, <1>4 DEF ModelIsOnItsWay
  <2>2. CASE ~HasModel
    BY <1>4, <1>5, <1>6, <1>9, <2>2 DEF ModelIsOnItsWay, HasModel, ConnectionLives
  <2> QED
    BY <2>1, <2>2
<1>f. ControlIsOfTheModel'
  BY <1>5 DEF ControlIsOfTheModel
<1>g. InTimeFindsIt'
  <2>1. \A u \in gameTasks : ~ConnectionLives(u.conn)'
    BY <1>4 DEF ConnectionLives
  <2> QED
    BY <1>2, <1>5, <1>6, <1>7, <2>1 DEF InTimeFindsIt, ActionKinds
<1>h. LastToldIsPlay'
  BY <1>4 DEF LastToldIsPlay, ConnectionLives
<1> QED
  BY <1>a, <1>b, <1>c, <1>d, <1>e, <1>f, <1>g, <1>h

\* A request is queued behind the tasks of its connection.
LEMMA ReceiveRequestStep ==
    ASSUME IInv, NEW r \in Requests, ReceiveRequest(r)
    PROVE  IInv'
<1> USE DEF IInv
<1> DEFINE t == Task("request", connection, r)
<1>1. connection \in 1..MaxConnections
  BY LinkAssumption DEF ReceiveRequest, TypeOK, TasksAreWellFormed
<1>2. t \in Tasks /\ t.kind = "request" /\ t.conn = connection /\ t.what = r
  BY <1>1, TaskIsTyped
<1>3. queue \in Seq(Tasks) /\ queue' = Append(queue, t)
  BY DEF ReceiveRequest, TypeOK
<1>4. UNCHANGED <<connection, connected, EditorModel, RdIsModelAlive, GameControl, running,
                  playState, changes, gameTasks, riderPlayState, changed, calling, sync_task_id>>
  BY DEF ReceiveRequest, linkVars, modelVars, gameVars
<1> HIDE DEF t
<1>5. /\ queue' \in Seq(Tasks) /\ Len(queue) \in Nat /\ Len(queue') = Len(queue) + 1
      /\ \A i \in 1..Len(queue) : queue'[i] = queue[i]
      /\ queue'[Len(queue) + 1] = t
  BY <1>2, <1>3, AppendLast
<1>6. \A i \in 1..Len(queue') : \/ i \in 1..Len(queue) /\ queue'[i] = queue[i]
                                \/ i = Len(queue) + 1 /\ queue'[i] = t
  BY <1>5
<1>7. \A i \in 1..Len(queue) : i \in 1..Len(queue')
  BY <1>5
<1>a. TypeOK'
  <2>1. request' \in [Requests -> {"none", "queued", "game", "reply", "answered", "opened", "unopened", "dropped"}]
    BY DEF ReceiveRequest, TypeOK
  <2> QED
    BY <1>4, <1>5, <2>1 DEF TypeOK
<1>b. TasksAreWellFormed'
  BY <1>1, <1>2, <1>4, <1>6 DEF TasksAreWellFormed
<1>c. BeginningsInOrder'
  BY <1>2, <1>4, <1>5, <1>6 DEF BeginningsInOrder
<1>d. EndIsOfThePresentModel'
  BY <1>2, <1>4, <1>5, <1>6 DEF EndIsOfThePresentModel, ConnectionLives
<1>e. ModelIsOnItsWay'
  BY <1>4, <1>5, <1>7 DEF ModelIsOnItsWay, ConnectionLives, HasModel
<1>f. ControlIsOfTheModel'
  BY <1>4 DEF ControlIsOfTheModel
<1>g. InTimeFindsIt'
  BY <1>2, <1>4, <1>5, <1>6 DEF InTimeFindsIt, ConnectionLives, ActionKinds
<1>h. LastToldIsPlay'
  BY <1>2, <1>4, <1>5, <1>6, <1>7 DEF LastToldIsPlay, ConnectionLives, TellsPlay
<1> QED
  BY <1>a, <1>b, <1>c, <1>d, <1>e, <1>f, <1>g, <1>h

\* The end of the call the Scheduler waits in touches neither the queue nor a
\* model.
LEMMA EndCallStep ==
    ASSUME IInv, EndCall, sync_task_id' \in {sync_task_id, None}
    PROVE  IInv'
<1> USE DEF IInv
<1>1. UNCHANGED <<queue, connection, connected, EditorModel, RdIsModelAlive, GameControl, running,
                  playState, changes, gameTasks, riderPlayState, changed>>
  BY DEF EndCall, linkVars, modelVars, gameVars
<1>2. TypeOK'
  <2>1. request' \in [Requests -> {"none", "queued", "game", "reply", "answered", "opened", "unopened", "dropped"}]
    BY DEF EndCall, Openings, TypeOK
  <2>2. calling' \in Opens \cup {None} /\ sync_task_id' \in Opens \cup {None}
    BY DEF EndCall, TypeOK
  <2> QED
    BY <1>1, <2>1, <2>2 DEF TypeOK
<1> QED
  BY <1>1, <1>2 DEF TasksAreWellFormed, BeginningsInOrder, EndIsOfThePresentModel, ModelIsOnItsWay,
     ControlIsOfTheModel, InTimeFindsIt, LastToldIsPlay, ConnectionLives, HasModel, TellsPlay

-----------------------------------------------------------------------------
(* The Scheduler. *)

\* What a step of the Scheduler leaves of the queue.
LEMMA HeadIsRun ==
    ASSUME IInv, RunTask
    PROVE  /\ queue' \in Seq(Tasks)
           /\ Len(queue) \in Nat \ {0} /\ Len(queue') = Len(queue) - 1
           /\ \A i \in 1..Len(queue') : i + 1 \in 1..Len(queue) /\ queue'[i] = queue[i + 1]
           /\ \A i \in 1..Len(queue) : i # 1 => i - 1 \in 1..Len(queue') /\ queue'[i - 1] = queue[i]
           /\ Head(queue) = queue[1] /\ queue[1] \in Tasks
           /\ UNCHANGED <<running, connection, connected, playState, changes>>
<1>1. queue \in Seq(Tasks) /\ queue # <<>> /\ queue' = Tail(queue)
  BY DEF IInv, TypeOK, RunTask
<1> QED
  BY <1>1, TailMovesUp DEF RunTask, linkVars

\* The beginnings that are left are still in order, and they are all younger
\* than the model if it is the same.
LEMMA RestKeepsItsOrder ==
    ASSUME IInv, RunTask
    PROVE  /\ \A i, j \in 1..Len(queue') :
                 queue'[i].kind = "connect" /\ queue'[j].kind = "connect" /\ i < j
                    => queue'[i].conn < queue'[j].conn
           /\ EditorModel' = EditorModel => BeginningsInOrder'
<1>1. /\ Len(queue) \in Nat \ {0} /\ Len(queue') = Len(queue) - 1
      /\ \A i \in 1..Len(queue') : i + 1 \in 1..Len(queue) /\ queue'[i] = queue[i + 1]
  BY HeadIsRun
<1>2. ASSUME NEW i \in 1..Len(queue'), NEW j \in 1..Len(queue'),
             queue'[i].kind = "connect", queue'[j].kind = "connect", i < j
      PROVE  queue'[i].conn < queue'[j].conn
  <2>1. /\ i + 1 \in 1..Len(queue) /\ queue'[i] = queue[i + 1]
        /\ j + 1 \in 1..Len(queue) /\ queue'[j] = queue[j + 1]
    BY <1>1
  <2> QED
    BY <1>2, <2>1 DEF IInv, BeginningsInOrder
<1>3. \A i \in 1..Len(queue') : queue'[i].kind = "connect" => queue'[i].conn > EditorModel
  BY <1>1 DEF IInv, BeginningsInOrder
<1> QED
  BY <1>2, <1>3 DEF BeginningsInOrder

\* When a beginning is run no model is announced and no game control exists.
LEMMA NoModelBeforeABeginning ==
    ASSUME IInv, RunTask, Head(queue).kind = "connect"
    PROVE  ~RdIsModelAlive /\ GameControl = 0
<1> USE DEF IInv
<1>1. Len(queue) \in Nat \ {0} /\ queue[1].kind = "connect" /\ queue[1] \in Tasks
  BY HeadIsRun
<1>2. ASSUME RdIsModelAlive PROVE FALSE
  <2>1. ~ConnectionLives(EditorModel)
    BY <1>1, <1>2, NothingFollowsTheModel
  <2>2. PICK i \in 1..Len(queue) : queue[i].kind = "gone"
    BY <1>2, <2>1 DEF ModelIsOnItsWay
  <2> QED
    BY <1>1, <2>2 DEF EndIsOfThePresentModel
<1> QED
  BY <1>2 DEF ControlIsOfTheModel

\* The beginning of a connection.
LEMMA RunConnectStep ==
    ASSUME IInv, RunTask, Head(queue).kind = "connect", RunConnect(Head(queue))
    PROVE  IInv'
<1> USE DEF IInv
<1> DEFINE t == queue[1]
<1>1. /\ queue' \in Seq(Tasks)
      /\ Len(queue) \in Nat \ {0} /\ Len(queue') = Len(queue) - 1
      /\ \A i \in 1..Len(queue') : i + 1 \in 1..Len(queue) /\ queue'[i] = queue[i + 1]
      /\ \A i \in 1..Len(queue) : i # 1 => i - 1 \in 1..Len(queue') /\ queue'[i - 1] = queue[i]
      /\ t \in Tasks
      /\ UNCHANGED <<running, connection, connected, playState, changes>>
  BY HeadIsRun
<1>2. /\ t.kind = "connect" /\ t.conn \in 1..MaxConnections /\ t.conn <= connection
      /\ RunConnect(t) /\ ~RdIsModelAlive /\ GameControl = 0
  BY <1>1, HeadIsRun, NoModelBeforeABeginning DEF TasksAreWellFormed, Tasks
<1>3. /\ EditorModel' = t.conn
      /\ \/ /\ ConnectionLives(t.conn) /\ RdIsModelAlive' /\ changed' = FALSE
            /\ GameControl' = IF running THEN t.conn ELSE 0
         \/ ~ConnectionLives(t.conn) /\ UNCHANGED <<RdIsModelAlive, GameControl, changed>>
      /\ RdIsModelAlive' \in BOOLEAN /\ changed' \in BOOLEAN
      /\ sync_task_id' = None /\ UNCHANGED <<calling, request, gameTasks, riderPlayState>>
  BY <1>2 DEF RunConnect, NewModel, TypeOK
<1>4. \A i \in 1..Len(queue) : queue[i].kind # "gone"
  BY <1>2 DEF EndIsOfThePresentModel
<1>5. \A c : ConnectionLives(c)' <=> ConnectionLives(c)
  BY <1>1 DEF ConnectionLives
<1>6. connection \in 0..MaxConnections
  BY DEF TypeOK
<1> HIDE DEF t
<1>a. TypeOK'
  BY <1>1, <1>2, <1>3, LinkAssumption DEF TypeOK
<1>b. TasksAreWellFormed'
  BY <1>1, <1>2, <1>3, <1>6 DEF TasksAreWellFormed
<1>c. BeginningsInOrder'
  <2>1. \A i \in 1..Len(queue) : queue[i].kind = "connect" /\ 1 < i => t.conn < queue[i].conn
    BY <1>1, <1>2 DEF BeginningsInOrder, t
  <2>2. \A i \in 1..Len(queue') : queue'[i].kind = "connect" => queue'[i].conn > EditorModel'
    BY <1>1, <1>3, <2>1
  <2> QED
    BY <2>2, RestKeepsItsOrder DEF BeginningsInOrder
<1>d. EndIsOfThePresentModel'
  BY <1>1, <1>4 DEF EndIsOfThePresentModel
<1>e. ModelIsOnItsWay'
  <2>1. ASSUME connected, ~ConnectionLives(t.conn)
        PROVE  \E i \in 1..Len(queue') : queue'[i].kind = "connect" /\ queue'[i].conn = connection
    <3>1. PICK i \in 1..Len(queue) : queue[i].kind = "connect" /\ queue[i].conn = connection
      BY <1>2, <2>1 DEF ModelIsOnItsWay, HasModel
    <3>2. i # 1
      BY <2>1, <3>1 DEF ConnectionLives, t
    <3> QED
      BY <1>1, <3>1, <3>2
  <2> QED
    BY <1>1, <1>2, <1>3, <1>5, <2>1 DEF ModelIsOnItsWay, HasModel, ConnectionLives
<1>f. ControlIsOfTheModel'
  BY <1>1, <1>2, <1>3 DEF ControlIsOfTheModel
<1>g. InTimeFindsIt'
  <2>1. ASSUME running PROVE \A i \in 1..Len(queue) : queue[i].kind \in ActionKinds => queue[i].late
    BY <1>1, <1>2, <2>1 DEF InTimeFindsIt, t
  <2>2. ASSUME running PROVE \A u \in gameTasks : ~ConnectionLives(u.conn)
    BY <1>2, <2>2 DEF InTimeFindsIt, TypeOK
  <2> QED
    BY <1>1, <1>3, <1>5, <2>1, <2>2 DEF InTimeFindsIt
<1>h. LastToldIsPlay'
  BY <1>2, <1>3 DEF LastToldIsPlay
<1> QED
  BY <1>a, <1>b, <1>c, <1>d, <1>e, <1>f, <1>g, <1>h

\* The end of a model: nothing the game control said in time is behind it.
LEMMA RunGoneStep ==
    ASSUME IInv, RunTask, Head(queue).kind = "gone", RunGone(Head(queue))
    PROVE  IInv'
<1> USE DEF IInv
<1> DEFINE t == queue[1]
<1>1. /\ queue' \in Seq(Tasks)
      /\ Len(queue) \in Nat \ {0} /\ Len(queue') = Len(queue) - 1
      /\ \A i \in 1..Len(queue') : i + 1 \in 1..Len(queue) /\ queue'[i] = queue[i + 1]
      /\ \A i \in 1..Len(queue) : i # 1 => i - 1 \in 1..Len(queue') /\ queue'[i - 1] = queue[i]
      /\ UNCHANGED <<running, connection, connected, playState, changes>>
  BY HeadIsRun
<1>2. t.kind = "gone"
  BY HeadIsRun
<1>3. /\ RdIsModelAlive' = FALSE /\ GameControl' = 0
      /\ UNCHANGED <<EditorModel, sync_task_id, calling, request, gameTasks, riderPlayState, changed>>
  BY DEF RunGone
<1>4. ~ConnectionLives(EditorModel) /\ \A i \in 1..Len(queue) : i # 1 => queue[i].kind # "gone"
  BY <1>1, <1>2 DEF EndIsOfThePresentModel
<1>5. \A c : ConnectionLives(c)' <=> ConnectionLives(c)
  BY <1>1 DEF ConnectionLives
<1> HIDE DEF t
<1>a. TypeOK'
  <2>1. GameControl' \in 0..MaxConnections
    BY <1>3, LinkAssumption
  <2>2. RdIsModelAlive' \in BOOLEAN
    BY <1>3
  <2> QED
    BY <1>1, <1>3, <2>1, <2>2 DEF TypeOK
<1>b. TasksAreWellFormed'
  BY <1>1, <1>3 DEF TasksAreWellFormed
<1>c. BeginningsInOrder'
  BY <1>3, RestKeepsItsOrder
<1>d. EndIsOfThePresentModel'
  BY <1>1, <1>4 DEF EndIsOfThePresentModel
<1>e. ModelIsOnItsWay'
  <2>1. ASSUME connected
        PROVE  \E i \in 1..Len(queue') : queue'[i].kind = "connect" /\ queue'[i].conn = connection
    <3>1. PICK i \in 1..Len(queue) : queue[i].kind = "connect" /\ queue[i].conn = connection
      BY <1>4, <2>1 DEF ModelIsOnItsWay, HasModel, ConnectionLives
    <3>2. i # 1
      BY <1>2, <3>1 DEF t
    <3> QED
      BY <1>1, <3>1, <3>2
  <2> QED
    BY <1>1, <1>3, <2>1 DEF ModelIsOnItsWay
<1>f. ControlIsOfTheModel'
  BY <1>3 DEF ControlIsOfTheModel
<1>g. InTimeFindsIt'
  <2>1. ASSUME running
        PROVE  \A i \in 1..Len(queue) : queue[i].kind \in ActionKinds => queue[i].late
    BY <1>1, <1>2, <2>1 DEF InTimeFindsIt, t
  <2>2. ASSUME running PROVE \A u \in gameTasks : ~ConnectionLives(u.conn)
    BY <1>4, <2>2 DEF InTimeFindsIt, ControlIsOfTheModel, TypeOK
  <2> QED
    BY <1>1, <1>3, <1>5, <2>1, <2>2 DEF InTimeFindsIt
<1>h. LastToldIsPlay'
  BY <1>3 DEF LastToldIsPlay
<1> QED
  BY <1>a, <1>b, <1>c, <1>d, <1>e, <1>f, <1>g, <1>h

\* What the other tasks do to the IDE and to what they leave to the game
\* thread.
OtherTaskRuns(task) ==
    /\ UNCHANGED <<EditorModel, RdIsModelAlive, GameControl, changed>>
    /\ riderPlayState' =
          IF task.kind = "playState" /\ GameControl = task.conn /\ ConnectionLives(task.conn)
          THEN task.what ELSE riderPlayState
    /\ \/ gameTasks' = gameTasks
       \/ /\ GameControl = task.conn /\ task.what \in Commands
          /\ gameTasks' = gameTasks \cup {[conn |-> task.conn, what |-> task.what]}
    /\ calling' \in Opens \cup {None} /\ sync_task_id' \in Opens \cup {None}
    /\ request' \in [Requests -> {"none", "queued", "game", "reply", "answered", "opened", "unopened", "dropped"}]

\* A task that is neither a beginning nor an end.
LEMMA RunOtherStep ==
    ASSUME IInv, RunTask, Head(queue).kind \notin {"connect", "gone"}, OtherTaskRuns(Head(queue))
    PROVE  IInv'
<1> USE DEF IInv
<1> DEFINE t == queue[1]
<1>1. /\ queue' \in Seq(Tasks)
      /\ Len(queue) \in Nat \ {0} /\ Len(queue') = Len(queue) - 1
      /\ \A i \in 1..Len(queue') : i + 1 \in 1..Len(queue) /\ queue'[i] = queue[i + 1]
      /\ \A i \in 1..Len(queue) : i # 1 => i - 1 \in 1..Len(queue') /\ queue'[i - 1] = queue[i]
      /\ UNCHANGED <<running, connection, connected, playState, changes>>
  BY HeadIsRun
<1>2. t \in Tasks /\ t.kind \notin {"connect", "gone"} /\ OtherTaskRuns(t)
  BY HeadIsRun
<1>3. /\ UNCHANGED <<EditorModel, RdIsModelAlive, GameControl, changed>>
      /\ riderPlayState' = IF t.kind = "playState" /\ GameControl = t.conn /\ ConnectionLives(t.conn)
                           THEN t.what ELSE riderPlayState
      /\ \A u \in gameTasks' :
            \/ u \in gameTasks
            \/ /\ u.conn = t.conn /\ GameControl = t.conn
               /\ u \in [conn : 1..MaxConnections, what : Commands]
      /\ calling' \in Opens \cup {None} /\ sync_task_id' \in Opens \cup {None}
      /\ request' \in [Requests -> {"none", "queued", "game", "reply", "answered", "opened", "unopened", "dropped"}]
  <2>1. t.conn \in 1..MaxConnections
    BY <1>2 DEF Tasks
  <2>2. \A u \in gameTasks' :
            \/ u \in gameTasks
            \/ /\ u.conn = t.conn /\ GameControl = t.conn
               /\ u \in [conn : 1..MaxConnections, what : Commands]
    BY <1>2, <2>1 DEF OtherTaskRuns
  <2> QED
    BY <1>2, <2>2 DEF OtherTaskRuns
<1>4. t.conn <= connection /\ (t.kind = "playState" => t.what \in PlayStates)
  BY <1>1 DEF TasksAreWellFormed
<1>5. \A c : ConnectionLives(c)' <=> ConnectionLives(c)
  BY <1>1 DEF ConnectionLives
<1> HIDE DEF t
<1>a. TypeOK'
  <2>1. riderPlayState' \in PlayStates
    BY <1>3, <1>4 DEF TypeOK
  <2>2. gameTasks' \subseteq [conn : 1..MaxConnections, what : Commands]
    BY <1>3 DEF TypeOK
  <2> QED
    BY <1>1, <1>3, <2>1, <2>2 DEF TypeOK
<1>b. TasksAreWellFormed'
  BY <1>1, <1>3, <1>4 DEF TasksAreWellFormed
<1>c. BeginningsInOrder'
  BY <1>3, RestKeepsItsOrder
<1>d. EndIsOfThePresentModel'
  <2>1. ASSUME NEW i \in 1..Len(queue'), queue'[i].kind = "gone"
        PROVE  /\ RdIsModelAlive /\ ~ConnectionLives(EditorModel)
               /\ \A j \in 1..Len(queue') : /\ queue'[j].kind = "gone" => i = j
                                            /\ queue'[j].kind = "connect" => i < j
    <3>1. i + 1 \in 1..Len(queue) /\ queue[i + 1].kind = "gone"
      BY <1>1, <2>1
    <3>2. \A j \in 1..Len(queue) : /\ queue[j].kind = "gone" => i + 1 = j
                                   /\ queue[j].kind = "connect" => i + 1 < j
      BY <3>1 DEF EndIsOfThePresentModel
    <3>3. \A j \in 1..Len(queue') : j + 1 \in 1..Len(queue) /\ queue'[j] = queue[j + 1]
      BY <1>1
    <3> QED
      BY <3>1, <3>2, <3>3 DEF EndIsOfThePresentModel
  <2> QED
    BY <1>3, <1>5, <2>1 DEF EndIsOfThePresentModel
<1>e. ModelIsOnItsWay'
  <2>1. \A i \in 1..Len(queue) : queue[i].kind \in {"connect", "gone"} => i # 1
    BY <1>2 DEF t
  <2>2. RdIsModelAlive /\ ~ConnectionLives(EditorModel) =>
           \E i \in 1..Len(queue') : queue'[i].kind = "gone"
    BY <1>1, <2>1 DEF ModelIsOnItsWay
  <2>3. connected /\ ~HasModel =>
           \E i \in 1..Len(queue') : queue'[i].kind = "connect" /\ queue'[i].conn = connection
    BY <1>1, <2>1 DEF ModelIsOnItsWay
  <2> QED
    BY <1>1, <1>3, <1>5, <2>2, <2>3 DEF ModelIsOnItsWay, HasModel
<1>f. ControlIsOfTheModel'
  BY <1>1, <1>3 DEF ControlIsOfTheModel
<1>g. InTimeFindsIt'
  <2>1. ASSUME running, NEW i \in 1..Len(queue'), queue'[i].kind \in ActionKinds, ~queue'[i].late
        PROVE  /\ GameControl = queue'[i].conn
               /\ \A j \in 1..Len(queue') : queue'[j].kind \in {"connect", "gone"} => i < j
    <3>1. i + 1 \in 1..Len(queue) /\ queue'[i] = queue[i + 1]
      BY <1>1
    <3>2. GameControl = queue[i + 1].conn
          /\ \A j \in 1..Len(queue) : queue[j].kind \in {"connect", "gone"} => i + 1 < j
      BY <2>1, <3>1 DEF InTimeFindsIt
    <3>3. ASSUME NEW j \in 1..Len(queue'), queue'[j].kind \in {"connect", "gone"} PROVE i < j
      <4>1. j + 1 \in 1..Len(queue) /\ queue'[j] = queue[j + 1]
        BY <1>1
      <4>2. i + 1 < j + 1
        BY <3>2, <3>3, <4>1
      <4> QED
        BY <4>2
    <3> QED
      BY <3>1, <3>2, <3>3
  <2>2. ASSUME running, NEW u \in gameTasks', ConnectionLives(u.conn)
        PROVE  GameControl = u.conn
    BY <1>3, <2>2 DEF InTimeFindsIt
  <2> QED
    BY <1>1, <1>3, <1>5, <2>1, <2>2 DEF InTimeFindsIt
<1>h. LastToldIsPlay'
  <2> SUFFICES ASSUME GameControl # 0, ConnectionLives(GameControl), changed
               PROVE  /\ \A i \in 1..Len(queue') :
                            TellsPlay(i)' /\ (\A j \in 1..Len(queue') : TellsPlay(j)' => j <= i)
                                => queue'[i].what = playState
                      /\ (\A i \in 1..Len(queue') : ~TellsPlay(i)') => riderPlayState' = playState
    BY <1>1, <1>3, <1>5 DEF LastToldIsPlay
  <2>1. \A i \in 1..Len(queue') : TellsPlay(i)' <=> TellsPlay(i + 1)
    BY <1>1, <1>3 DEF TellsPlay
  <2>2. ASSUME NEW i \in 1..Len(queue'), TellsPlay(i)',
               \A j \in 1..Len(queue') : TellsPlay(j)' => j <= i
        PROVE  queue'[i].what = playState
    <3>1. TellsPlay(i + 1) /\ i + 1 \in 1..Len(queue) /\ queue'[i] = queue[i + 1]
      BY <1>1, <2>1, <2>2
    <3>2. ASSUME NEW j \in 1..Len(queue), TellsPlay(j) PROVE j <= i + 1
      <4>1. CASE j = 1
        BY <4>1
      <4>2. CASE j # 1
        <5>1. j - 1 \in 1..Len(queue') /\ TellsPlay(j - 1)'
          BY <1>1, <1>3, <3>2, <4>2 DEF TellsPlay
        <5> QED
          BY <2>2, <5>1
      <4> QED
        BY <4>1, <4>2
    <3> QED
      BY <3>1, <3>2 DEF LastToldIsPlay
  <2>3. ASSUME \A i \in 1..Len(queue') : ~TellsPlay(i)'
        PROVE  riderPlayState' = playState
    <3>1. \A i \in 1..Len(queue) : TellsPlay(i) => i = 1
      BY <1>1, <1>3, <2>3 DEF TellsPlay
    <3>2. CASE TellsPlay(1)
      <4>1. t.what = playState
        BY <1>1, <3>1, <3>2 DEF LastToldIsPlay, t
      <4>2. t.kind = "playState" /\ t.conn = GameControl
        BY <3>2 DEF TellsPlay, t
      <4> QED
        BY <1>3, <4>1, <4>2
    <3>3. CASE ~TellsPlay(1)
      <4>1. riderPlayState = playState
        BY <3>1, <3>3 DEF LastToldIsPlay
      <4>2. ~(t.kind = "playState" /\ GameControl = t.conn)
        BY <3>3 DEF TellsPlay, t
      <4> QED
        BY <1>3, <4>1, <4>2
    <3> QED
      BY <3>2, <3>3
  <2> QED
    BY <2>2, <2>3
<1> QED
  BY <1>a, <1>b, <1>c, <1>d, <1>e, <1>f, <1>g, <1>h

\* A step of the Scheduler.
LEMMA RunTaskStep == IInv /\ RunTask => IInv'
<1> SUFFICES ASSUME IInv, RunTask PROVE IInv'
  OBVIOUS
<1> DEFINE task == Head(queue)
<1>1. CASE task.kind = "connect" /\ RunConnect(task)
  BY <1>1, RunConnectStep
<1>2. CASE task.kind = "gone" /\ RunGone(task)
  BY <1>2, RunGoneStep
<1>3. /\ task \in Tasks /\ calling \in Opens \cup {None} /\ sync_task_id \in Opens \cup {None}
      /\ request \in [Requests -> {"none", "queued", "game", "reply", "answered", "opened", "unopened", "dropped"}]
  BY HeadIsRun DEF IInv, TypeOK
<1> HIDE DEF task
<1>4. ASSUME task.kind \notin {"connect", "gone"}, OtherTaskRuns(task) PROVE IInv'
  BY <1>4, RunOtherStep DEF task
<1>5. CASE task.kind = "playState" /\ RunPlayState(task)
  BY <1>3, <1>4, <1>5 DEF RunPlayState, OtherTaskRuns, modelVars
<1>6. CASE task.kind = "initialized" /\ RunInitialized
  BY <1>3, <1>4, <1>6 DEF RunInitialized, OtherTaskRuns, modelVars
<1>7. CASE task.kind = "reply" /\ RunReply(task)
  BY <1>3, <1>4, <1>7 DEF RunReply, OtherTaskRuns, modelVars
<1>8. CASE task.kind = "request" /\ DropRequest(task)
  BY <1>3, <1>4, <1>8 DEF DropRequest, OtherTaskRuns, modelVars
<1>9. CASE task.kind = "request" /\ RunCommand(task)
  BY <1>3, <1>4, <1>9 DEF RunCommand, Subscribed, OtherTaskRuns, modelVars
<1>10. CASE task.kind = "request" /\ RunOpen(task)
  BY <1>3, <1>4, <1>10 DEF RunOpen, OpenBlueprint, Openings, OtherTaskRuns, modelVars
<1> QED
  BY <1>1, <1>2, <1>5, <1>6, <1>7, <1>8, <1>9, <1>10 DEF RunTask, task

-----------------------------------------------------------------------------
(* The game thread. *)

\* Every change of the play session is told to its end.
LEMMA AnnouncedToItsEnd ==
    ASSUME NEW a \in Announced
    PROVE  /\ a[2] \in PlayStates /\ a[3] \in Seq(PlayStates)
           /\ LastTold(a[3]) = a[2]
<1>1. \/ \E b \in {"Idle", "Play", "Pause"} : a[2] = b /\ a[3] = <<b>>
      \/ a[2] = "Pause" /\ a[3] = <<"Play", "Pause">>
  BY DEF Announced
<1>2. CASE \E b \in {"Idle", "Play", "Pause"} : a[2] = b /\ a[3] = <<b>>
  BY <1>2 DEF PlayStates, LastTold
<1>3. CASE a[2] = "Pause" /\ a[3] = <<"Play", "Pause">>
  BY <1>3 DEF PlayStates, LastTold
<1> QED
  BY <1>1, <1>2, <1>3

\* Tasks of the game control are queued, and nothing else happens that the
\* order in the queue depends on: the lengths are those of the tasks added.
LEMMA ControlQueues ==
    ASSUME IInv, NEW s \in Seq(Tasks), queue' = queue \o s,
           \A i \in 1..Len(s) : /\ s[i].kind \in ActionKinds /\ s[i].conn <= connection
                                /\ s[i].late = ~ConnectionLives(s[i].conn)
                                /\ s[i].kind = "playState" => s[i].what \in PlayStates
                                /\ s[i].kind = "reply" => s[i].what \in Requests,
           running' => \A i \in 1..Len(s) : ConnectionLives(s[i].conn) => GameControl' = s[i].conn,
           running' => running /\ GameControl' = GameControl,
           running' \in BOOLEAN, gameTasks' \subseteq gameTasks,
           UNCHANGED <<connection, connected, EditorModel, RdIsModelAlive>>
    PROVE  /\ queue' \in Seq(Tasks) /\ Len(queue) \in Nat /\ Len(s) \in Nat
           /\ Len(queue') = Len(queue) + Len(s)
           /\ \A i \in 1..Len(queue) : i \in 1..Len(queue') /\ queue'[i] = queue[i]
           /\ \A i \in 1..Len(s) : Len(queue) + i \in 1..Len(queue') /\ queue'[Len(queue) + i] = s[i]
           /\ \A i \in 1..Len(queue') : \/ i \in 1..Len(queue) /\ queue'[i] = queue[i]
                                        \/ i - Len(queue) \in 1..Len(s) /\ queue'[i] = s[i - Len(queue)]
           /\ TasksAreWellFormed' /\ BeginningsInOrder' /\ EndIsOfThePresentModel'
           /\ ModelIsOnItsWay' /\ InTimeFindsIt'
<1> USE DEF IInv
<1>1. queue \in Seq(Tasks)
  BY DEF TypeOK
<1>2. /\ queue' \in Seq(Tasks) /\ Len(queue) \in Nat /\ Len(s) \in Nat
      /\ Len(queue') = Len(queue) + Len(s)
      /\ \A i \in 1..Len(queue) : i \in 1..Len(queue') /\ queue'[i] = queue[i]
      /\ \A i \in 1..Len(s) : Len(queue) + i \in 1..Len(queue') /\ queue'[Len(queue) + i] = s[i]
  <2>1. queue' \in Seq(Tasks) /\ Len(queue') = Len(queue) + Len(s)
    BY <1>1, ConcatBehind
  <2>2. \A i \in 1..Len(queue) : queue'[i] = queue[i]
    BY <1>1, ConcatBehind
  <2>3. \A i \in 1..Len(s) : queue'[Len(queue) + i] = s[i]
    BY <1>1, ConcatBehind
  <2>4. Len(queue) \in Nat /\ Len(s) \in Nat
    BY <1>1
  <2> QED
    BY <2>1, <2>2, <2>3, <2>4
<1>3. \A i \in 1..Len(queue') : \/ i \in 1..Len(queue) /\ queue'[i] = queue[i]
                                \/ i - Len(queue) \in 1..Len(s) /\ queue'[i] = s[i - Len(queue)]
  <2> TAKE i \in 1..Len(queue')
  <2>1. CASE i <= Len(queue)
    BY <1>2, <2>1
  <2>2. CASE i > Len(queue)
    <3>1. i - Len(queue) \in 1..Len(s) /\ Len(queue) + (i - Len(queue)) = i
      BY <1>2, <2>2
    <3> QED
      BY <1>2, <3>1
  <2> QED
    BY <1>2, <2>1, <2>2
<1>4. \A c : ConnectionLives(c)' <=> ConnectionLives(c)
  BY DEF ConnectionLives
\* The tasks that are added are neither beginnings nor ends.
<1>5. \A i \in 1..Len(queue') : queue'[i].kind \in {"connect", "gone"} =>
                                   i \in 1..Len(queue) /\ queue'[i] = queue[i]
  BY <1>3 DEF ActionKinds
<1>b. TasksAreWellFormed'
  BY <1>3 DEF TasksAreWellFormed, ActionKinds
<1>c. BeginningsInOrder'
  BY <1>5 DEF BeginningsInOrder
<1>d. EndIsOfThePresentModel'
  BY <1>4, <1>5 DEF EndIsOfThePresentModel
<1>e. ModelIsOnItsWay'
  BY <1>2, <1>4 DEF ModelIsOnItsWay, HasModel
<1>g. InTimeFindsIt'
  <2> SUFFICES ASSUME running'
               PROVE  /\ \A i \in 1..Len(queue') : queue'[i].kind \in ActionKinds /\ ~queue'[i].late =>
                            /\ GameControl' = queue'[i].conn
                            /\ \A j \in 1..Len(queue') : queue'[j].kind \in {"connect", "gone"} => i < j
                      /\ \A t \in gameTasks' : ConnectionLives(t.conn)' => GameControl' = t.conn
    BY DEF InTimeFindsIt
  <2>1. ASSUME NEW i \in 1..Len(queue), queue[i].kind \in ActionKinds, ~queue[i].late
        PROVE  /\ GameControl' = queue[i].conn
               /\ \A j \in 1..Len(queue') : queue'[j].kind \in {"connect", "gone"} => i < j
    BY <1>5, <2>1 DEF InTimeFindsIt
  <2>2. ASSUME NEW i \in 1..Len(queue'), i \notin 1..Len(queue), ~queue'[i].late
        PROVE  /\ GameControl' = queue'[i].conn
               /\ \A j \in 1..Len(queue') : queue'[j].kind \notin {"connect", "gone"}
    <3>1. i - Len(queue) \in 1..Len(s) /\ queue'[i] = s[i - Len(queue)]
      BY <1>3, <2>2
    <3>2. ConnectionLives(queue'[i].conn) /\ GameControl' = queue'[i].conn
      BY <2>2, <3>1
    <3>3. queue'[i].conn # 0
      <4>1. queue'[i] \in Tasks
        BY <1>2, <2>2
      <4> QED
        BY <4>1 DEF Tasks
    <3>4. RdIsModelAlive /\ ConnectionLives(EditorModel)
      BY <3>2, <3>3 DEF ControlIsOfTheModel
    <3> QED
      BY <1>5, <3>2, <3>4, NothingFollowsTheModel
  <2>3. \A t \in gameTasks' : ConnectionLives(t.conn)' => GameControl' = t.conn
    BY <1>4 DEF InTimeFindsIt
  <2> QED
    BY <1>3, <2>1, <2>2, <2>3
<1> QED
  BY <1>2, <1>3, <1>b, <1>c, <1>d, <1>e, <1>g

\* A change of the play session: what is queued for it ends with the state
\* the session is in.
LEMMA PlaySessionStep == IInv /\ PlaySessionChanges => IInv'
<1> SUFFICES ASSUME IInv, PlaySessionChanges PROVE IInv'
  OBVIOUS
<1> USE DEF IInv
<1>1. PICK a \in Announced :
         /\ playState = a[1] /\ playState' = a[2]
         /\ queue' = IF GameControl # 0
                     THEN Append(queue, Task("playState", GameControl, LastTold(a[3])))
                     ELSE queue
  BY DEF PlaySessionChanges
<1> DEFINE told == <<Task("playState", GameControl, LastTold(a[3]))>>
           s == IF GameControl # 0 THEN told ELSE <<>>
<1>2. /\ UNCHANGED <<running, connection, connected, calling, sync_task_id, EditorModel,
                     RdIsModelAlive, GameControl, gameTasks, riderPlayState, request>>
      /\ running /\ changed' = (changed \/ GameControl # 0)
      /\ changes < MaxPlayChanges /\ changes' = changes + 1
  BY DEF PlaySessionChanges, linkVars, modelVars, riderVars
<1>3. a[2] \in PlayStates /\ LastTold(a[3]) = a[2]
  BY AnnouncedToItsEnd
<1>4. GameControl # 0 => GameControl \in 1..MaxConnections /\ GameControl <= connection
  BY LinkAssumption DEF TypeOK, ControlIsOfTheModel, TasksAreWellFormed
<1>5. ASSUME GameControl # 0
      PROVE  /\ told \in Seq(Tasks) /\ Len(told) = 1
             /\ \A i \in 1..Len(told) :
                   /\ told[i].kind = "playState" /\ told[i].conn = GameControl /\ told[i].what = a[2]
                   /\ told[i].late = ~ConnectionLives(GameControl)
  <2> DEFINE t == Task("playState", GameControl, LastTold(a[3]))
  <2>1. /\ t \in Tasks /\ t.kind = "playState" /\ t.conn = GameControl /\ t.what = a[2]
        /\ t.late = ~ConnectionLives(GameControl)
    BY <1>3, <1>4, <1>5, TaskIsTyped DEF ActionKinds
  <2> HIDE DEF IInv, t
  <2>2. <<t>> \in Seq(Tasks) /\ Len(<<t>>) = 1 /\ \A i \in 1..Len(<<t>>) : <<t>>[i] = t
    BY <2>1
  <2> QED
    BY <2>1, <2>2 DEF t
<1>6. s \in Seq(Tasks) /\ queue' = queue \o s /\ queue \in Seq(Tasks)
  <2>1. queue \in Seq(Tasks) /\ queue \o <<>> = queue
    BY DEF TypeOK
  <2>2. CASE GameControl # 0
    <3>1. s = told
      BY <2>2
    <3>2. queue' = queue \o told
      BY <1>1, <2>1, <2>2
    <3> QED
      BY <1>5, <2>1, <2>2, <3>1, <3>2
  <2>3. CASE GameControl = 0
    BY <1>1, <2>1, <2>3
  <2> QED
    BY <2>2, <2>3
<1>7. \A i \in 1..Len(s) :
         /\ GameControl # 0 /\ s = told
         /\ s[i].kind = "playState" /\ s[i].conn = GameControl /\ s[i].what \in PlayStates
         /\ s[i].late = ~ConnectionLives(GameControl)
  <2>2. CASE GameControl = 0
    BY <2>2
  <2>3. CASE GameControl # 0
    <3>1. s = told
      BY <2>3
    <3> HIDE DEF s, told, IInv
    <3> QED
      BY <1>3, <1>5, <2>3, <3>1
  <2> QED
    BY <2>2, <2>3
<1>8. GameControl # 0 => Len(s) = 1 /\ s[1].what = a[2]
  <2> HIDE DEF told
  <2> QED
    BY <1>5
<1> HIDE DEF s, told
<1>9. /\ queue' \in Seq(Tasks) /\ Len(queue) \in Nat /\ Len(s) \in Nat
      /\ Len(queue') = Len(queue) + Len(s)
      /\ \A i \in 1..Len(s) : Len(queue) + i \in 1..Len(queue') /\ queue'[Len(queue) + i] = s[i]
      /\ \A i \in 1..Len(queue') : \/ i \in 1..Len(queue) /\ queue'[i] = queue[i]
                                   \/ i - Len(queue) \in 1..Len(s) /\ queue'[i] = s[i - Len(queue)]
      /\ TasksAreWellFormed' /\ BeginningsInOrder' /\ EndIsOfThePresentModel'
      /\ ModelIsOnItsWay' /\ InTimeFindsIt'
  <2>1. running' \in BOOLEAN
    BY <1>2 DEF TypeOK
  <2> QED
    BY <1>2, <1>4, <1>6, <1>7, <2>1, ControlQueues DEF ActionKinds
<1>a. TypeOK'
  <2>1. changes' \in 0..MaxPlayChanges
    BY <1>2, LinkAssumption DEF TypeOK
  <2>2. changed' \in BOOLEAN
    BY <1>2 DEF TypeOK
  <2> QED
    BY <1>1, <1>2, <1>3, <1>9, <2>1, <2>2 DEF TypeOK
<1>f. ControlIsOfTheModel'
  BY <1>2 DEF ControlIsOfTheModel
<1>h. LastToldIsPlay'
  <2> SUFFICES ASSUME GameControl # 0
               PROVE  /\ \A i \in 1..Len(queue') :
                            TellsPlay(i)' /\ (\A j \in 1..Len(queue') : TellsPlay(j)' => j <= i)
                                => queue'[i].what = a[2]
                      /\ \E i \in 1..Len(queue') : TellsPlay(i)'
    BY <1>1, <1>2 DEF LastToldIsPlay
  <2>1. Len(s) \in 1..Len(s) /\ Len(s) = 1
    BY <1>8
  <2>2. PICK n \in 1..Len(queue') : n = Len(queue') /\ queue'[n] = s[Len(s)]
    BY <1>9, <2>1
  <2>3. TellsPlay(n)' /\ queue'[n].what = a[2]
    BY <1>2, <1>7, <1>8, <2>1, <2>2 DEF TellsPlay
  <2>4. ASSUME NEW i \in 1..Len(queue'), TellsPlay(i)',
               \A j \in 1..Len(queue') : TellsPlay(j)' => j <= i
        PROVE  i = n
    <3>1. n <= i
      BY <2>3, <2>4
    <3> QED
      BY <1>9, <2>2, <3>1
  <2> QED
    BY <2>3, <2>4
<1> QED
  BY <1>9, <1>a, <1>f, <1>h

\* What a command has left to the game thread is reported through its game
\* control.
LEMMA RunGameTaskStep == IInv /\ RunGameTask => IInv'
<1> SUFFICES ASSUME IInv, RunGameTask PROVE IInv'
  OBVIOUS
<1> USE DEF IInv
<1>1. PICK u \in gameTasks :
         /\ gameTasks' = gameTasks \ {u}
         /\ queue' = Append(queue, Task("reply", u.conn, u.what))
         /\ request' = [request EXCEPT ![u.what] = "reply"]
  BY DEF RunGameTask
<1> DEFINE t == Task("reply", u.conn, u.what)
           s == <<t>>
<1>2. UNCHANGED <<running, connection, connected, calling, sync_task_id, EditorModel,
                  RdIsModelAlive, GameControl, playState, changes, riderPlayState, changed>>
  BY DEF RunGameTask, linkVars, modelVars
<1>3. u.conn \in 1..MaxConnections /\ u.what \in Commands /\ u.conn <= connection
  BY DEF TypeOK, TasksAreWellFormed
<1>4. /\ t \in Tasks /\ t.kind = "reply" /\ t.conn = u.conn /\ t.what = u.what
      /\ t.late = ~ConnectionLives(u.conn)
  BY <1>3, TaskIsTyped DEF ActionKinds, Requests
<1>5. queue \in Seq(Tasks) /\ queue' = Append(queue, t)
  BY <1>1 DEF TypeOK
<1> HIDE DEF t
<1>6. s \in Seq(Tasks) /\ Len(s) = 1 /\ s[1] = t /\ queue' = queue \o s
  BY <1>4, <1>5
<1> HIDE DEF s
<1>7. running => (ConnectionLives(u.conn) => GameControl = u.conn)
  BY DEF InTimeFindsIt
<1>8. /\ queue' \in Seq(Tasks) /\ Len(queue) \in Nat /\ Len(queue') = Len(queue) + 1
      /\ \A i \in 1..Len(queue) : i \in 1..Len(queue') /\ queue'[i] = queue[i]
      /\ \A i \in 1..Len(queue') : \/ i \in 1..Len(queue) /\ queue'[i] = queue[i]
                                   \/ i - Len(queue) \in 1..Len(s) /\ queue'[i] = s[i - Len(queue)]
      /\ TasksAreWellFormed' /\ BeginningsInOrder' /\ EndIsOfThePresentModel'
      /\ ModelIsOnItsWay' /\ InTimeFindsIt'
  <2>1. running' \in BOOLEAN
    BY <1>2 DEF TypeOK
  <2>2. \A i \in 1..Len(s) : s[i] = t
    BY <1>6
  <2>3. gameTasks' \subseteq gameTasks /\ (t.kind = "playState" => t.what \in PlayStates)
        /\ (t.kind = "reply" => t.what \in Requests)
    BY <1>1, <1>3, <1>4 DEF Requests
  <2> QED
    BY <1>2, <1>3, <1>4, <1>6, <1>7, <2>1, <2>2, <2>3, ControlQueues DEF ActionKinds
<1>a. TypeOK'
  <2>1. request' \in [Requests -> {"none", "queued", "game", "reply", "answered", "opened", "unopened", "dropped"}]
    BY <1>1 DEF TypeOK
  <2> QED
    BY <1>1, <1>2, <1>8, <2>1 DEF TypeOK
<1>f. ControlIsOfTheModel'
  BY <1>2 DEF ControlIsOfTheModel
<1>h. LastToldIsPlay'
  <2>1. \A i \in 1..Len(queue') : TellsPlay(i)' => i \in 1..Len(queue) /\ queue'[i] = queue[i] /\ TellsPlay(i)
    <3>1. \A i \in 1..Len(s) : s[i].kind # "playState"
      BY <1>4, <1>6
    <3> QED
      BY <1>2, <1>8, <3>1 DEF TellsPlay
  <2>2. \A i \in 1..Len(queue) : TellsPlay(i) => TellsPlay(i)'
    BY <1>2, <1>8 DEF TellsPlay
  <2> QED
    BY <1>2, <1>8, <2>1, <2>2 DEF LastToldIsPlay, ConnectionLives
<1> QED
  BY <1>8, <1>a, <1>f, <1>h

\* The shutdown of the module destroys the game control after its last
\* message.
LEMMA ShutdownStep == IInv /\ ShutdownModule => IInv'
<1> SUFFICES ASSUME IInv, ShutdownModule PROVE IInv'
  OBVIOUS
<1> USE DEF IInv
<1> DEFINE t == Task("initialized", GameControl, None)
           s == IF GameControl # 0 THEN <<t>> ELSE <<>>
<1>1. /\ UNCHANGED <<connection, connected, calling, sync_task_id, EditorModel, RdIsModelAlive,
                     playState, changes, gameTasks, riderPlayState, request, changed>>
      /\ running' = FALSE /\ GameControl' = 0
  BY DEF ShutdownModule, linkVars, gameVars, riderVars
<1>2. GameControl # 0 => GameControl \in 1..MaxConnections /\ GameControl <= connection
  BY LinkAssumption DEF TypeOK, ControlIsOfTheModel, TasksAreWellFormed
<1>3. GameControl # 0 => /\ t \in Tasks /\ t.kind = "initialized" /\ t.conn = GameControl
                         /\ t.late = ~ConnectionLives(GameControl)
  BY <1>2, TaskIsTyped DEF ActionKinds
<1>4. queue \in Seq(Tasks)
      /\ queue' = IF GameControl # 0 THEN Append(queue, t) ELSE queue
  BY DEF ShutdownModule, TypeOK
<1> HIDE DEF t
<1>5. /\ s \in Seq(Tasks) /\ queue' = queue \o s
      /\ \A i \in 1..Len(s) : GameControl # 0 /\ s[i] = t
  BY <1>3, <1>4
<1> HIDE DEF s
<1>6. /\ queue' \in Seq(Tasks)
      /\ TasksAreWellFormed' /\ BeginningsInOrder' /\ EndIsOfThePresentModel'
      /\ ModelIsOnItsWay' /\ InTimeFindsIt'
  <2>1. running' \in BOOLEAN /\ ~running'
    BY <1>1
  <2> QED
    BY <1>1, <1>2, <1>3, <1>5, <2>1, ControlQueues DEF ActionKinds
<1>a. TypeOK'
  <2>1. GameControl' \in 0..MaxConnections
    BY <1>1, LinkAssumption
  <2>2. running' \in BOOLEAN
    BY <1>1
  <2> QED
    BY <1>1, <1>6, <2>1, <2>2 DEF TypeOK
<1>f. ControlIsOfTheModel'
  BY <1>1 DEF ControlIsOfTheModel
<1>h. LastToldIsPlay'
  BY <1>1 DEF LastToldIsPlay
<1> QED
  BY <1>6, <1>a, <1>f, <1>h

-----------------------------------------------------------------------------
\* The invariant holds in every reachable state.
THEOREM Invariance == Spec => []IInv
<1>1. Init => IInv
  BY InitIInv
<1>2. IInv /\ [Next]_vars => IInv'
  <2> SUFFICES ASSUME IInv, [Next]_vars PROVE IInv'
    OBVIOUS
  <2>1. CASE Connect
    BY <2>1, ConnectStep
  <2>2. CASE Disconnect
    BY <2>2, DisconnectStep
  <2>3. CASE ReceiveResponse
    BY <2>3, EndCallStep DEF ReceiveResponse
  <2>4. ASSUME NEW r \in Requests, ReceiveRequest(r) PROVE IInv'
    BY <2>4, ReceiveRequestStep
  <2>5. CASE RunTask
    BY <2>5, RunTaskStep
  <2>6. CASE CallFails
    BY <2>6, EndCallStep DEF CallFails
  <2>7. CASE PlaySessionChanges
    BY <2>7, PlaySessionStep
  <2>8. CASE RunGameTask
    BY <2>8, RunGameTaskStep
  <2>9. CASE ShutdownModule
    BY <2>9, ShutdownStep
  <2>10. CASE UNCHANGED vars
    BY <2>10 DEF vars, linkVars, schedulerVars, modelVars, gameVars, riderVars, IInv, TypeOK,
       TasksAreWellFormed, BeginningsInOrder, EndIsOfThePresentModel, ModelIsOnItsWay,
       ControlIsOfTheModel, InTimeFindsIt, LastToldIsPlay, ConnectionLives, HasModel, TellsPlay
  <2> QED
    BY <2>1, <2>2, <2>3, <2>4, <2>5, <2>6, <2>7, <2>8, <2>9, <2>10 DEF Next
<1> QED
  BY <1>1, <1>2, PTL DEF Spec

\* Every variable has its type.
THEOREM TypeCorrect == Spec => []TypeOK
<1>1. IInv => TypeOK
  BY DEF IInv
<1> QED
  BY Invariance, <1>1, PTL

\* An idle Scheduler has announced the model of the connection there is, and
\* none without one.
THEOREM ModelStaysCurrent == Spec => []ModelIsCurrent
<1>1. IInv => ModelIsCurrent
  BY DEF IInv, TypeOK, ModelIsOnItsWay, ModelIsCurrent, HasModel, ConnectionLives
<1> QED
  BY Invariance, <1>1, PTL

\* The IDE that has read its messages shows the state of the play session.
THEOREM IdeKeepsUp == Spec => []IdeFollowsPlay
<1>1. IInv => IdeFollowsPlay
  <2> SUFFICES ASSUME IInv, GameControl # 0, ConnectionLives(GameControl), changed,
                      \A i \in DOMAIN queue : queue[i].kind # "playState"
               PROVE  riderPlayState = playState
    BY DEF IdeFollowsPlay
  <2>1. \A i \in 1..Len(queue) : ~TellsPlay(i)
    BY DEF IInv, TypeOK, TellsPlay
  <2> QED
    BY <2>1 DEF IInv, LastToldIsPlay
<1> QED
  BY Invariance, <1>1, PTL

\* Only a step of the Scheduler shortens its queue.
LEMMA OnlyTheSchedulerTakes ==
    ASSUME IInv, [Next]_vars, Len(queue') < Len(queue)
    PROVE  RunTask
<1>1. queue \in Seq(Tasks) /\ Len(queue) \in Nat
  BY DEF IInv, TypeOK
<1>2. \A t : Len(Append(queue, t)) = Len(queue) + 1
  BY <1>1
<1> QED
  <2>1. ~(Connect \/ ReceiveResponse \/ CallFails \/ RunGameTask \/ ShutdownModule \/ UNCHANGED vars)
    BY <1>1, <1>2 DEF Connect, ReceiveResponse, CallFails, EndCall, RunGameTask, ShutdownModule,
       vars, schedulerVars
  <2>2. \A r \in Requests : ~ReceiveRequest(r)
    BY <1>1, <1>2 DEF ReceiveRequest
  <2>3. ~Disconnect
    BY <1>1 DEF Disconnect, DisconnectQueueing
  <2>4. ~PlaySessionChanges
    <3> SUFFICES ASSUME PlaySessionChanges PROVE FALSE
      OBVIOUS
    <3>1. PICK a \in Announced :
             queue' = IF GameControl # 0
                      THEN Append(queue, Task("playState", GameControl, LastTold(a[3])))
                      ELSE queue
      BY DEF PlaySessionChanges
    <3> QED
      BY <1>1, <1>2, <3>1
  <2> QED
    BY <2>1, <2>2, <2>3, <2>4 DEF Next

\* A model is taken back before the next is announced.
THEOREM ModelsAreTakenBack == Spec => ModelIsTakenBack
<1>1. IInv /\ [Next]_vars => [RdIsModelAlive /\ RdIsModelAlive' => EditorModel' = EditorModel]_vars
  <2> SUFFICES ASSUME IInv, [Next]_vars, RdIsModelAlive PROVE EditorModel' = EditorModel
    OBVIOUS
  <2>1. CASE RunTask
    <3>1. Head(queue).kind # "connect"
      BY <2>1, NoModelBeforeABeginning
    <3> QED
      BY <2>1, <3>1 DEF RunTask, RunGone, RunPlayState, RunInitialized, RunReply, DropRequest,
         RunCommand, RunOpen, OpenBlueprint, modelVars
  <2>2. CASE ~RunTask
    BY <2>2 DEF Next, Connect, Disconnect, DisconnectQueueing, ReceiveResponse, EndCall,
       ReceiveRequest, CallFails, PlaySessionChanges, RunGameTask, ShutdownModule, vars, modelVars
  <2> QED
    BY <2>1, <2>2
<1> QED
  BY Invariance, <1>1, PTL DEF Spec, ModelIsTakenBack

\* A task that finds its game control destroyed was queued after the end of
\* its connection or is run after the shutdown of the module.
THEOREM OnlyLateOnesDangle == Spec => DanglesOnlyLate
<1>1. IInv /\ [Next]_vars => [Len(queue') < Len(queue) /\ FindsItDestroyed(Head(queue))
                                 => ~running \/ Head(queue).late]_vars
  <2> SUFFICES ASSUME IInv, [Next]_vars, Len(queue') < Len(queue), FindsItDestroyed(Head(queue)),
                      running, ~Head(queue).late
               PROVE  FALSE
    OBVIOUS
  <2>1. RunTask
    BY OnlyTheSchedulerTakes
  <2>2. Len(queue) \in Nat \ {0} /\ Head(queue) = queue[1]
    BY <2>1, HeadIsRun
  <2> QED
    BY <2>2 DEF IInv, InTimeFindsIt, FindsItDestroyed
<1> QED
  BY Invariance, <1>1, PTL DEF Spec, DanglesOnlyLate

-----------------------------------------------------------------------------
(* Requests. *)

\* A request that has been read is where its state says it is, and nowhere
\* else: in the Scheduler's queue or in the call the Scheduler waits in, on the
\* game thread, in the report that is queued, or ended.
Carries(kind, i, r) == queue[i].kind = kind /\ queue[i].what = r
Queued(kind, r) == \E i \in 1..Len(queue) : Carries(kind, i, r)
Once(kind, r) == \A i, j \in 1..Len(queue) : Carries(kind, i, r) /\ Carries(kind, j, r) => i = j

InOnePlace(r) ==
    /\ request[r] = "queued" <=> calling = r \/ Queued("request", r)
    /\ request[r] = "reply" <=> Queued("reply", r)
    /\ request[r] = "game" <=> \E t \in gameTasks : t.what = r
    /\ Queued("request", r) => calling # r
    /\ Once("request", r) /\ Once("reply", r)
    /\ \A t, u \in gameTasks : t.what = r /\ u.what = r => t = u

RequestsInOnePlace == \A r \in Requests : InOnePlace(r)

\* Until the shutdown the announced model has its game control, a report of a
\* connection that lives was queued in time, and a request stands behind the
\* beginning of its connection.
ServedInTime ==
    /\ running /\ RdIsModelAlive => GameControl = EditorModel
    /\ \A i \in 1..Len(queue) :
          queue[i].kind = "reply" /\ ConnectionLives(queue[i].conn) => ~queue[i].late
    /\ \A i, j \in 1..Len(queue) :
          /\ queue[i].kind = "request" /\ queue[j].kind = "connect"
          /\ queue[i].conn = queue[j].conn
          => j < i

Ended == {"answered", "opened", "unopened", "dropped"}

\* A request ends once.
AnsweredOnce ==
    [][\A r \in Requests : request[r] \in Ended => request'[r] = request[r]]_vars

\* Whether a request is queued after others have been put behind.
LEMMA QueuedBehind ==
    ASSUME NEW s \in Seq(Tasks), queue \in Seq(Tasks), queue' = queue \o s,
           NEW kind, NEW r,
           \A i \in 1..Len(s) : s[i].kind = kind /\ s[i].what = r => Len(s) = 1 /\ ~Queued(kind, r)
    PROVE  /\ Queued(kind, r)' <=>
                 Queued(kind, r) \/ \E i \in 1..Len(s) : s[i].kind = kind /\ s[i].what = r
           /\ Once(kind, r) => Once(kind, r)'
<1>1. /\ Len(queue) \in Nat /\ Len(s) \in Nat /\ Len(queue') = Len(queue) + Len(s)
      /\ \A i \in 1..Len(queue) : i \in 1..Len(queue') /\ queue'[i] = queue[i]
      /\ \A i \in 1..Len(s) : Len(queue) + i \in 1..Len(queue') /\ queue'[Len(queue) + i] = s[i]
  BY ConcatBehind
<1>2. \A i \in 1..Len(queue') : \/ i \in 1..Len(queue) /\ queue'[i] = queue[i]
                                \/ i - Len(queue) \in 1..Len(s) /\ queue'[i] = s[i - Len(queue)]
  <2> TAKE i \in 1..Len(queue')
  <2>1. i \in 1..Len(queue) \/ i - Len(queue) \in 1..Len(s)
    BY <1>1
  <2>2. Len(queue) + (i - Len(queue)) = i
    BY <1>1
  <2> QED
    BY <1>1, <2>1, <2>2
<1>3. Queued(kind, r)' <=>
         Queued(kind, r) \/ \E i \in 1..Len(s) : s[i].kind = kind /\ s[i].what = r
  BY <1>1, <1>2 DEF Queued, Carries
<1>4. ASSUME Once(kind, r), NEW i \in 1..Len(queue'), NEW j \in 1..Len(queue'),
             Carries(kind, i, r)', Carries(kind, j, r)'
      PROVE  i = j
  <2>1. CASE i \in 1..Len(queue) /\ queue'[i] = queue[i]
    <3>1. Queued(kind, r)
      BY <1>4, <2>1 DEF Queued, Carries
    <3>2. j \in 1..Len(queue) /\ queue'[j] = queue[j]
      BY <1>2, <1>4, <3>1 DEF Carries
    <3> QED
      BY <1>4, <2>1, <3>2 DEF Once, Carries
  <2>2. CASE i - Len(queue) \in 1..Len(s) /\ queue'[i] = s[i - Len(queue)]
    <3>1. ~Queued(kind, r) /\ Len(s) = 1
      BY <1>4, <2>2 DEF Carries
    <3>2. j - Len(queue) \in 1..Len(s)
      BY <1>2, <1>4, <3>1 DEF Queued, Carries
    <3> QED
      BY <1>1, <2>2, <3>1, <3>2
  <2> QED
    BY <1>2, <2>1, <2>2
<1> QED
  BY <1>3, <1>4 DEF Once

\* The same of a task that is put behind.
LEMMA QueuedBehindOne ==
    ASSUME NEW t \in Tasks, queue \in Seq(Tasks), queue' = Append(queue, t),
           NEW kind, NEW r, t.kind = kind /\ t.what = r => ~Queued(kind, r)
    PROVE  /\ Queued(kind, r)' <=> Queued(kind, r) \/ (t.kind = kind /\ t.what = r)
           /\ Once(kind, r) => Once(kind, r)'
<1>1. /\ <<t>> \in Seq(Tasks) /\ Len(<<t>>) = 1 /\ <<t>>[1] = t
      /\ \A i \in 1..Len(<<t>>) : <<t>>[i] = t
  OBVIOUS
<1>2. queue' = queue \o <<t>>
  OBVIOUS
<1> DEFINE s == <<t>>
<1> HIDE DEF s
<1>3. /\ s \in Seq(Tasks) /\ queue' = queue \o s /\ Len(s) = 1 /\ 1 \in 1..Len(s)
      /\ \A i \in 1..Len(s) : s[i] = t
  BY <1>1, <1>2 DEF s
<1>4. \A i \in 1..Len(s) : s[i].kind = kind /\ s[i].what = r => Len(s) = 1 /\ ~Queued(kind, r)
  BY <1>3
<1>5. /\ Queued(kind, r)' <=>
            Queued(kind, r) \/ \E i \in 1..Len(s) : s[i].kind = kind /\ s[i].what = r
      /\ Once(kind, r) => Once(kind, r)'
  BY <1>3, <1>4, QueuedBehind
<1>6. (\E i \in 1..Len(s) : s[i].kind = kind /\ s[i].what = r) <=> (t.kind = kind /\ t.what = r)
  BY <1>3
<1> QED
  BY <1>5, <1>6

\* Whether a request is queued after the head has been taken.
LEMMA QueuedAfterHead ==
    ASSUME IInv, RunTask, NEW kind, NEW r
    PROVE  /\ Queued(kind, r) <=>
                 (Head(queue).kind = kind /\ Head(queue).what = r) \/ Queued(kind, r)'
           /\ Once(kind, r) => /\ Once(kind, r)'
                               /\ Head(queue).kind = kind /\ Head(queue).what = r
                                     => ~Queued(kind, r)'
<1>1. /\ Len(queue) \in Nat \ {0} /\ Len(queue') = Len(queue) - 1
      /\ \A i \in 1..Len(queue') : i + 1 \in 1..Len(queue) /\ queue'[i] = queue[i + 1]
      /\ \A i \in 1..Len(queue) : i # 1 => i - 1 \in 1..Len(queue') /\ queue'[i - 1] = queue[i]
      /\ Head(queue) = queue[1]
  BY HeadIsRun
<1>2. 1 \in 1..Len(queue) /\ \A i \in 1..Len(queue') : i + 1 # 1
  BY <1>1
<1>3. Queued(kind, r) <=> (Head(queue).kind = kind /\ Head(queue).what = r) \/ Queued(kind, r)'
  <2>1. ASSUME Queued(kind, r), ~(Head(queue).kind = kind /\ Head(queue).what = r)
        PROVE  Queued(kind, r)'
    <3>1. PICK i \in 1..Len(queue) : Carries(kind, i, r)
      BY <2>1 DEF Queued
    <3>2. i - 1 \in 1..Len(queue') /\ queue'[i - 1] = queue[i]
      BY <1>1, <2>1, <3>1 DEF Carries
    <3> QED
      BY <3>1, <3>2 DEF Queued, Carries
  <2>2. (Head(queue).kind = kind /\ Head(queue).what = r) => Queued(kind, r)
    BY <1>1, <1>2 DEF Queued, Carries
  <2>3. Queued(kind, r)' => Queued(kind, r)
    BY <1>1 DEF Queued, Carries
  <2> QED
    BY <2>1, <2>2, <2>3
<1>4. ASSUME Once(kind, r), NEW i \in 1..Len(queue'), Carries(kind, i, r)'
      PROVE  /\ ~(Head(queue).kind = kind /\ Head(queue).what = r)
             /\ \A j \in 1..Len(queue') : Carries(kind, j, r)' => i = j
  <2>1. i + 1 \in 1..Len(queue) /\ Carries(kind, i + 1, r)
    BY <1>1, <1>4 DEF Carries
  <2>2. ~(Head(queue).kind = kind /\ Head(queue).what = r)
    BY <1>1, <1>2, <1>4, <2>1 DEF Once, Carries
  <2>3. ASSUME NEW j \in 1..Len(queue'), Carries(kind, j, r)' PROVE i = j
    <3>1. j + 1 \in 1..Len(queue) /\ Carries(kind, j + 1, r)
      BY <1>1, <2>3 DEF Carries
    <3>2. i + 1 = j + 1
      BY <1>4, <2>1, <3>1 DEF Once
    <3> QED
      BY <3>2
  <2> QED
    BY <2>2, <2>3
<1> QED
  BY <1>3, <1>4 DEF Once, Queued

\* A request stays in its place when no step touches it.
LEMMA PlaceIsKept ==
    ASSUME NEW r, InOnePlace(r), request'[r] = request[r], calling' = r <=> calling = r,
           \A t : (t \in gameTasks' /\ t.what = r) <=> (t \in gameTasks /\ t.what = r),
           \A kind \in {"request", "reply"} :
              /\ Queued(kind, r)' <=> Queued(kind, r)
              /\ Once(kind, r) => Once(kind, r)'
    PROVE  InOnePlace(r)'
<1>1. /\ Queued("request", r)' <=> Queued("request", r)
      /\ Once("request", r) => Once("request", r)'
      /\ Queued("reply", r)' <=> Queued("reply", r)
      /\ Once("reply", r) => Once("reply", r)'
  OBVIOUS
<1>2. (\E t \in gameTasks' : t.what = r) <=> (\E t \in gameTasks : t.what = r)
  OBVIOUS
<1>3. (\A t, u \in gameTasks : t.what = r /\ u.what = r => t = u)
         => \A t, u \in gameTasks' : t.what = r /\ u.what = r => t = u
  OBVIOUS
<1> QED
  BY <1>1, <1>2, <1>3 DEF InOnePlace

\* It does when a task that does not carry it is put behind.
LEMMA PlaceKeptBehind ==
    ASSUME NEW t \in Tasks, queue \in Seq(Tasks), queue' = Append(queue, t) \/ queue' = queue,
           NEW r, InOnePlace(r), request'[r] = request[r], calling' = calling,
           gameTasks' = gameTasks, ~(t.kind \in {"request", "reply"} /\ t.what = r)
    PROVE  InOnePlace(r)'
<1>1. ASSUME NEW kind \in {"request", "reply"}
      PROVE  (Queued(kind, r)' <=> Queued(kind, r)) /\ (Once(kind, r) => Once(kind, r)')
  <2>1. ~(t.kind = kind /\ t.what = r)
    OBVIOUS
  <2>2. CASE queue' = Append(queue, t)
    BY <2>1, <2>2, QueuedBehindOne
  <2>3. CASE queue' = queue
    BY <2>3 DEF Queued, Once, Carries
  <2> QED
    BY <2>2, <2>3
<1> QED
  BY <1>1, PlaceIsKept

\* It does when the Scheduler runs a task that does not carry it.
LEMMA PlaceKeptByHead ==
    ASSUME IInv, RunTask, NEW r, InOnePlace(r), request'[r] = request[r], calling # r, calling' # r,
           \A t : (t \in gameTasks' /\ t.what = r) <=> (t \in gameTasks /\ t.what = r),
           ~(Head(queue).kind \in {"request", "reply"} /\ Head(queue).what = r)
    PROVE  InOnePlace(r)'
<1>1. ASSUME NEW kind \in {"request", "reply"}
      PROVE  (Queued(kind, r)' <=> Queued(kind, r)) /\ (Once(kind, r) => Once(kind, r)')
  BY QueuedAfterHead
<1> QED
  BY <1>1, PlaceIsKept

\* The wire puts the beginning and the end of a model, which carry no request.
LEMMA PlaceOfTheWire ==
    ASSUME IInv, Connect \/ Disconnect \/ ShutdownModule, NEW r \in Requests, InOnePlace(r)
    PROVE  InOnePlace(r)'
<1>1. queue \in Seq(Tasks)
  BY DEF IInv, TypeOK
<1>2. CASE Connect
  <2>1. connection + 1 \in 1..MaxConnections
    BY <1>2, LinkAssumption DEF IInv, TypeOK, Connect
  <2>2. /\ Task("connect", connection + 1, None) \in Tasks
        /\ Task("connect", connection + 1, None).kind = "connect"
    BY <2>1, TaskIsTyped
  <2> QED
    BY <1>1, <1>2, <2>2, PlaceKeptBehind DEF Connect, gameVars
<1>3. CASE Disconnect
  <2>1. connection \in 1..MaxConnections
    BY <1>3, LinkAssumption DEF IInv, TypeOK, TasksAreWellFormed, Disconnect, DisconnectQueueing
  <2> DEFINE gone == Task("gone", connection, None)
  <2>2. gone \in Tasks /\ gone.kind = "gone"
    BY <2>1, TaskIsTyped
  <2>3. queue' = Append(queue, gone) \/ queue' = queue
    <3>1. queue' = queue \o <<gone>> \/ queue' = queue \o <<>>
      BY <1>3 DEF Disconnect, DisconnectQueueing
    <3> HIDE DEF gone
    <3> QED
      BY <1>1, <2>2, <3>1
  <2>4. request' = request /\ calling' = calling /\ gameTasks' = gameTasks
    BY <1>3 DEF Disconnect, DisconnectQueueing, gameVars, riderVars
  <2> HIDE DEF gone
  <2> QED
    BY <1>1, <2>2, <2>3, <2>4, PlaceKeptBehind
<1>4. CASE ShutdownModule
  <2>1. request' = request /\ calling' = calling /\ gameTasks' = gameTasks
    BY <1>4 DEF ShutdownModule, gameVars, riderVars
  <2>2. CASE GameControl # 0
    <3>1. GameControl \in 1..MaxConnections
      BY <2>2, LinkAssumption DEF IInv, TypeOK
    <3>2. /\ Task("initialized", GameControl, None) \in Tasks
          /\ Task("initialized", GameControl, None).kind = "initialized"
      BY <3>1, TaskIsTyped DEF ActionKinds
    <3> QED
      BY <1>1, <1>4, <2>1, <2>2, <3>2, PlaceKeptBehind DEF ShutdownModule
  <2>3. CASE GameControl = 0
    BY <1>4, <2>1, <2>3 DEF ShutdownModule, InOnePlace, Queued, Once, Carries
  <2> QED
    BY <2>2, <2>3
<1> QED
  BY <1>2, <1>3, <1>4

\* A request that is read is queued, and no other place changes.
LEMMA PlaceOfTheRequest ==
    ASSUME IInv, NEW r0 \in Requests, ReceiveRequest(r0), NEW r \in Requests, InOnePlace(r)
    PROVE  InOnePlace(r)'
<1> DEFINE t == Task("request", connection, r0)
<1>1. queue \in Seq(Tasks) /\ calling' = calling /\ gameTasks' = gameTasks
  BY DEF IInv, TypeOK, ReceiveRequest, gameVars
<1>2. connection \in 1..MaxConnections
  BY LinkAssumption DEF IInv, TypeOK, TasksAreWellFormed, ReceiveRequest
<1>3. t \in Tasks /\ t.kind = "request" /\ t.what = r0 /\ queue' = Append(queue, t)
  <2>1. /\ "request" \in {"connect", "gone", "request"} \cup ActionKinds
        /\ r0 \in Requests \cup PlayStates \cup {None}
    OBVIOUS
  <2>2. queue' = Append(queue, t)
    BY DEF ReceiveRequest
  <2>3. t \in Tasks /\ t.kind = "request" /\ t.what = r0
    BY <1>2, <2>1, TaskIsTyped
  <2> QED
    BY <2>2, <2>3
<1>4. request[r0] = "none" /\ request'[r0] = "queued" /\ \A x \in Requests : x # r0 => request'[x] = request[x]
  BY DEF IInv, TypeOK, ReceiveRequest
<1> HIDE DEF t
<1>5. CASE r # r0
  BY <1>1, <1>3, <1>4, <1>5, PlaceKeptBehind
<1>6. CASE r = r0
  <2>1. ~Queued("request", r) /\ ~Queued("reply", r) /\ calling # r /\ ~\E x \in gameTasks : x.what = r
    BY <1>4, <1>6 DEF InOnePlace
  <2>2. /\ Queued("request", r)' /\ (Once("request", r) => Once("request", r)')
    BY <1>1, <1>3, <1>6, <2>1, QueuedBehindOne
  <2>3. ~Queued("reply", r)' /\ (Once("reply", r) => Once("reply", r)')
    BY <1>1, <1>3, <2>1, QueuedBehindOne
  <2> QED
    BY <1>1, <1>4, <1>6, <2>1, <2>2, <2>3 DEF InOnePlace
<1> QED
  BY <1>5, <1>6

\* A call that ends has opened its blueprint or found no window for it.
LEMMA PlaceOfTheCall ==
    ASSUME IInv, ReceiveResponse \/ CallFails, NEW r \in Requests, InOnePlace(r)
    PROVE  InOnePlace(r)'
<1>1. /\ queue' = queue /\ gameTasks' = gameTasks /\ calling \in Opens /\ calling' = None
      /\ \E opening \in Openings : request' = [request EXCEPT ![calling] = opening]
  BY DEF IInv, TypeOK, ReceiveResponse, CallFails, EndCall, gameVars
<1>2. calling \in Requests /\ calling' # r
  BY <1>1, LinkAssumption DEF Requests
<1>3. /\ request'[calling] \in Openings
      /\ r # calling => request'[r] = request[r]
  BY <1>1, <1>2 DEF IInv, TypeOK
<1>4. \A kind : (Queued(kind, r)' <=> Queued(kind, r)) /\ (Once(kind, r) => Once(kind, r)')
  BY <1>1 DEF Queued, Once, Carries
<1>5. CASE r # calling
  BY <1>1, <1>2, <1>3, <1>4, <1>5, PlaceIsKept
<1>6. CASE r = calling
  <2>1. request[r] = "queued" /\ ~Queued("request", r) /\ ~Queued("reply", r)
    BY <1>6 DEF InOnePlace
  <2>2. ~\E t \in gameTasks : t.what = r
    BY <2>1 DEF InOnePlace
  <2>3. Once("request", r) /\ Once("reply", r)
    BY DEF InOnePlace
  <2> QED
    BY <1>1, <1>2, <1>3, <1>4, <1>6, <2>1, <2>2, <2>3 DEF InOnePlace, Openings
<1> QED
  BY <1>5, <1>6

\* What a change of the play session puts behind carries no request.
LEMMA PlaceOfThePlaySession ==
    ASSUME IInv, PlaySessionChanges, NEW r \in Requests, InOnePlace(r)
    PROVE  InOnePlace(r)'
<1>1. /\ request'[r] = request[r] /\ gameTasks' = gameTasks /\ calling' = calling
  BY DEF PlaySessionChanges, riderVars
<1>2. queue \in Seq(Tasks)
  BY DEF IInv, TypeOK
<1>3. ASSUME NEW kind \in {"request", "reply"}
      PROVE  (Queued(kind, r)' <=> Queued(kind, r)) /\ (Once(kind, r) => Once(kind, r)')
  <2>1. CASE queue' = queue
    BY <2>1 DEF Queued, Once, Carries
  <2>2. CASE queue' # queue
    <3>1. PICK a \in Announced :
             /\ GameControl # 0
             /\ queue' = Append(queue, Task("playState", GameControl, LastTold(a[3])))
      BY <2>2 DEF PlaySessionChanges
    <3> DEFINE t == Task("playState", GameControl, LastTold(a[3]))
    <3>2. GameControl \in 1..MaxConnections
      BY <3>1, LinkAssumption DEF IInv, TypeOK
    <3>3. LastTold(a[3]) \in PlayStates
      BY AnnouncedToItsEnd
    <3>4. t \in Tasks /\ t.kind = "playState"
      BY <3>2, <3>3, TaskIsTyped DEF ActionKinds
    <3>5. queue' = Append(queue, t)
      BY <3>1
    <3> HIDE DEF t
    <3>6. t.kind # kind
      BY <3>4
    <3> QED
      BY <1>2, <3>4, <3>5, <3>6, QueuedBehindOne
  <2> QED
    BY <2>1, <2>2
<1> QED
  BY <1>1, <1>3, PlaceIsKept

\* The game thread hands a command back as its report.
LEMMA PlaceOfTheGameTask ==
    ASSUME IInv, RunGameTask, NEW r \in Requests, InOnePlace(r)
    PROVE  InOnePlace(r)'
<1>1. PICK t \in gameTasks :
         /\ gameTasks' = gameTasks \ {t}
         /\ queue' = Append(queue, Task("reply", t.conn, t.what))
         /\ request' = [request EXCEPT ![t.what] = "reply"]
  BY DEF RunGameTask
<1>2. t.conn \in 1..MaxConnections /\ t.what \in Requests
  BY DEF IInv, TypeOK, Requests
<1> DEFINE reply == Task("reply", t.conn, t.what)
<1>3. reply \in Tasks /\ reply.kind = "reply" /\ reply.what = t.what
  <2>1. "reply" \in {"connect", "gone", "request"} \cup ActionKinds
    BY DEF ActionKinds
  <2> QED
    BY <1>2, <2>1, TaskIsTyped
<1>4. queue \in Seq(Tasks) /\ calling' = calling /\ queue' = Append(queue, reply)
  BY <1>1 DEF IInv, TypeOK, RunGameTask
<1> HIDE DEF reply
<1>5. request'[t.what] = "reply" /\ (r # t.what => request'[r] = request[r])
  BY <1>1, <1>2 DEF IInv, TypeOK
<1>6. CASE r # t.what
  <2>1. ASSUME NEW kind \in {"request", "reply"}
        PROVE  (Queued(kind, r)' <=> Queued(kind, r)) /\ (Once(kind, r) => Once(kind, r)')
    <3>1. ~(reply.kind = kind /\ reply.what = r)
      BY <1>3, <1>6
    <3> QED
      BY <1>3, <1>4, <3>1, QueuedBehindOne
  <2>2. \A x : (x \in gameTasks' /\ x.what = r) <=> (x \in gameTasks /\ x.what = r)
    BY <1>1, <1>6
  <2> QED
    BY <1>4, <1>5, <1>6, <2>1, <2>2, PlaceIsKept
<1>7. CASE r = t.what
  <2>1. /\ request[r] = "game" /\ ~Queued("request", r) /\ ~Queued("reply", r) /\ calling # r
        /\ Once("request", r) /\ Once("reply", r)
    BY <1>7 DEF InOnePlace
  <2>2. ~\E x \in gameTasks' : x.what = r
    BY <1>1, <1>7 DEF InOnePlace
  <2>3. ~Queued("request", r)' /\ Once("request", r)'
    BY <1>3, <1>4, <2>1, QueuedBehindOne
  <2>4. Queued("reply", r)' /\ Once("reply", r)'
    BY <1>3, <1>4, <1>7, <2>1, QueuedBehindOne
  <2> QED
    BY <1>4, <1>5, <1>7, <2>1, <2>2, <2>3, <2>4 DEF InOnePlace
<1> QED
  BY <1>6, <1>7

\* What the Scheduler does with the request it takes: it ends it, waits in its
\* call or leaves it to the game thread.
LEMMA PlaceOfTheRequestThatIsRun ==
    ASSUME IInv, RunTask, NEW r \in Requests, InOnePlace(r),
           Head(queue).kind \in {"request", "reply"}, Head(queue).what = r
    PROVE  InOnePlace(r)'
<1>1. calling = None /\ None \notin Requests
  BY LinkAssumption DEF RunTask, Requests
<1>2. CASE Head(queue).kind = "reply"
  <2>1. RunReply(Head(queue))
    BY <1>2 DEF RunTask
  <2>2. /\ request'[r] \in {"answered", "dropped"}
        /\ calling' = calling /\ gameTasks' = gameTasks
    BY <2>1 DEF IInv, TypeOK, RunReply
  <2>3. Queued("reply", r)
    BY <1>2, QueuedAfterHead
  <2>4. request[r] = "reply" /\ Once("request", r) /\ Once("reply", r)
    BY <2>3 DEF InOnePlace
  <2>5. ~Queued("request", r) /\ ~\E t \in gameTasks : t.what = r
    BY <2>4 DEF InOnePlace
  <2>6. ~Queued("reply", r)' /\ Once("reply", r)'
    BY <1>2, <2>4, QueuedAfterHead
  <2>7. ~Queued("request", r)' /\ Once("request", r)'
    BY <2>4, <2>5, QueuedAfterHead
  <2> QED
    BY <1>1, <2>2, <2>5, <2>6, <2>7 DEF InOnePlace
<1>3. CASE Head(queue).kind = "request"
  <2>1. DropRequest(Head(queue)) \/ RunCommand(Head(queue)) \/ RunOpen(Head(queue))
    BY <1>3 DEF RunTask
  <2>2. Queued("request", r)
    BY <1>3, QueuedAfterHead
  <2>3. request[r] = "queued" /\ Once("request", r) /\ Once("reply", r)
    BY <2>2 DEF InOnePlace
  <2>4. ~Queued("reply", r) /\ ~\E t \in gameTasks : t.what = r
    BY <2>3 DEF InOnePlace
  <2>5. ~Queued("request", r)' /\ Once("request", r)'
    BY <1>3, <2>3, QueuedAfterHead
  <2>6. ~Queued("reply", r)' /\ Once("reply", r)'
    BY <2>3, <2>4, QueuedAfterHead
  <2>7. CASE request'[r] \in Ended /\ calling' = calling /\ gameTasks' = gameTasks
    BY <1>1, <2>4, <2>5, <2>6, <2>7 DEF InOnePlace, Ended
  <2>8. CASE /\ request'[r] = "game" /\ calling' = calling
             /\ gameTasks' = gameTasks \cup {[conn |-> Head(queue).conn, what |-> r]}
    <3>1. /\ \E t \in gameTasks' : t.what = r
          /\ \A t, u \in gameTasks' : t.what = r /\ u.what = r => t = u
      <4> DEFINE game == [conn |-> Head(queue).conn, what |-> r]
      <4>1. game.what = r /\ gameTasks' = gameTasks \cup {game}
        BY <2>8
      <4> HIDE DEF game
      <4> QED
        BY <2>4, <4>1
    <3> QED
      BY <1>1, <2>5, <2>6, <2>8, <3>1 DEF InOnePlace
  <2>9. CASE request' = request /\ calling' = r /\ gameTasks' = gameTasks
    BY <2>3, <2>4, <2>5, <2>6, <2>9 DEF InOnePlace
  <2>10. CASE DropRequest(Head(queue))
    BY <2>7, <2>10 DEF IInv, TypeOK, DropRequest, Ended
  <2>11. CASE RunCommand(Head(queue))
    BY <2>7, <2>8, <2>11 DEF IInv, TypeOK, RunCommand, Ended
  <2>12. CASE RunOpen(Head(queue))
    BY <2>7, <2>9, <2>12 DEF IInv, TypeOK, RunOpen, OpenBlueprint, Openings, Ended
  <2> QED
    BY <2>1, <2>10, <2>11, <2>12
<1> QED
  BY <1>2, <1>3

\* The others stay where they are.
LEMMA PlaceOfTheOthers ==
    ASSUME IInv, RunTask, NEW r \in Requests, InOnePlace(r),
           ~(Head(queue).kind \in {"request", "reply"} /\ Head(queue).what = r)
    PROVE  InOnePlace(r)'
<1>1. calling = None /\ None # r
  BY LinkAssumption DEF RunTask, Requests
<1>2. CASE Head(queue).kind \notin {"request", "reply"}
  <2>1. request' = request /\ calling' = calling /\ gameTasks' = gameTasks
    BY <1>2 DEF RunTask, RunConnect, NewModel, RunGone, RunPlayState, RunInitialized
  <2> QED
    BY <1>1, <2>1, PlaceKeptByHead
<1>3. CASE Head(queue).what # r /\ Head(queue).kind = "reply"
  <2>1. request'[r] = request[r] /\ calling' = calling /\ gameTasks' = gameTasks
    BY <1>3 DEF IInv, TypeOK, RunTask, RunReply
  <2> QED
    BY <1>1, <2>1, PlaceKeptByHead
<1>4. CASE Head(queue).what # r /\ Head(queue).kind = "request"
  <2>1. DropRequest(Head(queue)) \/ RunCommand(Head(queue)) \/ RunOpen(Head(queue))
    BY <1>4 DEF RunTask
  <2>2. request'[r] = request[r] /\ calling' # r
    BY <1>1, <1>4, <2>1 DEF IInv, TypeOK, DropRequest, RunCommand, RunOpen, OpenBlueprint
  <2>3. \A t : (t \in gameTasks' /\ t.what = r) <=> (t \in gameTasks /\ t.what = r)
    BY <1>4, <2>1 DEF DropRequest, RunCommand, RunOpen, OpenBlueprint
  <2> QED
    BY <1>1, <1>4, <2>2, <2>3, PlaceKeptByHead
<1> QED
  BY <1>2, <1>3, <1>4

\* No step loses a request or puts it in two places.
LEMMA PlacesStep == IInv /\ RequestsInOnePlace /\ [Next]_vars => RequestsInOnePlace'
<1> SUFFICES ASSUME IInv, RequestsInOnePlace, [Next]_vars, NEW r \in Requests PROVE InOnePlace(r)'
  BY DEF RequestsInOnePlace
<1>1. InOnePlace(r)
  BY DEF RequestsInOnePlace
<1>2. CASE UNCHANGED vars
  BY <1>1, <1>2 DEF vars, schedulerVars, gameVars, riderVars, InOnePlace, Queued, Once, Carries
<1>3. CASE RunTask
  BY <1>1, <1>3, PlaceOfTheRequestThatIsRun, PlaceOfTheOthers
<1>4. CASE \E r0 \in Requests : ReceiveRequest(r0)
  BY <1>1, <1>4, PlaceOfTheRequest
<1> QED
  BY <1>1, <1>2, <1>3, <1>4, PlaceOfTheWire, PlaceOfTheCall, PlaceOfThePlaySession,
     PlaceOfTheGameTask DEF Next

\* Service in time outlasts tasks that are put behind, if the beginning of a
\* connection comes before what belongs to it and no report is late for a
\* connection that lives.
LEMMA ServedBehind ==
    ASSUME IInv, ServedInTime, NEW s \in Seq(Tasks), queue' = queue \o s,
           running' /\ RdIsModelAlive' => GameControl' = EditorModel',
           \A i \in 1..Len(queue) :
              connected' /\ connection' = queue[i].conn => ConnectionLives(queue[i].conn),
           \A i \in 1..Len(s) :
              /\ s[i].kind = "reply" => s[i].late = ~(connected' /\ connection' = s[i].conn)
              /\ s[i].kind = "connect" =>
                    Len(s) = 1 /\ \A j \in 1..Len(queue) : queue[j].conn # s[i].conn
    PROVE  ServedInTime'
<1>1. /\ Len(queue) \in Nat /\ Len(s) \in Nat /\ Len(queue') = Len(queue) + Len(s)
      /\ \A i \in 1..Len(queue) : i \in 1..Len(queue') /\ queue'[i] = queue[i]
      /\ \A i \in 1..Len(s) : Len(queue) + i \in 1..Len(queue') /\ queue'[Len(queue) + i] = s[i]
  <2>1. queue \in Seq(Tasks)
    BY DEF IInv, TypeOK
  <2> QED
    BY <2>1, ConcatBehind
<1>2. \A i \in 1..Len(queue') : \/ i \in 1..Len(queue) /\ queue'[i] = queue[i]
                                \/ i - Len(queue) \in 1..Len(s) /\ queue'[i] = s[i - Len(queue)]
  <2> TAKE i \in 1..Len(queue')
  <2>1. i \in 1..Len(queue) \/ i - Len(queue) \in 1..Len(s)
    BY <1>1
  <2>2. Len(queue) + (i - Len(queue)) = i
    BY <1>1
  <2> QED
    BY <1>1, <2>1, <2>2
<1>3. ASSUME NEW i \in 1..Len(queue'), queue'[i].kind = "reply", connected',
             connection' = queue'[i].conn
      PROVE  ~queue'[i].late
  <2>1. CASE i \in 1..Len(queue) /\ queue'[i] = queue[i]
    BY <1>3, <2>1 DEF ServedInTime, ConnectionLives
  <2>2. CASE i - Len(queue) \in 1..Len(s) /\ queue'[i] = s[i - Len(queue)]
    BY <1>3, <2>2 DEF ConnectionLives
  <2> QED
    BY <1>2, <2>1, <2>2
<1>4. ASSUME NEW i \in 1..Len(queue'), NEW j \in 1..Len(queue'), queue'[i].kind = "request",
             queue'[j].kind = "connect", queue'[i].conn = queue'[j].conn
      PROVE  j < i
  <2>1. CASE j \in 1..Len(queue) /\ queue'[j] = queue[j]
    <3>1. CASE i \in 1..Len(queue) /\ queue'[i] = queue[i]
      BY <1>4, <2>1, <3>1 DEF ServedInTime
    <3>2. CASE i - Len(queue) \in 1..Len(s)
      BY <1>1, <2>1, <3>2
    <3> QED
      BY <1>2, <3>1, <3>2
  <2>2. CASE j - Len(queue) \in 1..Len(s) /\ queue'[j] = s[j - Len(queue)]
    <3>1. /\ Len(s) = 1
          /\ \A k \in 1..Len(queue) : queue[k].conn # queue'[j].conn
      BY <1>4, <2>2
    <3>2. i - Len(queue) \in 1..Len(s) /\ queue'[i] = s[i - Len(queue)]
      BY <1>2, <1>4, <3>1
    <3>3. i - Len(queue) = j - Len(queue)
      BY <1>1, <2>2, <3>1, <3>2
    <3> QED
      BY <1>4, <2>2, <3>2, <3>3
  <2> QED
    BY <1>2, <2>1, <2>2
<1> QED
  BY <1>3, <1>4 DEF ServedInTime, ConnectionLives

\* It outlasts the head that is taken.
LEMMA ServedAfterHead ==
    ASSUME IInv, ServedInTime, RunTask
    PROVE  ServedInTime'
<1>1. /\ Len(queue) \in Nat \ {0} /\ Len(queue') = Len(queue) - 1
      /\ \A i \in 1..Len(queue') : i + 1 \in 1..Len(queue) /\ queue'[i] = queue[i + 1]
  BY HeadIsRun
<1>2. running' = running /\ connected' = connected /\ connection' = connection
  BY DEF RunTask, linkVars
<1>3. running' /\ RdIsModelAlive' => GameControl' = EditorModel'
  <2>1. CASE Head(queue).kind = "connect"
    <3>1. ~RdIsModelAlive /\ RunConnect(Head(queue))
      BY <2>1, NoModelBeforeABeginning DEF RunTask
    <3> QED
      BY <1>2, <3>1 DEF RunConnect, NewModel
  <2>2. CASE Head(queue).kind = "gone"
    BY <2>2 DEF RunTask, RunGone
  <2>3. CASE Head(queue).kind \notin {"connect", "gone"}
    <3>1. UNCHANGED modelVars
      BY <2>3 DEF RunTask, RunPlayState, RunInitialized, RunReply, DropRequest, RunCommand,
         RunOpen, OpenBlueprint
    <3> QED
      BY <1>2, <3>1 DEF modelVars, ServedInTime
  <2> QED
    BY <2>1, <2>2, <2>3
<1>4. ASSUME NEW i \in 1..Len(queue'), queue'[i].kind = "reply", connected',
             connection' = queue'[i].conn
      PROVE  ~queue'[i].late
  BY <1>1, <1>2, <1>4 DEF ServedInTime, ConnectionLives
<1>5. ASSUME NEW i \in 1..Len(queue'), NEW j \in 1..Len(queue'), queue'[i].kind = "request",
             queue'[j].kind = "connect", queue'[i].conn = queue'[j].conn
      PROVE  j < i
  <2>1. j + 1 < i + 1
    BY <1>1, <1>5 DEF ServedInTime
  <2> QED
    BY <2>1
<1> QED
  BY <1>3, <1>4, <1>5 DEF ServedInTime, ConnectionLives

\* No step delays it.
LEMMA ServiceStep == IInv /\ ServedInTime /\ [Next]_vars => ServedInTime'
<1> SUFFICES ASSUME IInv, ServedInTime, [Next]_vars PROVE ServedInTime'
  OBVIOUS
<1>1. /\ queue \in Seq(Tasks) /\ Len(queue) \in Nat
      /\ \A i \in 1..Len(queue) : queue[i] \in Tasks /\ queue[i].conn \in 1..MaxConnections
  <2>1. queue \in Seq(Tasks)
    BY DEF IInv, TypeOK
  <2>2. \A i \in 1..Len(queue) : queue[i] \in Tasks
    BY <2>1
  <2> QED
    BY <2>1, <2>2 DEF Tasks
<1>2. CASE Connect
  <2>1. connection \in Nat /\ connection + 1 \in 1..MaxConnections
    BY <1>2, LinkAssumption DEF IInv, TypeOK, Connect
  <2> DEFINE beginning == Task("connect", connection + 1, None)
  <2>2. beginning \in Tasks /\ beginning.kind = "connect" /\ beginning.conn = connection + 1
    BY <2>1, TaskIsTyped
  <2>3. queue' = Append(queue, beginning)
    BY <1>2 DEF Connect
  <2> HIDE DEF beginning
  <2>4. \A i \in 1..Len(queue) : queue[i].conn # connection + 1
    BY <1>1, <2>1, LinkAssumption DEF IInv, TasksAreWellFormed
  <2> DEFINE s == <<beginning>>
  <2>5. s \in Seq(Tasks) /\ queue' = queue \o s /\ Len(s) = 1 /\ \A i \in 1..Len(s) : s[i] = beginning
    BY <1>1, <2>2, <2>3
  <2> HIDE DEF s
  <2>6. running' /\ RdIsModelAlive' => GameControl' = EditorModel'
    BY <1>2 DEF Connect, modelVars, ServedInTime
  <2>7. \A i \in 1..Len(queue) :
           connected' /\ connection' = queue[i].conn => ConnectionLives(queue[i].conn)
    BY <1>2, <2>4 DEF Connect
  <2>8. \A i \in 1..Len(s) :
           /\ s[i].kind # "reply"
           /\ Len(s) = 1 /\ \A j \in 1..Len(queue) : queue[j].conn # s[i].conn
    BY <2>2, <2>4, <2>5
  <2> QED
    BY <2>5, <2>6, <2>7, <2>8, ServedBehind
<1>3. ASSUME NEW t \in Tasks, queue' = Append(queue, t) \/ queue' = queue,
             UNCHANGED <<connection, connected>> \/ ~connected',
             running' /\ RdIsModelAlive' => GameControl' = EditorModel',
             t.kind # "connect",
             t.kind = "reply" => t.late = ~(connected' /\ connection' = t.conn)
      PROVE  ServedInTime'
  <2>1. \A i \in 1..Len(queue) :
           connected' /\ connection' = queue[i].conn => ConnectionLives(queue[i].conn)
    BY <1>3 DEF ConnectionLives
  <2>2. CASE queue' = Append(queue, t)
    <3> DEFINE s == <<t>>
    <3>1. s \in Seq(Tasks) /\ queue' = queue \o s /\ \A i \in 1..Len(s) : s[i] = t
      BY <1>1, <2>2
    <3> HIDE DEF s
    <3>2. \A i \in 1..Len(s) :
             /\ s[i].kind = "reply" => s[i].late = ~(connected' /\ connection' = s[i].conn)
             /\ s[i].kind # "connect"
      BY <1>3, <3>1
    <3> QED
      BY <1>3, <2>1, <3>1, <3>2, ServedBehind
  <2>3. CASE queue' = queue
    BY <1>3, <2>1, <2>3 DEF ServedInTime, ConnectionLives
  <2> QED
    BY <1>3, <2>2, <2>3
<1>4. running /\ RdIsModelAlive => GameControl = EditorModel
  BY DEF ServedInTime
<1>5. CASE Disconnect
  <2>1. connection \in 1..MaxConnections
    BY <1>5, LinkAssumption DEF IInv, TypeOK, TasksAreWellFormed, Disconnect, DisconnectQueueing
  <2> DEFINE gone == Task("gone", connection, None)
  <2>2. gone \in Tasks /\ gone.kind = "gone"
    BY <2>1, TaskIsTyped
  <2>3. queue' = Append(queue, gone) \/ queue' = queue
    <3>1. queue' = queue \o <<gone>> \/ queue' = queue \o <<>>
      BY <1>5 DEF Disconnect, DisconnectQueueing
    <3> HIDE DEF gone
    <3> QED
      BY <1>1, <2>2, <3>1
  <2>4. UNCHANGED <<running, modelVars>> /\ ~connected'
    BY <1>5 DEF Disconnect, DisconnectQueueing, modelVars
  <2> HIDE DEF gone
  <2> QED
    BY <1>3, <1>4, <2>2, <2>3, <2>4 DEF modelVars
<1>6. ASSUME NEW r \in Requests, ReceiveRequest(r) PROVE ServedInTime'
  <2>1. connection \in 1..MaxConnections
    BY <1>6, LinkAssumption DEF IInv, TypeOK, TasksAreWellFormed, ReceiveRequest
  <2>2. /\ "request" \in {"connect", "gone", "request"} \cup ActionKinds
        /\ r \in Requests \cup PlayStates \cup {None}
    OBVIOUS
  <2>3. Task("request", connection, r) \in Tasks /\ Task("request", connection, r).kind = "request"
    BY <2>1, <2>2, TaskIsTyped
  <2>4. /\ queue' = Append(queue, Task("request", connection, r))
        /\ UNCHANGED <<running, connection, connected, EditorModel, RdIsModelAlive, GameControl>>
    BY <1>6 DEF ReceiveRequest, linkVars, modelVars
  <2> QED
    BY <1>3, <1>4, <2>3, <2>4
<1>7. CASE RunGameTask
  <2>1. PICK t \in gameTasks : queue' = Append(queue, Task("reply", t.conn, t.what))
    BY <1>7 DEF RunGameTask
  <2>2. t.conn \in 1..MaxConnections /\ t.what \in Requests
    BY DEF IInv, TypeOK, Requests
  <2> DEFINE reply == Task("reply", t.conn, t.what)
  <2>3. /\ reply \in Tasks /\ reply.kind = "reply" /\ reply.conn = t.conn
        /\ reply.late = ~ConnectionLives(t.conn)
    <3>1. "reply" \in {"connect", "gone", "request"} \cup ActionKinds
      BY DEF ActionKinds
    <3> QED
      BY <2>2, <3>1, TaskIsTyped
  <2>4. /\ queue' = Append(queue, reply)
        /\ UNCHANGED <<running, connection, connected, EditorModel, RdIsModelAlive, GameControl>>
    BY <1>7, <2>1 DEF RunGameTask, linkVars, modelVars
  <2> HIDE DEF reply
  <2>5. reply.late = ~(connected' /\ connection' = reply.conn)
    BY <2>3, <2>4 DEF ConnectionLives
  <2> QED
    BY <1>3, <1>4, <2>3, <2>4, <2>5
<1>8. CASE ShutdownModule
  <2>1. ~running' /\ UNCHANGED <<connection, connected>>
    BY <1>8 DEF ShutdownModule, linkVars
  <2>2. CASE GameControl # 0
    <3>1. GameControl \in 1..MaxConnections
      BY <2>2, LinkAssumption DEF IInv, TypeOK
    <3>2. /\ Task("initialized", GameControl, None) \in Tasks
          /\ Task("initialized", GameControl, None).kind = "initialized"
      BY <3>1, TaskIsTyped DEF ActionKinds
    <3>3. queue' = Append(queue, Task("initialized", GameControl, None))
      BY <1>8, <2>2 DEF ShutdownModule
    <3> QED
      BY <1>3, <2>1, <3>2, <3>3
  <2>3. CASE GameControl = 0
    BY <1>8, <2>1, <2>3 DEF ShutdownModule, ServedInTime, ConnectionLives
  <2> QED
    BY <2>2, <2>3
<1>9. CASE PlaySessionChanges
  <2>1. UNCHANGED <<running, connection, connected, EditorModel, RdIsModelAlive, GameControl>>
    BY <1>9 DEF PlaySessionChanges, linkVars, modelVars
  <2>2. CASE queue' = queue
    BY <2>1, <2>2 DEF ServedInTime, ConnectionLives
  <2>3. CASE queue' # queue
    <3>1. PICK a \in Announced :
             /\ GameControl # 0
             /\ queue' = Append(queue, Task("playState", GameControl, LastTold(a[3])))
      BY <1>9, <2>3 DEF PlaySessionChanges
    <3> DEFINE t == Task("playState", GameControl, LastTold(a[3]))
    <3>2. GameControl \in 1..MaxConnections
      BY <3>1, LinkAssumption DEF IInv, TypeOK
    <3>3. LastTold(a[3]) \in PlayStates
      BY AnnouncedToItsEnd
    <3>4. t \in Tasks /\ t.kind = "playState"
      BY <3>2, <3>3, TaskIsTyped DEF ActionKinds
    <3>5. queue' = Append(queue, t)
      BY <3>1
    <3> HIDE DEF t
    <3>6. running' /\ RdIsModelAlive' => GameControl' = EditorModel'
      BY <1>4, <2>1
    <3> QED
      BY <1>3, <2>1, <3>4, <3>5, <3>6
  <2> QED
    BY <2>2, <2>3
<1>10. CASE ReceiveResponse \/ CallFails \/ UNCHANGED vars
  <2>1. UNCHANGED <<running, connection, connected, queue, EditorModel, RdIsModelAlive, GameControl>>
    BY <1>10 DEF ReceiveResponse, CallFails, EndCall, linkVars, modelVars, vars, schedulerVars
  <2> QED
    BY <2>1 DEF ServedInTime, ConnectionLives
<1> QED
  BY <1>2, <1>5, <1>6, <1>7, <1>8, <1>9, <1>10, ServedAfterHead DEF Next

\* Both hold at the beginning, when nothing is queued.
LEMMA InitRequests == Init => RequestsInOnePlace /\ ServedInTime
<1> SUFFICES ASSUME Init PROVE RequestsInOnePlace /\ ServedInTime
  OBVIOUS
<1>1. Len(queue) = 0 /\ gameTasks = {} /\ calling = None /\ None \notin Requests
  BY LinkAssumption DEF Init, Requests
<1>2. ServedInTime
  BY <1>1 DEF Init, ServedInTime
<1>3. ASSUME NEW r \in Requests PROVE InOnePlace(r)
  <2>1. request[r] = "none"
    BY DEF Init
  <2> QED
    BY <1>1, <2>1 DEF InOnePlace, Queued, Once
<1> QED
  BY <1>2, <1>3 DEF RequestsInOnePlace

\* No request of the IDE is lost or handled twice: each that has been read is in
\* exactly one place until it has ended.
THEOREM RequestsAreKept == Spec => []RequestsInOnePlace
  BY InitRequests, PlacesStep, Invariance, PTL DEF Spec

\* Service is in time in every state.
THEOREM ServiceIsInTime == Spec => []ServedInTime
  BY InitRequests, ServiceStep, Invariance, PTL DEF Spec

\* A request that has been answered, opened or dropped stays so: neither the
\* call that returns late nor the report of the game thread ends it again.
THEOREM RequestsEndOnce == Spec => AnsweredOnce
<1>1. IInv /\ RequestsInOnePlace /\ [Next]_vars
         => [\A r \in Requests : request[r] \in Ended => request'[r] = request[r]]_vars
  <2> SUFFICES ASSUME IInv, RequestsInOnePlace, [Next]_vars, NEW r \in Requests, request[r] \in Ended
               PROVE  request'[r] = request[r]
    OBVIOUS
  <2>1. /\ calling # r /\ ~Queued("request", r) /\ ~Queued("reply", r)
        /\ ~\E t \in gameTasks : t.what = r
    BY DEF RequestsInOnePlace, InOnePlace, Ended
  <2>2. request \in [Requests -> {"none", "queued", "game", "reply", "answered", "opened", "unopened", "dropped"}]
    BY DEF IInv, TypeOK
  <2>3. CASE RunTask
    <3>1. ~(Head(queue).kind \in {"request", "reply"} /\ Head(queue).what = r)
      BY <2>1, <2>3, QueuedAfterHead
    <3> QED
      BY <2>2, <2>3, <3>1 DEF RunTask, RunConnect, NewModel, RunGone, RunPlayState, RunInitialized,
         RunReply, DropRequest, RunCommand, RunOpen, OpenBlueprint
  <2>4. CASE \E r0 \in Requests : ReceiveRequest(r0)
    BY <2>2, <2>4 DEF ReceiveRequest, Ended
  <2>5. CASE ReceiveResponse \/ CallFails
    BY <2>1, <2>2, <2>5 DEF ReceiveResponse, CallFails, EndCall
  <2>6. CASE RunGameTask
    BY <2>1, <2>2, <2>6 DEF RunGameTask
  <2>7. CASE Connect \/ Disconnect \/ PlaySessionChanges \/ ShutdownModule \/ UNCHANGED vars
    BY <2>7 DEF Connect, Disconnect, DisconnectQueueing, PlaySessionChanges, ShutdownModule, vars,
       riderVars
  <2> QED
    BY <2>3, <2>4, <2>5, <2>6, <2>7 DEF Next
<1> QED
  BY <1>1, Invariance, RequestsAreKept, PTL DEF Spec, AnsweredOnce

\* While its connection lasts and the module is not shut down no request and no
\* report of a command is dropped, and only a blueprint that was asked for in
\* time is given up for want of a window: the safety half of
\* RequestsAreAnswered.
THEOREM OnlyLateOnesAreDropped == Spec => DroppedOnlyLate
<1>1. IInv /\ ServedInTime /\ [Next]_vars
         => [\A r \in Requests :
                request[r] # request'[r] /\ request'[r] \in {"unopened", "dropped"} =>
                    \/ ~running
                    \/ queue # <<>> /\ ~ConnectionLives(Head(queue).conn)
                    \/ /\ request'[r] = "unopened" /\ r \in Opens
                       /\ calling = r \/ ConnectionLives(EditorModel)]_vars
  <2> SUFFICES ASSUME IInv, ServedInTime, [Next]_vars, NEW r \in Requests,
                      request[r] # request'[r], request'[r] \in {"unopened", "dropped"},
                      running, queue = <<>> \/ ConnectionLives(Head(queue).conn)
               PROVE  /\ request'[r] = "unopened" /\ r \in Opens
                      /\ calling = r \/ ConnectionLives(EditorModel)
    OBVIOUS
  <2>1. request \in [Requests -> {"none", "queued", "game", "reply", "answered", "opened", "unopened", "dropped"}]
    BY DEF IInv, TypeOK
  <2>2. RunTask \/ ReceiveResponse \/ CallFails
    BY <2>1 DEF Next, Connect, Disconnect, DisconnectQueueing, ReceiveRequest, PlaySessionChanges,
       RunGameTask, ShutdownModule, vars, riderVars
  <2>7. CASE ReceiveResponse \/ CallFails
    <3>1. /\ calling \in Opens
          /\ \E opening \in Openings : request' = [request EXCEPT ![calling] = opening]
      BY <2>7 DEF ReceiveResponse, CallFails, EndCall, IInv, TypeOK
    <3>2. r = calling
      BY <2>1, <3>1
    <3>3. request'[r] \in Openings
      BY <2>1, <3>1, <3>2
    <3> QED
      BY <3>1, <3>2, <3>3 DEF Openings
  <2> SUFFICES ASSUME RunTask
               PROVE  /\ request'[r] = "unopened" /\ r \in Opens
                      /\ calling = r \/ ConnectionLives(EditorModel)
    BY <2>2, <2>7
  <2>3. /\ Len(queue) \in Nat \ {0} /\ Head(queue) = queue[1] /\ 1 \in 1..Len(queue)
        /\ ConnectionLives(Head(queue).conn)
    BY HeadIsRun DEF RunTask
  <2>4. CASE Head(queue).kind = "reply"
    <3>1. ~Head(queue).late
      BY <2>3, <2>4 DEF ServedInTime
    <3>2. GameControl = Head(queue).conn
      BY <2>3, <2>4, <3>1 DEF IInv, InTimeFindsIt, ActionKinds
    <3> QED
      BY <2>1, <2>4, <3>2 DEF RunTask, RunReply
  <2>5. CASE Head(queue).kind = "request"
    <3>1. ~\E j \in 1..Len(queue) : queue[j].kind = "connect" /\ queue[j].conn = connection
      BY <2>3, <2>5 DEF ServedInTime, ConnectionLives
    <3>2. HasModel
      BY <2>3, <3>1 DEF IInv, ModelIsOnItsWay, ConnectionLives
    <3>3. Subscribed(Head(queue))
      BY <2>3, <3>2 DEF Subscribed, HasModel, ServedInTime, ConnectionLives
    <3>4. CASE RunCommand(Head(queue))
      BY <2>1, <3>4 DEF RunCommand
    <3>5. CASE RunOpen(Head(queue))
      <4>1. /\ Head(queue).what \in Opens /\ ConnectionLives(EditorModel)
            /\ \/ request' = request
               \/ \E opening \in Openings :
                     request' = [request EXCEPT ![Head(queue).what] = opening]
        BY <3>2, <3>5 DEF RunOpen, OpenBlueprint, HasModel, Subscribed, ConnectionLives, IInv,
           EndIsOfThePresentModel
      <4>2. r = Head(queue).what /\ request'[r] \in Openings
        BY <2>1, <4>1
      <4> QED
        BY <4>1, <4>2 DEF Openings
    <3> QED
      BY <2>5, <3>3, <3>4, <3>5 DEF RunTask, DropRequest
  <2>6. CASE Head(queue).kind \notin {"reply", "request"}
    BY <2>6 DEF RunTask, RunConnect, NewModel, RunGone, RunPlayState, RunInitialized
  <2> QED
    BY <2>4, <2>5, <2>6
<1> QED
  BY <1>1, Invariance, ServiceIsInTime, PTL DEF Spec, DroppedOnlyLate
=============================================================================
