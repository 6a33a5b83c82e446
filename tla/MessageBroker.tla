----------------------------- MODULE MessageBroker -----------------------------
(* How a message read by the wire thread finds the entity it is for: the    *)
(* broker queues it until the Scheduler has bound the entity, hands it to   *)
(* the Scheduler, or invokes an entity of the synchronous scheduler in      *)
(* place.  One id; on every connection a new entity is bound under it.      *)
(* dispatch and advise_on hold the lock throughout, the action on the       *)
(* Scheduler only while it pops, and the end of a lifetime not at all.      *)
EXTENDS Integers, Sequences, SequencesExt

CONSTANTS
    MaxMessages,        \* bound on the messages
    MaxConnections      \* bound on the connections

ASSUME BrokerAssumption == MaxMessages \in Nat /\ MaxConnections \in Nat \ {0}

VARIABLES
    custom,             \* the entity's wire scheduler is the synchronous one
    wire, connection,   \* the lifetime of the latest connection: up, ending, down
    dispatched,         \* messages dispatched; message m is the m-th
    sentOn,             \* the connection each message came on
    subscription,       \* subscriptions[id]: Absent, Null or the entity of a connection
    nulled,             \* subscriptions has an entity under the null id
    entry,              \* incarnation of broker[id]; 0 when there is none
    entries,            \* incarnations so far
    default_scheduler_messages, custom_scheduler_messages,
    queue,              \* the default scheduler's actions, in order
    step,               \* what its running action does next, or idle
    model,              \* the connection whose entity exists; 0 when there is none
    found,              \* the subscription the action has read
    message,            \* the message it has popped, or 0
    released,           \* the custom messages it has moved out of the entry
    delivered,          \* what on_wire_received saw: which message, which entity
    \* history
    gap,                \* messages dispatched while an entry was given up
    strays,             \* messages dispatched to an entity of an earlier connection
    undefined           \* what was used that is not there any more, or nothing

wireVars == <<wire, connection>>
messageVars == <<dispatched, sentOn, gap, strays>>
subscriptionVars == <<subscription, nulled>>
entryVars == <<entry, entries, default_scheduler_messages, custom_scheduler_messages>>
actionVars == <<found, message, released>>
vars == <<custom, wireVars, messageVars, subscriptionVars, entryVars, queue, step, model,
          actionVars, delivered, undefined>>

Absent == -1
Null == 0

\* An action is made for a connection or a message, with an incarnation of the
\* entry or with an entity.  (A pump does not know its message: it pops the first.)
Bind(conn) == [kind |-> "bind", of |-> conn, with |-> 0]
Pump(m, incarnation) == [kind |-> "pump", of |-> m, with |-> incarnation]
Invoke(m, that) == [kind |-> "invoke", of |-> m, with |-> that]

Init ==
    /\ custom \in BOOLEAN
    /\ wire = "down" /\ connection = 0 /\ dispatched = 0 /\ sentOn = <<>>
    /\ subscription = Absent /\ nulled = FALSE /\ entry = 0 /\ entries = 0
    /\ default_scheduler_messages = <<>> /\ custom_scheduler_messages = <<>>
    /\ queue = <<>> /\ step = "idle" /\ model = 0
    /\ found = Null /\ message = 0 /\ released = <<>>
    /\ delivered = <<>> /\ gap = {} /\ strays = {} /\ undefined = "nothing"

Terminated(conn) == conn # connection \/ wire # "up"

\* The end of its lifetime sets the id of an entity to null.
Unbound(that) == that # connection \/ wire = "down"

\* subscriptions.count(that->get_id()) > 0, which a null subscription satisfies.
Exists(that) == IF Unbound(that) THEN nulled ELSE subscription # Absent

Told(that, m) ==
    IF Exists(that) THEN Append(delivered, [of |-> m, to |-> that]) ELSE delivered

-----------------------------------------------------------------------------
(* The wire thread. *)

\* The task that binds the entity is queued before the first message is read.
Connect ==
    /\ wire = "down" /\ connection < MaxConnections
    /\ wire' = "up"
    /\ connection' = connection + 1
    /\ queue' = Append(queue, Bind(connection + 1))
    /\ UNCHANGED <<custom, messageVars, subscriptionVars, entryVars, step, model,
                   actionVars, delivered, undefined>>

\* The lifetime is terminated and its actions run, the latest first: the one of
\* advise_on, if it was added, erases the subscription ...
Disconnect ==
    /\ wire = "up"
    /\ wire' = "ending"
    /\ subscription' = IF subscription = connection /\ step # "action" THEN Absent ELSE subscription
    /\ UNCHANGED <<custom, connection, messageVars, nulled, entryVars, queue, step, model,
                   actionVars, delivered, undefined>>

\* ... and then the one of bind sets the id to null.
Unbind ==
    /\ wire = "ending"
    /\ wire' = "down"
    /\ UNCHANGED <<custom, connection, messageVars, subscriptionVars, entryVars, queue, step,
                   model, actionVars, delivered, undefined>>

\* Nobody is subscribed: the message waits in the entry for an action of its own.
DispatchUnbound ==
    /\ subscription \in {Absent, Null}
    /\ subscription' = Null
    /\ IF entry = 0
       THEN entries' = entries + 1 /\ entry' = entries + 1
       ELSE UNCHANGED <<entry, entries>>
    /\ default_scheduler_messages' = Append(default_scheduler_messages, dispatched + 1)
    /\ queue' = Append(queue, Pump(dispatched + 1, entry'))
    /\ UNCHANGED <<custom_scheduler_messages, delivered, undefined>>

DispatchDefault ==
    /\ subscription > 0 /\ subscription = model /\ ~custom
    /\ queue' = Append(queue, Invoke(dispatched + 1, subscription))
    /\ UNCHANGED <<subscription, entryVars, delivered, undefined>>

DeliverOrQueue(inPlace) ==
    /\ subscription > 0 /\ subscription = model /\ custom
    /\ IF inPlace
       THEN /\ delivered' = Told(subscription, dispatched + 1)
            /\ UNCHANGED custom_scheduler_messages
       ELSE /\ custom_scheduler_messages' = Append(custom_scheduler_messages, dispatched + 1)
            /\ UNCHANGED delivered
    /\ UNCHANGED <<subscription, entry, entries, default_scheduler_messages, queue, undefined>>

\* Mutant: the messages that came before are not waited for.
AlwaysInPlace == DeliverOrQueue(TRUE)

\* An entry holds messages that came before: the new one waits behind them.
DispatchCustom == DeliverOrQueue(entry = 0)

\* The subscription outlived its entity.
DispatchDestroyed ==
    /\ subscription > 0 /\ subscription # model
    /\ undefined' = "entity"
    /\ UNCHANGED <<subscription, entryVars, queue, delivered>>

\* advise_on of the Scheduler holds the lock in these steps.
Locked == step \in {"subscribe", "action"}

GivesUp == step \in {"move", "erase", "release"}

Dispatch ==
    /\ wire = "up" /\ dispatched < MaxMessages /\ ~Locked
    /\ dispatched' = dispatched + 1
    /\ sentOn' = Append(sentOn, connection)
    /\ gap' = IF GivesUp THEN gap \cup {dispatched + 1} ELSE gap
    /\ strays' = IF subscription \in 1..connection-1 THEN strays \cup {dispatched + 1} ELSE strays
    /\ DispatchUnbound \/ DispatchDefault \/ DispatchCustom \/ DispatchDestroyed
    /\ UNCHANGED <<custom, wireVars, nulled, step, model, actionVars>>

-----------------------------------------------------------------------------
(* The Scheduler binds the entity of a connection. *)

Starts(kind) == step = "idle" /\ queue # <<>> /\ Head(queue).kind = kind /\ queue' = Tail(queue)

\* The new model takes the place of the one of the previous connection.
RunBind ==
    /\ Starts("bind")
    /\ step' = "advise"
    /\ model' = Head(queue).of
    /\ UNCHANGED <<custom, wireVars, messageVars, subscriptionVars, entryVars, actionVars,
                   delivered, undefined>>

\* advise_on does nothing for a lifetime that is over ...
CheckTerminated ==
    /\ step = "advise"
    /\ step' = IF Terminated(model) THEN "idle" ELSE "subscribe"
    /\ UNCHANGED <<custom, wireVars, messageVars, subscriptionVars, entryVars, queue, model,
                   actionVars, delivered, undefined>>

\* ... subscribes under the id, which the end of the lifetime may have set to null ...
Subscribe ==
    /\ step = "subscribe"
    /\ step' = "action"
    /\ IF Unbound(model)
       THEN nulled' = TRUE /\ UNCHANGED subscription
       ELSE subscription' = model /\ UNCHANGED nulled
    /\ UNCHANGED <<custom, wireVars, messageVars, entryVars, queue, model, actionVars,
                   delivered, undefined>>

\* ... and adds the action that erases the subscription, or throws, and then the
\* subscription stays.
AddAction ==
    /\ step = "action"
    /\ step' = "idle"
    /\ UNCHANGED <<custom, wireVars, messageVars, subscriptionVars, entryVars, queue, model,
                   actionVars, delivered, undefined>>

-----------------------------------------------------------------------------
(* The Scheduler invokes the entity. *)

\* The entity is asked for by its id.
RunInvoke ==
    /\ Starts("invoke")
    /\ IF Head(queue).with = model
       THEN delivered' = Told(model, Head(queue).of) /\ UNCHANGED undefined
       ELSE undefined' = "entity" /\ UNCHANGED delivered
    /\ UNCHANGED <<custom, wireVars, messageVars, subscriptionVars, entryVars, step, model,
                   actionVars>>

\* The action of a message reads the subscription, inserting a null one, ...
RunPump ==
    /\ Starts("pump") /\ Head(queue).with = entry
    /\ step' = "pop"
    /\ subscription' = IF subscription = Absent THEN Null ELSE subscription
    /\ found' = subscription'
    /\ UNCHANGED <<custom, wireVars, messageVars, nulled, entryVars, model, message, released,
                   delivered, undefined>>

\* The entry the action was made with is gone: anything may happen.
RunPumpErased ==
    /\ Starts("pump") /\ Head(queue).with # entry
    /\ undefined' = "entry"
    /\ UNCHANGED <<custom, wireVars, messageVars, subscriptionVars, entryVars, step, model,
                   actionVars, delivered>>

Waiting == default_scheduler_messages # <<>>

PopIf(some) ==
    /\ step = "pop"
    /\ step' = "invoke"
    /\ message' = IF some THEN Head(default_scheduler_messages) ELSE 0
    /\ default_scheduler_messages' =
           IF some THEN Tail(default_scheduler_messages) ELSE default_scheduler_messages
    /\ UNCHANGED <<custom, wireVars, messageVars, subscriptionVars, entry, entries,
                   custom_scheduler_messages, queue, model, found, released, delivered, undefined>>

\* Mutant: a message without an entity is kept for the next.
PopForEntity == PopIf(Waiting /\ found # Null)

PopMessage == PopIf(Waiting)

\* A message without an entity is dropped.  The entity of the default scheduler
\* is not looked up again.
InvokePopped ==
    /\ step = "invoke"
    /\ step' = "check"
    /\ message' = 0
    /\ delivered' = IF found = Null \/ message = 0 THEN delivered
                    ELSE IF custom THEN Told(found, message)
                    ELSE Append(delivered, [of |-> message, to |-> found])
    /\ UNCHANGED <<custom, wireVars, messageVars, subscriptionVars, entryVars, queue, model,
                   found, released, undefined>>

-----------------------------------------------------------------------------
(* The action gives up the entry when no more messages wait in it. *)

ReleaseIf(empty) ==
    /\ step = "check"
    /\ step' = IF empty THEN "move" ELSE "idle"
    /\ UNCHANGED <<custom, wireVars, messageVars, subscriptionVars, entryVars, queue, model,
                   actionVars, delivered, undefined>>

\* Mutant: the entry is given up with every message.
ReleaseAlways == ReleaseIf(TRUE)

CheckEmpty == ReleaseIf(~Waiting)

\* Both containers are moved out of the entry, the custom one is used.
MoveEntry ==
    /\ step = "move"
    /\ step' = "erase"
    /\ released' = custom_scheduler_messages
    /\ default_scheduler_messages' = <<>>
    /\ custom_scheduler_messages' = <<>>
    /\ UNCHANGED <<custom, wireVars, messageVars, subscriptionVars, entry, entries, queue,
                   model, found, message, delivered, undefined>>

EraseThen(next) ==
    /\ step = "erase"
    /\ step' = next
    /\ entry' = 0
    /\ default_scheduler_messages' = <<>>
    /\ custom_scheduler_messages' = <<>>
    /\ UNCHANGED <<custom, wireVars, messageVars, subscriptionVars, entries, queue, model,
                   actionVars, delivered, undefined>>

\* Mutant: the custom messages are forgotten.
EraseForgets == EraseThen("idle")

EraseEntry == EraseThen("release")

\* The custom messages are invoked on the entity that was read at the start.
ReleaseNext ==
    /\ step = "release" /\ released # <<>> /\ found # Null
    /\ released' = Tail(released)
    /\ delivered' = Told(found, Head(released))
    /\ UNCHANGED <<custom, wireVars, messageVars, subscriptionVars, entryVars, queue, step,
                   model, found, message, undefined>>

\* There was none: its scheduler is asked for all the same.
ReleaseToNull ==
    /\ step = "release" /\ released # <<>> /\ found = Null
    /\ undefined' = "null"
    /\ UNCHANGED <<custom, wireVars, messageVars, subscriptionVars, entryVars, queue, step,
                   model, actionVars, delivered>>

ReleaseDone ==
    /\ step = "release" /\ released = <<>>
    /\ step' = "idle"
    /\ UNCHANGED <<custom, wireVars, messageVars, subscriptionVars, entryVars, queue, model,
                   actionVars, delivered, undefined>>

-----------------------------------------------------------------------------
\* Nothing is said of what follows an undefined use.
Defined == undefined = "nothing"

RunScheduler ==
    /\ Defined
    /\ \/ RunBind \/ CheckTerminated \/ Subscribe \/ AddAction
       \/ RunInvoke \/ RunPump \/ RunPumpErased \/ PopMessage \/ InvokePopped
       \/ CheckEmpty \/ MoveEntry \/ EraseEntry \/ ReleaseNext \/ ReleaseToNull \/ ReleaseDone

RunWire == Defined /\ (Connect \/ Disconnect \/ Unbind \/ Dispatch)

Next == RunWire \/ RunScheduler

Spec == Init /\ [][Next]_vars
FairSpec == Spec /\ WF_vars(RunScheduler)

-----------------------------------------------------------------------------
Actions ==
    [kind : {"bind"}, of : 1..connection, with : {0}]
        \cup [kind : {"pump"}, of : 1..dispatched, with : 1..entries]
        \cup [kind : {"invoke"}, of : 1..dispatched, with : 1..connection]

TypeOK ==
    /\ custom \in BOOLEAN /\ nulled \in BOOLEAN
    /\ wire \in {"up", "ending", "down"}
    /\ connection \in 0..MaxConnections /\ model \in 0..connection
    /\ dispatched \in 0..MaxMessages
    /\ sentOn \in [1..dispatched -> 1..connection]
    /\ subscription \in Absent..connection /\ found \in 0..connection
    /\ entry \in 0..entries /\ entries \in 0..MaxMessages
    /\ step \in {"idle", "advise", "subscribe", "action", "pop", "invoke",
                 "check", "move", "erase", "release"}
    /\ message \in 0..dispatched
    /\ default_scheduler_messages \in Seq(1..dispatched)
    /\ custom_scheduler_messages \in Seq(1..dispatched)
    /\ released \in Seq(1..dispatched)
    /\ queue \in Seq(Actions)
    /\ delivered \in Seq([of : 1..dispatched, to : 1..connection])
    /\ gap \subseteq 1..dispatched /\ strays \subseteq 1..dispatched
    /\ undefined \in {"nothing", "entry", "null", "entity"}

\* No message is delivered twice, and those of a connection are delivered as they
\* were read, but for one that is dispatched while an entry is given up: it may
\* overtake those that are released from the entry.
DeliveredInOrder ==
    \A i, j \in DOMAIN delivered : i < j =>
        /\ delivered[i].of # delivered[j].of
        /\ sentOn[delivered[i].of] = sentOn[delivered[j].of]
              => delivered[i].of < delivered[j].of \/ delivered[i].of \in gap

\* An entity of the default scheduler sees messages of its own connection only.
\* (An entity of the synchronous scheduler may see others: custom messages of an
\* earlier connection may still be in the entry.)
NoStaleMessage ==
    ~custom => \A i \in DOMAIN delivered : sentOn[delivered[i].of] = delivered[i].to

\* What the two threads do not protect is used only across connections.  An action
\* finds its entry erased only when a message of a later connection has come while
\* the action of an earlier one gave the entry up.  Custom messages are without an
\* entity only when their own connection has ended.  An entity is used after its
\* time only by a message of a later connection, when its own ended while it was
\* being bound.
UndefinedAcrossConnections ==
    /\ undefined = "entry" => \E m \in gap : sentOn[m] > 1
    /\ undefined = "null" => custom /\ \A i \in DOMAIN released : Terminated(sentOn[released[i]])
    /\ undefined = "entity" => strays # {}

\* A message is delivered, waits in a container or for its action, or is in hand.
Kept(m) ==
    \/ \E i \in DOMAIN delivered : delivered[i].of = m
    \/ Contains(default_scheduler_messages, m)
    \/ Contains(custom_scheduler_messages, m)
    \/ Contains(released, m)
    \/ message = m
    \/ \E i \in DOMAIN queue : queue[i].kind = "invoke" /\ queue[i].of = m

\* A message of the present connection is dropped, before, during or after the
\* binding, only if it came while an entry was given up, or was dispatched to an
\* entity of an earlier connection.
NothingIsLost ==
    wire = "up" =>
        \A m \in (1..dispatched) \ (gap \cup strays) : sentOn[m] = connection => Kept(m)

\* Every such message is delivered while its connection lasts.
EveryMessageIsDelivered ==
    \A m \in 1..MaxMessages, c \in 1..MaxConnections :
        m <= dispatched /\ sentOn[m] = c
            ~> \/ \E i \in DOMAIN delivered : delivered[i].of = m
               \/ m \in gap \cup strays \/ ~(wire = "up" /\ connection = c) \/ ~Defined
=============================================================================
