-------------------------- MODULE MessageBrokerProofs --------------------------
(* What holds of the broker for any number of messages and connections.     *)
(* The Scheduler's queue is in the order in which messages and connections  *)
(* came, and every message that waits in an entry for the default scheduler *)
(* has an action of its own in it, until the entry is given up.             *)
EXTENDS MessageBroker, SequenceTheorems, TLAPS

In(s, x) == \E k \in 1..Len(s) : s[k] = x
Rises(s) == \A i, j \in 1..Len(s) : i < j => s[i] < s[j]

InDefault(m) == In(default_scheduler_messages, m)
InCustom(m) == In(custom_scheduler_messages, m)
InReleased(m) == In(released, m)
Queued(kind, of, with) == In(queue, [kind |-> kind, of |-> of, with |-> with])
WasDelivered(m) == \E i \in 1..Len(delivered) : delivered[i].of = m

\* x may be queued in front of y, when sent says on which connection messages came.
Before(sent, x, y) ==
    IF x.kind = "bind"
    THEN IF y.kind = "bind" THEN x.of < y.of ELSE x.of <= sent[y.of]
    ELSE IF y.kind = "bind" THEN sent[x.of] < y.of ELSE x.of < y.of

Sorted(sent, q) == \A i, j \in 1..Len(q) : i < j => Before(sent, q[i], q[j])

Pumping == step \in {"pop", "invoke", "check", "move", "erase", "release"}
Moves == step \in {"move", "erase"}

\* The queue is in the order of time, and what is left in it is not older than
\* the entity.
QueueInOrder ==
    /\ Sorted(sentOn, queue)
    /\ \A m, n \in 1..dispatched : m <= n => sentOn[m] <= sentOn[n]
    /\ \A kind, m, with : Queued(kind, m, with) /\ kind # "bind" => model <= sentOn[m]

\* The entity of the present connection is subscribed or will be.
Bindings ==
    /\ \A c \in 1..connection : Queued("bind", c, 0) <=> model < c
    /\ wire = "up" =>
          \/ subscription = connection
          \/ Queued("bind", connection, 0)
          \/ model = connection /\ step \in {"advise", "subscribe"}
    /\ subscription <= model
    /\ step # "idle" => model > 0
    /\ connection = 0 => wire = "down"
    /\ Pumping => found <= model /\ (subscription > 0 => subscription = found)

\* Which containers are in use when.
Stages ==
    /\ Rises(default_scheduler_messages) /\ Rises(custom_scheduler_messages) /\ Rises(released)
    /\ entry = 0 => default_scheduler_messages = <<>> /\ custom_scheduler_messages = <<>>
    /\ step \in {"pop", "invoke", "check", "move", "erase"} => entry # 0
    /\ step \notin {"erase", "release"} => released = <<>>
    /\ step # "invoke" => message = 0
    /\ ~custom => custom_scheduler_messages = <<>> /\ released = <<>>
    /\ custom => \A m, with : ~Queued("invoke", m, with)
    /\ step = "move" => \A m : InDefault(m) => m \in gap
    /\ step = "erase" => \A m : InDefault(m) \/ InCustom(m) => m \in gap
    /\ entries <= dispatched

\* Each message that waits in the entry has its action.  An action whose entry is
\* given up was queued meanwhile, by a later connection.
Pumps ==
    /\ \A m, n : Queued("pump", m, n) =>
          IF n = entry /\ ~Moves THEN InDefault(m) ELSE m \in gap /\ sentOn[m] > 1
    /\ ~Moves => \A m : InDefault(m) =>
          Queued("pump", m, entry) \/ (step = "pop" /\ m = Head(default_scheduler_messages))
    /\ step = "pop" => default_scheduler_messages # <<>>

\* An entity is invoked with messages of its connection.  Strays are for one that
\* is gone before it could be.
Invokes ==
    \A m, e : Queued("invoke", m, e) =>
        IF m \in strays
        THEN e < sentOn[m] /\ (e # model \/ Queued("bind", sentOn[m], 0))
        ELSE e = sentOn[m] /\ e = model

\* The message the running action pops or has popped.
InHand(m) ==
    \/ m = message /\ message # 0
    \/ step = "pop" /\ m = Head(default_scheduler_messages)

Hand ==
    \A m : InHand(m) =>
        /\ IF found = Null THEN Terminated(sentOn[m]) ELSE sentOn[m] = found
        /\ \A kind, n, with : Queued(kind, n, with) /\ kind # "bind" => m < n
        /\ InDefault(m) => step = "pop"
        /\ \A n : InDefault(n) /\ n # m => m < n
        /\ \A n : InCustom(n) => n # m /\ (sentOn[n] = sentOn[m] => m < n)

\* What waits for the entity is of its connection.
OfEntity == subscription > 0 => \A m : InDefault(m) => sentOn[m] = subscription

\* Custom messages wait behind the others of their connection, which has an
\* entity.
Customs ==
    \A m : InCustom(m) \/ InReleased(m) =>
        /\ ~Terminated(sentOn[m]) =>
              subscription > 0 /\ (m \notin strays => subscription = connection)
        /\ \A n : InDefault(n) => m # n /\ (InCustom(m) /\ sentOn[m] = sentOn[n] => n < m)
        /\ InReleased(m) => \A n : InCustom(n) \/ InDefault(n) => m < n
        /\ Pumping /\ found = Null => Terminated(sentOn[m])

Waits(m) ==
    \/ InDefault(m) \/ InCustom(m) \/ InReleased(m) \/ InHand(m)
    \/ \E e : Queued("invoke", m, e)

\* What waits comes after what was delivered.
Deliveries ==
    \A m, n : WasDelivered(m) /\ Waits(n) =>
        m # n /\ (sentOn[m] = sentOn[n] => m < n \/ m \in gap)

IInv ==
    /\ TypeOK
    /\ QueueInOrder
    /\ Bindings
    /\ Stages
    /\ Pumps
    /\ Invokes
    /\ Hand
    /\ OfEntity
    /\ Customs
    /\ Deliveries
    /\ DeliveredInOrder
    /\ NoStaleMessage
    /\ UndefinedAcrossConnections

-----------------------------------------------------------------------------
(* Sequences. *)

LEMMA InSequence ==
    ASSUME NEW S, NEW q \in Seq(S)
    PROVE  (\A x : In(q, x) => x \in S) /\ (\A x : ~In(<<>>, x)) /\ (q = <<>> \/ In(q, Head(q)))
<1>1. \A k \in 1..Len(q) : q[k] \in S
  BY ElementOfSeq
<1>2. Len(q) \in Nat /\ (q = <<>> <=> Len(q) = 0) /\ Len(<<>>) = 0
  BY LenProperties, EmptySeq
<1>3. q # <<>> => 1 \in 1..Len(q) /\ q[1] = Head(q)
  BY <1>2, HeadTailProperties
<1>4. QED
  BY <1>1, <1>2, <1>3 DEF In

\* What is appended is there, behind the others.
LEMMA InAppend ==
    ASSUME NEW S, NEW q \in Seq(S), NEW y \in S
    PROVE  /\ Append(q, y) \in Seq(S) /\ Append(q, y) # <<>>
           /\ \A x : In(Append(q, y), x) <=> In(q, x) \/ x = y
           /\ Head(Append(q, y)) = IF q = <<>> THEN y ELSE Head(q)
<1>1. /\ Append(q, y) \in Seq(S) /\ Len(q) \in Nat /\ Len(Append(q, y)) = Len(q) + 1
      /\ \A k \in 1..Len(q) : Append(q, y)[k] = q[k]
      /\ Append(q, y)[Len(q) + 1] = y
  BY AppendProperties, LenProperties
<1>2. /\ \A k : k \in 1..Len(q) + 1 <=> k \in 1..Len(q) \/ k = Len(q) + 1
      /\ Append(q, y) # <<>>
  BY <1>1, EmptySeq
<1>3. \A x : In(Append(q, y), x) <=> In(q, x) \/ x = y
  BY <1>1, <1>2 DEF In
<1>4. Head(Append(q, y)) = IF q = <<>> THEN y ELSE Head(q)
  <2>1. Head(Append(q, y)) = Append(q, y)[1]
    BY <1>1, <1>2, HeadTailProperties
  <2>2. CASE q = <<>>
    BY <1>1, <2>1, <2>2, EmptySeq
  <2>3. CASE q # <<>>
    <3>1. 1 \in 1..Len(q) /\ q[1] = Head(q)
      BY <1>1, <2>3, EmptySeq, HeadTailProperties
    <3>2. QED
      BY <1>1, <2>1, <2>3, <3>1
  <2>4. QED
    BY <2>2, <2>3
<1>5. QED
  BY <1>1, <1>2, <1>3, <1>4

LEMMA InTail ==
    ASSUME NEW S, NEW q \in Seq(S), q # <<>>
    PROVE  /\ Head(q) \in S /\ Tail(q) \in Seq(S)
           /\ \A x : In(q, x) <=> x = Head(q) \/ In(Tail(q), x)
<1>1. /\ Head(q) \in S /\ Tail(q) \in Seq(S) /\ Len(q) \in Nat \ {0}
      /\ Len(Tail(q)) = Len(q) - 1 /\ Head(q) = q[1]
      /\ \A k \in 1..Len(q) - 1 : Tail(q)[k] = q[k + 1]
  BY HeadTailProperties, LenProperties, EmptySeq
<1>2. /\ \A k \in 1..Len(q) - 1 : k + 1 \in 1..Len(q)
      /\ \A k \in 1..Len(q) : k = 1 \/ (k - 1 \in 1..Len(q) - 1 /\ (k - 1) + 1 = k)
      /\ 1 \in 1..Len(q)
  BY <1>1
<1>3. ASSUME NEW x PROVE In(q, x) <=> x = Head(q) \/ In(Tail(q), x)
  <2>1. ASSUME In(q, x), x # Head(q) PROVE In(Tail(q), x)
    <3>1. PICK k \in 1..Len(q) : q[k] = x
      BY <2>1 DEF In
    <3>2. k - 1 \in 1..Len(q) - 1 /\ (k - 1) + 1 = k
      BY <1>1, <1>2, <2>1, <3>1
    <3>3. Tail(q)[k - 1] = x
      BY <1>1, <3>1, <3>2
    <3>4. QED
      BY <1>1, <3>2, <3>3 DEF In
  <2>2. In(Tail(q), x) => In(q, x)
    BY <1>1, <1>2 DEF In
  <2>3. In(q, Head(q))
    BY <1>1, <1>2 DEF In
  <2>4. QED
    BY <2>1, <2>2, <2>3
<1>4. QED
  BY <1>1, <1>3

LEMMA RisesOn ==
    ASSUME NEW q \in Seq(Nat), Rises(q)
    PROVE  /\ \A y \in Nat : (\A x : In(q, x) => x < y) => Rises(Append(q, y))
           /\ q # <<>> => Rises(Tail(q)) /\ \A x : In(Tail(q), x) => Head(q) < x
<1>1. ASSUME NEW y \in Nat, \A x : In(q, x) => x < y PROVE Rises(Append(q, y))
  <2>1. /\ Len(q) \in Nat /\ Len(Append(q, y)) = Len(q) + 1
        /\ \A k \in 1..Len(q) : Append(q, y)[k] = q[k]
        /\ Append(q, y)[Len(q) + 1] = y
    BY AppendProperties, LenProperties
  <2>2. \A k \in 1..Len(q) : q[k] < y
    BY <1>1 DEF In
  <2>3. \A i, j \in 1..Len(q) + 1 :
            i < j => i \in 1..Len(q) /\ (j \in 1..Len(q) \/ j = Len(q) + 1)
    BY <2>1
  <2>4. QED
    BY <2>1, <2>2, <2>3 DEF Rises
<1>2. ASSUME q # <<>> PROVE Rises(Tail(q)) /\ \A x : In(Tail(q), x) => Head(q) < x
  <2>1. /\ Len(q) \in Nat \ {0} /\ Len(Tail(q)) = Len(q) - 1 /\ Head(q) = q[1]
        /\ \A k \in 1..Len(q) - 1 : Tail(q)[k] = q[k + 1]
    BY <1>2, HeadTailProperties, LenProperties, EmptySeq
  <2>2. /\ 1 \in 1..Len(q)
        /\ \A k \in 1..Len(q) - 1 : k + 1 \in 1..Len(q) /\ 1 < k + 1
        /\ \A i, j \in 1..Len(q) - 1 : i < j => i + 1 < j + 1
    BY <2>1
  <2>3. QED
    BY <2>1, <2>2 DEF Rises, In
<1>3. QED
  BY <1>1, <1>2

LEMMA SortedOn ==
    ASSUME NEW S, NEW q \in Seq(S), NEW sent, NEW sent2, Sorted(sent, q),
           \A x, y : In(q, x) /\ In(q, y) /\ Before(sent, x, y) => Before(sent2, x, y)
    PROVE  /\ Sorted(sent2, q)
           /\ \A y \in S : (\A x : In(q, x) => Before(sent2, x, y)) => Sorted(sent2, Append(q, y))
           /\ q # <<>> => Sorted(sent2, Tail(q)) /\ \A x : In(Tail(q), x) => Before(sent2, Head(q), x)
<1>1. Sorted(sent2, q)
  BY DEF Sorted, In
<1>2. ASSUME NEW y \in S, \A x : In(q, x) => Before(sent2, x, y)
      PROVE  Sorted(sent2, Append(q, y))
  <2>1. /\ Len(q) \in Nat /\ Len(Append(q, y)) = Len(q) + 1
        /\ \A k \in 1..Len(q) : Append(q, y)[k] = q[k]
        /\ Append(q, y)[Len(q) + 1] = y
    BY AppendProperties, LenProperties
  <2>2. \A k \in 1..Len(q) : Before(sent2, q[k], y)
    BY <1>2 DEF In
  <2>3. \A i, j \in 1..Len(q) + 1 :
            i < j => i \in 1..Len(q) /\ (j \in 1..Len(q) \/ j = Len(q) + 1)
    BY <2>1
  <2>4. QED
    BY <1>1, <2>1, <2>2, <2>3 DEF Sorted
<1>3. ASSUME q # <<>>
      PROVE  Sorted(sent2, Tail(q)) /\ \A x : In(Tail(q), x) => Before(sent2, Head(q), x)
  <2>1. /\ Len(q) \in Nat \ {0} /\ Len(Tail(q)) = Len(q) - 1 /\ Head(q) = q[1]
        /\ \A k \in 1..Len(q) - 1 : Tail(q)[k] = q[k + 1]
    BY <1>3, HeadTailProperties, LenProperties, EmptySeq
  <2>2. /\ 1 \in 1..Len(q)
        /\ \A k \in 1..Len(q) - 1 : k + 1 \in 1..Len(q) /\ 1 < k + 1
        /\ \A i, j \in 1..Len(q) - 1 : i < j => i + 1 < j + 1
    BY <2>1
  <2>3. QED
    BY <1>1, <2>1, <2>2 DEF Sorted, In
<1>4. QED
  BY <1>1, <1>2, <1>3

-----------------------------------------------------------------------------
(* What the types say of the members of the containers. *)

LEMMA Numbers ==
    ASSUME TypeOK
    PROVE  /\ connection \in Nat /\ dispatched \in Nat /\ model \in Nat /\ found \in Nat
           /\ entries \in Nat /\ entry \in Nat /\ message \in Nat /\ subscription \in Int
           /\ model <= connection /\ found <= connection
           /\ subscription >= -1 /\ subscription <= connection
           /\ 1..connection \subseteq Nat /\ 1..dispatched \subseteq Nat
           /\ \A m \in 1..dispatched : sentOn[m] \in 1..connection
<1>1. /\ connection \in Nat /\ dispatched \in Nat /\ entries \in Nat
      /\ entry \in 0..entries /\ model \in 0..connection /\ found \in 0..connection
      /\ subscription \in -1..connection
      /\ message \in 0..dispatched
      /\ sentOn \in [1..dispatched -> 1..connection]
  BY BrokerAssumption DEF TypeOK, Absent
<1>2. QED
  BY <1>1

LEMMA Waiters ==
    ASSUME TypeOK
    PROVE  /\ default_scheduler_messages \in Seq(1..dispatched)
           /\ custom_scheduler_messages \in Seq(1..dispatched)
           /\ released \in Seq(1..dispatched)
           /\ default_scheduler_messages \in Seq(Nat)
           /\ custom_scheduler_messages \in Seq(Nat)
           /\ released \in Seq(Nat)
           /\ \A m : InDefault(m) \/ InCustom(m) \/ InReleased(m) => m \in 1..dispatched
           /\ default_scheduler_messages # <<>> => InDefault(Head(default_scheduler_messages))
           /\ custom_scheduler_messages # <<>> => InCustom(Head(custom_scheduler_messages))
           /\ released # <<>> => InReleased(Head(released))
<1>1. /\ default_scheduler_messages \in Seq(1..dispatched)
      /\ custom_scheduler_messages \in Seq(1..dispatched)
      /\ released \in Seq(1..dispatched)
  BY DEF TypeOK
<1>2. 1..dispatched \subseteq Nat
  BY Numbers
<1>3. /\ default_scheduler_messages \in Seq(Nat)
      /\ custom_scheduler_messages \in Seq(Nat)
      /\ released \in Seq(Nat)
  BY <1>1, <1>2, SeqMonotonic
<1>4. QED
  BY <1>1, <1>3, InSequence DEF InDefault, InCustom, InReleased

LEMMA Records ==
    ASSUME TypeOK
    PROVE  /\ queue \in Seq(Actions)
           /\ delivered \in Seq([of : 1..dispatched, to : 1..connection])
           /\ \A m : WasDelivered(m) => m \in 1..dispatched
           /\ \A kind, m, with : Queued(kind, m, with) =>
                 \/ kind = "bind" /\ m \in 1..connection /\ with = 0
                 \/ kind = "pump" /\ m \in 1..dispatched /\ with \in 1..entries
                 \/ kind = "invoke" /\ m \in 1..dispatched /\ with \in 1..connection
<1>1. /\ queue \in Seq(Actions)
      /\ delivered \in Seq([of : 1..dispatched, to : 1..connection])
  BY DEF TypeOK
<1>2. ASSUME NEW m, WasDelivered(m) PROVE m \in 1..dispatched
  <2>1. PICK i \in 1..Len(delivered) : delivered[i].of = m
    BY <1>2 DEF WasDelivered
  <2>2. delivered[i] \in [of : 1..dispatched, to : 1..connection]
    BY <1>1, ElementOfSeq
  <2>3. QED
    BY <2>1, <2>2
<1>3. ASSUME NEW kind, NEW m, NEW with, Queued(kind, m, with)
      PROVE  \/ kind = "bind" /\ m \in 1..connection /\ with = 0
             \/ kind = "pump" /\ m \in 1..dispatched /\ with \in 1..entries
             \/ kind = "invoke" /\ m \in 1..dispatched /\ with \in 1..connection
  <2>1. [kind |-> kind, of |-> m, with |-> with] \in Actions
    BY <1>1, <1>3, InSequence DEF Queued
  <2>2. QED
    BY <2>1 DEF Actions
<1>4. QED
  BY <1>1, <1>2, <1>3

LEMMA HandIsDispatched ==
    ASSUME TypeOK, Pumps
    PROVE  \A m : InHand(m) => m \in 1..dispatched
<1>1. message # 0 => message \in 1..dispatched
  BY Numbers DEF TypeOK
<1>2. step = "pop" => Head(default_scheduler_messages) \in 1..dispatched
  BY Waiters DEF Pumps
<1>3. QED
  BY <1>1, <1>2 DEF InHand

-----------------------------------------------------------------------------
(* What the actions do to the queue and the containers. *)

\* The action at the head of the queue is taken, and what is left comes after it.
Takes(kind, a, b) ==
    /\ Head(queue) = [kind |-> kind, of |-> a, with |-> b]
    /\ Queued(kind, a, b)
    /\ \A k, m, w : Queued(k, m, w) <=> Queued(k, m, w)' \/ (k = kind /\ m = a /\ w = b)
    /\ \A k, m, w : Queued(k, m, w)' =>
          Before(sentOn, [kind |-> kind, of |-> a, with |-> b],
                         [kind |-> k, of |-> m, with |-> w])
    /\ Sorted(sentOn, queue')

LEMMA TakeHead ==
    ASSUME TypeOK, QueueInOrder, NEW kind, Starts(kind)
    PROVE  \E a, b : Takes(kind, a, b)
<1> DEFINE a == Head(queue).of
           b == Head(queue).with
           h == [kind |-> kind, of |-> a, with |-> b]
<1>1. queue \in Seq(Actions) /\ queue # <<>> /\ Head(queue).kind = kind /\ queue' = Tail(queue)
  BY Records DEF Starts
<1>2. Head(queue) \in Actions /\ \A x : In(queue, x) <=> x = Head(queue) \/ In(queue', x)
  BY <1>1, InTail
<1>3. Head(queue) = h
  BY <1>1, <1>2 DEF Actions
<1>4. Sorted(sentOn, queue') /\ \A x : In(queue', x) => Before(sentOn, Head(queue), x)
  <2>1. Sorted(sentOn, queue)
    BY DEF QueueInOrder
  <2>2. QED
    BY <1>1, <2>1, SortedOn
<1>5. ASSUME NEW k, NEW m, NEW w
      PROVE  Queued(k, m, w) <=> Queued(k, m, w)' \/ (k = kind /\ m = a /\ w = b)
  BY <1>2, <1>3 DEF Queued
<1>6. ASSUME NEW k, NEW m, NEW w, Queued(k, m, w)'
      PROVE  Before(sentOn, h, [kind |-> k, of |-> m, with |-> w])
  BY <1>3, <1>4, <1>6 DEF Queued
<1>7. Queued(kind, a, b)
  BY <1>5
<1>8. Takes(kind, a, b)
  <2> HIDE DEF a, b
  <2>1. QED
    BY <1>3, <1>4, <1>5, <1>6, <1>7 DEF Takes
<1>9. QED
  BY <1>8

LEMMA QueueGrows ==
    ASSUME TypeOK, NEW kind, NEW a, NEW b,
           queue' = Append(queue, [kind |-> kind, of |-> a, with |-> b])
    PROVE  \A k, m, w : Queued(k, m, w)' <=> Queued(k, m, w) \/ (k = kind /\ m = a /\ w = b)
<1> DEFINE y == [kind |-> kind, of |-> a, with |-> b]
           S == Actions \cup {y}
<1>1. queue \in Seq(S) /\ y \in S
  BY Records, SeqMonotonic
<1>2. \A x : In(queue', x) <=> In(queue, x) \/ x = y
  <2> HIDE DEF S
  <2>1. QED
    BY <1>1, InAppend
<1>3. ASSUME NEW k, NEW m, NEW w
      PROVE  Queued(k, m, w)' <=> Queued(k, m, w) \/ (k = kind /\ m = a /\ w = b)
  BY <1>2 DEF Queued
<1>4. QED
  BY <1>3

\* A message that is dispatched is the latest, and of the present connection.
LEMMA Sends ==
    ASSUME TypeOK, Dispatch
    PROVE  /\ dispatched' = dispatched + 1 /\ dispatched' \in 1..MaxMessages
           /\ connection \in Nat \ {0} => sentOn' \in [1..dispatched' -> 1..connection]
           /\ sentOn'[dispatched + 1] = connection
           /\ \A m \in 1..dispatched : sentOn'[m] = sentOn[m]
           /\ \A m : m \in 1..dispatched' <=> m \in 1..dispatched \/ m = dispatched + 1
           /\ \A m \in 1..dispatched : m < dispatched + 1
           /\ dispatched + 1 \notin 1..dispatched
<1>1. /\ dispatched < MaxMessages /\ dispatched' = dispatched + 1
      /\ sentOn' = Append(sentOn, connection)
      /\ dispatched \in Nat /\ MaxMessages \in Nat
  BY Numbers, BrokerAssumption DEF Dispatch
<1>2. /\ dispatched' \in 1..MaxMessages
      /\ \A m : m \in 1..dispatched' <=> m \in 1..dispatched \/ m = dispatched + 1
      /\ \A m \in 1..dispatched : m < dispatched + 1
      /\ dispatched + 1 \notin 1..dispatched
  BY <1>1
<1>3. sentOn \in Seq(Int) /\ Len(sentOn) = dispatched
  <2>1. sentOn \in [1..dispatched -> Int]
    BY Numbers DEF TypeOK
  <2>2. sentOn \in Seq(Int)
    BY <1>1, <2>1, SeqDef
  <2>3. DOMAIN sentOn = 1..Len(sentOn) /\ Len(sentOn) \in Nat /\ DOMAIN sentOn = 1..dispatched
    BY <2>1, <2>2, LenProperties
  <2>4. \A k \in Nat : k \in 1..Len(sentOn) <=> k \in 1..dispatched
    BY <2>3
  <2>5. Len(sentOn) <= dispatched /\ dispatched <= Len(sentOn)
    <3>1. Len(sentOn) \in 1..Len(sentOn) \/ Len(sentOn) = 0
      BY <2>3
    <3>2. dispatched \in 1..dispatched \/ dispatched = 0
      BY <1>1
    <3>3. QED
      BY <1>1, <2>3, <2>4, <3>1, <3>2
  <2>6. Len(sentOn) \in Nat
    BY <2>3
  <2>7. Len(sentOn) = dispatched
    BY <1>1, <2>5, <2>6
  <2>8. QED
    BY <2>2, <2>7
<1>4. /\ sentOn' \in Seq(Int) /\ Len(sentOn') = dispatched + 1
      /\ sentOn'[dispatched + 1] = connection
      /\ \A m \in 1..dispatched : sentOn'[m] = sentOn[m]
  BY <1>1, <1>3, Numbers, AppendProperties
<1>5. ASSUME connection \in Nat \ {0} PROVE sentOn' \in [1..dispatched' -> 1..connection]
  <2>1. sentOn' \in [1..dispatched' -> Int]
    BY <1>1, <1>4, LenProperties
  <2>2. \A m \in 1..dispatched' : sentOn'[m] \in 1..connection
    <3>1. connection \in 1..connection /\ \A m \in 1..dispatched : sentOn[m] \in 1..connection
      BY <1>5, Numbers
    <3>2. QED
      BY <1>2, <1>4, <3>1
  <2>3. QED
    BY <2>1, <2>2
<1>6. QED
  BY <1>1, <1>2, <1>4, <1>5

\* What is delivered joins what was.
LEMMA Delivers ==
    ASSUME TypeOK, NEW m, NEW e,
           delivered' \in {delivered, Append(delivered, [of |-> m, to |-> e])}
    PROVE  /\ m \in 1..dispatched /\ e \in 1..connection =>
                 delivered' \in Seq([of : 1..dispatched, to : 1..connection])
           /\ \A x : WasDelivered(x) => WasDelivered(x)'
           /\ \A x : WasDelivered(x)' => WasDelivered(x) \/ x = m
           /\ \A i, j \in DOMAIN delivered' : i < j =>
                 /\ i \in DOMAIN delivered /\ delivered'[i] = delivered[i]
                 /\ \/ j \in DOMAIN delivered /\ delivered'[j] = delivered[j]
                    \/ delivered'[j] = [of |-> m, to |-> e]
           /\ \A i \in DOMAIN delivered' :
                 \/ i \in DOMAIN delivered /\ delivered'[i] = delivered[i]
                 \/ delivered'[i] = [of |-> m, to |-> e]
<1> DEFINE y == [of |-> m, to |-> e]
           S == [of : 1..dispatched, to : 1..connection] \cup {y}
<1>1. delivered \in Seq(S) /\ y \in S
  BY Records, SeqMonotonic
<1>2. DOMAIN delivered = 1..Len(delivered) /\ Len(delivered) \in Nat
  <2> HIDE DEF S
  <2>1. QED
    BY <1>1, LenProperties
<1>3. CASE delivered' = delivered
  BY <1>2, <1>3, Records DEF WasDelivered
<1>4. CASE delivered' = Append(delivered, y)
  <2>1. /\ delivered' \in Seq(S) /\ Len(delivered') = Len(delivered) + 1
        /\ \A i \in 1..Len(delivered) : delivered'[i] = delivered[i]
        /\ delivered'[Len(delivered) + 1] = y
    <3> HIDE DEF S, y
    <3>1. QED
      BY <1>1, <1>4, AppendProperties
  <2>2. DOMAIN delivered' = 1..Len(delivered')
    <3> HIDE DEF S
    <3>1. QED
      BY <2>1, LenProperties
  <2>3. /\ \A i \in 1..Len(delivered) : i \in 1..Len(delivered')
        /\ Len(delivered) + 1 \in 1..Len(delivered')
        /\ \A i \in 1..Len(delivered') : i \in 1..Len(delivered) \/ i = Len(delivered) + 1
        /\ \A i, j \in 1..Len(delivered') : i < j => i \in 1..Len(delivered)
    BY <1>2, <2>1
  <2>4. \A x : WasDelivered(x) => WasDelivered(x)'
    BY <2>1, <2>3 DEF WasDelivered
  <2>5. \A x : WasDelivered(x)' => WasDelivered(x) \/ x = m
    BY <2>1, <2>3 DEF WasDelivered
  <2>6. ASSUME m \in 1..dispatched, e \in 1..connection
        PROVE  delivered' \in Seq([of : 1..dispatched, to : 1..connection])
    <3>1. y \in [of : 1..dispatched, to : 1..connection]
      BY <2>6
    <3>2. S = [of : 1..dispatched, to : 1..connection]
      <4> HIDE DEF y
      <4>1. QED
        BY <3>1
    <3>3. QED
      BY <2>1, <3>2
  <2>7. QED
    BY <1>2, <2>1, <2>2, <2>3, <2>4, <2>5, <2>6
<1>5. QED
  BY <1>3, <1>4

LEMMA ToldAppends ==
    ASSUME NEW m, NEW e
    PROVE  Told(e, m) \in {delivered, Append(delivered, [of |-> m, to |-> e])}
BY DEF Told

LEMMA ToldTyped ==
    ASSUME TypeOK, NEW m \in 1..dispatched, NEW e \in 1..connection
    PROVE  Told(e, m) \in Seq([of : 1..dispatched, to : 1..connection])
<1> DEFINE S == [of : 1..dispatched, to : 1..connection]
           y == [of |-> m, to |-> e]
<1>1. y \in S /\ delivered \in Seq(S)
  BY Records
<1>2. Append(delivered, y) \in Seq(S)
  <2> HIDE DEF S, y
  <2>1. QED
    BY <1>1, AppendProperties
<1>3. Told(e, m) = delivered \/ Told(e, m) = Append(delivered, y)
  BY DEF Told
<1>4. QED
  BY <1>1, <1>2, <1>3

\* The order is kept when what is delivered comes after what was.
LEMMA OrderIsKept ==
    ASSUME TypeOK, DeliveredInOrder, NEW m, NEW e,
           delivered' \in {delivered, Append(delivered, [of |-> m, to |-> e])},
           \A x \in 1..dispatched : sentOn'[x] = sentOn[x],
           gap \subseteq gap',
           \A x : WasDelivered(x) => x # m /\ (sentOn[x] = sentOn'[m] => x < m \/ x \in gap')
    PROVE  DeliveredInOrder'
<1>1. DOMAIN delivered = 1..Len(delivered)
  BY Records, LenProperties
<1>2. \A i \in DOMAIN delivered : delivered[i].of \in 1..dispatched /\ WasDelivered(delivered[i].of)
  <2>1. \A i \in DOMAIN delivered : WasDelivered(delivered[i].of)
    BY <1>1 DEF WasDelivered
  <2>2. QED
    BY <2>1, Records
<1>3. SUFFICES ASSUME NEW i \in DOMAIN delivered', NEW j \in DOMAIN delivered', i < j
               PROVE  /\ delivered'[i].of # delivered'[j].of
                      /\ sentOn'[delivered'[i].of] = sentOn'[delivered'[j].of]
                            => delivered'[i].of < delivered'[j].of \/ delivered'[i].of \in gap'
  BY DEF DeliveredInOrder
<1>4. i \in DOMAIN delivered /\ delivered'[i] = delivered[i]
  BY <1>3, Delivers
<1>5. CASE j \in DOMAIN delivered /\ delivered'[j] = delivered[j]
  BY <1>2, <1>3, <1>4, <1>5 DEF DeliveredInOrder
<1>6. CASE delivered'[j] = [of |-> m, to |-> e]
  <2>1. delivered'[j].of = m
    BY <1>6
  <2>2. QED
    BY <1>2, <1>4, <2>1
<1>7. QED
  BY <1>3, <1>5, <1>6, Delivers

LEMMA NothingNewIsStale ==
    ASSUME TypeOK, NoStaleMessage, custom' = custom, NEW m, NEW e,
           delivered' \in {delivered, Append(delivered, [of |-> m, to |-> e])},
           \A x \in 1..dispatched : sentOn'[x] = sentOn[x],
           ~custom /\ delivered' # delivered => sentOn'[m] = e
    PROVE  NoStaleMessage'
<1>1. DOMAIN delivered = 1..Len(delivered)
  BY Records, LenProperties
<1>2. \A i \in DOMAIN delivered : delivered[i].of \in 1..dispatched
  <2>1. \A i \in DOMAIN delivered : WasDelivered(delivered[i].of)
    BY <1>1 DEF WasDelivered
  <2>2. QED
    BY <2>1, Records
<1>3. SUFFICES ASSUME ~custom, NEW i \in DOMAIN delivered'
               PROVE  sentOn'[delivered'[i].of] = delivered'[i].to
  BY DEF NoStaleMessage
<1>4. CASE i \in DOMAIN delivered /\ delivered'[i] = delivered[i]
  BY <1>2, <1>3, <1>4 DEF NoStaleMessage
<1>5. CASE delivered' # delivered /\ delivered'[i] = [of |-> m, to |-> e]
  <2>1. delivered'[i].of = m /\ delivered'[i].to = e
    BY <1>5
  <2>2. QED
    BY <1>3, <1>5, <2>1
<1>6. QED
  BY <1>3, <1>4, <1>5, Delivers

-----------------------------------------------------------------------------
(* The types. *)

LEMMA InitTypes == Init => TypeOK
<1>1. <<>> \in [1..0 -> 1..0] /\ 1..0 = {}
  BY EmptySeq, LenProperties
<1>2. \A S : <<>> \in Seq(S)
  BY EmptySeq
<1>3. ASSUME Init PROVE TypeOK
  <2>1. /\ sentOn = <<>> /\ dispatched = 0 /\ connection = 0 /\ delivered = <<>> /\ queue = <<>>
        /\ default_scheduler_messages = <<>> /\ custom_scheduler_messages = <<>>
        /\ released = <<>> /\ gap = {} /\ strays = {}
    BY <1>3 DEF Init
  <2>2. /\ custom \in BOOLEAN /\ nulled \in BOOLEAN
        /\ wire \in {"up", "ending", "down"} /\ step = "idle" /\ undefined = "nothing"
        /\ entry = 0 /\ entries = 0 /\ model = 0 /\ found = 0 /\ message = 0
        /\ subscription = -1
    BY <1>3 DEF Init, Absent, Null
  <2>3. 0 \in 0..MaxConnections /\ 0 \in 0..MaxMessages /\ 0 \in 0..0 /\ -1 \in -1..0
    BY BrokerAssumption
  <2>4. QED
    BY <1>1, <1>2, <2>1, <2>2, <2>3 DEF TypeOK, Absent
<1>4. QED
  BY <1>3

\* What is in the queue and has been delivered stays of the right type when there
\* are more messages, connections and incarnations.
LEMMA ActionsGrow ==
    ASSUME TypeOK, dispatched' \in Nat, connection' \in Nat, entries' \in Nat,
           dispatched <= dispatched', connection <= connection', entries <= entries'
    PROVE  /\ Actions \subseteq Actions'
           /\ \A s \in Seq(1..dispatched) : s \in Seq(1..dispatched')
           /\ queue \in Seq(Actions')
           /\ delivered \in Seq([of : 1..dispatched', to : 1..connection'])
<1>1. 1..dispatched \subseteq 1..dispatched' /\ 1..connection \subseteq 1..connection'
      /\ 1..entries \subseteq 1..entries'
  BY Numbers
<1>2. Actions \subseteq Actions'
  BY <1>1 DEF Actions
<1>3. [of : 1..dispatched, to : 1..connection] \subseteq [of : 1..dispatched', to : 1..connection']
  BY <1>1
<1>4. queue \in Seq(Actions')
  BY <1>2, Records, SeqMonotonic
<1>5. delivered \in Seq([of : 1..dispatched', to : 1..connection'])
  BY <1>3, Records, SeqMonotonic
<1>6. \A s \in Seq(1..dispatched) : s \in Seq(1..dispatched')
  BY <1>1, SeqMonotonic
<1>7. QED
  BY <1>2, <1>4, <1>5, <1>6

LEMMA TypeStep == TypeOK /\ Bindings /\ Stages /\ Pumps /\ [Next]_vars => TypeOK'
<1> SUFFICES ASSUME TypeOK, Bindings, Stages, Pumps, [Next]_vars PROVE TypeOK'
  OBVIOUS
<1> USE Numbers
<1>1. CASE Connect
  <2>1. /\ connection' = connection + 1 /\ connection' \in 1..MaxConnections
        /\ dispatched' = dispatched /\ entries' = entries
    BY <1>1, BrokerAssumption DEF Connect, messageVars, entryVars
  <2>2. queue' \in Seq(Actions')
    <3>1. Bind(connection + 1) \in Actions' /\ queue \in Seq(Actions')
      BY <2>1, ActionsGrow DEF Bind, Actions
    <3>2. QED
      BY <1>1, <3>1, AppendProperties DEF Connect
  <2>3. delivered' \in Seq([of : 1..dispatched', to : 1..connection'])
    BY <1>1, <2>1, ActionsGrow DEF Connect
  <2>4. sentOn' \in [1..dispatched' -> 1..connection']
    BY <1>1, <2>1 DEF Connect, messageVars, TypeOK
  <2>5. QED
    BY <1>1, <2>1, <2>2, <2>3, <2>4
       DEF Connect, TypeOK, messageVars, subscriptionVars, entryVars, actionVars
<1>2. CASE Disconnect \/ Unbind
  <2>1. /\ wire' \in {"up", "ending", "down"} /\ subscription' \in Absent..connection
        /\ UNCHANGED <<custom, connection, messageVars, nulled, entryVars, queue, step, model,
                       actionVars, delivered, undefined>>
    <3>1. CASE Disconnect
      BY <3>1 DEF Disconnect, TypeOK, Absent
    <3>2. CASE Unbind
      BY <3>2 DEF Unbind, TypeOK, subscriptionVars
    <3>3. QED
      BY <1>2, <3>1, <3>2
  <2>2. QED
    BY <2>1 DEF TypeOK, Actions, messageVars, entryVars, actionVars
<1>3. CASE Dispatch
  <2>1. connection \in Nat \ {0} /\ connection \in 1..connection
    BY <1>3 DEF Dispatch, Bindings
  <2>2. /\ sentOn' \in [1..dispatched' -> 1..connection'] /\ connection' = connection
        /\ dispatched' = dispatched + 1 /\ dispatched' \in 1..MaxMessages
        /\ dispatched + 1 \in 1..dispatched'
        /\ 1..dispatched \subseteq 1..dispatched'
    BY <1>3, <2>1, Sends DEF Dispatch, wireVars
  <2>3. /\ custom' = custom /\ nulled' = nulled /\ wire' = wire /\ step' = step
        /\ gap' \subseteq 1..dispatched' /\ strays' \subseteq 1..dispatched'
        /\ found' \in 0..connection' /\ message' \in 0..dispatched' /\ model' \in 0..connection'
    <3>1. /\ custom' = custom /\ nulled' = nulled /\ wire' = wire /\ step' = step
          /\ found' = found /\ message' = message /\ model' = model
          /\ gap' \subseteq gap \cup {dispatched + 1}
          /\ strays' \subseteq strays \cup {dispatched + 1}
      BY <1>3 DEF Dispatch, wireVars, actionVars
    <3>2. gap \subseteq 1..dispatched /\ strays \subseteq 1..dispatched
          /\ message \in 0..dispatched /\ model \in 0..connection /\ found \in 0..connection
      BY DEF TypeOK
    <3>3. message \in 0..dispatched'
      BY <2>2, <3>2
    <3>4. QED
      BY <2>2, <3>1, <3>2, <3>3
  <2>4. entries' \in Nat /\ entries <= entries' =>
           /\ released' \in Seq(1..dispatched')
           /\ \A s \in Seq(1..dispatched) : s \in Seq(1..dispatched')
           /\ Actions \subseteq Actions' /\ queue \in Seq(Actions')
           /\ delivered \in Seq([of : 1..dispatched', to : 1..connection'])
    <3>1. released' = released /\ released \in Seq(1..dispatched)
      BY <1>3, Waiters DEF Dispatch, actionVars
    <3>2. dispatched' \in Nat /\ connection' \in Nat
          /\ dispatched <= dispatched' /\ connection <= connection'
      BY <2>2
    <3>3. QED
      BY <3>1, <3>2, ActionsGrow
  <2>5. CASE DispatchUnbound
    <3>1. /\ entries' \in 0..MaxMessages /\ entries <= entries' /\ entries' \in Nat
          /\ entry' \in 0..entries' /\ entry' \in 1..entries'
      <4>1. entries <= dispatched /\ dispatched < MaxMessages /\ MaxMessages \in Nat
            /\ entry \in 0..entries /\ entries \in 0..MaxMessages
        BY <1>3, BrokerAssumption DEF Dispatch, TypeOK, Stages
      <4>2. CASE entry = 0
        BY <2>5, <4>1, <4>2 DEF DispatchUnbound
      <4>3. CASE entry # 0
        BY <2>5, <4>1, <4>3 DEF DispatchUnbound
      <4>4. QED
        BY <4>2, <4>3
    <3>2. queue' \in Seq(Actions')
      <4>1. Pump(dispatched + 1, entry') \in Actions'
        BY <2>2, <3>1 DEF Pump, Actions
      <4>2. QED
        BY <2>4, <2>5, <3>1, <4>1, AppendProperties DEF DispatchUnbound
    <3>3. default_scheduler_messages' \in Seq(1..dispatched')
      BY <2>2, <2>4, <2>5, <3>1, Waiters, AppendProperties DEF DispatchUnbound
    <3>4. subscription' \in Absent..connection'
      BY <2>2, <2>5 DEF DispatchUnbound, Absent, Null
    <3>5. custom_scheduler_messages' \in Seq(1..dispatched')
      BY <2>4, <2>5, <3>1, Waiters DEF DispatchUnbound
    <3>6. QED
      <4>1. dispatched' \in 0..MaxMessages /\ undefined' = undefined /\ delivered' = delivered
        BY <2>2, <2>5 DEF DispatchUnbound
      <4>2. QED
        BY <2>2, <2>3, <2>4, <3>1, <3>2, <3>3, <3>4, <3>5, <4>1 DEF TypeOK
  <2>6. CASE DispatchDefault \/ DispatchDestroyed
    <3>1. entries' \in Nat /\ entries <= entries' /\ UNCHANGED <<subscription, entryVars, delivered>>
      BY <2>6 DEF DispatchDefault, DispatchDestroyed, entryVars
    <3>2. queue' \in Seq(Actions')
      <4>1. CASE DispatchDefault
        <5>1. Invoke(dispatched + 1, subscription) \in Actions'
          BY <2>2, <4>1 DEF DispatchDefault, Invoke, Actions
        <5>2. QED
          BY <2>4, <3>1, <4>1, <5>1, AppendProperties DEF DispatchDefault
      <4>2. CASE DispatchDestroyed
        BY <2>4, <3>1, <4>2 DEF DispatchDestroyed
      <4>3. QED
        BY <2>6, <4>1, <4>2
    <3>3. /\ default_scheduler_messages' \in Seq(1..dispatched')
          /\ custom_scheduler_messages' \in Seq(1..dispatched')
      BY <2>4, <3>1, Waiters DEF entryVars
    <3>4. undefined' \in {"nothing", "entry", "null", "entity"}
      BY <2>6 DEF DispatchDefault, DispatchDestroyed, TypeOK
    <3>5. QED
      <4>1. dispatched' \in 0..MaxMessages /\ delivered' = delivered
            /\ subscription' = subscription /\ entry' = entry /\ entries' = entries
        BY <2>2, <3>1 DEF entryVars
      <4>2. QED
        BY <2>2, <2>3, <2>4, <3>1, <3>2, <3>3, <3>4, <4>1 DEF TypeOK
  <2>7. CASE DispatchCustom
    <3>1. entries' \in Nat /\ entries <= entries'
          /\ UNCHANGED <<subscription, entry, entries, default_scheduler_messages, queue, undefined>>
      BY <2>7 DEF DispatchCustom, DeliverOrQueue
    <3>2. delivered' \in Seq([of : 1..dispatched', to : 1..connection'])
      <4>1. subscription \in 1..connection'
        BY <2>2, <2>7 DEF DispatchCustom, DeliverOrQueue
      <4>2. \/ delivered' = delivered
            \/ delivered' = Append(delivered, [of |-> dispatched + 1, to |-> subscription])
        <5>1. Told(subscription, dispatched + 1)
                 \in {delivered, Append(delivered, [of |-> dispatched + 1, to |-> subscription])}
          BY ToldAppends
        <5>2. QED
          BY <2>7, <5>1 DEF DispatchCustom, DeliverOrQueue
      <4>3. [of |-> dispatched + 1, to |-> subscription] \in [of : 1..dispatched', to : 1..connection']
        BY <2>2, <4>1
      <4>4. delivered \in Seq([of : 1..dispatched', to : 1..connection'])
        BY <2>4, <3>1
      <4>5. Append(delivered, [of |-> dispatched + 1, to |-> subscription])
               \in Seq([of : 1..dispatched', to : 1..connection'])
        BY <4>3, <4>4, AppendProperties
      <4>6. QED
        BY <4>2, <4>4, <4>5
    <3>3. custom_scheduler_messages' \in Seq(1..dispatched')
      <4>1. custom_scheduler_messages \in Seq(1..dispatched')
        BY <2>4, <3>1, Waiters
      <4>2. Append(custom_scheduler_messages, dispatched + 1) \in Seq(1..dispatched')
        BY <2>2, <4>1, AppendProperties
      <4>3. QED
        BY <2>7, <4>1, <4>2 DEF DispatchCustom, DeliverOrQueue
    <3>4. default_scheduler_messages' \in Seq(1..dispatched')
      BY <2>4, <3>1, Waiters
    <3>5. QED
      <4>1. dispatched' \in 0..MaxMessages
        BY <2>2
      <4>2. QED
        BY <2>2, <2>3, <2>4, <3>1, <3>2, <3>3, <3>4, <4>1 DEF TypeOK
  <2>8. QED
    BY <1>3, <2>5, <2>6, <2>7 DEF Dispatch
<1>4. CASE RunBind
  <2>1. Head(queue) \in Actions /\ queue' \in Seq(Actions) /\ Head(queue).kind = "bind"
    BY <1>4, Records, InTail DEF RunBind, Starts
  <2>2. model' \in 0..connection
    BY <1>4, <2>1 DEF RunBind, Actions
  <2>3. QED
    BY <1>4, <2>1, <2>2
       DEF RunBind, TypeOK, Actions, wireVars, messageVars, subscriptionVars, entryVars, actionVars
<1>5. CASE CheckTerminated \/ AddAction \/ CheckEmpty \/ ReleaseDone
  BY <1>5 DEF CheckTerminated, AddAction, CheckEmpty, ReleaseIf, ReleaseDone, TypeOK, Actions,
              wireVars, messageVars, subscriptionVars, entryVars, actionVars
<1>6. CASE Subscribe
  <2>1. subscription' \in Absent..connection /\ nulled' \in BOOLEAN
    <3>1. CASE Unbound(model)
      BY <1>6, <3>1 DEF Subscribe, TypeOK, Absent
    <3>2. CASE ~Unbound(model)
      BY <1>6, <3>2 DEF Subscribe, TypeOK, Absent
    <3>3. QED
      BY <3>1, <3>2
  <2>2. QED
    BY <1>6, <2>1 DEF Subscribe, TypeOK, Actions, wireVars, messageVars, entryVars, actionVars
<1>7. CASE RunInvoke
  <2>1. Head(queue) \in Actions /\ queue' \in Seq(Actions) /\ Head(queue).kind = "invoke"
    BY <1>7, Records, InTail DEF RunInvoke, Starts
  <2>2. Head(queue).of \in 1..dispatched /\ Head(queue).with \in 1..connection
    BY <2>1 DEF Actions
  <2>3. delivered' \in Seq([of : 1..dispatched, to : 1..connection])
    <3>1. CASE Head(queue).with = model
      <4>1. delivered' = Told(model, Head(queue).of) /\ model \in 1..connection
        BY <1>7, <2>2, <3>1 DEF RunInvoke
      <4>2. QED
        BY <2>2, <4>1, ToldTyped
    <3>2. CASE Head(queue).with # model
      BY <1>7, <3>2, Records DEF RunInvoke
    <3>3. QED
      BY <3>1, <3>2
  <2>4. undefined' \in {"nothing", "entry", "null", "entity"}
    BY <1>7 DEF RunInvoke, TypeOK
  <2>5. QED
    BY <1>7, <2>1, <2>3, <2>4
       DEF RunInvoke, TypeOK, Actions, wireVars, messageVars, subscriptionVars, entryVars, actionVars
<1>8. CASE RunPump
  <2>1. queue' \in Seq(Actions)
    BY <1>8, Records, InTail DEF RunPump, Starts
  <2>2. subscription' \in Absent..connection /\ found' = subscription'
    BY <1>8 DEF RunPump, TypeOK, Absent, Null
  <2>3. found' \in 0..connection
    BY <1>8, <2>2 DEF RunPump, Absent, Null
  <2>4. QED
    BY <1>8, <2>1, <2>2, <2>3
       DEF RunPump, TypeOK, Actions, wireVars, messageVars, entryVars
<1>9. CASE RunPumpErased
  <2>1. queue' \in Seq(Actions)
    BY <1>9, Records, InTail DEF RunPumpErased, Starts
  <2>2. QED
    BY <1>9, <2>1 DEF RunPumpErased, TypeOK, Actions,
                      wireVars, messageVars, subscriptionVars, entryVars, actionVars
<1>10. CASE PopMessage
  <2>1. default_scheduler_messages # <<>> =>
           /\ Head(default_scheduler_messages) \in 1..dispatched
           /\ Tail(default_scheduler_messages) \in Seq(1..dispatched)
    BY Waiters, InTail
  <2>2. message' \in 0..dispatched /\ default_scheduler_messages' \in Seq(1..dispatched)
    <3>1. CASE Waiting
      BY <1>10, <2>1, <3>1 DEF PopMessage, PopIf, Waiting
    <3>2. CASE ~Waiting
      BY <1>10, <3>2, Waiters DEF PopMessage, PopIf
    <3>3. QED
      BY <3>1, <3>2
  <2>3. QED
    BY <1>10, <2>2 DEF PopMessage, PopIf, TypeOK, Actions, wireVars, messageVars, subscriptionVars
<1>11. CASE InvokePopped
  <2>1. delivered' \in Seq([of : 1..dispatched, to : 1..connection])
    <3>1. CASE found = Null \/ message = 0
      BY <1>11, <3>1, Records DEF InvokePopped
    <3>2. CASE found # Null /\ message # 0
      <4>1. found \in 1..connection /\ message \in 1..dispatched
        BY <3>2 DEF Null, TypeOK
      <4>2. Told(found, message) \in Seq([of : 1..dispatched, to : 1..connection])
        BY <4>1, ToldTyped
      <4>3. Append(delivered, [of |-> message, to |-> found])
               \in Seq([of : 1..dispatched, to : 1..connection])
        BY <4>1, Records, AppendProperties
      <4>4. QED
        BY <1>11, <3>2, <4>2, <4>3 DEF InvokePopped
    <3>3. QED
      BY <3>1, <3>2
  <2>2. QED
    BY <1>11, <2>1 DEF InvokePopped, TypeOK, Actions, wireVars, messageVars, subscriptionVars, entryVars
<1>12. CASE MoveEntry
  BY <1>12, EmptySeq DEF MoveEntry, TypeOK, Actions, wireVars, messageVars, subscriptionVars
<1>13. CASE EraseEntry
  BY <1>13, EmptySeq DEF EraseEntry, EraseThen, TypeOK, Actions, wireVars, messageVars,
                         subscriptionVars, actionVars
<1>14. CASE ReleaseNext
  <2>1. released # <<>> /\ released' = Tail(released) /\ found \in 1..connection
    BY <1>14 DEF ReleaseNext, Null
  <2>2. Head(released) \in 1..dispatched /\ released' \in Seq(1..dispatched)
    BY <2>1, Waiters, InTail
  <2>3. delivered' = Told(found, Head(released))
    BY <1>14 DEF ReleaseNext
  <2>4. delivered' \in Seq([of : 1..dispatched, to : 1..connection])
    BY <2>1, <2>2, <2>3, ToldTyped
  <2>5. QED
    BY <1>14, <2>2, <2>4 DEF ReleaseNext, TypeOK, Actions, wireVars, messageVars,
                             subscriptionVars, entryVars
<1>15. CASE ReleaseToNull
  BY <1>15 DEF ReleaseToNull, TypeOK, Actions, wireVars, messageVars, subscriptionVars,
               entryVars, actionVars
<1>16. CASE UNCHANGED vars
  BY <1>16 DEF vars, TypeOK, Actions, wireVars, messageVars, subscriptionVars, entryVars, actionVars
<1>17. QED
  BY <1>1, <1>2, <1>3, <1>4, <1>5, <1>6, <1>7, <1>8, <1>9, <1>10, <1>11, <1>12, <1>13, <1>14,
     <1>15, <1>16 DEF Next, RunWire, RunScheduler

-----------------------------------------------------------------------------
(* The order of the queue. *)

\* A message that is dispatched is queued behind everything, or not at all.
LEMMA DispatchQueues ==
    ASSUME TypeOK, Dispatch
    PROVE  \/ queue' = queue /\ (DispatchCustom \/ DispatchDestroyed)
           \/ /\ queue' = Append(queue, [kind |-> "pump", of |-> dispatched + 1, with |-> entry'])
              /\ DispatchUnbound
           \/ /\ queue' = Append(queue, [kind |-> "invoke", of |-> dispatched + 1, with |-> subscription])
              /\ DispatchDefault
BY DEF Dispatch, DispatchUnbound, DispatchDefault, DispatchCustom, DeliverOrQueue,
       DispatchDestroyed, Pump, Invoke

LEMMA BeforeIsKept ==
    ASSUME TypeOK, Dispatch
    PROVE  \A x, y : In(queue, x) /\ In(queue, y) /\ Before(sentOn, x, y) => Before(sentOn', x, y)
<1>1. \A x : In(queue, x) => x \in Actions
  BY Records, InSequence
<1>2. \A x \in Actions : x.kind # "bind" => sentOn'[x.of] = sentOn[x.of]
  <2>1. \A x \in Actions : x.kind # "bind" => x.of \in 1..dispatched
    BY DEF Actions
  <2>2. QED
    BY <2>1, Sends
<1>3. QED
  BY <1>1, <1>2 DEF Before

LEMMA QueueStep == TypeOK /\ Bindings /\ QueueInOrder /\ [Next]_vars => QueueInOrder'
<1> SUFFICES ASSUME TypeOK, Bindings, QueueInOrder, [Next]_vars PROVE QueueInOrder'
  OBVIOUS
<1>1. /\ Sorted(sentOn, queue) /\ queue \in Seq(Actions)
      /\ \A m, n \in 1..dispatched : m <= n => sentOn[m] <= sentOn[n]
      /\ \A kind, m, with : Queued(kind, m, with) /\ kind # "bind" => model <= sentOn[m]
      /\ \A x : In(queue, x) => x \in Actions
  BY Records, InSequence DEF QueueInOrder
<1>2. CASE Connect
  <2> DEFINE y == [kind |-> "bind", of |-> connection + 1, with |-> 0]
  <2>1. /\ queue' = Append(queue, y) /\ sentOn' = sentOn /\ dispatched' = dispatched
        /\ model' = model
    BY <1>2 DEF Connect, messageVars, Bind
  <2>2. \A x : In(queue, x) => Before(sentOn, x, y)
    <3>1. ASSUME NEW x \in Actions PROVE Before(sentOn, x, y)
      <4>1. CASE x.kind = "bind"
        <5>1. x.of \in 1..connection
          BY <4>1 DEF Actions
        <5>2. QED
          BY <4>1, <5>1, Numbers DEF Before
      <4>2. CASE x.kind # "bind"
        <5>1. x.of \in 1..dispatched
          BY <4>2 DEF Actions
        <5>2. sentOn[x.of] \in 1..connection /\ connection \in Nat
          BY <5>1, Numbers
        <5>3. sentOn[x.of] < connection + 1
          BY <5>2
        <5>4. QED
          BY <4>2, <5>3 DEF Before
      <4>3. QED
        BY <4>1, <4>2
    <3>2. QED
      BY <1>1, <3>1
  <2>3. Sorted(sentOn, Append(queue, y))
    <3>1. queue \in Seq(Actions \cup {y}) /\ y \in Actions \cup {y}
      BY <1>1, SeqMonotonic
    <3>2. QED
      BY <1>1, <2>2, <3>1, SortedOn
  <2>4. \A kind, m, with : Queued(kind, m, with)' /\ kind # "bind" => Queued(kind, m, with)
    BY <2>1, QueueGrows
  <2>5. QED
    BY <1>1, <2>1, <2>3, <2>4 DEF QueueInOrder
<1>3. CASE Dispatch
  <2>1. Sorted(sentOn', queue)
    BY <1>1, <1>3, BeforeIsKept, SortedOn
  <2>2. \A m, n \in 1..dispatched' : m <= n => sentOn'[m] <= sentOn'[n]
    <3>1. ASSUME NEW m \in 1..dispatched', NEW n \in 1..dispatched', m <= n
          PROVE  sentOn'[m] <= sentOn'[n]
      <4>1. CASE n \in 1..dispatched
        <5>1. m \in 1..dispatched
          BY <3>1, <4>1, Numbers
        <5>2. QED
          BY <1>1, <1>3, <3>1, <4>1, <5>1, Sends
      <4>2. CASE n = dispatched + 1
        <5>1. sentOn'[n] = connection /\ connection \in Nat
          BY <1>3, <4>2, Sends, Numbers
        <5>2. CASE m \in 1..dispatched
          <6>1. sentOn'[m] = sentOn[m] /\ sentOn[m] \in 1..connection
            BY <1>3, <5>2, Sends, Numbers
          <6>2. QED
            BY <5>1, <6>1
        <5>3. CASE m = dispatched + 1
          BY <4>2, <5>1, <5>3
        <5>4. QED
          BY <1>3, <3>1, <5>2, <5>3, Sends
      <4>3. QED
        BY <1>3, <3>1, <4>1, <4>2, Sends
    <3>2. QED
      BY <3>1
  <2>3. \A kind, m, with : Queued(kind, m, with) /\ kind # "bind" =>
           m \in 1..dispatched /\ sentOn'[m] = sentOn[m]
    BY <1>3, Records, Sends
  <2>4. model' = model /\ model <= connection /\ sentOn'[dispatched + 1] = connection
    BY <1>3, Sends, Numbers DEF Dispatch
  <2>5. CASE queue' = queue
    <3>1. \A kind, m, with : Queued(kind, m, with)' => Queued(kind, m, with)
      BY <2>5 DEF Queued
    <3>2. QED
      BY <1>1, <2>1, <2>2, <2>3, <2>4, <2>5, <3>1 DEF QueueInOrder
  <2>6. ASSUME NEW kind \in {"pump", "invoke"}, NEW b,
               queue' = Append(queue, [kind |-> kind, of |-> dispatched + 1, with |-> b])
        PROVE  QueueInOrder'
    <3> DEFINE y == [kind |-> kind, of |-> dispatched + 1, with |-> b]
    <3>1. \A x : In(queue, x) => Before(sentOn', x, y)
      <4>1. ASSUME NEW x \in Actions PROVE Before(sentOn', x, y)
        <5>1. CASE x.kind = "bind"
          <6>1. x.of \in 1..connection
            BY <5>1 DEF Actions
          <6>2. x.of <= connection
            BY <6>1, Numbers
          <6>3. y.kind # "bind" /\ sentOn'[y.of] = connection
            BY <2>4, <2>6
          <6>4. QED
            BY <5>1, <6>2, <6>3 DEF Before
        <5>2. CASE x.kind # "bind"
          <6>1. x.of \in 1..dispatched
            BY <5>2 DEF Actions
          <6>2. x.of < dispatched + 1
            BY <6>1, Numbers
          <6>3. QED
            BY <2>6, <5>2, <6>2 DEF Before
        <5>3. QED
          BY <5>1, <5>2
      <4>2. QED
        BY <1>1, <4>1
    <3>2. Sorted(sentOn', Append(queue, y))
      <4>1. queue \in Seq(Actions \cup {y}) /\ y \in Actions \cup {y}
        BY <1>1, SeqMonotonic
      <4>2. \A x, z : In(queue, x) /\ In(queue, z) /\ Before(sentOn', x, z) => Before(sentOn', x, z)
        OBVIOUS
      <4>3. QED
        BY <2>1, <3>1, <4>1, <4>2, SortedOn
    <3>3. \A k, m, w : Queued(k, m, w)' => Queued(k, m, w) \/ m = dispatched + 1
      BY <2>6, QueueGrows
    <3>4. QED
      BY <1>1, <2>2, <2>3, <2>4, <2>6, <3>2, <3>3 DEF QueueInOrder
  <2>7. QED
    BY <1>3, <2>5, <2>6, DispatchQueues
<1>4. CASE RunBind
  <2>1. Starts("bind") /\ model' = Head(queue).of /\ sentOn' = sentOn /\ dispatched' = dispatched
    BY <1>4 DEF RunBind, messageVars
  <2>2. PICK a, b : Takes("bind", a, b)
    BY <2>1, TakeHead
  <2>3. model' = a
    BY <2>1, <2>2 DEF Takes
  <2>4. \A k, m, w : Queued(k, m, w)' /\ k # "bind" => a <= sentOn[m]
    BY <2>2 DEF Takes, Before
  <2>5. QED
    BY <1>1, <2>1, <2>2, <2>3, <2>4 DEF Takes, QueueInOrder
<1>5. CASE RunInvoke \/ RunPump \/ RunPumpErased
  <2>1. PICK kind : Starts(kind)
    BY <1>5 DEF RunInvoke, RunPump, RunPumpErased
  <2>2. UNCHANGED <<sentOn, dispatched, model>>
    BY <1>5 DEF RunInvoke, RunPump, RunPumpErased, messageVars
  <2>3. PICK a, b : Takes(kind, a, b)
    BY <2>1, TakeHead
  <2>4. /\ Sorted(sentOn, queue')
        /\ \A k, m, w : Queued(k, m, w)' => Queued(k, m, w)
    BY <2>3 DEF Takes
  <2>5. QED
    BY <1>1, <2>2, <2>4 DEF QueueInOrder
<1>6. CASE UNCHANGED <<queue, sentOn, dispatched, model>>
  BY <1>1, <1>6 DEF QueueInOrder, Queued
<1>7. UNCHANGED <<queue, sentOn, dispatched, model>>
         \/ Connect \/ Dispatch \/ RunBind \/ RunInvoke \/ RunPump \/ RunPumpErased
  BY DEF Next, RunWire, RunScheduler, Disconnect, Unbind, CheckTerminated, Subscribe, AddAction,
         PopMessage, PopIf, InvokePopped, CheckEmpty, ReleaseIf, MoveEntry, EraseEntry, EraseThen,
         ReleaseNext, ReleaseToNull, ReleaseDone, vars, messageVars
<1>8. QED
  BY <1>2, <1>3, <1>4, <1>5, <1>6, <1>7

-----------------------------------------------------------------------------
(* The bindings. *)

\* The actions of messages do not bind.
LEMMA DispatchBinds ==
    ASSUME TypeOK, Dispatch
    PROVE  \A m, w : Queued("bind", m, w)' <=> Queued("bind", m, w)
<1>1. CASE queue' = queue
  BY <1>1 DEF Queued
<1>2. ASSUME NEW kind \in {"pump", "invoke"}, NEW b,
             queue' = Append(queue, [kind |-> kind, of |-> dispatched + 1, with |-> b])
      PROVE  \A m, w : Queued("bind", m, w)' <=> Queued("bind", m, w)
  BY <1>2, QueueGrows
<1>3. QED
  BY <1>1, <1>2, DispatchQueues

LEMMA TakeOther ==
    ASSUME TypeOK, QueueInOrder, NEW kind, kind # "bind", Starts(kind)
    PROVE  \A m, w : Queued("bind", m, w)' <=> Queued("bind", m, w)
<1>1. PICK a, b : Takes(kind, a, b)
  BY TakeHead
<1>2. QED
  BY <1>1 DEF Takes

\* When a message is at the head of the queue, its connection has been bound.
LEMMA HeadIsBound ==
    ASSUME TypeOK, QueueInOrder, Bindings, NEW kind \in {"pump", "invoke"}, Starts(kind)
    PROVE  /\ model > 0 /\ model <= sentOn[Head(queue).of]
           /\ sentOn[Head(queue).of] <= model
           /\ Head(queue).of \in 1..dispatched
           /\ \A c : Queued("bind", c, 0) => sentOn[Head(queue).of] < c
<1>1. PICK a, b : Takes(kind, a, b)
  BY TakeHead
<1>2. Head(queue).of = a /\ a \in 1..dispatched /\ sentOn[a] \in 1..connection
  BY <1>1, Records, Numbers DEF Takes
<1>3. model <= sentOn[a]
  BY <1>1 DEF Takes, QueueInOrder
<1>4. \A c : Queued("bind", c, 0) => sentOn[a] < c
  <2>1. \A c : Queued("bind", c, 0) => Queued("bind", c, 0)'
    BY TakeOther
  <2>2. \A c : Queued("bind", c, 0)' => sentOn[a] < c
    BY <1>1 DEF Takes, Before
  <2>3. QED
    BY <2>1, <2>2
<1>5. sentOn[a] <= model
  <2>1. CASE model < sentOn[a]
    <3>1. Queued("bind", sentOn[a], 0)
      BY <1>2, <2>1 DEF Bindings
    <3>2. QED
      BY <1>2, <1>4, <3>1, Numbers
  <2>2. QED
    BY <1>2, <2>1, Numbers
<1>6. model > 0
  BY <1>2, <1>5, Numbers
<1>7. QED
  BY <1>2, <1>3, <1>4, <1>5, <1>6

LEMMA BindingsStep == TypeOK /\ QueueInOrder /\ Bindings /\ [Next]_vars => Bindings'
<1> SUFFICES ASSUME TypeOK, QueueInOrder, Bindings, [Next]_vars PROVE Bindings'
  OBVIOUS
<1> USE Numbers
<1>1. /\ \A c \in 1..connection : Queued("bind", c, 0) <=> model < c
      /\ wire = "up" =>
            \/ subscription = connection
            \/ Queued("bind", connection, 0)
            \/ model = connection /\ step \in {"advise", "subscribe"}
      /\ subscription <= model
      /\ step # "idle" => model > 0
      /\ connection = 0 => wire = "down"
      /\ Pumping => found <= model /\ (subscription > 0 => subscription = found)
  BY DEF Bindings
<1>2. CASE Connect
  <2>1. /\ wire' = "up" /\ connection' = connection + 1
        /\ UNCHANGED <<subscription, model, step, found>>
    BY <1>2 DEF Connect, subscriptionVars, actionVars
  <2>2. \A m : Queued("bind", m, 0)' <=> Queued("bind", m, 0) \/ m = connection + 1
    BY <1>2, QueueGrows DEF Connect, Bind
  <2>3. \A c \in 1..connection' : Queued("bind", c, 0)' <=> model' < c
    <3>1. ASSUME NEW c \in 1..connection' PROVE Queued("bind", c, 0)' <=> model' < c
      <4>1. CASE c \in 1..connection
        BY <1>1, <2>1, <2>2, <4>1
      <4>2. CASE c = connection + 1
        BY <2>1, <2>2, <4>2
      <4>3. QED
        BY <2>1, <3>1, <4>1, <4>2
    <3>2. QED
      BY <3>1
  <2>4. Queued("bind", connection, 0)'
    BY <2>1, <2>2
  <2>5. connection' # 0
    BY <2>1
  <2>6. QED
    BY <1>1, <2>1, <2>3, <2>4, <2>5 DEF Bindings, Pumping
<1>3. CASE Disconnect \/ Unbind
  <2>1. /\ wire' # "up" /\ (wire' = "down" \/ connection # 0)
        /\ subscription' \in {subscription, Absent}
        /\ UNCHANGED <<connection, queue, model, step, found>>
    BY <1>1, <1>3 DEF Disconnect, Unbind, subscriptionVars, actionVars
  <2>2. subscription' <= model /\ (subscription' > 0 => subscription' = subscription)
    BY <1>1, <2>1 DEF Absent
  <2>3. QED
    BY <1>1, <2>1, <2>2 DEF Bindings, Pumping, Queued
<1>4. CASE Dispatch
  <2>1. wire = "up" /\ connection # 0 /\ connection > 0 /\ UNCHANGED <<wire, connection, model, step, found>>
    BY <1>1, <1>4 DEF Dispatch, wireVars, actionVars
  <2>2. \/ subscription' = subscription
        \/ subscription \in {Absent, Null} /\ subscription' = Null
    BY <1>4 DEF Dispatch, DispatchUnbound, DispatchDefault, DispatchCustom, DeliverOrQueue, DispatchDestroyed
  <2>3. /\ subscription' <= model /\ (subscription' > 0 => subscription' = subscription)
        /\ subscription = connection => subscription' = connection
    BY <1>1, <2>1, <2>2 DEF Absent, Null
  <2>4. \A m : Queued("bind", m, 0)' <=> Queued("bind", m, 0)
    BY <1>4, DispatchBinds
  <2>5. QED
    BY <1>1, <2>1, <2>3, <2>4 DEF Bindings, Pumping
<1>5. CASE RunBind
  <2>1. /\ Starts("bind") /\ step = "idle" /\ step' = "advise" /\ model' = Head(queue).of
        /\ UNCHANGED <<wire, connection, subscription>>
    BY <1>5 DEF RunBind, Starts, wireVars, subscriptionVars
  <2>2. PICK a, b : Takes("bind", a, b)
    BY <2>1, TakeHead
  <2>3. model' = a /\ a \in 1..connection /\ b = 0
    BY <2>1, <2>2, Records DEF Takes
  <2>4. model < a
    BY <1>1, <2>2, <2>3 DEF Takes
  <2>5. \A m : Queued("bind", m, 0)' => a < m
    BY <2>2 DEF Takes, Before
  <2>6. ASSUME NEW c \in 1..connection, a < c PROVE Queued("bind", c, 0)'
    <3>1. Queued("bind", c, 0) /\ c # a
      BY <1>1, <2>3, <2>4, <2>6
    <3>2. QED
      BY <2>2, <3>1 DEF Takes
  <2>7. \A c \in 1..connection' : Queued("bind", c, 0)' <=> model' < c
    BY <2>1, <2>3, <2>5, <2>6
  <2>8. wire' = "up" => \/ subscription' = connection'
                        \/ Queued("bind", connection, 0)'
                        \/ model' = connection' /\ step' = "advise"
    <3>1. Queued("bind", connection, 0) => Queued("bind", connection, 0)' \/ connection = a
      BY <2>1, <2>2 DEF Takes, Queued
    <3>2. QED
      BY <1>1, <2>1, <2>3, <2>4, <3>1
  <2>9. subscription' <= model' /\ model' > 0 /\ (connection' = 0 => wire' = "down") /\ ~Pumping'
    BY <1>1, <2>1, <2>3, <2>4 DEF Pumping
  <2>10. QED
    BY <2>1, <2>7, <2>8, <2>9 DEF Bindings
<1>6. CASE CheckTerminated
  <2>1. UNCHANGED <<wire, connection, subscription, queue, model>>
    BY <1>6 DEF CheckTerminated, wireVars, subscriptionVars
  <2>2. /\ step = "advise" /\ step' \in {"idle", "subscribe"}
        /\ wire = "up" /\ model = connection => step' = "subscribe"
    BY <1>6 DEF CheckTerminated, Terminated
  <2>3. QED
    BY <1>1, <2>1, <2>2 DEF Bindings, Pumping, Queued
<1>7. CASE Subscribe
  <2>1. step = "subscribe" /\ step' = "action" /\ UNCHANGED <<wire, connection, queue, model>>
    BY <1>7 DEF Subscribe, wireVars
  <2>2. CASE Unbound(model)
    <3>1. subscription' = subscription /\ ~(wire = "up" /\ model = connection)
      BY <1>7, <2>2 DEF Subscribe, Unbound
    <3>2. QED
      BY <1>1, <2>1, <3>1 DEF Bindings, Pumping, Queued
  <2>3. CASE ~Unbound(model)
    <3>1. subscription' = model /\ model = connection
      BY <1>7, <2>3 DEF Subscribe, Unbound
    <3>2. QED
      BY <1>1, <2>1, <3>1 DEF Bindings, Pumping, Queued
  <2>4. QED
    BY <2>2, <2>3
<1>8. CASE AddAction
  <2>1. step = "action" /\ step' = "idle" /\ UNCHANGED <<wire, connection, subscription, queue, model>>
    BY <1>8 DEF AddAction, wireVars, subscriptionVars
  <2>2. QED
    BY <1>1, <2>1 DEF Bindings, Pumping, Queued
<1>9. CASE RunInvoke
  <2>1. Starts("invoke") /\ UNCHANGED <<wire, connection, subscription, step, model, found>>
    BY <1>9 DEF RunInvoke, wireVars, subscriptionVars, actionVars
  <2>2. \A m : Queued("bind", m, 0)' <=> Queued("bind", m, 0)
    BY <2>1, TakeOther
  <2>3. QED
    BY <1>1, <2>1, <2>2 DEF Bindings, Pumping
<1>10. CASE RunPump
  <2>1. /\ Starts("pump") /\ step = "idle" /\ step' = "pop" /\ UNCHANGED <<wire, connection, model>>
        /\ subscription' = (IF subscription = Absent THEN Null ELSE subscription)
        /\ found' = subscription'
    BY <1>10 DEF RunPump, Starts, wireVars
  <2>2. \A m : Queued("bind", m, 0)' <=> Queued("bind", m, 0)
    BY <2>1, TakeOther
  <2>3. model > 0
    BY <2>1, HeadIsBound
  <2>4. /\ subscription' <= model
        /\ connection # 0 /\ subscription = connection => subscription' = connection
    BY <1>1, <2>1 DEF Absent, Null
  <2>5. QED
    BY <1>1, <2>1, <2>2, <2>3, <2>4 DEF Bindings, Pumping
<1>11. CASE RunPumpErased
  <2>1. Starts("pump") /\ UNCHANGED <<wire, connection, subscription, step, model, found>>
    BY <1>11 DEF RunPumpErased, wireVars, subscriptionVars, actionVars
  <2>2. \A m : Queued("bind", m, 0)' <=> Queued("bind", m, 0)
    BY <2>1, TakeOther
  <2>3. QED
    BY <1>1, <2>1, <2>2 DEF Bindings, Pumping
<1>12. CASE PopMessage \/ InvokePopped \/ CheckEmpty \/ MoveEntry \/ EraseEntry \/ ReleaseNext
               \/ ReleaseToNull \/ ReleaseDone
  <2>1. UNCHANGED <<wire, connection, subscription, queue, model, found>>
    BY <1>12 DEF PopMessage, PopIf, InvokePopped, CheckEmpty, ReleaseIf, MoveEntry, EraseEntry, EraseThen,
         ReleaseNext, ReleaseToNull, ReleaseDone, wireVars, subscriptionVars, actionVars
  <2>2. Pumping /\ step \notin {"idle", "advise", "subscribe"}
    BY <1>12 DEF PopMessage, PopIf, InvokePopped, CheckEmpty, ReleaseIf, MoveEntry, EraseEntry, EraseThen,
         ReleaseNext, ReleaseToNull, ReleaseDone, Pumping
  <2>3. QED
    BY <1>1, <2>1, <2>2 DEF Bindings, Queued, Pumping
<1>13. CASE UNCHANGED vars
  BY <1>13 DEF vars, wireVars, subscriptionVars, actionVars, Bindings, Queued, Pumping
<1>14. QED
  BY <1>2, <1>3, <1>4, <1>5, <1>6, <1>7, <1>8, <1>9, <1>10, <1>11, <1>12, <1>13
     DEF Next, RunWire, RunScheduler

-----------------------------------------------------------------------------
(* The containers. *)

LEMMA DefaultGrows ==
    ASSUME TypeOK, Rises(default_scheduler_messages),
           default_scheduler_messages' = Append(default_scheduler_messages, dispatched + 1)
    PROVE  /\ \A m : InDefault(m)' <=> InDefault(m) \/ m = dispatched + 1
           /\ default_scheduler_messages' # <<>>
           /\ Head(default_scheduler_messages') =
                 IF default_scheduler_messages = <<>> THEN dispatched + 1
                 ELSE Head(default_scheduler_messages)
           /\ Rises(default_scheduler_messages)'
<1>1. default_scheduler_messages \in Seq(Nat) /\ dispatched + 1 \in Nat
  <2>1. dispatched + 1 \in Nat
    BY Numbers
  <2>2. QED
    BY <2>1, Waiters
<1>2. \A m : In(default_scheduler_messages, m) => m < dispatched + 1
  BY Waiters, Numbers DEF InDefault
<1>3. Rises(Append(default_scheduler_messages, dispatched + 1))
  BY <1>1, <1>2, RisesOn
<1>4. QED
  BY <1>1, <1>3, InAppend DEF InDefault

LEMMA CustomGrows ==
    ASSUME TypeOK, Rises(custom_scheduler_messages),
           custom_scheduler_messages' = Append(custom_scheduler_messages, dispatched + 1)
    PROVE  /\ \A m : InCustom(m)' <=> InCustom(m) \/ m = dispatched + 1
           /\ Rises(custom_scheduler_messages)'
<1>1. custom_scheduler_messages \in Seq(Nat) /\ dispatched + 1 \in Nat
  <2>1. dispatched + 1 \in Nat
    BY Numbers
  <2>2. QED
    BY <2>1, Waiters
<1>2. \A m : In(custom_scheduler_messages, m) => m < dispatched + 1
  BY Waiters, Numbers DEF InCustom
<1>3. Rises(Append(custom_scheduler_messages, dispatched + 1))
  BY <1>1, <1>2, RisesOn
<1>4. QED
  BY <1>1, <1>3, InAppend DEF InCustom

\* A pop takes the oldest message.
LEMMA PopTakes ==
    ASSUME TypeOK, Stages, Pumps, PopMessage
    PROVE  /\ message' = Head(default_scheduler_messages) /\ message' \in 1..dispatched
           /\ InDefault(message')
           /\ \A m : InDefault(m) <=> InDefault(m)' \/ m = message'
           /\ \A m : InDefault(m)' => message' < m
           /\ Rises(default_scheduler_messages)'
<1>1. /\ default_scheduler_messages # <<>> /\ default_scheduler_messages \in Seq(Nat)
      /\ Rises(default_scheduler_messages)
      /\ Head(default_scheduler_messages) \in 1..dispatched
      /\ InDefault(Head(default_scheduler_messages))
  BY Waiters DEF PopMessage, PopIf, Pumps, Stages
<1>2. message' = Head(default_scheduler_messages)
      /\ default_scheduler_messages' = Tail(default_scheduler_messages)
  BY <1>1 DEF PopMessage, PopIf, Waiting
<1>3. QED
  BY <1>1, <1>2, InTail, RisesOn DEF InDefault

LEMMA ReleaseTakes ==
    ASSUME TypeOK, Stages, ReleaseNext
    PROVE  /\ Head(released) \in 1..dispatched /\ InReleased(Head(released))
           /\ \A m : InReleased(m) <=> InReleased(m)' \/ m = Head(released)
           /\ \A m : InReleased(m)' => Head(released) < m
           /\ Rises(released)'
<1>1. /\ released # <<>> /\ released \in Seq(Nat) /\ Rises(released)
      /\ released' = Tail(released)
      /\ Head(released) \in 1..dispatched /\ InReleased(Head(released))
  BY Waiters DEF ReleaseNext, Stages
<1>2. QED
  BY <1>1, InTail, RisesOn DEF InReleased

LEMMA NothingInEmpty ==
    /\ Rises(<<>>)
    /\ \A m : ~In(<<>>, m)
<1>1. Len(<<>>) = 0
  BY EmptySeq
<1>2. QED
  BY <1>1 DEF Rises, In

LEMMA StagesStep == TypeOK /\ Stages /\ Pumps /\ [Next]_vars => Stages'
<1> SUFFICES ASSUME TypeOK, Stages, Pumps, [Next]_vars PROVE Stages'
  OBVIOUS
<1> USE Numbers
<1>1. /\ Rises(default_scheduler_messages) /\ Rises(custom_scheduler_messages) /\ Rises(released)
      /\ entry = 0 => default_scheduler_messages = <<>> /\ custom_scheduler_messages = <<>>
      /\ step \in {"pop", "invoke", "check", "move", "erase"} => entry # 0
      /\ step \notin {"erase", "release"} => released = <<>>
      /\ step # "invoke" => message = 0
      /\ ~custom => custom_scheduler_messages = <<>> /\ released = <<>>
      /\ custom => \A m, with : ~Queued("invoke", m, with)
      /\ step = "move" => \A m : InDefault(m) => m \in gap
      /\ step = "erase" => \A m : InDefault(m) \/ InCustom(m) => m \in gap
      /\ entries <= dispatched
  BY DEF Stages
<1>2. CASE Connect
  <2>1. /\ UNCHANGED <<custom, dispatched, gap, entry, entries, default_scheduler_messages,
                       custom_scheduler_messages, step, message, released>>
        /\ \A m, with : Queued("invoke", m, with)' => Queued("invoke", m, with)
    BY <1>2, QueueGrows DEF Connect, Bind, messageVars, entryVars, actionVars
  <2>2. QED
    BY <1>1, <2>1 DEF Stages, InDefault, InCustom
<1>3. CASE Disconnect \/ Unbind
  <2>1. UNCHANGED <<custom, dispatched, gap, entry, entries, default_scheduler_messages,
                    custom_scheduler_messages, step, message, released, queue>>
    BY <1>3 DEF Disconnect, Unbind, messageVars, entryVars, actionVars
  <2>2. QED
    BY <1>1, <2>1 DEF Stages, InDefault, InCustom, Queued
<1>4. CASE Dispatch
  <2>1. /\ UNCHANGED <<custom, step, message, released>> /\ gap \subseteq gap'
        /\ step \in {"move", "erase"} => dispatched + 1 \in gap'
        /\ dispatched' = dispatched + 1
    BY <1>4 DEF Dispatch, actionVars, GivesUp
  <2>2. CASE DispatchUnbound
    <3>1. /\ \A m : InDefault(m)' <=> InDefault(m) \/ m = dispatched + 1
          /\ Rises(default_scheduler_messages)'
      BY <1>1, <2>2, DefaultGrows DEF DispatchUnbound
    <3>2. custom_scheduler_messages' = custom_scheduler_messages
          /\ \A m, with : Queued("invoke", m, with)' => Queued("invoke", m, with)
      BY <2>2, QueueGrows DEF DispatchUnbound, Pump
    <3>3. entry' # 0 /\ entries' <= dispatched'
      BY <1>1, <2>1, <2>2 DEF DispatchUnbound
    <3>4. QED
      BY <1>1, <2>1, <3>1, <3>2, <3>3 DEF Stages, InCustom
  <2>3. CASE DispatchDefault \/ DispatchDestroyed
    <3>1. UNCHANGED <<entry, entries, default_scheduler_messages, custom_scheduler_messages>>
      BY <2>3 DEF DispatchDefault, DispatchDestroyed, entryVars
    <3>2. custom => \A m, with : ~Queued("invoke", m, with)'
      <4>1. custom => queue' = queue
        BY <2>3 DEF DispatchDefault, DispatchDestroyed
      <4>2. QED
        BY <1>1, <4>1 DEF Queued
    <3>3. QED
      BY <1>1, <2>1, <3>1, <3>2 DEF Stages, InDefault, InCustom
  <2>4. CASE DispatchCustom
    <3>1. custom /\ UNCHANGED <<entry, entries, default_scheduler_messages, queue>>
      BY <2>4 DEF DispatchCustom, DeliverOrQueue
    <3>2. CASE entry = 0
      <4>1. custom_scheduler_messages' = custom_scheduler_messages
        BY <2>4, <3>2 DEF DispatchCustom, DeliverOrQueue
      <4>2. QED
        BY <1>1, <2>1, <3>1, <4>1 DEF Stages, InDefault, InCustom, Queued
    <3>3. CASE entry # 0
      <4>1. /\ \A m : InCustom(m)' <=> InCustom(m) \/ m = dispatched + 1
            /\ Rises(custom_scheduler_messages)'
        BY <1>1, <2>4, <3>3, CustomGrows DEF DispatchCustom, DeliverOrQueue
      <4>2. QED
        BY <1>1, <2>1, <3>1, <3>3, <4>1 DEF Stages, InDefault, Queued
    <3>4. QED
      BY <3>2, <3>3
  <2>5. QED
    BY <1>4, <2>2, <2>3, <2>4 DEF Dispatch
<1>5. CASE RunBind \/ RunInvoke \/ RunPumpErased \/ RunPump
  <2>1. UNCHANGED <<custom, dispatched, gap, entry, entries, default_scheduler_messages,
                    custom_scheduler_messages, message, released>>
    BY <1>5 DEF RunBind, RunInvoke, RunPumpErased, RunPump, messageVars, entryVars, actionVars
  <2>2. /\ step = "idle" /\ step' \in {"idle", "advise", "pop"}
        /\ step' = "pop" => entry # 0
    <3>1. CASE RunPump
      <4>1. Starts("pump") /\ Head(queue).with = entry /\ step' = "pop"
        BY <3>1 DEF RunPump
      <4>2. Head(queue) \in Actions /\ Head(queue).kind = "pump"
        BY <4>1, Records, InTail DEF Starts
      <4>3. Head(queue).with \in 1..entries
        BY <4>2 DEF Actions
      <4>4. QED
        BY <4>1, <4>3 DEF Starts
    <3>2. CASE RunBind \/ RunInvoke \/ RunPumpErased
      BY <3>2 DEF RunBind, RunInvoke, RunPumpErased, Starts
    <3>3. QED
      BY <1>5, <3>1, <3>2
  <2>3. \A m, with : Queued("invoke", m, with)' => Queued("invoke", m, with)
    <3>1. queue \in Seq(Actions) /\ queue # <<>> /\ queue' = Tail(queue)
      BY <1>5, Records DEF RunBind, RunInvoke, RunPumpErased, RunPump, Starts
    <3>2. QED
      BY <3>1, InTail DEF Queued
  <2>4. QED
    BY <1>1, <2>1, <2>2, <2>3 DEF Stages, InDefault, InCustom
<1>6. CASE CheckTerminated \/ Subscribe \/ AddAction
  <2>1. UNCHANGED <<custom, dispatched, gap, entry, entries, default_scheduler_messages,
                    custom_scheduler_messages, message, released, queue>>
    BY <1>6 DEF CheckTerminated, Subscribe, AddAction, messageVars, entryVars, actionVars
  <2>2. /\ step \in {"advise", "subscribe", "action"}
        /\ step' \in {"idle", "subscribe", "action"}
    BY <1>6 DEF CheckTerminated, Subscribe, AddAction
  <2>3. QED
    BY <1>1, <2>1, <2>2 DEF Stages, InDefault, InCustom, Queued
<1>7. CASE PopMessage
  <2>1. /\ UNCHANGED <<custom, dispatched, gap, entry, entries, custom_scheduler_messages, released, queue>>
        /\ step = "pop" /\ step' = "invoke"
    BY <1>7 DEF PopMessage, PopIf, messageVars
  <2>2. Rises(default_scheduler_messages)'
    BY <1>7, PopTakes
  <2>3. QED
    BY <1>1, <2>1, <2>2 DEF Stages, InDefault, InCustom, Queued
<1>8. CASE InvokePopped \/ CheckEmpty
  <2>1. /\ UNCHANGED <<custom, dispatched, gap, entry, entries, default_scheduler_messages,
                       custom_scheduler_messages, released, queue>>
        /\ step \in {"invoke", "check"} /\ step' \in {"check", "move", "idle"} /\ message' = 0
        /\ step' = "move" => default_scheduler_messages = <<>>
    BY <1>1, <1>8 DEF InvokePopped, CheckEmpty, ReleaseIf, Waiting, messageVars, entryVars, actionVars
  <2>2. QED
    BY <1>1, <2>1, NothingInEmpty DEF Stages, InDefault, InCustom, Queued
<1>9. CASE MoveEntry
  <2>1. /\ UNCHANGED <<custom, dispatched, gap, entry, entries, message, queue>>
        /\ step = "move" /\ step' = "erase" /\ released' = custom_scheduler_messages
        /\ default_scheduler_messages' = <<>> /\ custom_scheduler_messages' = <<>>
    BY <1>9 DEF MoveEntry, messageVars
  <2>2. QED
    BY <1>1, <2>1, NothingInEmpty DEF Stages, InDefault, InCustom, Queued
<1>10. CASE EraseEntry
  <2>1. /\ UNCHANGED <<custom, dispatched, gap, entries, message, queue, released>>
        /\ step = "erase" /\ step' = "release" /\ entry' = 0
        /\ default_scheduler_messages' = <<>> /\ custom_scheduler_messages' = <<>>
    BY <1>10 DEF EraseEntry, EraseThen, messageVars, actionVars
  <2>2. QED
    BY <1>1, <2>1, NothingInEmpty DEF Stages, InDefault, InCustom, Queued
<1>11. CASE ReleaseNext
  <2>1. /\ UNCHANGED <<custom, dispatched, gap, entry, entries, default_scheduler_messages,
                       custom_scheduler_messages, message, queue, step>>
        /\ step = "release" /\ released # <<>>
    BY <1>11 DEF ReleaseNext, messageVars, entryVars
  <2>2. Rises(released)'
    BY <1>11, ReleaseTakes
  <2>3. QED
    BY <1>1, <2>1, <2>2 DEF Stages, InDefault, InCustom, Queued
<1>12. CASE ReleaseToNull \/ ReleaseDone
  <2>1. /\ UNCHANGED <<custom, dispatched, gap, entry, entries, default_scheduler_messages,
                       custom_scheduler_messages, message, queue, released>>
        /\ step = "release" /\ (step' = "release" \/ (step' = "idle" /\ released = <<>>))
    BY <1>12 DEF ReleaseToNull, ReleaseDone, messageVars, entryVars, actionVars
  <2>2. QED
    BY <1>1, <2>1 DEF Stages, InDefault, InCustom, Queued
<1>13. CASE UNCHANGED vars
  BY <1>1, <1>13 DEF vars, messageVars, entryVars, actionVars, Stages, InDefault, InCustom, Queued
<1>14. QED
  BY <1>2, <1>3, <1>4, <1>5, <1>6, <1>7, <1>8, <1>9, <1>10, <1>11, <1>12, <1>13
     DEF Next, RunWire, RunScheduler

-----------------------------------------------------------------------------
(* The messages that wait in the entry and their actions. *)

\* The action that runs is the one of the oldest message in the entry.
LEMMA HeadPump ==
    ASSUME TypeOK, QueueInOrder, Stages, Pumps, Starts("pump"), Head(queue).with = entry
    PROVE  \E a :
              /\ Takes("pump", a, entry) /\ Queued("pump", a, entry)
              /\ InDefault(a) /\ default_scheduler_messages # <<>>
              /\ a = Head(default_scheduler_messages) /\ a \in 1..dispatched
              /\ \A k, m, w : Queued(k, m, w)' /\ k # "bind" => a < m
              /\ \A k, m, w : Queued(k, m, w) <=>
                    Queued(k, m, w)' \/ (k = "pump" /\ m = a /\ w = entry)
<1>1. step = "idle" /\ ~Moves
  BY DEF Starts, Moves
<1>2. PICK a, b : Takes("pump", a, b)
  BY TakeHead
<1>3. /\ b = entry /\ Queued("pump", a, entry)
      /\ \A k, m, w : Queued(k, m, w)' /\ k # "bind" => a < m
      /\ \A k, m, w : Queued(k, m, w) <=>
            Queued(k, m, w)' \/ (k = "pump" /\ m = a /\ w = entry)
  <2>1. b = entry
    BY <1>2 DEF Takes
  <2>2. \A k, m, w : Queued(k, m, w)' /\ k # "bind" => a < m
    BY <1>2 DEF Takes, Before
  <2>3. QED
    BY <1>2, <2>1, <2>2 DEF Takes
<1>4. InDefault(a) /\ default_scheduler_messages # <<>>
  <2>1. InDefault(a)
    BY <1>1, <1>3 DEF Pumps
  <2>2. QED
    BY <2>1, NothingInEmpty DEF InDefault
<1>5. a = Head(default_scheduler_messages)
  <2> DEFINE h == Head(default_scheduler_messages)
  <2>1. InDefault(h) /\ h \in Nat /\ a \in Nat
    BY <1>4, Waiters, Numbers
  <2>2. a = h \/ h < a
    <3>1. a = h \/ In(Tail(default_scheduler_messages), a)
      BY <1>4, Waiters, InTail DEF InDefault
    <3>2. QED
      BY <1>4, <3>1, Waiters, RisesOn DEF Stages
  <2>3. Queued("pump", h, entry)
    BY <1>1, <2>1 DEF Pumps
  <2>4. h = a \/ a < h
    BY <1>3, <2>3
  <2>5. a = h
    <3> HIDE DEF h
    <3>1. QED
      BY <2>1, <2>2, <2>4
  <2>6. QED
    BY <2>5
<1>6. a \in 1..dispatched
  BY <1>4, Waiters
<1>7. QED
  BY <1>2, <1>3, <1>4, <1>5, <1>6

LEMMA PumpsStep ==
    TypeOK /\ QueueInOrder /\ Bindings /\ Stages /\ Pumps /\ Hand /\ [Next]_vars => Pumps'
<1> SUFFICES ASSUME TypeOK, QueueInOrder, Bindings, Stages, Pumps, Hand, [Next]_vars PROVE Pumps'
  OBVIOUS
<1> USE Numbers
<1>1. /\ \A m, n : Queued("pump", m, n) =>
            IF n = entry /\ ~Moves THEN InDefault(m) ELSE m \in gap /\ sentOn[m] > 1
      /\ ~Moves => \A m : InDefault(m) =>
            Queued("pump", m, entry) \/ (step = "pop" /\ m = Head(default_scheduler_messages))
      /\ step = "pop" => default_scheduler_messages # <<>>
      /\ \A m, n : Queued("pump", m, n) => m \in 1..dispatched /\ n \in 1..entries
  BY Records DEF Pumps
<1>2. CASE Connect
  <2>1. /\ UNCHANGED <<sentOn, gap, entry, default_scheduler_messages, step>>
        /\ \A m, n : Queued("pump", m, n)' <=> Queued("pump", m, n)
    BY <1>2, QueueGrows DEF Connect, Bind, messageVars, entryVars
  <2>2. \A m : Queued("pump", m, entry)' <=> Queued("pump", m, entry)
    BY <2>1 DEF Queued
  <2>3. QED
    BY <1>1, <2>1, <2>2 DEF Pumps, InDefault, Moves
<1>3. CASE Dispatch
  <2>1. /\ step' = step /\ gap \subseteq gap' /\ (Moves => dispatched + 1 \in gap')
        /\ wire = "up" /\ connection # 0
    BY <1>3 DEF Dispatch, GivesUp, Moves, Bindings
  <2>2. \A m \in 1..dispatched : sentOn'[m] = sentOn[m]
    BY <1>3, Sends
  <2>3. CASE DispatchUnbound
    <3>1. /\ \A m : InDefault(m)' <=> InDefault(m) \/ m = dispatched + 1
          /\ default_scheduler_messages' # <<>>
          /\ default_scheduler_messages # <<>> =>
                Head(default_scheduler_messages') = Head(default_scheduler_messages)
      BY <2>3, DefaultGrows DEF DispatchUnbound, Stages
    <3>2. \A m, n : Queued("pump", m, n)' <=>
             Queued("pump", m, n) \/ (m = dispatched + 1 /\ n = entry')
      BY <2>3, QueueGrows DEF DispatchUnbound, Pump
    <3>3. IF entry = 0 THEN entry' = entries + 1 ELSE entry' = entry
      BY <2>3 DEF DispatchUnbound
    <3>4. Moves => dispatched + 1 \in gap' /\ sentOn'[dispatched + 1] > 1
      <4>1. SUFFICES ASSUME Moves PROVE connection > 1
        BY <1>3, <2>1, Sends
      <4>2. subscription # connection
        BY <2>1, <2>3 DEF DispatchUnbound, Absent, Null
      <4>3. Queued("bind", connection, 0)
        BY <2>1, <4>1, <4>2 DEF Bindings, Moves
      <4>4. model < connection /\ model > 0
        BY <2>1, <4>1, <4>3 DEF Bindings, Moves
      <4>5. QED
        BY <4>4
    <3>5. ASSUME NEW m, NEW n, Queued("pump", m, n)'
          PROVE  IF n = entry' /\ ~Moves THEN InDefault(m)' ELSE m \in gap' /\ sentOn'[m] > 1
      <4>1. CASE Queued("pump", m, n)
        <5>1. n = entry' <=> n = entry
          BY <1>1, <3>3, <4>1
        <5>2. QED
          BY <1>1, <2>1, <2>2, <3>1, <4>1, <5>1
      <4>2. CASE m = dispatched + 1 /\ n = entry'
        BY <3>1, <3>4, <4>2
      <4>3. QED
        BY <3>2, <3>5, <4>1, <4>2
    <3>6. ASSUME ~Moves, NEW m, InDefault(m)'
          PROVE  \/ Queued("pump", m, entry)'
                 \/ step = "pop" /\ m = Head(default_scheduler_messages')
      <4>1. CASE m = dispatched + 1
        BY <3>2, <4>1 DEF Queued
      <4>2. CASE InDefault(m)
        <5>1. default_scheduler_messages # <<>> /\ entry # 0
          BY <4>2, NothingInEmpty DEF InDefault, Stages
        <5>2. Queued("pump", m, entry) => Queued("pump", m, entry)'
          BY <3>2, <3>3, <5>1 DEF Queued
        <5>3. QED
          BY <1>1, <3>1, <3>6, <4>2, <5>1, <5>2
      <4>3. QED
        BY <3>1, <3>6, <4>1, <4>2
    <3>7. QED
      BY <2>1, <3>1, <3>5, <3>6 DEF Pumps, Moves
  <2>4. CASE ~DispatchUnbound
    <3>1. UNCHANGED <<entry, default_scheduler_messages>>
      BY <1>3, <2>4 DEF Dispatch, DispatchDefault, DispatchCustom, DeliverOrQueue,
                        DispatchDestroyed, entryVars
    <3>2. \A m, n : Queued("pump", m, n)' <=> Queued("pump", m, n)
      <4>1. CASE queue' = queue
        BY <4>1 DEF Queued
      <4>2. CASE queue' = Append(queue, [kind |-> "invoke", of |-> dispatched + 1, with |-> subscription])
        BY <4>2, QueueGrows
      <4>3. QED
        BY <1>3, <2>4, <4>1, <4>2, DispatchQueues
    <3>3. \A m : Queued("pump", m, entry)' <=> Queued("pump", m, entry)
      BY <3>1, <3>2 DEF Queued
    <3>4. QED
      BY <1>1, <2>1, <2>2, <3>1, <3>2, <3>3 DEF Pumps, InDefault, Moves
  <2>5. QED
    BY <2>3, <2>4
<1>4. CASE RunBind \/ RunInvoke
  <2>1. /\ UNCHANGED <<sentOn, gap, entry, default_scheduler_messages>>
        /\ step = "idle" /\ step' \in {"idle", "advise"}
    BY <1>4 DEF RunBind, RunInvoke, Starts, messageVars, entryVars
  <2>2. PICK kind \in {"bind", "invoke"} : Starts(kind)
    BY <1>4 DEF RunBind, RunInvoke
  <2>3. PICK a, b : Takes(kind, a, b)
    BY <2>2, TakeHead
  <2>4. \A m, n : Queued("pump", m, n)' <=> Queued("pump", m, n)
    BY <2>2, <2>3 DEF Takes
  <2>5. \A m : Queued("pump", m, entry)' <=> Queued("pump", m, entry)
    BY <2>1, <2>4 DEF Queued
  <2>6. QED
    BY <1>1, <2>1, <2>4, <2>5 DEF Pumps, InDefault, Moves
<1>5. CASE RunPump
  <2>1. /\ UNCHANGED <<sentOn, gap, entry, default_scheduler_messages>>
        /\ step = "idle" /\ step' = "pop" /\ Starts("pump") /\ Head(queue).with = entry
    BY <1>5 DEF RunPump, Starts, messageVars, entryVars
  <2>2. PICK a :
           /\ Takes("pump", a, entry) /\ Queued("pump", a, entry)
           /\ InDefault(a) /\ default_scheduler_messages # <<>>
           /\ a = Head(default_scheduler_messages)
           /\ \A k, m, w : Queued(k, m, w) <=>
                 Queued(k, m, w)' \/ (k = "pump" /\ m = a /\ w = entry)
    BY <2>1, HeadPump
  <2>3. \A m : InDefault(m) => Queued("pump", m, entry)' \/ m = a
    <3>1. \A m : Queued("pump", m, entry) => Queued("pump", m, entry)' \/ m = a
      BY <2>1, <2>2 DEF Queued
    <3>2. QED
      BY <1>1, <2>1, <3>1 DEF Moves
  <2>4. QED
    BY <1>1, <2>1, <2>2, <2>3 DEF Pumps, InDefault, Moves
<1>6. CASE RunPumpErased
  <2>1. /\ UNCHANGED <<sentOn, gap, entry, default_scheduler_messages, step>>
        /\ step = "idle" /\ Starts("pump") /\ Head(queue).with # entry
    BY <1>6 DEF RunPumpErased, Starts, messageVars, entryVars
  <2>2. PICK a, b : Takes("pump", a, b)
    BY <2>1, TakeHead
  <2>3. /\ b # entry
        /\ \A m, n : Queued("pump", m, n) <=> Queued("pump", m, n)' \/ (m = a /\ n = b)
    BY <2>1, <2>2 DEF Takes
  <2>4. \A m : Queued("pump", m, entry) => Queued("pump", m, entry)'
    BY <2>1, <2>3 DEF Queued
  <2>5. QED
    BY <1>1, <2>1, <2>3, <2>4 DEF Pumps, InDefault, Moves
<1>7. CASE PopMessage
  <2>1. /\ UNCHANGED <<sentOn, gap, entry, queue>> /\ step = "pop" /\ step' = "invoke"
    BY <1>7 DEF PopMessage, PopIf, messageVars
  <2>2. /\ InHand(message') /\ message' = Head(default_scheduler_messages)
        /\ message' \in 1..dispatched
        /\ \A m : InDefault(m) <=> InDefault(m)' \/ m = message'
        /\ \A m : InDefault(m)' => message' < m /\ m # message'
    BY <1>7, <2>1, PopTakes DEF InHand
  <2>3. \A m, n : Queued("pump", m, n) => message' < m /\ m # message'
    <3>1. \A m, n : Queued("pump", m, n) => message' < m
      BY <2>2 DEF Hand
    <3>2. QED
      BY <1>1, <2>2, <3>1
  <2>4. \A m, n : Queued("pump", m, n)' <=> Queued("pump", m, n)
    BY <2>1 DEF Queued
  <2>5. \A m : Queued("pump", m, entry)' <=> Queued("pump", m, entry)
    BY <2>1 DEF Queued
  <2>6. QED
    BY <1>1, <2>1, <2>2, <2>3, <2>4, <2>5 DEF Pumps, Moves
<1>8. CASE CheckEmpty
  <2>1. /\ UNCHANGED <<sentOn, gap, entry, queue, default_scheduler_messages>>
        /\ step = "check" /\ step' \in {"idle", "move"}
        /\ step' = "move" => default_scheduler_messages = <<>>
    BY <1>8 DEF CheckEmpty, ReleaseIf, Waiting, messageVars, entryVars
  <2>2. step' = "move" => \A m : ~InDefault(m)
    BY <2>1, NothingInEmpty DEF InDefault
  <2>3. QED
    BY <1>1, <2>1, <2>2 DEF Pumps, InDefault, Queued, Moves
<1>9. CASE MoveEntry
  <2>1. UNCHANGED <<sentOn, gap, entry, queue>> /\ step = "move" /\ step' = "erase"
    BY <1>9 DEF MoveEntry, messageVars
  <2>2. QED
    BY <1>1, <2>1 DEF Pumps, Queued, Moves
<1>10. CASE EraseEntry
  <2>1. UNCHANGED <<sentOn, gap, queue>> /\ step = "erase" /\ step' = "release" /\ entry' = 0
        /\ default_scheduler_messages' = <<>>
    BY <1>10 DEF EraseEntry, EraseThen, messageVars
  <2>2. \A m : ~InDefault(m)'
    BY <2>1, NothingInEmpty DEF InDefault
  <2>3. \A m, n : Queued("pump", m, n)' => Queued("pump", m, n) /\ n # 0
    BY <1>1, <2>1 DEF Queued
  <2>4. QED
    BY <1>1, <2>1, <2>2, <2>3 DEF Pumps, Moves
<1>11. CASE Disconnect \/ Unbind \/ CheckTerminated \/ Subscribe \/ AddAction
              \/ InvokePopped \/ ReleaseNext \/ ReleaseToNull \/ ReleaseDone \/ UNCHANGED vars
  <2>1. /\ UNCHANGED <<sentOn, gap, entry, queue, default_scheduler_messages>>
        /\ step' = step \/ (~Moves /\ ~Moves' /\ step # "pop" /\ step' # "pop")
    BY <1>11 DEF Disconnect, Unbind, CheckTerminated, Subscribe, AddAction, InvokePopped, ReleaseNext,
         ReleaseToNull, ReleaseDone, vars, messageVars, entryVars, Moves
  <2>2. QED
    BY <1>1, <2>1 DEF Pumps, InDefault, Queued, Moves
<1>12. QED
  BY <1>2, <1>3, <1>4, <1>5, <1>6, <1>7, <1>8, <1>9, <1>10, <1>11 DEF Next, RunWire, RunScheduler

-----------------------------------------------------------------------------
(* The messages for an entity of the default scheduler. *)

LEMMA InvokesStep ==
    TypeOK /\ QueueInOrder /\ Bindings /\ Invokes /\ [Next]_vars => Invokes'
<1> SUFFICES ASSUME TypeOK, QueueInOrder, Bindings, Invokes, [Next]_vars PROVE Invokes'
  OBVIOUS
<1> USE Numbers
<1>1. /\ \A m, e : Queued("invoke", m, e) =>
            IF m \in strays
            THEN e < sentOn[m] /\ (e # model \/ Queued("bind", sentOn[m], 0))
            ELSE e = sentOn[m] /\ e = model
      /\ \A m, e : Queued("invoke", m, e) => m \in 1..dispatched /\ e \in 1..connection
  BY Records DEF Invokes
<1>2. CASE Connect
  <2>1. UNCHANGED <<sentOn, strays, model>>
    BY <1>2 DEF Connect, messageVars
  <2>2. /\ \A m, e : Queued("invoke", m, e)' => Queued("invoke", m, e)
        /\ \A c : Queued("bind", c, 0) => Queued("bind", c, 0)'
    BY <1>2, QueueGrows DEF Connect, Bind
  <2>3. \A m : Queued("bind", sentOn[m], 0) => Queued("bind", sentOn[m], 0)'
    BY <2>1, <2>2 DEF Queued
  <2>4. QED
    BY <1>1, <2>1, <2>2, <2>3 DEF Invokes
<1>3. CASE Dispatch
  <2>1. /\ model' = model /\ connection # 0
        /\ strays' = IF subscription \in 1..connection-1 THEN strays \cup {dispatched + 1} ELSE strays
        /\ \A m \in 1..dispatched : sentOn'[m] = sentOn[m] /\ m # dispatched + 1
        /\ sentOn'[dispatched + 1] = connection
    BY <1>3, Sends DEF Dispatch, Bindings
  <2>2. \A m \in 1..dispatched : Queued("bind", sentOn[m], 0) => Queued("bind", sentOn[m], 0)'
    BY <1>3, <2>1, DispatchBinds DEF Queued
  <2>3. ASSUME NEW m, NEW e, Queued("invoke", m, e)
        PROVE  IF m \in strays'
               THEN e < sentOn'[m] /\ (e # model \/ Queued("bind", sentOn[m], 0)')
               ELSE e = sentOn'[m] /\ e = model
    <3>1. m \in 1..dispatched /\ (m \in strays' <=> m \in strays)
      BY <1>1, <2>1, <2>3
    <3>2. QED
      BY <1>1, <2>1, <2>2, <2>3, <3>1
  <2>4. CASE DispatchDefault
    <3>1. /\ subscription > 0 /\ subscription = model
          /\ \A m, e : Queued("invoke", m, e)' <=>
                Queued("invoke", m, e) \/ (m = dispatched + 1 /\ e = subscription)
      BY <2>4, QueueGrows DEF DispatchDefault, Invoke
    <3>2. subscription \in 1..connection-1 =>
             \A m : m = dispatched + 1 => Queued("bind", sentOn[m], 0)'
      <4>1. subscription \in 1..connection-1 => Queued("bind", connection, 0)'
        BY <1>3, <2>1, <3>1, DispatchBinds DEF Bindings, Dispatch, wireVars, Queued
      <4>2. connection' = connection
        BY <1>3 DEF Dispatch, wireVars
      <4>3. QED
        BY <2>1, <4>1, <4>2 DEF Queued
    <3>3. subscription \notin 1..connection-1 => subscription = connection
                                                  /\ dispatched + 1 \notin strays'
      <4>1. dispatched + 1 \notin strays
        BY DEF TypeOK
      <4>2. QED
        BY <2>1, <3>1, <4>1
    <3>4. \A m : m = dispatched + 1 =>
             IF m \in strays'
             THEN subscription < sentOn'[m] /\ Queued("bind", sentOn[m], 0)'
             ELSE subscription = sentOn'[m] /\ subscription = model
      BY <2>1, <3>1, <3>2, <3>3
    <3>5. QED
      BY <2>1, <2>3, <3>1, <3>4 DEF Invokes
  <2>5. CASE ~DispatchDefault
    <3>1. \A m, e : Queued("invoke", m, e)' => Queued("invoke", m, e)
      <4>1. CASE queue' = queue
        BY <4>1 DEF Queued
      <4>2. CASE queue' = Append(queue, [kind |-> "pump", of |-> dispatched + 1, with |-> entry'])
        BY <4>2, QueueGrows
      <4>3. QED
        BY <1>3, <2>5, <4>1, <4>2, DispatchQueues
    <3>2. QED
      BY <2>1, <2>3, <3>1 DEF Invokes
  <2>6. QED
    BY <2>4, <2>5
<1>4. CASE RunBind
  <2>1. /\ UNCHANGED <<sentOn, strays>> /\ model' = Head(queue).of /\ Starts("bind")
    BY <1>4 DEF RunBind, messageVars
  <2>2. PICK a, b : Takes("bind", a, b)
    BY <2>1, TakeHead
  <2>3. /\ model' = a /\ Queued("bind", a, b) /\ a \in 1..connection /\ b = 0
        /\ \A k, m, w : Queued(k, m, w)' => Queued(k, m, w)
        /\ \A c : Queued("bind", c, 0) => Queued("bind", c, 0)' \/ c = a
    BY <2>1, <2>2, Records DEF Takes
  <2>4. \A m, e : Queued("invoke", m, e)' => a <= sentOn[m]
    BY <2>2 DEF Takes, Before
  <2>5. model < a
    BY <2>3 DEF Bindings
  <2>6. ASSUME NEW m, NEW e, Queued("invoke", m, e)'
        PROVE  m \in strays /\ e < sentOn[m] /\ (e # a \/ Queued("bind", sentOn[m], 0)')
    <3>1. Queued("invoke", m, e) /\ a <= sentOn[m] /\ sentOn[m] \in 1..connection
          /\ e \in 1..connection
      BY <1>1, <2>3, <2>4, <2>6
    <3>2. m \in strays /\ e < sentOn[m]
      BY <1>1, <2>3, <2>5, <3>1
    <3>3. Queued("bind", sentOn[m], 0)
      BY <2>3, <2>5, <3>1 DEF Bindings
    <3>4. Queued("bind", sentOn[m], 0)' \/ sentOn[m] = a
      BY <2>1, <2>3, <3>3 DEF Queued
    <3>5. QED
      BY <3>1, <3>2, <3>4
  <2>7. QED
    BY <2>1, <2>3, <2>6 DEF Invokes
<1>5. CASE RunInvoke \/ RunPump \/ RunPumpErased
  <2>1. UNCHANGED <<sentOn, strays, model>>
    BY <1>5 DEF RunInvoke, RunPump, RunPumpErased, messageVars
  <2>2. PICK kind \in {"invoke", "pump"} : Starts(kind)
    BY <1>5 DEF RunInvoke, RunPump, RunPumpErased
  <2>3. PICK a, b : Takes(kind, a, b)
    BY <2>2, TakeHead
  <2>4. /\ \A k, m, w : Queued(k, m, w)' => Queued(k, m, w)
        /\ \A c : Queued("bind", c, 0) => Queued("bind", c, 0)'
    BY <2>2, <2>3 DEF Takes
  <2>5. \A m : Queued("bind", sentOn[m], 0) => Queued("bind", sentOn[m], 0)'
    BY <2>1, <2>4 DEF Queued
  <2>6. QED
    BY <1>1, <2>1, <2>4, <2>5 DEF Invokes
<1>6. CASE UNCHANGED <<queue, sentOn, strays, model>>
  BY <1>1, <1>6 DEF Invokes, Queued
<1>7. UNCHANGED <<queue, sentOn, strays, model>>
         \/ Connect \/ Dispatch \/ RunBind \/ RunInvoke \/ RunPump \/ RunPumpErased
  BY DEF Next, RunWire, RunScheduler, Disconnect, Unbind, CheckTerminated, Subscribe, AddAction,
         PopMessage, PopIf, InvokePopped, CheckEmpty, ReleaseIf, MoveEntry, EraseEntry, EraseThen,
         ReleaseNext, ReleaseToNull, ReleaseDone, vars, messageVars
<1>8. QED
  BY <1>2, <1>3, <1>4, <1>5, <1>6, <1>7

-----------------------------------------------------------------------------
(* The message that is popped, and what waits beside it. *)

LEMMA HandStep ==
    TypeOK /\ QueueInOrder /\ Bindings /\ Stages /\ Pumps /\ Hand /\ OfEntity /\ Customs
        /\ [Next]_vars => Hand'
<1> SUFFICES ASSUME TypeOK, QueueInOrder, Bindings, Stages, Pumps, Hand, OfEntity, Customs, [Next]_vars
             PROVE  Hand'
  OBVIOUS
<1> USE Numbers
<1>1. /\ \A m : InHand(m) =>
            /\ IF found = Null THEN Terminated(sentOn[m]) ELSE sentOn[m] = found
            /\ \A kind, n, with : Queued(kind, n, with) /\ kind # "bind" => m < n
            /\ InDefault(m) => step = "pop"
            /\ \A n : InDefault(n) /\ n # m => m < n
            /\ \A n : InCustom(n) => n # m /\ (sentOn[n] = sentOn[m] => m < n)
      /\ \A m : InHand(m) => m \in 1..dispatched
  BY HandIsDispatched DEF Hand
<1>2. CASE Connect
  <2>1. /\ UNCHANGED <<sentOn, default_scheduler_messages, custom_scheduler_messages, step, found, message>>
        /\ connection' = connection + 1
        /\ \A k, m, w : Queued(k, m, w)' /\ k # "bind" => Queued(k, m, w)
    BY <1>2, QueueGrows DEF Connect, Bind, messageVars, entryVars, actionVars
  <2>2. \A m : InHand(m)' <=> InHand(m)
    BY <2>1 DEF InHand
  <2>3. \A m \in 1..dispatched : Terminated(sentOn[m])'
    BY <2>1 DEF Terminated
  <2>4. QED
    BY <1>1, <2>1, <2>2, <2>3 DEF Hand, InDefault, InCustom
<1>3. CASE Disconnect \/ Unbind
  <2>1. /\ UNCHANGED <<sentOn, default_scheduler_messages, custom_scheduler_messages, queue, step,
                       found, message>>
        /\ wire' # "up"
    BY <1>3 DEF Disconnect, Unbind, messageVars, entryVars, actionVars
  <2>2. \A m : Terminated(sentOn[m])'
    BY <2>1 DEF Terminated
  <2>3. QED
    BY <1>1, <2>1, <2>2 DEF Hand, InHand, InDefault, InCustom, Queued
<1>4. CASE Dispatch
  <2>1. /\ UNCHANGED <<wire, connection, step, found, message>>
        /\ \A m \in 1..dispatched : sentOn'[m] = sentOn[m] /\ m < dispatched + 1
    BY <1>4, Sends DEF Dispatch, wireVars, actionVars
  <2>2. /\ \A m : InDefault(m)' => InDefault(m) \/ m = dispatched + 1
        /\ \A m \in 1..dispatched : InDefault(m)' => InDefault(m)
        /\ step = "pop" => Head(default_scheduler_messages') = Head(default_scheduler_messages)
    <3>1. CASE DispatchUnbound
      BY <2>1, <3>1, DefaultGrows DEF DispatchUnbound, Stages, Pumps
    <3>2. CASE ~DispatchUnbound
      BY <1>4, <3>2 DEF Dispatch, DispatchDefault, DispatchCustom, DeliverOrQueue,
                        DispatchDestroyed, entryVars, InDefault
    <3>3. QED
      BY <3>1, <3>2
  <2>3. \A m : InCustom(m)' => InCustom(m) \/ m = dispatched + 1
    <3>1. CASE custom_scheduler_messages' = custom_scheduler_messages
      BY <3>1 DEF InCustom
    <3>2. CASE custom_scheduler_messages' = Append(custom_scheduler_messages, dispatched + 1)
      BY <3>2, CustomGrows DEF Stages
    <3>3. QED
      BY <1>4, <3>1, <3>2 DEF Dispatch, DispatchUnbound, DispatchDefault, DispatchCustom,
                              DeliverOrQueue, DispatchDestroyed, entryVars
  <2>4. \A k, m, w : Queued(k, m, w)' => Queued(k, m, w) \/ m = dispatched + 1
    <3>1. CASE queue' = queue
      BY <3>1 DEF Queued
    <3>2. ASSUME NEW kind, NEW b,
                 queue' = Append(queue, [kind |-> kind, of |-> dispatched + 1, with |-> b])
          PROVE  \A k, m, w : Queued(k, m, w)' => Queued(k, m, w) \/ m = dispatched + 1
      BY <3>2, QueueGrows
    <3>3. QED
      BY <1>4, <3>1, <3>2, DispatchQueues
  <2>5. \A m : InHand(m)' <=> InHand(m)
    BY <2>1, <2>2 DEF InHand
  <2>6. \A m \in 1..dispatched : Terminated(sentOn[m])' <=> Terminated(sentOn[m])
    BY <2>1 DEF Terminated
  <2>7. \A n : InCustom(n) => n \in 1..dispatched
    BY Waiters
  <2>8. SUFFICES ASSUME NEW m, InHand(m)
                 PROVE  /\ IF found' = Null THEN Terminated(sentOn[m])' ELSE sentOn'[m] = found'
                        /\ \A kind, n, with : Queued(kind, n, with)' /\ kind # "bind" => m < n
                        /\ InDefault(m)' => step' = "pop"
                        /\ \A n : InDefault(n)' /\ n # m => m < n
                        /\ \A n : InCustom(n)' => n # m /\ (sentOn'[n] = sentOn'[m] => m < n)
    BY <2>5 DEF Hand
  <2>9. m \in 1..dispatched /\ m < dispatched + 1 /\ m # dispatched + 1 /\ sentOn'[m] = sentOn[m]
    BY <1>1, <2>1, <2>8
  <2>10. IF found' = Null THEN Terminated(sentOn[m])' ELSE sentOn'[m] = found'
    BY <1>1, <2>1, <2>6, <2>8, <2>9
  <2>11. \A n : InCustom(n)' => n # m /\ (sentOn'[n] = sentOn'[m] => m < n)
    BY <1>1, <2>1, <2>3, <2>7, <2>8, <2>9
  <2>12. QED
    BY <1>1, <2>1, <2>2, <2>4, <2>8, <2>9, <2>10, <2>11
<1>5. CASE RunPump
  <2>1. /\ UNCHANGED <<wire, connection, sentOn, default_scheduler_messages, custom_scheduler_messages, message>>
        /\ step = "idle" /\ step' = "pop" /\ Starts("pump") /\ Head(queue).with = entry
        /\ subscription' = (IF subscription = Absent THEN Null ELSE subscription)
        /\ found' = subscription'
    BY <1>5 DEF RunPump, Starts, wireVars, messageVars, entryVars
  <2>2. PICK a :
           /\ Takes("pump", a, entry)
           /\ InDefault(a) /\ default_scheduler_messages # <<>>
           /\ a = Head(default_scheduler_messages) /\ a \in 1..dispatched
           /\ \A k, m, w : Queued(k, m, w)' /\ k # "bind" => a < m
    BY <2>1, HeadPump
  <2>3. \A m : InHand(m)' <=> m = a
    BY <2>1, <2>2 DEF InHand, Stages
  <2>4. Head(queue).of = a /\ sentOn[a] \in 1..connection
    BY <2>2 DEF Takes
  <2>5. found' = Null => Terminated(sentOn[a])'
    <3>1. SUFFICES ASSUME sentOn[a] = connection, wire = "up" PROVE found' # Null
      BY <2>1 DEF Terminated
    <3>2. ~Queued("bind", connection, 0)
      BY <2>1, <2>4, <3>1, HeadIsBound
    <3>3. subscription = connection
      BY <2>1, <3>1, <3>2 DEF Bindings
    <3>4. QED
      BY <2>1, <2>4, <3>3 DEF Absent, Null
  <2>6. found' # Null => sentOn[a] = found'
    BY <2>1, <2>2 DEF OfEntity, Absent, Null
  <2>7. \A n : InDefault(n) /\ n # a => a < n
    <3>1. \A n : InDefault(n) => n = a \/ In(Tail(default_scheduler_messages), n)
      BY <2>2, Waiters, InTail DEF InDefault
    <3>2. \A n : In(Tail(default_scheduler_messages), n) => a < n
      BY <2>2, Waiters, RisesOn DEF Stages
    <3>3. QED
      BY <3>1, <3>2
  <2>8. \A n : InCustom(n) => n # a /\ (sentOn[n] = sentOn[a] => a < n)
    BY <2>2 DEF Customs
  <2>9. \A m : m = a => IF found' = Null THEN Terminated(sentOn[m])' ELSE sentOn'[m] = found'
    BY <2>1, <2>5, <2>6 DEF Terminated
  <2>10. QED
    BY <2>1, <2>2, <2>3, <2>7, <2>8, <2>9 DEF Hand, InDefault, InCustom
<1>6. CASE PopMessage
  <2>1. /\ UNCHANGED <<wire, connection, sentOn, queue, custom_scheduler_messages, found>>
        /\ step = "pop" /\ step' = "invoke"
    BY <1>6 DEF PopMessage, PopIf, wireVars, messageVars
  <2>2. /\ InHand(message')
        /\ \A m : InDefault(m) <=> InDefault(m)' \/ m = message'
        /\ \A m : InDefault(m)' => message' < m
        /\ message' \in 1..dispatched
    BY <1>6, <2>1, PopTakes DEF InHand
  <2>3. \A m : InHand(m)' => m = message'
    BY <2>1 DEF InHand
  <2>4. \A m : InDefault(m)' => message' < m /\ m # message'
    BY <2>2
  <2>5. \A m : m = message' => (Terminated(sentOn[m])' <=> Terminated(sentOn[m]))
    BY <2>1 DEF Terminated
  <2>6. QED
    BY <1>1, <2>1, <2>2, <2>3, <2>4, <2>5 DEF Hand, InCustom, Queued
<1>7. ASSUME step' # "pop", message' = 0 PROVE Hand'
  BY <1>7 DEF Hand, InHand
<1>8. CASE RunBind \/ CheckTerminated \/ Subscribe \/ AddAction \/ RunInvoke \/ RunPumpErased
              \/ InvokePopped \/ CheckEmpty \/ MoveEntry \/ EraseEntry \/ ReleaseNext
              \/ ReleaseToNull \/ ReleaseDone
  BY <1>7, <1>8 DEF Stages, RunBind, RunInvoke, RunPumpErased, Starts, CheckTerminated, Subscribe,
       AddAction, InvokePopped, CheckEmpty, ReleaseIf, MoveEntry, EraseEntry, EraseThen,
       ReleaseNext, ReleaseToNull, ReleaseDone, actionVars
<1>9. CASE UNCHANGED vars
  <2>1. \A m : Terminated(sentOn[m])' <=> Terminated(sentOn[m])
    BY <1>9 DEF vars, wireVars, messageVars, Terminated
  <2>2. QED
    BY <1>1, <1>9, <2>1 DEF vars, messageVars, entryVars, actionVars, Hand, InHand, InDefault,
                            InCustom, Queued
<1>10. QED
  BY <1>2, <1>3, <1>4, <1>5, <1>6, <1>8, <1>9 DEF Next, RunWire, RunScheduler

LEMMA OfEntityStep ==
    TypeOK /\ QueueInOrder /\ Stages /\ Pumps /\ OfEntity /\ [Next]_vars => OfEntity'
<1> SUFFICES ASSUME TypeOK, QueueInOrder, Stages, Pumps, OfEntity, [Next]_vars PROVE OfEntity'
  OBVIOUS
<1> USE Numbers
<1>1. subscription > 0 => \A m : InDefault(m) => sentOn[m] = subscription
  BY DEF OfEntity
<1>2. CASE Dispatch
  <2>1. CASE DispatchUnbound
    BY <2>1 DEF DispatchUnbound, OfEntity, Null
  <2>2. CASE ~DispatchUnbound
    <3>1. subscription' = subscription /\ default_scheduler_messages' = default_scheduler_messages
      BY <1>2, <2>2 DEF Dispatch, DispatchDefault, DispatchCustom, DeliverOrQueue,
                        DispatchDestroyed, entryVars
    <3>2. \A m : InDefault(m)' => InDefault(m) /\ sentOn'[m] = sentOn[m]
      BY <1>2, <3>1, Waiters, Sends DEF InDefault
    <3>3. QED
      BY <1>1, <3>1, <3>2 DEF OfEntity
  <2>3. QED
    BY <2>1, <2>2
<1>3. CASE Subscribe
  <2>1. /\ UNCHANGED <<sentOn, connection, default_scheduler_messages>> /\ step = "subscribe"
        /\ subscription' = subscription \/ (subscription' = model /\ model = connection)
    BY <1>3 DEF Subscribe, Unbound, wireVars, messageVars, entryVars
  <2>2. \A m : InDefault(m) => m \in 1..dispatched /\ model <= sentOn[m]
    <3>1. \A m : InDefault(m) => Queued("pump", m, entry)
      BY <2>1 DEF Pumps, Moves
    <3>2. QED
      BY <3>1, Waiters DEF QueueInOrder
  <2>3. \A m : InDefault(m) => subscription' = subscription \/ sentOn[m] = subscription'
    BY <2>1, <2>2
  <2>4. QED
    BY <1>1, <2>1, <2>3 DEF OfEntity, InDefault
<1>4. CASE PopMessage
  <2>1. UNCHANGED <<sentOn, subscription>> /\ \A m : InDefault(m)' => InDefault(m)
    BY <1>4, PopTakes DEF PopMessage, PopIf, messageVars, subscriptionVars
  <2>2. QED
    BY <1>1, <2>1 DEF OfEntity
<1>5. CASE MoveEntry \/ EraseEntry
  <2>1. default_scheduler_messages' = <<>>
    BY <1>5 DEF MoveEntry, EraseEntry, EraseThen
  <2>2. QED
    BY <2>1, NothingInEmpty DEF OfEntity, InDefault
<1>6. CASE /\ UNCHANGED <<sentOn, default_scheduler_messages>>
           /\ subscription' > 0 => subscription' = subscription
  BY <1>1, <1>6 DEF OfEntity, InDefault
<1>7. CASE Connect \/ Disconnect \/ Unbind \/ RunBind \/ CheckTerminated \/ AddAction \/ RunInvoke
              \/ RunPump \/ RunPumpErased \/ InvokePopped \/ CheckEmpty \/ ReleaseNext
              \/ ReleaseToNull \/ ReleaseDone \/ UNCHANGED vars
  <2>1. UNCHANGED <<sentOn, default_scheduler_messages>>
    BY <1>7 DEF Connect, Disconnect, Unbind, RunBind, CheckTerminated, AddAction, RunInvoke,
         RunPump, RunPumpErased, InvokePopped, CheckEmpty, ReleaseIf, ReleaseNext, ReleaseToNull,
         ReleaseDone, vars, messageVars, entryVars
  <2>2. subscription' > 0 => subscription' = subscription
    BY <1>7 DEF Connect, Disconnect, Unbind, RunBind, CheckTerminated, AddAction, RunInvoke,
         RunPump, RunPumpErased, InvokePopped, CheckEmpty, ReleaseIf, ReleaseNext, ReleaseToNull,
         ReleaseDone, vars, subscriptionVars, Absent, Null
  <2>3. QED
    BY <1>6, <2>1, <2>2
<1>8. QED
  BY <1>2, <1>3, <1>4, <1>5, <1>7 DEF Next, RunWire, RunScheduler

-----------------------------------------------------------------------------
(* The custom messages. *)

LEMMA CustomsStep ==
    TypeOK /\ Bindings /\ Stages /\ Pumps /\ Customs /\ [Next]_vars => Customs'
<1> SUFFICES ASSUME TypeOK, Bindings, Stages, Pumps, Customs, [Next]_vars PROVE Customs'
  OBVIOUS
<1> USE Numbers
<1> DEFINE Held(m) == InCustom(m) \/ InReleased(m)
<1>1. /\ \A m : Held(m) =>
            /\ ~Terminated(sentOn[m]) =>
                  subscription > 0 /\ (m \notin strays => subscription = connection)
            /\ \A n : InDefault(n) => m # n /\ (InCustom(m) /\ sentOn[m] = sentOn[n] => n < m)
            /\ InReleased(m) => \A n : InCustom(n) \/ InDefault(n) => m < n
            /\ Pumping /\ found = Null => Terminated(sentOn[m])
      /\ \A m : Held(m) => m \in 1..dispatched
  BY Waiters DEF Customs
<1>2. CASE Connect
  <2>1. /\ UNCHANGED <<sentOn, default_scheduler_messages, custom_scheduler_messages, released>>
        /\ connection' = connection + 1
    BY <1>2 DEF Connect, messageVars, entryVars, actionVars
  <2>2. \A m \in 1..dispatched : Terminated(sentOn[m])'
    BY <2>1 DEF Terminated
  <2>3. QED
    BY <1>1, <2>1, <2>2 DEF Customs, InDefault, InCustom, InReleased
<1>3. CASE Disconnect \/ Unbind
  <2>1. /\ UNCHANGED <<sentOn, default_scheduler_messages, custom_scheduler_messages, released>>
        /\ wire' # "up"
    BY <1>3 DEF Disconnect, Unbind, messageVars, entryVars, actionVars
  <2>2. \A m : Terminated(sentOn[m])'
    BY <2>1 DEF Terminated
  <2>3. QED
    BY <1>1, <2>1, <2>2 DEF Customs, InDefault, InCustom, InReleased
<1>4. CASE Dispatch
  <2>1. /\ UNCHANGED <<connection, wire, step, found, released>>
        /\ wire = "up" /\ sentOn'[dispatched + 1] = connection
        /\ strays' = IF subscription \in 1..connection-1 THEN strays \cup {dispatched + 1} ELSE strays
    BY <1>4, Sends DEF Dispatch, wireVars, actionVars
  <2>2. \A m \in 1..dispatched : /\ sentOn'[m] = sentOn[m] /\ m < dispatched + 1
                                 /\ m # dispatched + 1 /\ (m \in strays' <=> m \in strays)
    BY <1>4, <2>1, Sends
  <2>3. /\ \A m \in 1..dispatched : Terminated(sentOn[m])' <=> Terminated(sentOn[m])
        /\ \A m : m = dispatched + 1 => ~Terminated(sentOn[m])'
    BY <2>1, <2>2 DEF Terminated
  <2>4. \A m : InReleased(m)' <=> InReleased(m)
    BY <2>1 DEF InReleased
  <2>5. CASE DispatchUnbound
    <3>1. /\ \A m : InDefault(m)' <=> InDefault(m) \/ m = dispatched + 1
          /\ \A m : InCustom(m)' <=> InCustom(m)
      BY <2>5, DefaultGrows DEF DispatchUnbound, Stages, InCustom
    <3>2. \A m : Held(m) => Terminated(sentOn[m]) /\ sentOn[m] # connection
      <4>1. ~(subscription > 0)
        BY <2>5 DEF DispatchUnbound, Absent, Null
      <4>2. QED
        BY <1>1, <2>1, <4>1 DEF Terminated
    <3>3. SUFFICES ASSUME NEW m, Held(m)
                   PROVE  /\ Terminated(sentOn[m])'
                          /\ \A n : InDefault(n)' =>
                                m # n /\ (InCustom(m) /\ sentOn'[m] = sentOn'[n] => n < m)
                          /\ InReleased(m) => \A n : InCustom(n)' \/ InDefault(n)' => m < n
      BY <2>4, <3>1 DEF Customs
    <3>4. m \in 1..dispatched
      BY <1>1, <3>3
    <3>5. \A n : InDefault(n) => n \in 1..dispatched
      BY Waiters
    <3>6. QED
      BY <1>1, <2>1, <2>2, <2>3, <3>1, <3>2, <3>3, <3>4, <3>5
  <2>6. CASE DispatchDefault \/ DispatchDestroyed
    <3>1. UNCHANGED <<subscription, default_scheduler_messages, custom_scheduler_messages>>
      BY <2>6 DEF DispatchDefault, DispatchDestroyed, entryVars
    <3>2. \A m : (InDefault(m)' <=> InDefault(m)) /\ (InCustom(m)' <=> InCustom(m))
      BY <3>1 DEF InDefault, InCustom
    <3>3. \A n : InDefault(n) => n \in 1..dispatched
      BY Waiters
    <3>4. QED
      BY <1>1, <2>1, <2>2, <2>3, <2>4, <3>1, <3>2, <3>3 DEF Customs, Pumping
  <2>7. CASE DispatchCustom
    <3>1. /\ UNCHANGED <<subscription, default_scheduler_messages>>
          /\ subscription > 0 /\ subscription = model
      BY <2>7 DEF DispatchCustom, DeliverOrQueue
    <3>2. \A m : InCustom(m)' => InCustom(m) \/ m = dispatched + 1
      <4>1. CASE custom_scheduler_messages' = custom_scheduler_messages
        BY <4>1 DEF InCustom
      <4>2. CASE custom_scheduler_messages' = Append(custom_scheduler_messages, dispatched + 1)
        BY <4>2, CustomGrows DEF Stages
      <4>3. QED
        BY <2>7, <4>1, <4>2 DEF DispatchCustom, DeliverOrQueue
    <3>3. \A m : InDefault(m)' <=> InDefault(m)
      BY <3>1 DEF InDefault
    <3>4. \A n : InDefault(n) => n \in 1..dispatched
      BY Waiters
    <3>5. dispatched + 1 \notin strays' => subscription = connection
      BY <2>1, <3>1
    <3>6. ~(Pumping /\ found = Null)
      BY <3>1 DEF Bindings, Null
    <3>7. SUFFICES ASSUME NEW m, InCustom(m)' \/ InReleased(m)
                   PROVE  /\ ~Terminated(sentOn[m])' =>
                                subscription > 0 /\ (m \notin strays' => subscription = connection)
                          /\ \A n : InDefault(n) =>
                                m # n /\ (InCustom(m)' /\ sentOn'[m] = sentOn'[n] => n < m)
                          /\ InReleased(m) => \A n : InCustom(n)' \/ InDefault(n) => m < n
      BY <2>1, <2>4, <3>1, <3>3, <3>6 DEF Customs, Pumping
    <3>8. CASE m = dispatched + 1
      <4>1. ~InReleased(m)
        BY <1>1, <2>2, <3>8
      <4>2. QED
        BY <2>2, <3>1, <3>4, <3>5, <3>8, <4>1
    <3>9. CASE Held(m)
      <4>1. m \in 1..dispatched
        BY <1>1, <3>9
      <4>2. \A n : InDefault(n) => m # n /\ (InCustom(m)' /\ sentOn'[m] = sentOn'[n] => n < m)
        BY <1>1, <2>2, <3>2, <3>4, <3>9, <4>1
      <4>3. InReleased(m) => \A n : InCustom(n)' \/ InDefault(n) => m < n
        BY <1>1, <2>2, <3>2, <3>9, <4>1
      <4>4. QED
        BY <1>1, <2>2, <2>3, <3>9, <4>1, <4>2, <4>3
    <3>10. QED
      BY <3>2, <3>7, <3>8, <3>9
  <2>8. QED
    BY <1>4, <2>5, <2>6, <2>7 DEF Dispatch
<1>5. ASSUME UNCHANGED <<sentOn, strays, connection, wire, subscription, found>>,
             Pumping' => Pumping,
             \A m : InDefault(m)' => InDefault(m),
             \A m : InCustom(m)' => InCustom(m),
             \A m : InReleased(m)' => InReleased(m)
      PROVE  Customs'
  <2>1. \A m : Terminated(sentOn[m])' <=> Terminated(sentOn[m])
    BY <1>5 DEF Terminated
  <2>2. QED
    BY <1>1, <1>5, <2>1 DEF Customs
<1>6. CASE Subscribe
  <2>1. /\ UNCHANGED <<sentOn, strays, connection, wire, default_scheduler_messages,
                       custom_scheduler_messages, released>>
        /\ step = "subscribe" /\ step' = "action" /\ model > 0
        /\ subscription' = subscription \/ (subscription' = model /\ model = connection)
    BY <1>6 DEF Subscribe, Unbound, wireVars, messageVars, entryVars, actionVars, Bindings
  <2>2. \A m : Terminated(sentOn[m])' <=> Terminated(sentOn[m])
    BY <2>1 DEF Terminated
  <2>3. QED
    BY <1>1, <2>1, <2>2 DEF Customs, Pumping, InDefault, InCustom, InReleased
<1>7. CASE RunPump
  <2>1. /\ UNCHANGED <<sentOn, strays, connection, wire, default_scheduler_messages,
                       custom_scheduler_messages, released>>
        /\ subscription > 0 => subscription' = subscription
        /\ found' = Null => ~(subscription > 0)
    BY <1>7 DEF RunPump, wireVars, messageVars, entryVars, Absent, Null
  <2>2. \A m : Terminated(sentOn[m])' <=> Terminated(sentOn[m])
    BY <2>1 DEF Terminated
  <2>3. QED
    BY <1>1, <2>1, <2>2 DEF Customs, InDefault, InCustom, InReleased
<1>8. CASE MoveEntry
  <2>1. /\ UNCHANGED <<sentOn, strays, connection, wire, subscription, found>>
        /\ step = "move" /\ released' = custom_scheduler_messages
        /\ default_scheduler_messages' = <<>> /\ custom_scheduler_messages' = <<>>
    BY <1>8 DEF MoveEntry, wireVars, messageVars, subscriptionVars
  <2>2. /\ \A m : ~InDefault(m)' /\ ~InCustom(m)'
        /\ \A m : InReleased(m)' <=> InCustom(m)
    BY <2>1, NothingInEmpty DEF InDefault, InCustom, InReleased
  <2>3. \A m : Terminated(sentOn[m])' <=> Terminated(sentOn[m])
    BY <2>1 DEF Terminated
  <2>4. Pumping
    BY <2>1 DEF Pumping
  <2>5. QED
    BY <1>1, <2>1, <2>2, <2>3, <2>4 DEF Customs
<1>9. CASE RunBind \/ CheckTerminated \/ AddAction \/ RunInvoke \/ RunPumpErased \/ InvokePopped
              \/ CheckEmpty \/ ReleaseToNull \/ ReleaseDone \/ UNCHANGED vars
  <2>1. UNCHANGED <<sentOn, strays, connection, wire, subscription, found,
                    default_scheduler_messages, custom_scheduler_messages, released>>
    BY <1>9 DEF RunBind, CheckTerminated, AddAction, RunInvoke, RunPumpErased, InvokePopped,
         CheckEmpty, ReleaseIf, ReleaseToNull, ReleaseDone, vars,
         wireVars, messageVars, subscriptionVars, entryVars, actionVars
  <2>2. Pumping' => Pumping
    BY <1>9 DEF RunBind, CheckTerminated, AddAction, RunInvoke, RunPumpErased, InvokePopped,
         CheckEmpty, ReleaseIf, ReleaseToNull, ReleaseDone, vars, Starts, Pumping
  <2>3. QED
    BY <1>5, <2>1, <2>2 DEF InDefault, InCustom, InReleased
<1>10. CASE PopMessage
  <2>1. /\ UNCHANGED <<sentOn, strays, connection, wire, subscription, found,
                       custom_scheduler_messages, released>>
        /\ Pumping
    BY <1>10 DEF PopMessage, PopIf, Pumping, wireVars, messageVars, subscriptionVars
  <2>2. \A m : InDefault(m)' => InDefault(m)
    BY <1>10, PopTakes
  <2>3. QED
    BY <1>5, <2>1, <2>2 DEF InCustom, InReleased
<1>11. CASE EraseEntry
  <2>1. /\ UNCHANGED <<sentOn, strays, connection, wire, subscription, found, released>>
        /\ Pumping /\ default_scheduler_messages' = <<>> /\ custom_scheduler_messages' = <<>>
    BY <1>11 DEF EraseEntry, EraseThen, Pumping, wireVars, messageVars, subscriptionVars, actionVars
  <2>2. \A m : ~InDefault(m)' /\ ~InCustom(m)'
    BY <2>1, NothingInEmpty DEF InDefault, InCustom
  <2>3. QED
    BY <1>5, <2>1, <2>2 DEF InReleased
<1>12. CASE ReleaseNext
  <2>1. /\ UNCHANGED <<sentOn, strays, connection, wire, subscription, found,
                       default_scheduler_messages, custom_scheduler_messages>>
        /\ Pumping
    BY <1>12 DEF ReleaseNext, Pumping, wireVars, messageVars, subscriptionVars, entryVars
  <2>2. \A m : InReleased(m)' => InReleased(m)
    BY <1>12, ReleaseTakes
  <2>3. QED
    BY <1>5, <2>1, <2>2 DEF InDefault, InCustom
<1>13. QED
  BY <1>2, <1>3, <1>4, <1>6, <1>7, <1>8, <1>9, <1>10, <1>11, <1>12 DEF Next, RunWire, RunScheduler

-----------------------------------------------------------------------------
(* The order of delivery. *)

\* What is delivered in a step, and what was before, comes before what waits.
LEMMA DeliveriesKept ==
    ASSUME TypeOK, Deliveries, NEW d, NEW e,
           delivered' \in {delivered, Append(delivered, [of |-> d, to |-> e])},
           UNCHANGED sentOn, gap \subseteq gap',
           \A n : Waits(n)' => Waits(n),
           delivered' # delivered => Waits(d),
           delivered' # delivered => \A n : Waits(n)' => d # n /\ (sentOn[d] = sentOn[n] => d < n)
    PROVE  Deliveries'
<1>1. SUFFICES ASSUME NEW m, NEW n, WasDelivered(m)', Waits(n)'
               PROVE  m # n /\ (sentOn[m] = sentOn[n] => m < n \/ m \in gap')
  BY DEF Deliveries
<1>2. CASE WasDelivered(m)
  BY <1>1, <1>2 DEF Deliveries
<1>3. CASE ~WasDelivered(m)
  <2>1. m = d
    BY <1>1, <1>3, Delivers
  <2>2. delivered' # delivered
    BY <1>1, <1>3 DEF WasDelivered
  <2>3. QED
    BY <1>1, <2>1, <2>2
<1>4. QED
  BY <1>2, <1>3

LEMMA DeliveriesStep ==
    TypeOK /\ QueueInOrder /\ Bindings /\ Stages /\ Pumps /\ Invokes /\ Hand /\ Customs /\ Deliveries
        /\ DeliveredInOrder /\ NoStaleMessage /\ [Next]_vars
    => Deliveries' /\ DeliveredInOrder' /\ NoStaleMessage'
<1> SUFFICES ASSUME TypeOK, QueueInOrder, Bindings, Stages, Pumps, Invokes, Hand, Customs, Deliveries,
                    DeliveredInOrder, NoStaleMessage, [Next]_vars
             PROVE  Deliveries' /\ DeliveredInOrder' /\ NoStaleMessage'
  OBVIOUS
<1> USE Numbers
<1>1. ASSUME NEW d, NEW e,
             delivered' \in {delivered, Append(delivered, [of |-> d, to |-> e])},
             UNCHANGED <<custom, sentOn, gap>>,
             \A n : Waits(n)' => Waits(n),
             Waits(d),
             delivered' # delivered => \A n : Waits(n)' => d # n /\ (sentOn[d] = sentOn[n] => d < n),
             ~custom => sentOn[d] = e
      PROVE  Deliveries' /\ DeliveredInOrder' /\ NoStaleMessage'
  <2>1. Deliveries'
    BY <1>1, DeliveriesKept
  <2>2. \A x : WasDelivered(x) => x # d /\ (sentOn[x] = sentOn'[d] => x < d \/ x \in gap')
    BY <1>1 DEF Deliveries
  <2>3. DeliveredInOrder'
    BY <1>1, <2>2, OrderIsKept
  <2>4. NoStaleMessage'
    BY <1>1, NothingNewIsStale
  <2>5. QED
    BY <2>1, <2>3, <2>4
<1>2. ASSUME UNCHANGED <<custom, sentOn, gap, delivered>>,
             \A n : Waits(n)' => Waits(n)
      PROVE  Deliveries' /\ DeliveredInOrder' /\ NoStaleMessage'
  BY <1>2 DEF Deliveries, WasDelivered, DeliveredInOrder, NoStaleMessage
<1>3. CASE Dispatch
  <2>1. /\ UNCHANGED <<custom, step, message, released>> /\ gap \subseteq gap' /\ dispatched' = dispatched + 1
        /\ \A m \in 1..dispatched : sentOn'[m] = sentOn[m] /\ m < dispatched + 1 /\ m # dispatched + 1
        /\ step \in {"erase", "release"} => dispatched + 1 \in gap'
    BY <1>3, Sends DEF Dispatch, actionVars, GivesUp
  <2>2. \A m : WasDelivered(m) => m \in 1..dispatched
    BY Records
  <2>3. ASSUME delivered' = delivered, \A n : Waits(n)' => Waits(n) \/ n = dispatched + 1
        PROVE  Deliveries' /\ DeliveredInOrder' /\ NoStaleMessage'
    <3>1. \A n : Waits(n) => n \in 1..dispatched
      BY Waiters, HandIsDispatched, Records DEF Waits
    <3>2. \A m : WasDelivered(m)' <=> WasDelivered(m)
      BY <2>3 DEF WasDelivered
    <3>3. ASSUME NEW m, NEW n, WasDelivered(m), Waits(n) \/ n = dispatched + 1
          PROVE  m # n /\ (sentOn'[m] = sentOn'[n] => m < n \/ m \in gap')
      <4>1. CASE Waits(n)
        BY <2>1, <2>2, <3>1, <3>3, <4>1 DEF Deliveries
      <4>2. CASE n = dispatched + 1
        BY <2>1, <2>2, <3>3, <4>2
      <4>3. QED
        BY <3>3, <4>1, <4>2
    <3>4. Deliveries'
      BY <2>3, <3>2, <3>3 DEF Deliveries
    <3>5. DeliveredInOrder'
      <4>1. \A x : WasDelivered(x) => x # dispatched + 1 /\ x < dispatched + 1
        BY <2>1, <2>2
      <4>2. delivered' \in {delivered, Append(delivered, [of |-> dispatched + 1, to |-> 0])}
        BY <2>3
      <4>3. QED
        BY <2>1, <4>1, <4>2, OrderIsKept
    <3>6. NoStaleMessage'
      <4>1. delivered' \in {delivered, Append(delivered, [of |-> dispatched + 1, to |-> 0])}
        BY <2>3
      <4>2. QED
        BY <2>1, <2>3, <4>1, NothingNewIsStale
    <3>7. QED
      BY <3>4, <3>5, <3>6
  <2>4. \A m : (InReleased(m)' <=> InReleased(m))
    BY <2>1 DEF InReleased
  <2>5. CASE DispatchUnbound
    <3>1. delivered' = delivered
      BY <2>5 DEF DispatchUnbound
    <3>2. /\ \A m : InDefault(m)' <=> InDefault(m) \/ m = dispatched + 1
          /\ default_scheduler_messages # <<>> =>
                Head(default_scheduler_messages') = Head(default_scheduler_messages)
          /\ \A m : InCustom(m)' <=> InCustom(m)
      BY <2>5, DefaultGrows DEF DispatchUnbound, Stages, InCustom
    <3>3. \A m, w : Queued("invoke", m, w)' => Queued("invoke", m, w)
      BY <2>5, QueueGrows DEF DispatchUnbound, Pump
    <3>4. \A m : InHand(m)' => InHand(m)
      BY <2>1, <3>2 DEF InHand, Pumps
    <3>5. QED
      BY <2>3, <2>4, <3>1, <3>2, <3>3, <3>4 DEF Waits
  <2>6. CASE DispatchDefault \/ DispatchDestroyed
    <3>1. UNCHANGED <<default_scheduler_messages, custom_scheduler_messages, delivered>>
      BY <2>6 DEF DispatchDefault, DispatchDestroyed, entryVars
    <3>2. \A m : /\ (InDefault(m)' <=> InDefault(m)) /\ (InCustom(m)' <=> InCustom(m))
                 /\ (InHand(m)' <=> InHand(m))
      BY <2>1, <3>1 DEF InDefault, InCustom, InHand
    <3>3. \A m, w : Queued("invoke", m, w)' => Queued("invoke", m, w) \/ m = dispatched + 1
      <4>1. CASE queue' = queue
        BY <4>1 DEF Queued
      <4>2. CASE queue' = Append(queue, [kind |-> "invoke", of |-> dispatched + 1, with |-> subscription])
        BY <4>2, QueueGrows
      <4>3. QED
        BY <2>6, <4>1, <4>2 DEF DispatchDefault, DispatchDestroyed, Invoke
    <3>4. QED
      BY <2>3, <2>4, <3>1, <3>2, <3>3 DEF Waits
  <2>7. CASE DispatchCustom /\ entry # 0
    <3>1. /\ UNCHANGED <<default_scheduler_messages, delivered, queue>>
          /\ custom_scheduler_messages' = Append(custom_scheduler_messages, dispatched + 1)
      BY <2>7 DEF DispatchCustom, DeliverOrQueue
    <3>2. \A m : InCustom(m)' => InCustom(m) \/ m = dispatched + 1
      BY <3>1, CustomGrows DEF Stages
    <3>3. \A m : /\ (InDefault(m)' <=> InDefault(m)) /\ (InHand(m)' <=> InHand(m))
                 /\ \A w : Queued("invoke", m, w)' <=> Queued("invoke", m, w)
      BY <2>1, <3>1 DEF InDefault, InHand, Queued
    <3>4. QED
      BY <2>3, <2>4, <3>1, <3>2, <3>3 DEF Waits
  <2>8. CASE DispatchCustom /\ entry = 0
    <3>1. /\ UNCHANGED <<default_scheduler_messages, custom_scheduler_messages, queue>>
          /\ delivered' = Told(subscription, dispatched + 1) /\ custom
      BY <2>8 DEF DispatchCustom, DeliverOrQueue
    <3>2. delivered' \in {delivered, Append(delivered, [of |-> dispatched + 1, to |-> subscription])}
      BY <3>1, ToldAppends
    <3>3. /\ default_scheduler_messages = <<>> /\ custom_scheduler_messages = <<>>
          /\ step \notin {"pop", "invoke"} /\ message = 0
          /\ \A m, w : ~Queued("invoke", m, w)
          /\ step \notin {"erase", "release"} => released = <<>>
      BY <2>8, <3>1 DEF Stages
    <3>4. \A n : Waits(n)' => InReleased(n)
      BY <2>1, <3>1, <3>3, NothingInEmpty DEF Waits, InDefault, InCustom, InReleased, InHand, Queued
    <3>5. \A n : InReleased(n) => n \in 1..dispatched /\ dispatched + 1 \in gap'
      <4>1. \A n : InReleased(n) => step \in {"erase", "release"}
        BY <3>3, NothingInEmpty DEF InReleased
      <4>2. QED
        BY <2>1, <4>1, Waiters
    <3>6. Deliveries'
      <4>1. SUFFICES ASSUME NEW m, NEW n, WasDelivered(m)', InReleased(n)
                     PROVE  m # n /\ (sentOn'[m] = sentOn'[n] => m < n \/ m \in gap')
        BY <3>4 DEF Deliveries
      <4>2. CASE WasDelivered(m)
        BY <2>1, <2>2, <3>5, <4>1, <4>2 DEF Deliveries, Waits
      <4>3. CASE m = dispatched + 1
        BY <2>1, <3>5, <4>1, <4>3
      <4>4. QED
        BY <3>2, <4>1, <4>2, <4>3, Delivers
    <3>7. \A x : WasDelivered(x) => x # dispatched + 1 /\ x < dispatched + 1
      BY <2>1, <2>2
    <3>8. DeliveredInOrder'
      BY <2>1, <3>2, <3>7, OrderIsKept
    <3>9. NoStaleMessage'
      BY <2>1, <3>1 DEF NoStaleMessage
    <3>10. QED
      BY <3>6, <3>8, <3>9
  <2>9. QED
    BY <1>3, <2>5, <2>6, <2>7, <2>8 DEF Dispatch
<1>4. CASE RunInvoke
  <2>1. /\ UNCHANGED <<custom, sentOn, gap, step, message, default_scheduler_messages,
                       custom_scheduler_messages, released>>
        /\ step = "idle" /\ Starts("invoke")
    BY <1>4 DEF RunInvoke, Starts, messageVars, entryVars, actionVars
  <2>2. PICK a, b : Takes("invoke", a, b)
    BY <2>1, TakeHead
  <2>3. /\ Head(queue) = [kind |-> "invoke", of |-> a, with |-> b] /\ Queued("invoke", a, b)
        /\ \A k, m, w : Queued(k, m, w)' => Queued(k, m, w)
        /\ \A k, m, w : Queued(k, m, w)' /\ k # "bind" => a < m
        /\ \A k, m, w : Queued(k, m, w) => Queued(k, m, w)' \/ k = "invoke"
    <3>1. \A k, m, w : Queued(k, m, w)' /\ k # "bind" => a < m
      BY <2>2 DEF Takes, Before
    <3>2. QED
      BY <2>2, <3>1 DEF Takes
  <2>4. a \in 1..dispatched /\ ~custom
    BY <2>3, Records DEF Stages
  <2>5. custom_scheduler_messages = <<>> /\ released = <<>> /\ message = 0
    BY <2>1, <2>4 DEF Stages
  <2>6. /\ \A n : Waits(n)' => InDefault(n) \/ \E w : Queued("invoke", n, w)'
        /\ \A n : Waits(n)' => Waits(n)
    BY <2>1, <2>3, <2>5, NothingInEmpty DEF Waits, InDefault, InCustom, InReleased, InHand
  <2>7. \A n : Waits(n)' => a < n
    <3>1. \A n : InDefault(n) => Queued("pump", n, entry)
      BY <2>1 DEF Pumps, Moves
    <3>2. \A n : InDefault(n) => a < n
      BY <2>3, <3>1
    <3>3. QED
      BY <2>3, <2>6, <3>2
  <2>8. \A n : Waits(n)' => a # n
    BY <2>4, <2>7
  <2>9. CASE b = model
    <3>1. delivered' = Told(model, a)
      BY <1>4, <2>3, <2>9 DEF RunInvoke
    <3>2. delivered' \in {delivered, Append(delivered, [of |-> a, to |-> model])}
      BY <3>1, ToldAppends
    <3>3. sentOn[a] = model
      <4>1. sentOn[a] <= model /\ model <= sentOn[a] /\ sentOn[a] \in 1..connection
        BY <2>1, <2>3, <2>4, HeadIsBound
      <4>2. QED
        BY <4>1
    <3>4. Waits(a)
      BY <2>3 DEF Waits
    <3>5. QED
      BY <1>1, <2>1, <2>6, <2>7, <2>8, <3>2, <3>3, <3>4
  <2>10. CASE b # model
    BY <1>2, <1>4, <2>1, <2>3, <2>6, <2>10 DEF RunInvoke
  <2>11. QED
    BY <2>9, <2>10
<1>5. CASE InvokePopped
  <2>1. /\ UNCHANGED <<custom, sentOn, gap, queue, default_scheduler_messages,
                       custom_scheduler_messages, released>>
        /\ step = "invoke" /\ step' = "check" /\ message' = 0
    BY <1>5 DEF InvokePopped, messageVars, entryVars
  <2>2. /\ \A n : Waits(n)' => InDefault(n) \/ InCustom(n) \/ \E w : Queued("invoke", n, w)
        /\ \A n : Waits(n)' => Waits(n)
    <3>1. \A n : ~InHand(n)' /\ ~InReleased(n)
      BY <2>1, NothingInEmpty DEF InHand, Stages, InReleased
    <3>2. QED
      BY <2>1, <3>1 DEF Waits, InDefault, InCustom, InReleased, Queued
  <2>3. CASE found = Null \/ message = 0
    BY <1>2, <1>5, <2>1, <2>2, <2>3 DEF InvokePopped
  <2>4. CASE found # Null /\ message # 0
    <3>1. delivered' \in {delivered, Append(delivered, [of |-> message, to |-> found])}
      BY <1>5, <2>4, ToldAppends DEF InvokePopped
    <3>2. InHand(message) /\ Waits(message) /\ message \in 1..dispatched
      BY <2>4, HandIsDispatched DEF InHand, Waits
    <3>3. /\ sentOn[message] = found
          /\ \A n, w : Queued("invoke", n, w) => message < n
          /\ \A n : InDefault(n) => n # message /\ message < n
          /\ \A n : InCustom(n) => n # message /\ (sentOn[n] = sentOn[message] => message < n)
      BY <2>1, <2>4, <3>2 DEF Hand
    <3>4. \A n : Waits(n)' => message # n /\ (sentOn[message] = sentOn[n] => message < n)
      BY <2>2, <3>2, <3>3
    <3>5. QED
      BY <1>1, <2>1, <2>2, <3>1, <3>2, <3>3, <3>4
  <2>5. QED
    BY <2>3, <2>4
<1>6. CASE ReleaseNext
  <2> DEFINE h == Head(released)
  <2>1. /\ UNCHANGED <<custom, sentOn, gap, queue, step, message, default_scheduler_messages,
                       custom_scheduler_messages>>
        /\ step = "release" /\ released # <<>> /\ delivered' = Told(found, h)
    BY <1>6 DEF ReleaseNext, messageVars, entryVars
  <2>2. /\ InReleased(h) /\ h \in 1..dispatched
        /\ \A m : InReleased(m) <=> InReleased(m)' \/ m = h
        /\ \A m : InReleased(m)' => h < m
    BY <1>6, ReleaseTakes
  <2>3. custom /\ message = 0 /\ \A m, w : ~Queued("invoke", m, w)
    BY <2>1 DEF Stages
  <2>4. \A n : InCustom(n) \/ InDefault(n) => h < n
    BY <2>2 DEF Customs
  <2>5. /\ \A n : Waits(n)' => InDefault(n) \/ InCustom(n) \/ InReleased(n)'
        /\ \A n : Waits(n)' => Waits(n)
    <3>1. \A n : ~InHand(n)'
      BY <2>1, <2>3 DEF InHand
    <3>2. \A n, w : ~Queued("invoke", n, w)'
      BY <2>1, <2>3 DEF Queued
    <3>3. QED
      BY <2>1, <2>2, <3>1, <3>2 DEF Waits, InDefault, InCustom
  <2>6. \A n : Waits(n)' => h < n /\ h # n
    BY <2>2, <2>4, <2>5
  <2>7. Told(found, h) \in {delivered, Append(delivered, [of |-> h, to |-> found])}
    BY ToldAppends
  <2>8. Waits(h)
    BY <2>2 DEF Waits
  <2> HIDE DEF h
  <2>9. QED
    BY <1>1, <2>1, <2>3, <2>5, <2>6, <2>7, <2>8
<1>7. CASE PopMessage
  <2>1. /\ UNCHANGED <<custom, sentOn, gap, queue, custom_scheduler_messages, released, delivered>>
        /\ step' = "invoke"
    BY <1>7 DEF PopMessage, PopIf, messageVars
  <2>2. InDefault(message') /\ \A m : InDefault(m)' => InDefault(m)
    BY <1>7, PopTakes
  <2>3. \A n : InHand(n)' => n = message'
    BY <2>1 DEF InHand
  <2>4. QED
    BY <1>2, <2>1, <2>2, <2>3 DEF Waits, InCustom, InReleased, Queued
<1>8. CASE RunPump
  <2>1. /\ UNCHANGED <<custom, sentOn, gap, message, default_scheduler_messages,
                       custom_scheduler_messages, released, delivered>>
        /\ Starts("pump") /\ Head(queue).with = entry /\ step = "idle"
    BY <1>8 DEF RunPump, Starts, messageVars, entryVars
  <2>2. PICK a :
           /\ InDefault(a) /\ a = Head(default_scheduler_messages)
           /\ \A k, m, w : Queued(k, m, w) <=>
                 Queued(k, m, w)' \/ (k = "pump" /\ m = a /\ w = entry)
    BY <2>1, HeadPump
  <2>3. \A n : InHand(n)' => InDefault(n)
    BY <2>1, <2>2 DEF InHand, Stages
  <2>4. QED
    BY <1>2, <2>1, <2>2, <2>3 DEF Waits, InDefault, InCustom, InReleased
<1>9. CASE MoveEntry
  <2>1. /\ UNCHANGED <<custom, sentOn, gap, message, queue, delivered>>
        /\ step = "move" /\ step' = "erase" /\ released' = custom_scheduler_messages
        /\ default_scheduler_messages' = <<>> /\ custom_scheduler_messages' = <<>>
    BY <1>9 DEF MoveEntry, messageVars
  <2>2. \A n : InReleased(n)' => InCustom(n)
    BY <2>1 DEF InReleased, InCustom
  <2>3. QED
    BY <1>2, <2>1, <2>2, NothingInEmpty DEF Waits, InDefault, InCustom, InHand, Queued
<1>10. CASE EraseEntry
  <2>1. /\ UNCHANGED <<custom, sentOn, gap, message, queue, delivered, released>>
        /\ step' = "release"
        /\ default_scheduler_messages' = <<>> /\ custom_scheduler_messages' = <<>>
    BY <1>10 DEF EraseEntry, EraseThen, messageVars, actionVars
  <2>2. QED
    BY <1>2, <2>1, NothingInEmpty DEF Waits, InDefault, InCustom, InReleased, InHand, Queued
<1>11. CASE RunBind \/ RunPumpErased
  <2>1. /\ UNCHANGED <<custom, sentOn, gap, message, default_scheduler_messages,
                       custom_scheduler_messages, released, delivered>>
        /\ step' # "pop"
    BY <1>11 DEF RunBind, RunPumpErased, Starts, messageVars, entryVars, actionVars
  <2>2. PICK kind \in {"bind", "pump"} : Starts(kind)
    BY <1>11 DEF RunBind, RunPumpErased
  <2>3. PICK a, b : Takes(kind, a, b)
    BY <2>2, TakeHead
  <2>4. \A k, m, w : Queued(k, m, w)' => Queued(k, m, w)
    BY <2>3 DEF Takes
  <2>5. QED
    BY <1>2, <2>1, <2>4 DEF Waits, InDefault, InCustom, InReleased, InHand
<1>12. CASE Connect
  <2>1. /\ UNCHANGED <<custom, sentOn, gap, message, step, default_scheduler_messages,
                       custom_scheduler_messages, released, delivered>>
        /\ \A m, w : Queued("invoke", m, w)' => Queued("invoke", m, w)
    BY <1>12, QueueGrows DEF Connect, Bind, messageVars, entryVars, actionVars
  <2>2. QED
    BY <1>2, <2>1 DEF Waits, InDefault, InCustom, InReleased, InHand
<1>13. CASE Disconnect \/ Unbind \/ CheckTerminated \/ Subscribe \/ AddAction \/ CheckEmpty
               \/ ReleaseToNull \/ ReleaseDone \/ UNCHANGED vars
  <2>1. /\ UNCHANGED <<custom, sentOn, gap, message, queue, default_scheduler_messages,
                       custom_scheduler_messages, released, delivered>>
        /\ step' = step \/ step' # "pop"
    BY <1>13 DEF Disconnect, Unbind, CheckTerminated, Subscribe, AddAction, CheckEmpty, ReleaseIf,
         ReleaseToNull, ReleaseDone, vars, messageVars, entryVars, actionVars
  <2>2. QED
    BY <1>2, <2>1 DEF Waits, InDefault, InCustom, InReleased, InHand, Queued
<1>14. QED
  BY <1>3, <1>4, <1>5, <1>6, <1>7, <1>8, <1>9, <1>10, <1>11, <1>12, <1>13
     DEF Next, RunWire, RunScheduler

-----------------------------------------------------------------------------
(* The undefined uses. *)

LEMMA UndefinedStep ==
    TypeOK /\ QueueInOrder /\ Bindings /\ Stages /\ Pumps /\ Invokes /\ Customs
        /\ UndefinedAcrossConnections /\ [Next]_vars
    => UndefinedAcrossConnections'
<1> SUFFICES ASSUME TypeOK, QueueInOrder, Bindings, Stages, Pumps, Invokes, Customs,
                    UndefinedAcrossConnections, [Next]_vars
             PROVE  UndefinedAcrossConnections'
  OBVIOUS
<1> USE Numbers
<1>1. CASE UNCHANGED vars
  <2>1. /\ UNCHANGED <<undefined, custom, gap, strays, sentOn, released>>
        /\ \A m : Terminated(sentOn[m])' <=> Terminated(sentOn[m])
    BY <1>1 DEF vars, wireVars, messageVars, actionVars, Terminated
  <2>2. released' = released /\ DOMAIN released' = DOMAIN released
    BY <2>1
  <2>3. \A i : Terminated(sentOn[released[i]])' <=> Terminated(sentOn[released[i]])
    BY <1>1 DEF vars, wireVars, messageVars, actionVars, Terminated
  <2>4. QED
    BY <2>1, <2>2, <2>3 DEF UndefinedAcrossConnections
<1>2. CASE undefined' = "nothing"
  BY <1>2 DEF UndefinedAcrossConnections
<1>3. CASE Defined /\ Dispatch
  <2>1. undefined' = "nothing" \/ DispatchDestroyed
    BY <1>3 DEF Defined, Dispatch, DispatchUnbound, DispatchDefault, DispatchCustom, DeliverOrQueue
  <2>2. CASE DispatchDestroyed
    <3>1. subscription > 0 /\ subscription # model /\ undefined' = "entity"
      BY <2>2 DEF DispatchDestroyed
    <3>2. subscription \in 1..connection-1
      BY <3>1 DEF Bindings
    <3>3. dispatched + 1 \in strays'
      BY <1>3, <3>2 DEF Dispatch
    <3>4. QED
      BY <3>1, <3>3 DEF UndefinedAcrossConnections
  <2>3. QED
    BY <1>2, <2>1, <2>2
<1>4. CASE Defined /\ RunPumpErased
  <2>1. /\ Starts("pump") /\ Head(queue).with # entry /\ undefined' = "entry"
        /\ UNCHANGED <<gap, sentOn>>
    BY <1>4 DEF RunPumpErased, messageVars
  <2>2. PICK a, b : Takes("pump", a, b)
    BY <2>1, TakeHead
  <2>3. Queued("pump", a, b) /\ b # entry
    BY <2>1, <2>2 DEF Takes
  <2>4. a \in gap /\ sentOn[a] > 1
    BY <2>3 DEF Pumps
  <2>5. QED
    BY <2>1, <2>4 DEF UndefinedAcrossConnections
<1>5. CASE Defined /\ RunInvoke
  <2>1. Starts("invoke") /\ strays' = strays
        /\ (undefined' = "nothing" \/ (undefined' = "entity" /\ Head(queue).with # model))
    BY <1>5 DEF RunInvoke, messageVars, Defined
  <2>2. PICK a, b : Takes("invoke", a, b)
    BY <2>1, TakeHead
  <2>3. Queued("invoke", a, b) /\ Head(queue).with = b
    BY <2>2 DEF Takes
  <2>4. b # model => a \in strays
    BY <2>3 DEF Invokes
  <2>5. QED
    BY <1>2, <2>1, <2>3, <2>4 DEF UndefinedAcrossConnections
<1>6. CASE Defined /\ ReleaseToNull
  <2>1. /\ step = "release" /\ released # <<>> /\ found = Null /\ undefined' = "null"
        /\ UNCHANGED <<wire, connection, custom, sentOn, released>>
    BY <1>6 DEF ReleaseToNull, wireVars, messageVars, actionVars
  <2>2. custom' /\ Pumping
    BY <2>1 DEF Stages, Pumping
  <2>3. DOMAIN released = 1..Len(released)
    BY Waiters, LenProperties
  <2>4. \A i \in DOMAIN released : Terminated(sentOn[released[i]])
    BY <2>1, <2>2, <2>3 DEF Customs, InReleased, In
  <2>5. \A i \in DOMAIN released : Terminated(sentOn[released[i]])'
    BY <2>1, <2>4 DEF Terminated
  <2>6. QED
    BY <2>1, <2>2, <2>5 DEF UndefinedAcrossConnections
<1>7. CASE Defined /\ \/ Connect \/ Disconnect \/ Unbind \/ RunBind \/ CheckTerminated \/ Subscribe
                      \/ AddAction \/ RunPump \/ PopMessage \/ InvokePopped \/ CheckEmpty
                      \/ MoveEntry \/ EraseEntry \/ ReleaseNext \/ ReleaseDone
  <2>1. undefined' = "nothing"
    BY <1>7 DEF Defined, Connect, Disconnect, Unbind, RunBind, CheckTerminated, Subscribe, AddAction,
         RunPump, PopMessage, PopIf, InvokePopped, CheckEmpty, ReleaseIf, MoveEntry, EraseEntry,
         EraseThen, ReleaseNext, ReleaseDone
  <2>2. QED
    BY <1>2, <2>1
<1>8. QED
  BY <1>1, <1>3, <1>4, <1>5, <1>6, <1>7 DEF Next, RunWire, RunScheduler

-----------------------------------------------------------------------------
(* The invariant. *)

LEMMA InitInvariant == Init => IInv
<1> SUFFICES ASSUME Init PROVE IInv
  OBVIOUS
<1>1. /\ custom \in BOOLEAN /\ wire = "down" /\ connection = 0 /\ dispatched = 0
      /\ subscription = -1 /\ entry = 0 /\ entries = 0
      /\ default_scheduler_messages = <<>> /\ custom_scheduler_messages = <<>>
      /\ queue = <<>> /\ step = "idle" /\ model = 0 /\ found = 0 /\ message = 0
      /\ released = <<>> /\ delivered = <<>> /\ undefined = "nothing"
  BY DEF Init, Absent, Null
<1>2. Len(<<>>) = 0 /\ 1..0 = {} /\ DOMAIN <<>> = {}
  BY EmptySeq
<1>3. /\ \A m : ~InDefault(m) /\ ~InCustom(m) /\ ~InReleased(m) /\ ~InHand(m)
      /\ \A kind, m, w : ~Queued(kind, m, w)
      /\ \A m : ~WasDelivered(m)
  BY <1>1, <1>2, NothingInEmpty
     DEF InDefault, InCustom, InReleased, InHand, Queued, WasDelivered
<1>4. TypeOK
  BY InitTypes
<1>5. QueueInOrder
  <2>1. Sorted(sentOn, queue)
    BY <1>1, <1>2 DEF Sorted
  <2>2. QED
    BY <1>1, <1>2, <1>3, <2>1 DEF QueueInOrder
<1>6. Bindings
  BY <1>1, <1>2, <1>3 DEF Bindings, Pumping
<1>7. Stages
  BY <1>1, <1>3, NothingInEmpty DEF Stages
<1>8. Pumps /\ Invokes /\ Hand /\ OfEntity /\ Customs /\ Deliveries
  BY <1>1, <1>3 DEF Pumps, Invokes, Hand, OfEntity, Customs, Deliveries, Waits
<1>9. DeliveredInOrder /\ NoStaleMessage /\ UndefinedAcrossConnections
  BY <1>1, <1>2 DEF DeliveredInOrder, NoStaleMessage, UndefinedAcrossConnections
<1>10. QED
  BY <1>4, <1>5, <1>6, <1>7, <1>8, <1>9 DEF IInv

LEMMA StepInvariant == IInv /\ [Next]_vars => IInv'
<1> SUFFICES ASSUME IInv, [Next]_vars PROVE IInv'
  OBVIOUS
<1> USE DEF IInv
<1>1. TypeOK'
  BY TypeStep
<1>2. QueueInOrder'
  BY QueueStep
<1>3. Bindings'
  BY BindingsStep
<1>4. Stages'
  BY StagesStep
<1>5. Pumps'
  BY PumpsStep
<1>6. Invokes'
  BY InvokesStep
<1>7. Hand'
  BY HandStep
<1>8. OfEntity'
  BY OfEntityStep
<1>9. Customs'
  BY CustomsStep
<1>10. Deliveries' /\ DeliveredInOrder' /\ NoStaleMessage'
  BY DeliveriesStep
<1>11. UndefinedAcrossConnections'
  BY UndefinedStep
<1>12. QED
  BY <1>1, <1>2, <1>3, <1>4, <1>5, <1>6, <1>7, <1>8, <1>9, <1>10, <1>11

\* The strengthened invariant: the order of the queue, the entity of the present
\* connection subscribed or on its way, each waiting message with its action,
\* and what waits behind what (the broker's queues and the Scheduler's).
THEOREM Invariance == Spec => []IInv
BY InitInvariant, StepInvariant, PTL DEF Spec

\* Every variable of the broker keeps its type, for any number of messages and
\* connections.
THEOREM TypeCorrect == Spec => []TypeOK
<1>1. IInv => TypeOK
  BY DEF IInv
<1>2. QED
  BY Invariance, <1>1, PTL

\* What dispatch and the actions of the Scheduler deliver is in the order it was
\* read in, and nothing is delivered twice: only a message dispatched between the
\* test of the entry and the last of its custom messages can overtake them.
THEOREM DeliveriesInOrder == Spec => []DeliveredInOrder
<1>1. IInv => DeliveredInOrder
  BY DEF IInv
<1>2. QED
  BY Invariance, <1>1, PTL

\* Nothing that is gone is used within one connection: an action whose entry is
\* erased was queued by a later connection, the messages without an entity are of
\* connections that have ended, and an entity that is destroyed is asked for only
\* for a message of a later connection.
THEOREM UndefinedOnlyAcrossConnections == Spec => []UndefinedAcrossConnections
<1>1. IInv => UndefinedAcrossConnections
  BY DEF IInv
<1>2. QED
  BY Invariance, <1>1, PTL

\* An entity of the default scheduler sees messages of its own connection only,
\* though its subscription may outlive the connection and the messages of earlier
\* ones may still be in the entry.
THEOREM NoStaleDelivery == Spec => []NoStaleMessage
<1>1. IInv => NoStaleMessage
  BY DEF IInv
<1>2. QED
  BY Invariance, <1>1, PTL

-----------------------------------------------------------------------------
(* Nothing is lost. *)

LEMMA WhereKept ==
    ASSUME TypeOK, NEW m, Kept(m)
    PROVE  \/ WasDelivered(m) \/ InDefault(m) \/ InCustom(m) \/ InReleased(m) \/ message = m
           \/ \E e : Queued("invoke", m, e)
<1>1. (\E i \in DOMAIN delivered : delivered[i].of = m) => WasDelivered(m)
  BY Records, LenProperties DEF WasDelivered
<1>2. ASSUME NEW i \in DOMAIN queue, queue[i].kind = "invoke", queue[i].of = m
      PROVE  \E e : Queued("invoke", m, e)
  <2>1. i \in 1..Len(queue) /\ queue[i] \in Actions
    BY <1>2, Records, LenProperties, ElementOfSeq
  <2>2. queue[i] = [kind |-> "invoke", of |-> m, with |-> queue[i].with]
    BY <1>2, <2>1 DEF Actions
  <2>3. Queued("invoke", m, queue[i].with)
    BY <2>1, <2>2 DEF Queued, In
  <2>4. QED
    BY <2>3
<1>3. QED
  BY <1>1, <1>2 DEF Kept, Contains, InDefault, InCustom, InReleased, In

LEMMA StaysKept ==
    ASSUME TypeOK', NEW m,
           \/ WasDelivered(m)' \/ InDefault(m)' \/ InCustom(m)' \/ InReleased(m)' \/ message' = m
           \/ \E e : Queued("invoke", m, e)'
    PROVE  Kept(m)'
<1>1. /\ delivered' \in Seq([of : 1..dispatched', to : 1..connection'])
      /\ queue' \in Seq(Actions')
  BY DEF TypeOK
<1>2. DOMAIN delivered' = 1..Len(delivered') /\ DOMAIN queue' = 1..Len(queue')
  BY <1>1, LenProperties
<1>3. WasDelivered(m)' => \E i \in DOMAIN delivered' : delivered'[i].of = m
  BY <1>2 DEF WasDelivered
<1>4. (\E e : Queued("invoke", m, e)')
         => \E i \in DOMAIN queue' : queue'[i].kind = "invoke" /\ queue'[i].of = m
  BY <1>2 DEF Queued, In
<1>5. QED
  BY <1>3, <1>4 DEF Kept, Contains, InDefault, InCustom, InReleased, In

LEMMA IsDelivered ==
    ASSUME TypeOK, NEW m, NEW e, delivered' = Append(delivered, [of |-> m, to |-> e])
    PROVE  WasDelivered(m)'
<1> DEFINE y == [of |-> m, to |-> e]
           S == [of : 1..dispatched, to : 1..connection] \cup {y}
<1>1. delivered \in Seq(S) /\ y \in S /\ delivered' = Append(delivered, y)
  BY Records, SeqMonotonic
<1>2. /\ Len(delivered) \in Nat /\ Len(delivered') = Len(delivered) + 1
      /\ delivered'[Len(delivered) + 1] = y
  <2> HIDE DEF S, y
  <2>1. QED
    BY <1>1, AppendProperties, LenProperties
<1>3. Len(delivered) + 1 \in 1..Len(delivered')
  BY <1>2
<1>4. QED
  BY <1>2, <1>3 DEF WasDelivered

\* The entity of a connection that is up is found by its id.
LEMMA PresentIsTold ==
    ASSUME TypeOK, NEW m, wire = "up", subscription = connection,
           delivered' = Told(connection, m)
    PROVE  WasDelivered(m)'
<1>1. Exists(connection)
  BY Numbers DEF Exists, Unbound, Absent
<1>2. delivered' = Append(delivered, [of |-> m, to |-> connection])
  BY <1>1 DEF Told
<1>3. QED
  BY <1>2, IsDelivered

LEMMA NothingGetsLost == IInv /\ IInv' /\ NothingIsLost /\ [Next]_vars => NothingIsLost'
<1> SUFFICES ASSUME IInv, TypeOK', NothingIsLost, [Next]_vars, wire' = "up",
                    NEW m \in 1..dispatched', m \notin gap', m \notin strays',
                    sentOn'[m] = connection'
             PROVE  Kept(m)'
  BY DEF IInv, NothingIsLost
<1> USE Numbers DEF IInv
<1> DEFINE KeptNow == \/ WasDelivered(m)' \/ InDefault(m)' \/ InCustom(m)' \/ InReleased(m)'
                      \/ message' = m \/ \E e : Queued("invoke", m, e)'
           KeptBefore == \/ WasDelivered(m) \/ InDefault(m) \/ InCustom(m) \/ InReleased(m)
                         \/ message = m \/ \E e : Queued("invoke", m, e)
<1>1. SUFFICES KeptNow
  BY StaysKept
<1>2. ASSUME m \in 1..dispatched, m \notin gap, m \notin strays, wire = "up", sentOn[m] = connection
      PROVE  KeptBefore
  BY <1>2, WhereKept DEF NothingIsLost
<1>3. ASSUME UNCHANGED <<wire, connection, dispatched, sentOn, gap, strays>>
      PROVE  /\ KeptBefore /\ m \in 1..dispatched /\ ~Terminated(sentOn[m])
             /\ wire = "up" /\ sentOn[m] = connection /\ m \notin gap /\ m \notin strays
  BY <1>2, <1>3 DEF Terminated
<1>4. ASSUME UNCHANGED <<wire, connection, dispatched, sentOn, gap, strays, message,
                         default_scheduler_messages, custom_scheduler_messages, released, delivered>>,
             \A e : Queued("invoke", m, e) => Queued("invoke", m, e)'
      PROVE  KeptNow
  BY <1>3, <1>4 DEF WasDelivered, InDefault, InCustom, InReleased
\* The entity is subscribed, unless it is being bound.
<1>5. ASSUME wire = "up", model = connection, step \notin {"advise", "subscribe"}
      PROVE  subscription = connection
  BY <1>5 DEF Bindings
<1>6. CASE Connect
  <2>1. connection' = connection + 1 /\ sentOn' = sentOn /\ dispatched' = dispatched
    BY <1>6 DEF Connect, messageVars
  <2>2. QED
    BY <2>1
<1>7. CASE Disconnect \/ Unbind
  BY <1>7 DEF Disconnect, Unbind
<1>8. CASE Dispatch
  <2>1. /\ wire = "up" /\ connection' = connection /\ UNCHANGED <<message, released>>
        /\ gap \subseteq gap'
        /\ strays' = IF subscription \in 1..connection-1 THEN strays \cup {dispatched + 1} ELSE strays
        /\ \A x \in 1..dispatched : sentOn'[x] = sentOn[x]
        /\ m \in 1..dispatched \/ m = dispatched + 1
    BY <1>8, Sends DEF Dispatch, wireVars, actionVars
  <2>2. CASE m \in 1..dispatched
    <3>1. KeptBefore
      BY <1>2, <2>1, <2>2
    <3>2. InReleased(m)' <=> InReleased(m)
      BY <2>1 DEF InReleased
    <3>3. InDefault(m) => InDefault(m)'
      <4>1. CASE default_scheduler_messages' = default_scheduler_messages
        BY <4>1 DEF InDefault
      <4>2. CASE default_scheduler_messages' = Append(default_scheduler_messages, dispatched + 1)
        BY <4>2, DefaultGrows DEF Stages
      <4>3. QED
        BY <1>8, <4>1, <4>2 DEF Dispatch, DispatchUnbound, DispatchDefault, DispatchCustom,
                                DeliverOrQueue, DispatchDestroyed, entryVars
    <3>4. InCustom(m) => InCustom(m)'
      <4>1. CASE custom_scheduler_messages' = custom_scheduler_messages
        BY <4>1 DEF InCustom
      <4>2. CASE custom_scheduler_messages' = Append(custom_scheduler_messages, dispatched + 1)
        BY <4>2, CustomGrows DEF Stages
      <4>3. QED
        BY <1>8, <4>1, <4>2 DEF Dispatch, DispatchUnbound, DispatchDefault, DispatchCustom,
                                DeliverOrQueue, DispatchDestroyed, entryVars
    <3>5. WasDelivered(m) => WasDelivered(m)'
      <4>1. CASE delivered' = delivered
        BY <4>1 DEF WasDelivered
      <4>2. CASE delivered' = Told(subscription, dispatched + 1)
        <5>1. delivered' \in {delivered, Append(delivered, [of |-> dispatched + 1, to |-> subscription])}
          BY <4>2, ToldAppends
        <5>2. QED
          BY <5>1, Delivers
      <4>3. QED
        BY <1>8, <4>1, <4>2 DEF Dispatch, DispatchUnbound, DispatchDefault, DispatchCustom,
                                DeliverOrQueue, DispatchDestroyed
    <3>6. \A e : Queued("invoke", m, e) => Queued("invoke", m, e)'
      <4>1. CASE queue' = queue
        BY <4>1 DEF Queued
      <4>2. ASSUME NEW kind, NEW b,
                   queue' = Append(queue, [kind |-> kind, of |-> dispatched + 1, with |-> b])
            PROVE  \A e : Queued("invoke", m, e) => Queued("invoke", m, e)'
        BY <4>2, QueueGrows
      <4>3. QED
        BY <1>8, <4>1, <4>2, DispatchQueues
    <3>7. QED
      BY <2>1, <3>1, <3>2, <3>3, <3>4, <3>5, <3>6
  <2>3. CASE m = dispatched + 1
    <3>1. subscription > 0 => subscription = connection
      BY <2>1, <2>3
    <3>2. CASE DispatchUnbound
      <4>1. InDefault(m)'
        BY <2>3, <3>2, DefaultGrows DEF DispatchUnbound, Stages
      <4>2. QED
        BY <4>1
    <3>3. CASE DispatchDefault
      <4>1. Queued("invoke", m, subscription)' \/ \E e : Queued("invoke", m, e)'
        BY <2>3, <3>3, QueueGrows DEF DispatchDefault, Invoke
      <4>2. QED
        BY <4>1
    <3>4. CASE DispatchCustom /\ entry = 0
      <4>1. delivered' = Told(subscription, m) /\ subscription > 0
        BY <2>3, <3>4 DEF DispatchCustom, DeliverOrQueue
      <4>2. WasDelivered(m)'
        BY <2>1, <3>1, <4>1, PresentIsTold
      <4>3. QED
        BY <4>2
    <3>5. CASE DispatchCustom /\ entry # 0
      <4>1. InCustom(m)'
        BY <2>3, <3>5, CustomGrows DEF DispatchCustom, DeliverOrQueue, Stages
      <4>2. QED
        BY <4>1
    <3>6. CASE DispatchDestroyed
      <4>1. subscription > 0 /\ subscription # model
        BY <3>6 DEF DispatchDestroyed
      <4>2. subscription < connection
        BY <4>1 DEF Bindings
      <4>3. QED
        BY <3>1, <4>1, <4>2
    <3>7. QED
      BY <1>8, <3>2, <3>3, <3>4, <3>5, <3>6 DEF Dispatch
  <2>4. QED
    BY <2>1, <2>2, <2>3
<1>9. CASE RunInvoke
  <2>1. /\ UNCHANGED <<wire, connection, dispatched, sentOn, gap, strays, message, model,
                       default_scheduler_messages, custom_scheduler_messages, released>>
        /\ Starts("invoke") /\ step = "idle"
    BY <1>9 DEF RunInvoke, Starts, wireVars, messageVars, entryVars, actionVars
  <2>2. PICK a, b : Takes("invoke", a, b)
    BY <2>1, TakeHead
  <2>3. /\ Queued("invoke", a, b) /\ Head(queue) = [kind |-> "invoke", of |-> a, with |-> b]
        /\ \A n, e : Queued("invoke", n, e) => Queued("invoke", n, e)' \/ (n = a /\ e = b)
    BY <2>2 DEF Takes
  <2>4. WasDelivered(m) => WasDelivered(m)'
    <3>1. delivered' \in {delivered, Append(delivered, [of |-> a, to |-> model])}
      BY <1>9, <2>3, ToldAppends DEF RunInvoke
    <3>2. QED
      BY <3>1, Delivers
  <2>5. KeptBefore /\ wire = "up" /\ sentOn[m] = connection /\ m \notin strays
    BY <1>3, <2>1
  <2>6. CASE \E e : Queued("invoke", m, e)
    <3>1. PICK e : Queued("invoke", m, e)
      BY <2>6
    <3>2. CASE Queued("invoke", m, e)'
      BY <3>2
    <3>3. CASE m = a /\ e = b
      <4>1. b = sentOn[a] /\ b = model
        BY <2>3, <2>5, <3>3 DEF Invokes
      <4>2. delivered' = Told(model, a) /\ model = connection
        <5>1. Head(queue).with = model /\ Head(queue).of = a
          BY <2>3, <4>1
        <5>2. delivered' = Told(model, a)
          BY <1>9, <5>1 DEF RunInvoke
        <5>3. QED
          BY <2>5, <3>3, <4>1, <5>2
      <4>3. subscription = connection
        BY <1>5, <2>1, <2>5, <4>2
      <4>4. WasDelivered(m)'
        BY <2>5, <3>3, <4>2, <4>3, PresentIsTold
      <4>5. QED
        BY <4>4
    <3>4. QED
      BY <2>3, <3>1, <3>2, <3>3
  <2>7. CASE ~\E e : Queued("invoke", m, e)
    BY <2>1, <2>4, <2>5, <2>7 DEF InDefault, InCustom, InReleased
  <2>8. QED
    BY <2>6, <2>7
<1>10. CASE PopMessage
  <2>1. /\ UNCHANGED <<wire, connection, dispatched, sentOn, gap, strays, queue,
                       custom_scheduler_messages, released, delivered>>
        /\ step = "pop"
    BY <1>10 DEF PopMessage, PopIf, wireVars, messageVars
  <2>2. message = 0 /\ m # 0
    BY <2>1 DEF Stages
  <2>3. InDefault(m) => InDefault(m)' \/ message' = m
    BY <1>10, PopTakes
  <2>4. KeptBefore
    BY <1>3, <2>1
  <2>5. QED
    BY <2>1, <2>2, <2>3, <2>4 DEF WasDelivered, InCustom, InReleased, Queued
<1>11. CASE InvokePopped
  <2>1. /\ UNCHANGED <<wire, connection, dispatched, sentOn, gap, strays, queue, subscription, model,
                       default_scheduler_messages, custom_scheduler_messages, released>>
        /\ step = "invoke"
    BY <1>11 DEF InvokePopped, wireVars, messageVars, subscriptionVars, entryVars
  <2>2. KeptBefore /\ wire = "up" /\ sentOn[m] = connection /\ ~Terminated(sentOn[m]) /\ m # 0
    BY <1>3, <2>1
  <2>3. CASE message = m
    <3>1. InHand(m)
      BY <2>2, <2>3 DEF InHand
    <3>2. found = connection /\ found # Null
      BY <2>2, <3>1 DEF Hand
    <3>3. model = connection
      <4>1. Pumping
        BY <2>1 DEF Pumping
      <4>2. found <= model
        BY <4>1 DEF Bindings
      <4>3. QED
        BY <3>2, <4>2
    <3>4. subscription = connection
      BY <1>5, <2>1, <2>2, <3>3
    <3>5. CASE custom
      <4>1. delivered' = Told(connection, m)
        BY <1>11, <2>2, <2>3, <3>2, <3>5 DEF InvokePopped
      <4>2. WasDelivered(m)'
        BY <2>2, <3>4, <4>1, PresentIsTold
      <4>3. QED
        BY <4>2
    <3>6. CASE ~custom
      <4>1. delivered' = Append(delivered, [of |-> m, to |-> found])
        BY <1>11, <2>2, <2>3, <3>2, <3>6 DEF InvokePopped
      <4>2. WasDelivered(m)'
        BY <4>1, IsDelivered
      <4>3. QED
        BY <4>2
    <3>7. QED
      BY <3>5, <3>6
  <2>4. CASE message # m
    <3>1. WasDelivered(m) => WasDelivered(m)'
      <4>1. delivered' \in {delivered, Append(delivered, [of |-> message, to |-> found])}
        BY <1>11, ToldAppends DEF InvokePopped
      <4>2. QED
        BY <4>1, Delivers
    <3>2. QED
      BY <2>1, <2>2, <2>4, <3>1 DEF InDefault, InCustom, InReleased, Queued
  <2>5. QED
    BY <2>3, <2>4
<1>12. CASE MoveEntry
  <2>1. /\ UNCHANGED <<wire, connection, dispatched, sentOn, gap, strays, queue, message, delivered>>
        /\ step = "move" /\ released' = custom_scheduler_messages
    BY <1>12 DEF MoveEntry, wireVars, messageVars
  <2>2. ~InDefault(m) /\ ~InReleased(m)
    BY <1>3, <2>1, NothingInEmpty DEF Stages, InReleased
  <2>3. KeptBefore
    BY <1>3, <2>1
  <2>4. QED
    BY <2>1, <2>2, <2>3 DEF WasDelivered, InCustom, InReleased, Queued
<1>13. CASE EraseEntry
  <2>1. /\ UNCHANGED <<wire, connection, dispatched, sentOn, gap, strays, queue, message, delivered,
                       released>>
        /\ step = "erase"
    BY <1>13 DEF EraseEntry, EraseThen, wireVars, messageVars, actionVars
  <2>2. ~InDefault(m) /\ ~InCustom(m)
    BY <1>3, <2>1 DEF Stages
  <2>3. KeptBefore
    BY <1>3, <2>1
  <2>4. QED
    BY <2>1, <2>2, <2>3 DEF WasDelivered, InReleased, Queued
<1>14. CASE ReleaseNext
  <2>1. /\ UNCHANGED <<wire, connection, dispatched, sentOn, gap, strays, queue, message,
                       default_scheduler_messages, custom_scheduler_messages>>
        /\ step = "release" /\ found # Null /\ delivered' = Told(found, Head(released))
    BY <1>14 DEF ReleaseNext, wireVars, messageVars, entryVars
  <2>2. \A n : InReleased(n) <=> InReleased(n)' \/ n = Head(released)
    BY <1>14, ReleaseTakes
  <2>3. KeptBefore /\ wire = "up" /\ ~Terminated(sentOn[m]) /\ m \notin strays
    BY <1>3, <2>1
  <2>4. WasDelivered(m) => WasDelivered(m)'
    <3>1. delivered' \in {delivered, Append(delivered, [of |-> Head(released), to |-> found])}
      BY <2>1, ToldAppends
    <3>2. QED
      BY <3>1, Delivers
  <2>5. InReleased(m) /\ m = Head(released) => WasDelivered(m)'
    <3>1. SUFFICES ASSUME InReleased(m), m = Head(released) PROVE WasDelivered(m)'
      OBVIOUS
    <3>2. subscription = connection /\ subscription > 0
      BY <2>3, <3>1 DEF Customs
    <3>3. Pumping
      BY <2>1 DEF Pumping
    <3>4. found = connection
      BY <3>2, <3>3 DEF Bindings
    <3>5. delivered' = Told(connection, m)
      BY <2>1, <3>1, <3>4
    <3>6. QED
      BY <2>3, <3>2, <3>5, PresentIsTold
  <2>6. QED
    BY <2>1, <2>2, <2>3, <2>4, <2>5 DEF InDefault, InCustom, Queued
<1>15. CASE RunBind \/ RunPump \/ RunPumpErased
  <2>1. UNCHANGED <<wire, connection, dispatched, sentOn, gap, strays, message,
                    default_scheduler_messages, custom_scheduler_messages, released, delivered>>
    BY <1>15 DEF RunBind, RunPump, RunPumpErased, wireVars, messageVars, entryVars, actionVars
  <2>2. PICK kind \in {"bind", "pump"} : Starts(kind)
    BY <1>15 DEF RunBind, RunPump, RunPumpErased
  <2>3. PICK a, b : Takes(kind, a, b)
    BY <2>2, TakeHead
  <2>4. \A e : Queued("invoke", m, e) => Queued("invoke", m, e)'
    BY <2>2, <2>3 DEF Takes
  <2>5. QED
    BY <1>4, <2>1, <2>4
<1>16. CASE CheckTerminated \/ Subscribe \/ AddAction \/ CheckEmpty \/ ReleaseToNull \/ ReleaseDone
               \/ UNCHANGED vars
  <2>1. UNCHANGED <<wire, connection, dispatched, sentOn, gap, strays, message, queue,
                    default_scheduler_messages, custom_scheduler_messages, released, delivered>>
    BY <1>16 DEF CheckTerminated, Subscribe, AddAction, CheckEmpty, ReleaseIf, ReleaseToNull,
         ReleaseDone, vars, wireVars, messageVars, entryVars, actionVars
  <2>2. QED
    BY <1>4, <2>1 DEF Queued
<1>17. QED
  BY <1>6, <1>7, <1>8, <1>9, <1>10, <1>11, <1>12, <1>13, <1>14, <1>15, <1>16
     DEF Next, RunWire, RunScheduler

\* While its connection lasts, a message waits in a container of the broker, for
\* its action or in its hand, or has been delivered, unless it came while an entry
\* was given up or went to the entity of an earlier connection.
THEOREM MessagesAreKept == Spec => []NothingIsLost
<1>1. Init => NothingIsLost
  BY DEF Init, NothingIsLost
<1>2. QED
  BY <1>1, Invariance, NothingGetsLost, PTL DEF Spec
=============================================================================
