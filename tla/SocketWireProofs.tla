--------------------------- MODULE SocketWireProofs ---------------------------
(* What holds of the wire for any number of messages and connections.       *)
EXTENDS SocketWire, SequenceTheorems, TLAPS

\* Nothing in flight or acknowledged is ahead of what was sent, and a new
\* connection is empty until the resent messages are on it.
InFlightWasSent ==
    /\ \A i \in 1..Len(packages) : packages[i] <= max_sent_seqn
    /\ \A i \in 1..Len(acks) : acks[i] <= max_sent_seqn
    /\ max_received_seqn <= max_sent_seqn
    /\ AcknowledgedWasSent
    /\ phase = "off" => link # "up"
    /\ phase = "attached" /\ ~overtaken => packages = <<>> /\ acks = <<>>

\* The packages in flight are consecutive, begin at most one after the last
\* one read, after everything acknowledged, and end with the last one sent.
InFlightInOrder ==
    ~overtaken =>
        /\ \A i \in 1..(Len(packages) - 1) : packages[i + 1] = packages[i] + 1
        /\ packages # <<>> =>
              /\ packages[1] <= max_received_seqn + 1
              /\ acknowledged_seqn < packages[1]
              /\ \A i \in 1..Len(acks) : acks[i] < packages[1]
        /\ \A i \in 1..Len(acks) : acks[i] <= max_received_seqn
        /\ acknowledged_seqn <= max_received_seqn
        /\ link = "up" /\ phase = "on" =>
              IF packages = <<>> THEN max_received_seqn = max_sent_seqn
                                 ELSE packages[Len(packages)] = max_sent_seqn

IInv == TypeOK /\ InFlightWasSent /\ InFlightInOrder

-----------------------------------------------------------------------------
\* The messages sent again are numbered without a hole.
LEMMA RunIsConsecutive ==
    ASSUME NEW first \in Nat \ {0}, NEW last \in Nat
    PROVE  /\ Run(first, last) \in Seq(Nat \ {0})
           /\ Len(Run(first, last)) = IF first <= last THEN last + 1 - first ELSE 0
           /\ \A i \in 1..Len(Run(first, last)) :
                 Run(first, last)[i] = first + i - 1 /\ Run(first, last)[i] <= last
<1> DEFINE n == IF first <= last THEN last + 1 - first ELSE 0
<1>1. n \in Nat /\ 1..(last + 1 - first) = 1..n
  OBVIOUS
<1>2. Run(first, last) = [i \in 1..n |-> first + i - 1]
  BY <1>1 DEF Run
<1>3. \A i \in 1..n : first + i - 1 \in Nat \ {0}
  OBVIOUS
<1> QED
  BY <1>1, <1>2, <1>3

\* The initial state satisfies the invariant.
LEMMA InitIInv == Init => IInv
<1> SUFFICES ASSUME Init PROVE IInv
  OBVIOUS
<1>1. packages \in Seq(Nat \ {0}) /\ Len(packages) = 0 /\ acks \in Seq(Nat \ {0}) /\ Len(acks) = 0
  BY DEF Init
<1>2. TypeOK
  <2>1. /\ accepted \in Nat /\ queued \in Nat /\ max_sent_seqn \in Nat
        /\ acknowledged_seqn \in Nat /\ current_seqn \in Nat \ {0}
        /\ max_sent_seqn <= queued /\ queued <= accepted /\ accepted <= MaxMessages
    BY BoundsAssumption DEF Init
  <2>2. links \in 0..MaxLinks
    BY BoundsAssumption DEF Init
  <2> QED
    BY <1>1, <2>1, <2>2 DEF Init, TypeOK
<1>3. InFlightWasSent
  BY <1>1 DEF Init, InFlightWasSent, AcknowledgedWasSent
<1>4. InFlightInOrder
  BY <1>1 DEF Init, InFlightInOrder
<1> QED
  BY <1>2, <1>3, <1>4 DEF IInv

-----------------------------------------------------------------------------
\* Each action preserves the types.
LEMMA TypeStep == TypeOK /\ InFlightWasSent /\ [Next]_vars => TypeOK'
<1> SUFFICES ASSUME TypeOK, InFlightWasSent, [Next]_vars PROVE TypeOK'
  OBVIOUS
<1> USE BoundsAssumption
<1>1. CASE Put
  BY <1>1 DEF TypeOK, Put, linkVars, receiverVars
<1>2. CASE Take
  BY <1>2 DEF TypeOK, Take, linkVars, receiverVars
<1>3. CASE StartProcess
  BY <1>3 DEF TypeOK, StartProcess, processorVars, linkVars, receiverVars
<1>4. CASE SendNext
  <2>1. max_sent_seqn + 1 \in Nat \ {0}
    BY DEF TypeOK
  <2>2. packages' \in Seq(Nat \ {0})
    BY <1>4, <2>1 DEF TypeOK, SendNext
  <2>3. overtaken' \in BOOLEAN
    BY <1>4, Zenon DEF TypeOK, SendNext
  <2> QED
    BY <1>4, <2>2, <2>3 DEF TypeOK, SendNext, receiverVars
<1>5. CASE EndProcess
  BY <1>5 DEF TypeOK, EndProcess, processorVars, linkVars, receiverVars
<1>6. CASE ThreadExit
  BY <1>6 DEF TypeOK, ThreadExit, processorVars, linkVars, receiverVars
<1>7. CASE Attach
  BY <1>7 DEF TypeOK, Attach, processorVars, receiverVars
<1>8. CASE Resume
  <2>1. Unacknowledged \in Nat \ {0}
    BY DEF TypeOK, Unacknowledged, Larger
  <2>2. Run(Unacknowledged, max_sent_seqn) \in Seq(Nat \ {0})
    BY <2>1, RunIsConsecutive DEF TypeOK
  <2>3. packages' \in Seq(Nat \ {0})
    BY <1>8, <2>2 DEF TypeOK, Resume, ResumeWith
  <2> QED
    BY <1>8, <2>1, <2>3 DEF TypeOK, Resume, ResumeWith, receiverVars
<1>9. CASE ReadAck
  BY <1>9 DEF TypeOK, ReadAck, Larger, receiverVars
<1>10. CASE Leave
  BY <1>10 DEF TypeOK, Leave, processorVars, receiverVars
<1>11. CASE ReadPackage
  <2>1. /\ Head(packages) \in Nat \ {0}
        /\ packages' \in Seq(Nat \ {0})
    BY <1>11 DEF TypeOK, ReadPackage
  <2>2. acks' \in Seq(Nat \ {0}) /\ max_received_seqn' \in Nat
    BY <1>11, <2>1 DEF TypeOK, ReadPackage
  <2>3. garbled' \in BOOLEAN
    BY <1>11, Zenon DEF TypeOK, ReadPackage
  <2> QED
    BY <1>11, <2>1, <2>2, <2>3 DEF TypeOK, ReadPackage, processorVars
<1>12. CASE LoseInFlight /\ (BreakLink \/ Stopped)
  <2>1. packages' \in Seq(Nat \ {0}) /\ acks' \in Seq(Nat \ {0})
    BY <1>12 DEF TypeOK, LoseInFlight
  <2> QED
    BY <1>12, <2>1 DEF TypeOK, BreakLink, Stopped, processorVars, receiverVars
<1>13. CASE Stop
  BY <1>13 DEF TypeOK, Stop, processorVars, linkVars, receiverVars
<1>14. CASE UNCHANGED vars
  BY <1>14 DEF TypeOK, vars, processorVars, linkVars, receiverVars
<1> QED
  BY <1>1, <1>2, <1>3, <1>4, <1>5, <1>6, <1>7, <1>8, <1>9, <1>10, <1>11, <1>12, <1>13, <1>14
  DEF Next, BreakLink, Stopped

\* No action lets something run ahead of what was sent.
LEMMA WasSentStep == TypeOK /\ InFlightWasSent /\ [Next]_vars => InFlightWasSent'
<1> SUFFICES ASSUME TypeOK, InFlightWasSent, [Next]_vars PROVE InFlightWasSent'
  OBVIOUS
<1> USE DEF TypeOK, InFlightWasSent, AcknowledgedWasSent
<1>1. CASE Put \/ Take \/ StartProcess \/ EndProcess \/ ThreadExit \/ Stop \/ UNCHANGED vars
  BY <1>1 DEF Put, Take, StartProcess, EndProcess, ThreadExit, Stop, vars,
              processorVars, linkVars, receiverVars
<1>2. CASE SendNext
  <2>1. \A i \in 1..Len(packages') : packages'[i] <= max_sent_seqn'
    BY <1>2 DEF SendNext
  <2>2. phase' = "attached" /\ ~overtaken' => packages' = <<>> /\ acks' = <<>>
    BY <1>2 DEF SendNext
  <2> QED
    BY <1>2, <2>1, <2>2 DEF SendNext, receiverVars
<1>3. CASE Attach
  BY <1>3 DEF Attach, processorVars, receiverVars
<1>4. CASE Resume
  <2> DEFINE first == Unacknowledged
  <2>1. first \in Nat \ {0} /\ first = acknowledged_seqn + 1
    BY DEF Unacknowledged, Larger
  <2>2. \A i \in 1..Len(Run(first, max_sent_seqn)) : Run(first, max_sent_seqn)[i] <= max_sent_seqn
    BY <2>1, RunIsConsecutive
  <2>3. Run(first, max_sent_seqn) \in Seq(Nat \ {0})
    BY <2>1, RunIsConsecutive
  <2> HIDE DEF first
  <2>4. \A i \in 1..Len(packages') : packages'[i] <= max_sent_seqn
    BY <1>4, <2>2, <2>3, SMTT(30) DEF Resume, ResumeWith, first
  <2> QED
    BY <1>4, <2>1, <2>4 DEF Resume, ResumeWith, receiverVars, first
<1>5. CASE ReadAck
  <2>1. Head(acks) \in Nat /\ Head(acks) <= max_sent_seqn
    BY <1>5 DEF ReadAck
  <2>2. \A i \in 1..Len(acks') : acks'[i] <= max_sent_seqn
    BY <1>5 DEF ReadAck
  <2> QED
    BY <1>5, <2>1, <2>2 DEF ReadAck, Larger, receiverVars
<1>6. CASE Leave
  BY <1>6 DEF Leave, processorVars, receiverVars
<1>7. CASE ReadPackage
  <2>1. Head(packages) \in Nat /\ Head(packages) <= max_sent_seqn
    BY <1>7 DEF ReadPackage
  <2>2. \A i \in 1..Len(packages') : packages'[i] <= max_sent_seqn
    BY <1>7 DEF ReadPackage
  <2>3. \A i \in 1..Len(acks') : acks'[i] <= max_sent_seqn
    BY <1>7, <2>1 DEF ReadPackage
  <2> QED
    BY <1>7, <2>1, <2>2, <2>3 DEF ReadPackage, processorVars
<1>8. CASE LoseInFlight /\ (BreakLink \/ Stopped)
  <2>1. \A i \in 1..Len(packages') : packages'[i] <= max_sent_seqn
    BY <1>8 DEF LoseInFlight
  <2>2. \A i \in 1..Len(acks') : acks'[i] <= max_sent_seqn
    BY <1>8 DEF LoseInFlight
  <2>3. packages = <<>> /\ acks = <<>> => packages' = <<>> /\ acks' = <<>>
    BY <1>8 DEF LoseInFlight
  <2> QED
    BY <1>8, <2>1, <2>2, <2>3, SMTT(30) DEF BreakLink, Stopped, processorVars, receiverVars
<1> QED
  BY <1>1, <1>2, <1>3, <1>4, <1>5, <1>6, <1>7, <1>8 DEF Next, BreakLink, Stopped

\* What a whole prefix of the sequence in flight keeps of its order.
LEMMA OrderStep == IInv /\ [Next]_vars => InFlightInOrder'
<1> SUFFICES ASSUME IInv, [Next]_vars, ~overtaken' PROVE InFlightInOrder'
  BY DEF InFlightInOrder
<1> USE DEF IInv, TypeOK, InFlightWasSent, InFlightInOrder, AcknowledgedWasSent
<1>0. ~overtaken
  BY DEF Next, Put, Take, StartProcess, SendNext, EndProcess, ThreadExit, Attach, Resume,
         ResumeWith, ReadAck, Leave, ReadPackage, BreakLink, Stop, Stopped, vars
<1>1. CASE Put \/ Take \/ StartProcess \/ EndProcess \/ ThreadExit \/ Stop \/ UNCHANGED vars
  BY <1>0, <1>1 DEF Put, Take, StartProcess, EndProcess, ThreadExit, Stop, vars,
              processorVars, linkVars, receiverVars
<1>2. CASE SendNext
  <2>1. CASE link = "up"
    <3>1. phase = "on"
      BY <1>2, <2>1 DEF SendNext
    <3>2. packages' = Append(packages, max_sent_seqn + 1)
      BY <1>2, <2>1 DEF SendNext
    <3>3. \A i \in 1..(Len(packages') - 1) : packages'[i + 1] = packages'[i] + 1
      BY <1>0, <2>1, <3>1, <3>2
    <3>4. packages' # <<>> /\ packages'[Len(packages')] = max_sent_seqn + 1
      BY <3>2
    <3>5. packages'[1] = IF packages = <<>> THEN max_sent_seqn + 1 ELSE packages[1]
      BY <3>2
    <3>6. /\ packages'[1] <= max_received_seqn + 1
          /\ acknowledged_seqn < packages'[1]
          /\ \A i \in 1..Len(acks) : acks[i] < packages'[1]
      BY <1>0, <2>1, <3>1, <3>5
    <3> QED
      BY <1>0, <1>2, <3>3, <3>4, <3>6 DEF SendNext, receiverVars
  <2>2. CASE link # "up"
    BY <1>0, <1>2, <2>2 DEF SendNext, receiverVars
  <2> QED
    BY <2>1, <2>2
<1>3. CASE Attach
  BY <1>0, <1>3 DEF Attach, processorVars, receiverVars
<1>4. CASE Resume
  <2> DEFINE first == Unacknowledged
  <2>1. first \in Nat \ {0} /\ first = acknowledged_seqn + 1
    BY DEF Unacknowledged, Larger
  <2> DEFINE again == Run(first, max_sent_seqn)
  <2>2. /\ again \in Seq(Nat \ {0})
        /\ Len(again) = IF first <= max_sent_seqn THEN max_sent_seqn + 1 - first ELSE 0
        /\ \A i \in 1..Len(again) : again[i] = first + i - 1
    <3> HIDE DEF first
    <3>1. max_sent_seqn \in Nat
      BY DEF TypeOK
    <3>2. /\ Run(first, max_sent_seqn) \in Seq(Nat \ {0})
          /\ Len(Run(first, max_sent_seqn))
             = IF first <= max_sent_seqn THEN max_sent_seqn + 1 - first ELSE 0
      BY <2>1, <3>1, RunIsConsecutive
    <3>3. \A i \in 1..Len(Run(first, max_sent_seqn)) :
             /\ Run(first, max_sent_seqn)[i] = first + i - 1
             /\ Run(first, max_sent_seqn)[i] <= max_sent_seqn
      BY <2>1, <3>1, RunIsConsecutive, Zenon
    <3> QED
      BY <3>2, <3>3
  <2> HIDE DEF first, again
  <2>3. packages = <<>> /\ acks = <<>>
    BY <1>0, <1>4 DEF Resume, ResumeWith
  <2>4. CASE link = "up"
    <3>1. packages' = again
      BY <1>4, <2>2, <2>3, <2>4 DEF Resume, ResumeWith, first, again
    <3>2. CASE first <= max_sent_seqn
      <4>1. /\ Len(packages') = max_sent_seqn + 1 - first
            /\ packages' # <<>>
            /\ packages'[1] = acknowledged_seqn + 1
            /\ packages'[Len(packages')] = max_sent_seqn
            /\ \A i \in 1..(Len(packages') - 1) : packages'[i + 1] = packages'[i] + 1
        BY <2>1, <2>2, <3>1, <3>2
      <4> QED
        BY <1>0, <1>4, <2>3, <4>1 DEF Resume, ResumeWith, receiverVars
    <3>3. CASE max_sent_seqn < first
      <4>1. packages' = <<>> /\ Len(packages') = 0
        BY <2>1, <2>2, <3>1, <3>3
      <4>2. max_received_seqn = max_sent_seqn
        BY <1>0, <2>1, <3>3
      <4> QED
        BY <1>0, <1>4, <2>3, <4>1, <4>2 DEF Resume, ResumeWith, receiverVars
    <3> QED
      BY <2>1, <3>2, <3>3
  <2>5. CASE link # "up"
    BY <1>0, <1>4, <2>3, <2>5 DEF Resume, ResumeWith, receiverVars
  <2> QED
    BY <2>4, <2>5
<1>5. CASE ReadAck
  <2>1. /\ Head(acks) = acks[1] /\ 1 \in 1..Len(acks)
        /\ \A i \in 1..Len(acks') : i + 1 \in 1..Len(acks) /\ acks'[i] = acks[i + 1]
    BY <1>5 DEF ReadAck
  <2>2. acknowledged_seqn' \in {acknowledged_seqn, acks[1]}
    BY <1>5, <2>1 DEF ReadAck, Larger
  <2> QED
    BY <1>0, <1>5, <2>1, <2>2 DEF ReadAck, receiverVars
<1>6. CASE Leave
  BY <1>0, <1>6 DEF Leave, processorVars, receiverVars
<1>7. CASE ReadPackage
  <2>1. /\ Head(packages) = packages[1] /\ 1 \in 1..Len(packages)
        /\ Len(packages') = Len(packages) - 1
        /\ \A i \in 1..Len(packages') : i + 1 \in 1..Len(packages) /\ packages'[i] = packages[i + 1]
    BY <1>7 DEF ReadPackage
  <2>2. acks' = acks \/ acks' = Append(acks, packages[1])
    BY <1>7, <2>1 DEF ReadPackage
  <2>3. max_received_seqn' \in {max_received_seqn, packages[1]} /\ packages[1] <= max_received_seqn'
    BY <1>7, <2>1 DEF ReadPackage
  <2>0. packages' \in Seq(Nat \ {0}) /\ packages' = Tail(packages)
    BY <1>7 DEF ReadPackage
  <2>4. \A i \in 1..(Len(packages') - 1) : packages'[i + 1] = packages'[i] + 1
    <3> SUFFICES ASSUME NEW i \in 1..(Len(packages') - 1)
                 PROVE  packages'[i + 1] = packages'[i] + 1
      OBVIOUS
    <3>1. i \in 1..Len(packages') /\ i + 1 \in 1..Len(packages') /\ i + 1 \in 1..(Len(packages) - 1)
      BY <2>0, <2>1
    <3>2. packages'[i] = packages[i + 1] /\ packages'[i + 1] = packages[(i + 1) + 1]
      BY <2>1, <3>1
    <3> QED
      BY <1>0, <3>1, <3>2
  <2>5. \A i \in 1..Len(acks') : acks'[i] <= packages[1] /\ acks'[i] <= max_received_seqn'
    BY <1>0, <1>7, <2>2, <2>3, SMTT(30) DEF ReadPackage
  <2>6. acknowledged_seqn < packages[1]
    BY <1>0, <1>7 DEF ReadPackage
  <2>7. CASE Len(packages) = 1
    <3>1. packages' = <<>>
      BY <2>0, <2>1, <2>7, EmptySeq, SMTT(30)
    <3>2. link = "up" /\ phase = "on" => packages[1] = max_sent_seqn
      BY <1>0, <1>7, <2>7 DEF ReadPackage
    <3>3. link = "up" /\ phase = "on" => max_received_seqn' = max_sent_seqn
      BY <2>3, <3>2
    <3> QED
      BY <1>7, <2>3, <2>4, <2>5, <2>6, <3>1, <3>3 DEF ReadPackage, processorVars
  <2>8. CASE Len(packages) > 1
    <3>0. 1 \in 1..Len(packages') /\ 1 \in 1..(Len(packages) - 1)
      BY <2>1, <2>8
    <3>1. packages' # <<>> /\ packages'[1] = packages[1] + 1
      <4>1. packages'[1] = packages[1 + 1] /\ packages[1 + 1] = packages[1] + 1
        BY <1>0, <2>1, <3>0
      <4>2. Len(packages') # 0
        BY <2>1, <2>8
      <4>3. Len(<<>>) = 0
        OBVIOUS
      <4> QED
        BY <4>1, <4>2, <4>3
    <3>2. packages'[Len(packages')] = packages[Len(packages)]
      BY <2>1, <2>8
    <3>3. link = "up" /\ phase = "on" => packages'[Len(packages')] = max_sent_seqn
      BY <1>0, <1>7, <3>2 DEF ReadPackage
    <3>4. \A i \in 1..Len(acks') : acks'[i] < packages'[1]
      <4>1. packages[1] \in Nat \ {0}
        BY <2>1
      <4>2. acks' \in Seq(Nat \ {0})
        <5>1. acks \in Seq(Nat \ {0})
          OBVIOUS
        <5>2. Append(acks, packages[1]) \in Seq(Nat \ {0})
          BY <4>1, <5>1
        <5> QED
          BY <2>2, <5>1, <5>2, Zenon
      <4> QED
        BY <2>5, <3>1, <4>1, <4>2
    <3>5. /\ UNCHANGED <<acknowledged_seqn, max_sent_seqn, link, phase>>
          /\ acknowledged_seqn \in Nat /\ packages[1] \in Nat
      BY <1>7, <2>1 DEF ReadPackage, processorVars
    <3>6. /\ packages'[1] <= max_received_seqn' + 1
          /\ acknowledged_seqn' < packages'[1]
          /\ acknowledged_seqn' <= max_received_seqn'
      BY <1>7, <2>3, <2>6, <3>1, <3>5
    <3> QED
      BY <2>4, <2>5, <3>1, <3>3, <3>4, <3>5, <3>6
  <2> QED
    BY <2>1, <2>7, <2>8
<1>8. CASE LoseInFlight /\ (BreakLink \/ Stopped)
  <2>1. link' # "up"
    BY <1>8 DEF BreakLink, Stopped
  <2>2. /\ Len(packages') <= Len(packages)
        /\ \A i \in 1..Len(packages') : packages'[i] = packages[i]
    BY <1>8 DEF LoseInFlight
  <2>3. /\ Len(acks') <= Len(acks)
        /\ \A i \in 1..Len(acks') : acks'[i] = acks[i]
    BY <1>8 DEF LoseInFlight
  <2>4. packages' # <<>> => packages # <<>> /\ packages'[1] = packages[1]
    BY <1>8, <2>2 DEF LoseInFlight
  <2>5. Len(packages') \in Nat /\ Len(acks') \in Nat
    BY <1>8 DEF LoseInFlight
  <2>6. \A i \in 1..(Len(packages') - 1) : packages'[i + 1] = packages'[i] + 1
    <3> SUFFICES ASSUME NEW i \in 1..(Len(packages') - 1)
                 PROVE  packages'[i + 1] = packages'[i] + 1
      OBVIOUS
    <3>1. i \in 1..Len(packages') /\ i + 1 \in 1..Len(packages') /\ i \in 1..(Len(packages) - 1)
      BY <2>2, <2>5
    <3> QED
      BY <1>0, <2>2, <3>1
  <2>7. \A i \in 1..Len(acks') : i \in 1..Len(acks)
    BY <2>3, <2>5
  <2>8. UNCHANGED <<acknowledged_seqn, max_received_seqn, max_sent_seqn>>
    BY <1>8 DEF BreakLink, Stopped, processorVars, receiverVars
  <2> QED
    BY <1>0, <2>1, <2>3, <2>4, <2>6, <2>7, <2>8
<1> QED
  BY <1>1, <1>2, <1>3, <1>4, <1>5, <1>6, <1>7, <1>8 DEF Next, BreakLink, Stopped

-----------------------------------------------------------------------------
\* The invariant holds in every reachable state.
THEOREM Invariance == Spec => []IInv
<1>1. IInv /\ [Next]_vars => IInv'
  BY TypeStep, WasSentStep, OrderStep DEF IInv
<1> QED
  BY InitIInv, <1>1, PTL DEF Spec

\* The wire keeps its types: ByteBufferAsyncProcessor's queues stay in order.
THEOREM TypeCorrect == Spec => []TypeOK
<1>1. IInv => TypeOK
  BY DEF IInv
<1> QED
  BY Invariance, <1>1, PTL

\* reprocess never pops an empty pending queue
\* (ByteBufferAsyncProcessor.cpp:91-95).
THEOREM NeverPopsEmpty == Spec => []AcknowledgedWasSent
<1>1. IInv => AcknowledgedWasSent
  BY DEF IInv, InFlightWasSent
<1> QED
  BY Invariance, <1>1, PTL

\* What the sender forgets was read by the receiver.
THEOREM AcknowledgementsAreTrue == Spec => []AcknowledgedWasReceived
<1>1. IInv => AcknowledgedWasReceived
  BY DEF IInv, InFlightInOrder, AcknowledgedWasReceived
<1> QED
  BY Invariance, <1>1, PTL

\* No acknowledgement runs ahead of its message.
THEOREM AcknowledgementsStayTrue == Spec => []AcknowledgementsHold
<1>1. AcknowledgedWasSent /\ AcknowledgedWasReceived => AcknowledgementsHold
  BY DEF AcknowledgementsHold
<1>2. QED
  BY <1>1, NeverPopsEmpty, AcknowledgementsAreTrue, PTL

\* A resumed connection that has drained has made up for the lost ones.
THEOREM NothingIsForgotten == Spec => []DrainedIsReceived
<1>1. IInv => DrainedIsReceived
  BY DEF IInv, InFlightInOrder, DrainedIsReceived
<1> QED
  BY Invariance, <1>1, PTL

-----------------------------------------------------------------------------
\* What a package that is read does to the number of the last one.
LEMMA ReadPackageMoves ==
    ASSUME IInv, ReadPackage
    PROVE  \E seqn \in Nat \ {0} :
              /\ seqn = Head(packages)
              /\ seqn <= max_sent_seqn
              /\ ~overtaken => seqn <= max_received_seqn + 1 /\ acknowledged_seqn < seqn
              /\ \/ /\ seqn <= max_received_seqn
                    /\ garbled' = TRUE
                    /\ max_received_seqn' = max_received_seqn
                 \/ /\ seqn > max_received_seqn \/ seqn = 1
                    /\ garbled' = garbled
                    /\ max_received_seqn' = seqn
<1>1. /\ Head(packages) = packages[1] /\ packages # <<>> /\ 1 \in 1..Len(packages)
      /\ packages[1] \in Nat \ {0}
  BY DEF IInv, TypeOK, ReadPackage
<1>2. packages[1] <= max_sent_seqn
  BY <1>1 DEF IInv, InFlightWasSent
<1>3. ~overtaken => packages[1] <= max_received_seqn + 1 /\ acknowledged_seqn < packages[1]
  BY <1>1 DEF IInv, InFlightInOrder
<1>4. CASE packages[1] <= max_received_seqn /\ packages[1] # 1
  BY <1>1, <1>2, <1>3, <1>4 DEF ReadPackage
<1>5. CASE ~(packages[1] <= max_received_seqn /\ packages[1] # 1)
  <2>1. packages[1] > max_received_seqn \/ packages[1] = 1
    BY <1>1, <1>5 DEF IInv, TypeOK
  <2>2. max_received_seqn' = packages[1]
    BY <1>1, <1>5 DEF ReadPackage
  <2>3. garbled' = (garbled \/ FALSE)
    BY <1>1, <1>5, Zenon DEF ReadPackage
  <2>4. garbled' = garbled
    BY <2>3 DEF IInv, TypeOK
  <2> QED
    BY <1>1, <1>2, <1>3, <2>1, <2>2, <2>4
<1> QED
  BY <1>4, <1>5

\* Messages are repeated, and the stream is garbled, only by messages whose
\* acknowledgement the sender never read.
THEOREM RepeatsOnlyUnacknowledged == Spec => RepeatsAreUnacknowledged
<1>1. IInv /\ [Next]_vars => [RepeatIsUnacknowledged]_vars
  <2> SUFFICES ASSUME IInv, [Next]_vars PROVE RepeatIsUnacknowledged
    OBVIOUS
  <2>0. /\ acknowledged_seqn \in Nat /\ max_received_seqn \in Nat
        /\ garbled \in BOOLEAN
    BY DEF IInv, TypeOK
  <2>1. CASE ReadPackage
    <3>1. PICK seqn \in Nat \ {0} :
              /\ seqn = Head(packages)
              /\ ~overtaken => acknowledged_seqn < seqn
              /\ \/ /\ seqn <= max_received_seqn
                    /\ max_received_seqn' = max_received_seqn
                 \/ /\ seqn > max_received_seqn \/ seqn = 1
                    /\ garbled' = garbled
                    /\ max_received_seqn' = seqn
      BY <2>1, ReadPackageMoves
    <3> QED
      BY <2>0, <3>1 DEF RepeatIsUnacknowledged
  <2>2. CASE UNCHANGED receiverVars
    BY <2>0, <2>2 DEF receiverVars, RepeatIsUnacknowledged
  <2> QED
    BY <2>1, <2>2 DEF Next, Put, Take, StartProcess, SendNext, EndProcess, ThreadExit, Attach,
       Resume, ResumeWith, ReadAck, Leave, BreakLink, Stop, Stopped, vars
<1> QED
  BY Invariance, <1>1, PTL DEF Spec, RepeatsAreUnacknowledged

\* The wire implements the channel: in order and without a hole, or all again
\* from the first, as long as the stream is whole.
THEOREM Refinement == Spec => ImplementsChannel
<1>1. Init => Channel!ChannelInit
  BY DEF Init, Channel!ChannelInit, Broken
<1>2. IInv /\ [Next]_vars => [Channel!ChannelNext]_(Channel!channelVars)
  <2> SUFFICES ASSUME IInv, [Next]_vars
               PROVE  Channel!ChannelNext \/ UNCHANGED Channel!channelVars
    OBVIOUS
  <2> USE DEF Channel!ChannelNext, Channel!channelVars, Broken
  <2>1. CASE Put
    BY <2>1 DEF Put, receiverVars, Channel!Accept
  <2>2. CASE SendNext
    <3>1. UNCHANGED <<accepted, max_received_seqn, garbled>>
      BY <2>2 DEF SendNext, receiverVars
    <3>2. overtaken => overtaken'
      BY <2>2 DEF SendNext
    <3> QED
      BY <3>1, <3>2, Zenon DEF Channel!Break, IInv, TypeOK
  <2>3. CASE ReadPackage
    <3>1. UNCHANGED <<accepted, overtaken>>
      BY <2>3 DEF ReadPackage, processorVars
    <3>2. /\ accepted \in Nat /\ max_sent_seqn \in Nat /\ max_sent_seqn <= accepted
          /\ max_received_seqn \in Nat /\ garbled \in BOOLEAN /\ overtaken \in BOOLEAN
      BY DEF IInv, TypeOK
    <3>3. PICK seqn \in Nat \ {0} :
              /\ seqn <= max_sent_seqn
              /\ ~overtaken => seqn <= max_received_seqn + 1
              /\ \/ garbled' = TRUE /\ max_received_seqn' = max_received_seqn
                 \/ /\ seqn > max_received_seqn \/ seqn = 1
                    /\ garbled' = garbled
                    /\ max_received_seqn' = seqn
      BY <2>3, ReadPackageMoves
    <3>4. CASE garbled' = TRUE /\ max_received_seqn' = max_received_seqn
      BY <3>1, <3>2, <3>4 DEF Channel!Break
    <3>5. CASE /\ seqn > max_received_seqn \/ seqn = 1
               /\ garbled' = garbled
               /\ max_received_seqn' = seqn
      <4>1. Broken' = Broken
        BY <3>1, <3>5
      <4>2. CASE Broken
        BY <3>1, <3>2, <3>3, <3>5, <4>1, <4>2 DEF Channel!Garbage
      <4>3. CASE ~Broken /\ max_received_seqn' = max_received_seqn + 1
        BY <3>1, <3>2, <3>3, <3>5, <4>1, <4>3 DEF Channel!Deliver
      <4>4. CASE ~Broken /\ max_received_seqn' = 1 /\ max_received_seqn # 0
        BY <3>1, <3>2, <3>3, <3>5, <4>1, <4>4 DEF Channel!Restart
      <4> QED
        BY <3>2, <3>3, <3>5, <4>2, <4>3, <4>4
    <3> QED
      BY <3>3, <3>4, <3>5
  <2>4. CASE UNCHANGED <<accepted, max_received_seqn, garbled, overtaken>>
    BY <2>4
  <2> QED
    BY <2>1, <2>2, <2>3, <2>4 DEF Next, Take, StartProcess, EndProcess, ThreadExit, Attach,
       Resume, ResumeWith, ReadAck, Leave, BreakLink, Stop, Stopped, vars,
       processorVars, receiverVars
<1> QED
  BY Invariance, <1>1, <1>2, PTL DEF Spec, ImplementsChannel, Channel!ChannelSpec
=============================================================================
