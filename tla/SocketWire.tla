------------------------------ MODULE SocketWire ------------------------------
(* One direction of the RD wire: the sending end (ByteBufferAsyncProcessor, *)
(* its thread, and the wire thread of SocketWire::Base) and the receiving   *)
(* end of the same class, over connections that break.  Message number m is *)
(* the m-th one put; the processor sends it as package m.  Of a message the *)
(* model keeps its number, and of the containers of the processor the       *)
(* boundaries between them:                                                 *)
(*   data          queued+1 .. accepted                                     *)
(*   queue         max_sent_seqn+1 .. queued                                *)
(*   pending_queue current_seqn .. max_sent_seqn                            *)
EXTENDS Naturals, Sequences

CONSTANTS
    MaxMessages,    \* bound on the messages put
    MaxLinks        \* bound on the connections; the last one does not break

ASSUME BoundsAssumption == MaxMessages \in Nat /\ MaxLinks \in Nat \ {0}

VARIABLES
    \* the processor of the sending end
    accepted, queued, max_sent_seqn, current_seqn, acknowledged_seqn, state,
    thread,         \* waiting, taken (unlocked, before process), sending, gone
    \* the connection
    phase,          \* of the sender's wire thread: off, attached (the socket
                    \* is set, resume not called), on (interrupt_balance = 0)
    link, links,    \* none, up or down; connections made so far
    packages, acks, \* in flight, each in its direction
    \* the receiving end
    max_received_seqn,
    garbled,        \* a stray byte of a duplicate entered the stream
    \* history
    overtaken       \* a message was sent on a socket before resume

processorVars == <<accepted, queued, max_sent_seqn, current_seqn, acknowledged_seqn>>
linkVars == <<link, links, packages, acks>>
receiverVars == <<max_received_seqn, garbled>>
vars == <<processorVars, state, thread, phase, linkVars, receiverVars, overtaken>>

Run(first, last) == [i \in 1..(last + 1 - first) |-> first + i - 1]
Larger(a, b) == IF a > b THEN a ELSE b

Init ==
    /\ accepted = 0 /\ queued = 0 /\ max_sent_seqn = 0
    /\ current_seqn = 1 /\ acknowledged_seqn = 0
    /\ state = "AsyncProcessing" /\ thread = "waiting" /\ phase = "off"
    /\ link = "none" /\ links = 0 /\ packages = <<>> /\ acks = <<>>
    /\ max_received_seqn = 0 /\ garbled = FALSE /\ overtaken = FALSE

-----------------------------------------------------------------------------
(* Any thread of the program sends. *)

Put ==
    /\ accepted < MaxMessages
    /\ state = "AsyncProcessing"
    /\ accepted' = accepted + 1
    /\ UNCHANGED <<queued, max_sent_seqn, current_seqn, acknowledged_seqn, state, thread,
                   phase, linkVars, receiverVars, overtaken>>

-----------------------------------------------------------------------------
(* The thread of the processor.  It lets go of the lock between taking the  *)
(* data and processing it, and only processing holds off pause and resume.  *)

Take ==
    /\ thread = "waiting"
    /\ state # "Terminated"
    /\ phase = "on"
    /\ queued < accepted
    /\ queued' = accepted
    /\ thread' = "taken"
    /\ UNCHANGED <<accepted, max_sent_seqn, current_seqn, acknowledged_seqn, state,
                   phase, linkVars, receiverVars, overtaken>>

StartProcess ==
    /\ thread = "taken"
    /\ thread' = "sending"
    /\ UNCHANGED <<processorVars, state, phase, linkVars, receiverVars, overtaken>>

\* A socket whose peer is gone may still take a message.
SendNext ==
    /\ thread = "sending"
    /\ max_sent_seqn < queued
    /\ max_sent_seqn' = max_sent_seqn + 1
    /\ packages' = IF link = "up" THEN Append(packages, max_sent_seqn + 1) ELSE packages
    /\ overtaken' = (overtaken \/ (link = "up" /\ phase = "attached"))
    /\ UNCHANGED <<accepted, queued, current_seqn, acknowledged_seqn, state, thread, phase,
                   link, links, acks, receiverVars>>

\* Mutant: a failed send ends the thread.
FailureEndsThread ==
    /\ thread = "sending"
    /\ max_sent_seqn = queued \/ link # "up"
    /\ thread' = IF max_sent_seqn = queued THEN "waiting" ELSE "gone"
    /\ UNCHANGED <<processorVars, state, phase, linkVars, receiverVars, overtaken>>

\* What a failed send leaves in the queue waits for the next data.
EndProcess ==
    /\ thread = "sending"
    /\ max_sent_seqn = queued \/ link # "up"
    /\ thread' = "waiting"
    /\ UNCHANGED <<processorVars, state, phase, linkVars, receiverVars, overtaken>>

ThreadExit ==
    /\ thread = "waiting"
    /\ \/ state = "Terminated"
       \/ state = "Stopping" /\ (queued = accepted \/ phase # "on")
    /\ thread' = "gone"
    /\ UNCHANGED <<processorVars, state, phase, linkVars, receiverVars, overtaken>>

-----------------------------------------------------------------------------
(* The wire thread of the sending end. *)

\* The peer accepts once it has left the connection before this one.
Attach ==
    /\ phase = "off"
    /\ state = "AsyncProcessing"
    /\ links < MaxLinks
    /\ packages = <<>>
    /\ phase' = "attached"
    /\ link' = "up"
    /\ links' = links + 1
    /\ acks' = <<>>
    /\ UNCHANGED <<processorVars, state, thread, packages, receiverVars, overtaken>>

\* resume when the pending queue is cut at kept and sent again from first.
ResumeWith(kept, first) ==
    /\ phase = "attached"
    /\ thread # "sending"
    /\ current_seqn' = kept
    /\ packages' = IF link = "up" THEN packages \o Run(first, max_sent_seqn) ELSE packages
    /\ phase' = "on"
    /\ UNCHANGED <<accepted, queued, max_sent_seqn, acknowledged_seqn, state, thread,
                   link, links, acks, receiverVars, overtaken>>
Unacknowledged == Larger(current_seqn, acknowledged_seqn + 1)
\* Mutants: it sends nothing; it forgets what was sent; it does not trim; it
\* begins one message too far.
ResumeSendsNothing == ResumeWith(Unacknowledged, max_sent_seqn + 1)
ResumeForgets == ResumeWith(max_sent_seqn + 1, Unacknowledged)
ResumeUntrimmed == ResumeWith(current_seqn, current_seqn)
ResumeSkipsOne == ResumeWith(Unacknowledged, Unacknowledged + 1)

\* reprocess forgets what is acknowledged and sends the rest again.
Resume == ResumeWith(Unacknowledged, Unacknowledged)

ReadAck ==
    /\ phase = "on"
    /\ acks # <<>>
    /\ acknowledged_seqn' = Larger(acknowledged_seqn, Head(acks))
    /\ acks' = Tail(acks)
    /\ UNCHANGED <<accepted, queued, max_sent_seqn, current_seqn, state, thread, phase,
                   link, links, packages, receiverVars, overtaken>>

\* receiverProc returns: it read the end of the connection, or its own socket
\* was closed.
Leave ==
    /\ phase = "on"
    /\ thread # "sending"
    /\ \/ link = "down" /\ acks = <<>>
       \/ state = "Terminated"
    /\ phase' = "off"
    /\ link' = "down"
    /\ acks' = <<>>
    /\ UNCHANGED <<processorVars, state, thread, links, packages, receiverVars, overtaken>>

-----------------------------------------------------------------------------
(* The receiving end: a package is acknowledged before it is looked at, and *)
(* of a duplicate the first byte is passed on as if it were data.           *)

\* Mutant: the acknowledgement names the number expected next.
AcknowledgeNext ==
    /\ packages # <<>>
    /\ max_received_seqn' = Larger(max_received_seqn, Head(packages))
    /\ acks' = IF link = "up" THEN Append(acks, Head(packages) + 1) ELSE acks
    /\ packages' = Tail(packages)
    /\ UNCHANGED <<processorVars, state, thread, phase, link, links, garbled, overtaken>>

ReadPackage ==
    /\ packages # <<>>
    /\ LET seqn == Head(packages)
           duplicate == seqn <= max_received_seqn /\ seqn # 1
       IN  /\ max_received_seqn' = IF duplicate THEN max_received_seqn ELSE seqn
           /\ garbled' = (garbled \/ duplicate)
           /\ acks' = IF link = "up" THEN Append(acks, seqn) ELSE acks
    /\ packages' = Tail(packages)
    /\ UNCHANGED <<processorVars, state, thread, phase, link, links, overtaken>>

-----------------------------------------------------------------------------
(* The network, and the end of the wire's lifetime. *)

LoseInFlight ==
    /\ \E n \in 0..Len(packages) : packages' = SubSeq(packages, 1, n)
    /\ \E n \in 0..Len(acks) : acks' = SubSeq(acks, 1, n)

BreakLink ==
    /\ link = "up"
    /\ links < MaxLinks
    /\ link' = "down"
    /\ LoseInFlight
    /\ UNCHANGED <<processorVars, state, thread, phase, links, receiverVars, overtaken>>

Stop ==
    /\ state = "AsyncProcessing"
    /\ state' = "Stopping"
    /\ UNCHANGED <<processorVars, thread, phase, linkVars, receiverVars, overtaken>>

\* The wait for the thread is bounded, so the thread may outlive it.
Stopped ==
    /\ state = "Stopping"
    /\ state' = "Terminated"
    /\ link' = IF link = "up" THEN "down" ELSE link
    /\ LoseInFlight
    /\ UNCHANGED <<processorVars, thread, phase, links, receiverVars, overtaken>>

Next ==
    \/ Put
    \/ Take \/ StartProcess \/ SendNext \/ EndProcess \/ ThreadExit
    \/ Attach \/ Resume \/ ReadAck \/ Leave
    \/ ReadPackage
    \/ BreakLink \/ Stop \/ Stopped

Spec == Init /\ [][Next]_vars

Fairness ==
    /\ WF_vars(Take) /\ WF_vars(StartProcess) /\ WF_vars(SendNext) /\ WF_vars(EndProcess)
    /\ WF_vars(Attach) /\ WF_vars(Resume) /\ WF_vars(ReadAck) /\ WF_vars(Leave)
    /\ WF_vars(ReadPackage)

FairSpec == Spec /\ Fairness

-----------------------------------------------------------------------------
Broken == garbled \/ overtaken

\* A message whose send failed waits in the queue, which resume does not
\* look at, until some other message is put.
Stranded(m) ==
    thread = "waiting" /\ queued = accepted /\ max_sent_seqn < m /\ m <= queued

\* The variables have their types, and the containers of the processor are in
\* order.
TypeOK ==
    /\ accepted \in Nat /\ queued \in Nat /\ max_sent_seqn \in Nat
    /\ acknowledged_seqn \in Nat /\ current_seqn \in Nat \ {0}
    /\ max_sent_seqn <= queued /\ queued <= accepted /\ accepted <= MaxMessages
    /\ state \in {"AsyncProcessing", "Stopping", "Terminated"}
    /\ thread \in {"waiting", "taken", "sending", "gone"}
    /\ phase \in {"off", "attached", "on"}
    /\ link \in {"none", "up", "down"} /\ links \in 0..MaxLinks
    /\ packages \in Seq(Nat \ {0}) /\ acks \in Seq(Nat \ {0})
    /\ max_received_seqn \in Nat /\ garbled \in BOOLEAN /\ overtaken \in BOOLEAN

\* reprocess pops the pending queue up to the acknowledged number without
\* asking whether it is empty: no acknowledgement is ahead of what was sent
\* (ByteBufferAsyncProcessor.cpp:91-95).
AcknowledgedWasSent ==
    acknowledged_seqn <= max_sent_seqn /\ current_seqn <= acknowledged_seqn + 1

\* What the sender forgets the receiver has read: unless a message overtook
\* the resent ones no acknowledgement is ahead of the last package read.
AcknowledgedWasReceived == ~overtaken => acknowledged_seqn <= max_received_seqn

\* No acknowledgement is ahead of its message, on either end.
AcknowledgementsHold == AcknowledgedWasSent /\ AcknowledgedWasReceived

\* On a resumed connection that has drained, every message sent on any
\* connection so far has been read, unless a message overtook others.
DrainedIsReceived ==
    link = "up" /\ phase = "on" /\ packages = <<>> /\ ~overtaken
        => max_received_seqn = max_sent_seqn

\* The messages start again only when the first one was never acknowledged,
\* and the message a stray byte enters with, read a second time, is one whose
\* acknowledgement the sender has not read.
RepeatIsUnacknowledged ==
    ~overtaken =>
        /\ max_received_seqn' < max_received_seqn => acknowledged_seqn = 0
        /\ garbled' /\ ~garbled => acknowledged_seqn < Head(packages)
RepeatsAreUnacknowledged == [][RepeatIsUnacknowledged]_vars

\* A whole stream delivers in order and without a hole.
Channel == INSTANCE OrderedChannel WITH delivered <- max_received_seqn, broken <- Broken
ImplementsChannel == Channel!ChannelSpec

\* Every message put arrives, unless the wire stops, the stream breaks, or
\* the message is stranded.
Arrives ==
    \A m \in 1..MaxMessages :
        accepted >= m ~>
            \/ max_received_seqn >= m
            \/ Stranded(m)
            \/ Broken
            \/ state # "AsyncProcessing"
=============================================================================
