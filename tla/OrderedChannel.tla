---------------------------- MODULE OrderedChannel ----------------------------
(* What two wires promise each other while the stream is whole: messages    *)
(* numbered from 1 are delivered in that order without a hole, or all again *)
(* from the first one.  Once the stream is broken nothing is promised.      *)
EXTENDS Naturals

VARIABLES
    accepted,       \* messages handed to the channel
    delivered,      \* number of the last message handed out
    broken

channelVars == <<accepted, delivered, broken>>

ChannelInit == accepted = 0 /\ delivered = 0 /\ broken = FALSE

Accept ==
    /\ accepted' = accepted + 1
    /\ UNCHANGED <<delivered, broken>>

Deliver ==
    /\ ~broken
    /\ delivered < accepted
    /\ delivered' = delivered + 1
    /\ UNCHANGED <<accepted, broken>>

Restart ==
    /\ ~broken
    /\ delivered # 0
    /\ delivered' = 1
    /\ UNCHANGED <<accepted, broken>>

Break ==
    /\ ~broken
    /\ broken' = TRUE
    /\ UNCHANGED <<accepted, delivered>>

Garbage ==
    /\ broken
    /\ delivered' \in 1..accepted
    /\ UNCHANGED <<accepted, broken>>

ChannelNext == Accept \/ Deliver \/ Restart \/ Break \/ Garbage

ChannelSpec == ChannelInit /\ [][ChannelNext]_channelVars
=============================================================================
