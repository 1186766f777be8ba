---------------------------- MODULE SendChannel -----------------------------
(* What RIOTestSession::SendPacket promises to its callers: the packets a    *)
(* session accepts reach the client once each and in the order in which they *)
(* were accepted, and none is left behind.                                   *)
EXTENDS Naturals, Sequences, Functions

CONSTANT Packets

VARIABLES
    accepted,        \* the packets given to SendPacket, in order
    delivered        \* the packets the client has got

channelVars == <<accepted, delivered>>

ChannelInit == accepted = <<>> /\ delivered = <<>>

Accept(p) ==
    /\ p \notin Range(accepted)
    /\ accepted' = Append(accepted, p)
    /\ UNCHANGED delivered

(* One or more of the waiting packets arrive.                                *)
Deliver ==
    /\ \E n \in Len(delivered) + 1 .. Len(accepted) : delivered' = SubSeq(accepted, 1, n)
    /\ UNCHANGED accepted

ChannelNext == (\E p \in Packets : Accept(p)) \/ Deliver

ChannelSafety == ChannelInit /\ [][ChannelNext]_channelVars

ChannelSpec == ChannelSafety /\ WF_channelVars(Deliver)
=============================================================================
