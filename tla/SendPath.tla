------------------------------ MODULE SendPath ------------------------------
(* The send path of one session of RIOTestServer, step by step: any thread   *)
(* may call SendPacket, which enqueues and calls SendPost; the thread that   *)
(* turns ioMode to IO_SENDING drains the queue into the session's only send  *)
(* buffer and posts it; the worker gives ioMode back when the send is done.  *)
(* ioCount and the life of the session are the subject of SessionLifecycle.  *)
EXTENDS Integers, FiniteSets, Sequences, Functions

CONSTANTS
    Callers,               \* threads that send and are not the session's worker
    Worker,                \* the session's worker
    Packets,
    Size,                  \* GetAllUseSize of each packet
    Farewell,              \* packets given to SendPacketAndDisconnect
    MAX_SEND_BUFFER_SIZE,
    RIOMayFail,            \* may RIOSend fail on an open connection
    NoPacket

Senders == Callers \cup {Worker}

ASSUME SendersAssumption == IsFiniteSet(Senders) /\ Worker \notin Callers
ASSUME SizeAssumption ==
    /\ NoPacket \notin Packets
    /\ Size \in [Packets -> Nat \ {0}]
    /\ Farewell \subseteq Packets
    /\ MAX_SEND_BUFFER_SIZE \in Nat \ {0}
    /\ RIOMayFail \in BOOLEAN

VARIABLES
    sendQueue,       \* SendItem::sendQueue
    reservedBuffer,  \* SendItem::reservedBuffer
    ioMode,          \* SendItem::ioMode is IO_SENDING
    sendDisconnect,  \* RIOTestSession::sendDisconnect
    rioSendBuffer,   \* the packets copied to SendItem::rioSendBuffer
    copiedSize,      \* the bytes copied to it
    connected,       \* the connection accepts data
    posted,          \* Length of each send request the kernel holds
    completed,       \* completions of sends the worker has still to handle
    accepted,        \* history: the packets enqueued, in order
    transmitted,     \* history: the packets whose bytes were transmitted, in order
    received,        \* history: those the client can tell apart
    staleBytes,      \* history: old bytes of the buffer were transmitted after a packet
    crashed,         \* the process has ended
    pc, packet, bufferCount, totalSendSize  \* the locals of each thread

bufferVars == <<sendQueue, reservedBuffer, rioSendBuffer, copiedSize>>
kernelVars == <<connected, posted, completed, transmitted, received, staleBytes>>
localVars == <<pc, packet, bufferCount, totalSendSize>>
vars == <<bufferVars, kernelVars, localVars, ioMode, sendDisconnect, accepted, crashed>>

(* The thread owns ioMode, and with it the buffer, from the exchange on.     *)
OwnerPCs == {"check", "release", "make", "copy", "post"}
PCs == {"idle", "enqueue", "claim", "recheck", "sendDone"} \cup OwnerPCs

TypeOK ==
    /\ sendQueue \in Seq(Packets)
    /\ reservedBuffer \in Packets \cup {NoPacket}
    /\ rioSendBuffer \in Seq(Packets)
    /\ copiedSize \in Nat
    /\ ioMode \in BOOLEAN /\ sendDisconnect \in BOOLEAN
    /\ connected \in BOOLEAN /\ staleBytes \in BOOLEAN /\ crashed \in BOOLEAN
    /\ posted \in Seq(Nat)
    /\ completed \in Nat
    /\ accepted \in Seq(Packets) /\ transmitted \in Seq(Packets) /\ received \in Seq(Packets)
    /\ pc \in [Senders -> PCs]
    /\ packet \in [Senders -> Packets \cup {NoPacket}]
    /\ bufferCount \in [Senders -> Nat]
    /\ totalSendSize \in [Senders -> Nat]

Init ==
    /\ sendQueue = <<>> /\ reservedBuffer = NoPacket
    /\ rioSendBuffer = <<>> /\ copiedSize = 0
    /\ ioMode = FALSE /\ sendDisconnect = FALSE
    /\ connected = TRUE /\ staleBytes = FALSE /\ crashed = FALSE
    /\ posted = <<>> /\ completed = 0
    /\ accepted = <<>> /\ transmitted = <<>> /\ received = <<>>
    /\ pc = [t \in Senders |-> "idle"]
    /\ packet = [t \in Senders |-> NoPacket]
    /\ bufferCount = [t \in Senders |-> 0]
    /\ totalSendSize = [t \in Senders |-> 0]

Goto(t, label) ==
    /\ pc' = [pc EXCEPT ![t] = label]
    /\ UNCHANGED <<packet, bufferCount, totalSendSize>>

-----------------------------------------------------------------------------
(* SendPacket and SendPacketAndDisconnect: the latter sets sendDisconnect    *)
(* before the packet is built, encoded and enqueued.                         *)

Used(p) == p \in Range(accepted) \cup {packet[t] : t \in Senders}

SendPacket(t, p) ==
    /\ pc[t] = "idle" /\ ~Used(p)
    /\ sendDisconnect' = (sendDisconnect \/ p \in Farewell)
    /\ pc' = [pc EXCEPT ![t] = "enqueue"]
    /\ packet' = [packet EXCEPT ![t] = p]
    /\ UNCHANGED <<bufferVars, kernelVars, ioMode, accepted, crashed, bufferCount,
                   totalSendSize>>

Enqueue(t) ==
    /\ pc[t] = "enqueue"
    /\ sendQueue' = Append(sendQueue, packet[t])
    /\ accepted' = Append(accepted, packet[t])
    /\ pc' = [pc EXCEPT ![t] = "claim"]
    /\ packet' = [packet EXCEPT ![t] = NoPacket]
    /\ UNCHANGED <<reservedBuffer, rioSendBuffer, copiedSize, kernelVars, ioMode,
                   sendDisconnect, crashed, bufferCount, totalSendSize>>

-----------------------------------------------------------------------------
(* SendPost.                                                                 *)

(* Mutant: the exchange does not look at the old value.                      *)
Claim_Always(t) ==
    /\ pc[t] = "claim"
    /\ ioMode' = TRUE
    /\ Goto(t, "check")
    /\ UNCHANGED <<bufferVars, kernelVars, sendDisconnect, accepted, crashed>>

(* InterlockedCompareExchange on ioMode: whoever finds it taken returns.     *)
Claim(t) ==
    /\ pc[t] = "claim"
    /\ ioMode' = TRUE
    /\ Goto(t, IF ioMode THEN "idle" ELSE "check")
    /\ UNCHANGED <<bufferVars, kernelVars, sendDisconnect, accepted, crashed>>

Check(t) ==
    /\ pc[t] = "check"
    /\ Goto(t, IF sendQueue = <<>> /\ reservedBuffer = NoPacket THEN "release" ELSE "make")
    /\ UNCHANGED <<bufferVars, kernelVars, ioMode, sendDisconnect, accepted, crashed>>

ReleaseClaim(t) ==
    /\ pc[t] = "release"
    /\ ioMode' = FALSE
    /\ Goto(t, "recheck")
    /\ UNCHANGED <<bufferVars, kernelVars, sendDisconnect, accepted, crashed>>

(* Mutant: SendPost returns without the second look at the queue.            *)
Recheck_Missing(t) ==
    /\ pc[t] = "recheck"
    /\ Goto(t, "idle")
    /\ UNCHANGED <<bufferVars, kernelVars, ioMode, sendDisconnect, accepted, crashed>>

(* A packet may have been enqueued, and its sender turned away, in between.  *)
Recheck(t) ==
    /\ pc[t] = "recheck"
    /\ Goto(t, IF sendQueue # <<>> THEN "claim" ELSE "idle")
    /\ UNCHANGED <<bufferVars, kernelVars, ioMode, sendDisconnect, accepted, crashed>>

-----------------------------------------------------------------------------
(* MakeSendStream.  It takes the number of packets now in the queue and      *)
(* copies the packet reserved last time, if any, to the start of the buffer. *)

(* Mutant: the reserved packet is copied and not counted.                    *)
MakeSendStream_Uncounted(t) ==
    /\ pc[t] = "make"
    /\ rioSendBuffer' = IF reservedBuffer = NoPacket THEN <<>> ELSE <<reservedBuffer>>
    /\ copiedSize' = IF reservedBuffer = NoPacket THEN 0 ELSE Size[reservedBuffer]
    /\ totalSendSize' = [totalSendSize EXCEPT ![t] = 0]
    /\ reservedBuffer' = NoPacket
    /\ bufferCount' = [bufferCount EXCEPT ![t] = Len(sendQueue)]
    /\ pc' = [pc EXCEPT ![t] = "copy"]
    /\ UNCHANGED <<sendQueue, kernelVars, ioMode, sendDisconnect, accepted, crashed, packet>>

(* Mutant: the reserved packet is copied and not forgotten.                  *)
MakeSendStream_KeepsReserved(t) ==
    /\ pc[t] = "make"
    /\ rioSendBuffer' = IF reservedBuffer = NoPacket THEN <<>> ELSE <<reservedBuffer>>
    /\ copiedSize' = IF reservedBuffer = NoPacket THEN 0 ELSE Size[reservedBuffer]
    /\ totalSendSize' = [totalSendSize EXCEPT ![t] = copiedSize']
    /\ bufferCount' = [bufferCount EXCEPT ![t] = Len(sendQueue)]
    /\ pc' = [pc EXCEPT ![t] = "copy"]
    /\ UNCHANGED <<sendQueue, reservedBuffer, kernelVars, ioMode, sendDisconnect, accepted,
                   crashed, packet>>

MakeSendStream(t) ==
    /\ pc[t] = "make"
    /\ rioSendBuffer' = IF reservedBuffer = NoPacket THEN <<>> ELSE <<reservedBuffer>>
    /\ copiedSize' = IF reservedBuffer = NoPacket THEN 0 ELSE Size[reservedBuffer]
    /\ totalSendSize' = [totalSendSize EXCEPT ![t] = copiedSize']
    /\ reservedBuffer' = NoPacket
    /\ bufferCount' = [bufferCount EXCEPT ![t] = Len(sendQueue)]
    /\ pc' = [pc EXCEPT ![t] = "copy"]
    /\ UNCHANGED <<sendQueue, kernelVars, ioMode, sendDisconnect, accepted, crashed, packet>>

(* One turn of the loop: Dequeue, then what happens to the packet.           *)
Dequeue(t) ==
    /\ pc[t] = "copy" /\ bufferCount[t] > 0
    /\ sendQueue' = Tail(sendQueue)
    /\ bufferCount' = [bufferCount EXCEPT ![t] = @ - 1]

IsValidPacketSize(p) == Size[p] < MAX_SEND_BUFFER_SIZE

(* IsValidPacketSize crashes the process for a packet that never fits.       *)
RefusePacket(t) ==
    /\ Dequeue(t)
    /\ ~IsValidPacketSize(Head(sendQueue))
    /\ crashed' = TRUE
    /\ UNCHANGED <<reservedBuffer, rioSendBuffer, copiedSize, kernelVars, ioMode, sendDisconnect,
                   accepted, pc, packet, totalSendSize>>

(* The packet does not fit any more: it waits in reservedBuffer, though its  *)
(* size has been added to totalSendSize.                                     *)
ReservePacket(t) ==
    LET p == Head(sendQueue)
    IN  /\ Dequeue(t)
        /\ IsValidPacketSize(p)
        /\ totalSendSize[t] + Size[p] >= MAX_SEND_BUFFER_SIZE
        /\ totalSendSize' = [totalSendSize EXCEPT ![t] = @ + Size[p]]
        /\ reservedBuffer' = p
        /\ pc' = [pc EXCEPT ![t] = "post"]
        /\ UNCHANGED <<rioSendBuffer, copiedSize, kernelVars, ioMode, sendDisconnect, accepted,
                       crashed, packet>>

(* memcpy_s ends the process when the size it is told the destination has is *)
(* too small; the code passes what is left after counting the packet twice,  *)
(* and a negative number converts to a size that is large enough.            *)
MemcpyTraps(t, p) ==
    LET destSize == MAX_SEND_BUFFER_SIZE - (totalSendSize[t] + Size[p]) - Size[p]
    IN  destSize >= 0 /\ destSize < Size[p]

(* Mutant: the packets are copied in front of those already there.           *)
CopyPacket_InFront(t) ==
    LET p == Head(sendQueue)
    IN  /\ Dequeue(t)
        /\ totalSendSize[t] + Size[p] < MAX_SEND_BUFFER_SIZE
        /\ totalSendSize' = [totalSendSize EXCEPT ![t] = @ + Size[p]]
        /\ crashed' = MemcpyTraps(t, p)
        /\ rioSendBuffer' = <<p>> \o rioSendBuffer
        /\ copiedSize' = copiedSize + Size[p]
        /\ UNCHANGED <<reservedBuffer, kernelVars, ioMode, sendDisconnect, accepted, pc, packet>>

CopyPacket(t) ==
    LET p == Head(sendQueue)
    IN  /\ Dequeue(t)
        /\ totalSendSize[t] + Size[p] < MAX_SEND_BUFFER_SIZE
        /\ totalSendSize' = [totalSendSize EXCEPT ![t] = @ + Size[p]]
        /\ crashed' = MemcpyTraps(t, p)
        /\ rioSendBuffer' = Append(rioSendBuffer, p)
        /\ copiedSize' = copiedSize + Size[p]
        /\ UNCHANGED <<reservedBuffer, kernelVars, ioMode, sendDisconnect, accepted, pc, packet>>

StreamMade(t) ==
    /\ pc[t] = "copy" /\ bufferCount[t] = 0
    /\ Goto(t, "post")
    /\ UNCHANGED <<bufferVars, kernelVars, ioMode, sendDisconnect, accepted, crashed>>

-----------------------------------------------------------------------------
(* RIOSend refuses a request that is longer than the registered buffer.      *)
RIOSend(t) ==
    /\ pc[t] = "post"
    /\ totalSendSize[t] <= MAX_SEND_BUFFER_SIZE
    /\ posted' = Append(posted, totalSendSize[t])
    /\ Goto(t, "claim")
    /\ UNCHANGED <<bufferVars, connected, completed, transmitted, received, staleBytes, ioMode,
                   sendDisconnect, accepted, crashed>>

(* SendPost returns with ioMode still IO_SENDING.                            *)
RIOSendFails(t) ==
    /\ pc[t] = "post"
    /\ RIOMayFail \/ ~connected \/ totalSendSize[t] > MAX_SEND_BUFFER_SIZE
    /\ Goto(t, "idle")
    /\ UNCHANGED <<bufferVars, kernelVars, ioMode, sendDisconnect, accepted, crashed>>

(* The kernel reads Length bytes of the buffer when it transmits.  Those     *)
(* beyond the copied ones are left over from an earlier send: the client     *)
(* takes them for a header, and finds no packet that comes after them.       *)
Transmit ==
    /\ posted # <<>> /\ connected
    /\ transmitted' = transmitted \o rioSendBuffer
    /\ received' = IF staleBytes THEN received ELSE received \o rioSendBuffer
    /\ staleBytes' = (staleBytes \/ Head(posted) > copiedSize)
    /\ posted' = Tail(posted)
    /\ completed' = completed + 1
    /\ UNCHANGED <<bufferVars, localVars, connected, ioMode, sendDisconnect, accepted, crashed>>

(* A send on a dead connection completes with zero bytes, for which Worker   *)
(* does not call SendIOCompleted.                                            *)
TransmitFails ==
    /\ posted # <<>> /\ ~connected
    /\ posted' = Tail(posted)
    /\ UNCHANGED <<bufferVars, localVars, connected, completed, transmitted, received,
                   staleBytes, ioMode, sendDisconnect, accepted, crashed>>

(* Mutant: the worker handles a completion that is not there.                *)
SendIOCompleted_Spurious ==
    /\ pc[Worker] = "idle"
    /\ completed' = completed - 1
    /\ ioMode' = FALSE
    /\ Goto(Worker, "sendDone")
    /\ UNCHANGED <<bufferVars, connected, posted, transmitted, received, staleBytes,
                   sendDisconnect, accepted, crashed>>

SendIOCompleted ==
    /\ pc[Worker] = "idle" /\ completed > 0
    /\ completed' = completed - 1
    /\ ioMode' = FALSE
    /\ Goto(Worker, "sendDone")
    /\ UNCHANGED <<bufferVars, connected, posted, transmitted, received, staleBytes,
                   sendDisconnect, accepted, crashed>>

SendCompleted ==
    /\ pc[Worker] = "sendDone"
    /\ connected' = (connected /\ ~sendDisconnect)
    /\ Goto(Worker, IF sendDisconnect THEN "idle" ELSE "claim")
    /\ UNCHANGED <<bufferVars, posted, completed, transmitted, received, staleBytes, ioMode,
                   sendDisconnect, accepted, crashed>>

-----------------------------------------------------------------------------
SenderStep(t) ==
    \/ Enqueue(t)
    \/ Claim(t) \/ Check(t) \/ ReleaseClaim(t) \/ Recheck(t)
    \/ MakeSendStream(t) \/ RefusePacket(t) \/ ReservePacket(t) \/ CopyPacket(t) \/ StreamMade(t)
    \/ RIOSend(t) \/ RIOSendFails(t)

WorkerStep == SenderStep(Worker) \/ SendIOCompleted \/ SendCompleted

Kernel == Transmit \/ TransmitFails

(* Nothing to send and nothing in flight, or the process is gone.            *)
Idle ==
    /\ crashed \/ ((\A t \in Senders : pc[t] = "idle") /\ posted = <<>> /\ completed = 0)
    /\ UNCHANGED vars

Next ==
    \/ /\ ~crashed
       /\ \/ \E t \in Senders, p \in Packets : SendPacket(t, p)
          \/ \E t \in Callers : SenderStep(t)
          \/ WorkerStep
          \/ Kernel
    \/ Idle

Spec == Init /\ [][Next]_vars

(* The threads keep running and the kernel completes what it was given.      *)
Fairness ==
    /\ \A t \in Callers : WF_vars(~crashed /\ SenderStep(t))
    /\ WF_vars(~crashed /\ WorkerStep)
    /\ WF_vars(~crashed /\ Kernel)

FairSpec == Spec /\ Fairness

-----------------------------------------------------------------------------
(* The send buffer has one user at a time: the thread that won the exchange  *)
(* on ioMode, or the kernel, or the completion the worker has not handled.   *)
SendExclusive ==
    Cardinality({t \in Senders : pc[t] \in OwnerPCs}) + Len(posted) + completed <= 1

(* Length is what was copied.  The one exception is a packet put aside that  *)
(* would have filled the buffer to the last byte: its size stays in          *)
(* totalSendSize, and RIOSend accepts it (MakeSendStream, SendPost).         *)
LengthIsCopied ==
    \A i \in 1 .. Len(posted) :
        IF reservedBuffer = NoPacket
        THEN posted[i] = copiedSize
        ELSE /\ posted[i] = MAX_SEND_BUFFER_SIZE
             /\ copiedSize + Size[reservedBuffer] = MAX_SEND_BUFFER_SIZE

(* Every packet accepted is somewhere, once, and in order: transmitted, in   *)
(* the buffer of a send under way or failed, in reservedBuffer, or in the    *)
(* queue.  Holds also when the stream overflows the buffer and when RIOSend  *)
(* fails (SendPost, MakeSendStream).  It does not say that what waits in a   *)
(* session whose send failed is ever sent.                                   *)
Failed == ioMode /\ posted = <<>> /\ completed = 0 /\ \A t \in Senders : pc[t] \notin OwnerPCs
Stream ==
    IF (\E t \in Senders : pc[t] \in {"copy", "post"}) \/ posted # <<>> \/ Failed
    THEN rioSendBuffer ELSE <<>>
Reserved == IF reservedBuffer = NoPacket THEN <<>> ELSE <<reservedBuffer>>
NothingLost == ~crashed => accepted = transmitted \o Stream \o Reserved \o sendQueue

(* While packets wait, someone is going to send them: a thread on its way    *)
(* through SendPost, the kernel or the worker.  The exception is a session   *)
(* whose send failed, which keeps ioMode and never sends again.              *)
NoLostWakeup ==
    sendQueue # <<>> \/ reservedBuffer # NoPacket =>
        \/ \E t \in Senders : pc[t] # "idle"
        \/ posted # <<>> \/ completed > 0
        \/ Failed \/ ~connected

(* Refinement: without failures, overflow or farewell packets the send path  *)
(* is the FIFO channel that SendPacket promises, liveness included.          *)
Channel == INSTANCE SendChannel WITH delivered <- received
ImplementsChannel == Channel!ChannelSpec

(* Refinement: whatever fails or overflows, the packets the client can tell  *)
(* apart are those accepted, each once and in order.  After a request whose  *)
(* Length was not what was copied (LengthIsCopied) it can tell none apart.   *)
ImplementsChannelSafety == Channel!ChannelSafety

-----------------------------------------------------------------------------
(* What the comment in IsValidPacketSize says, refuted by the code.          *)

(* RIOTestServer.cpp:778-779: only a packet larger than MAX_SEND_BUFFER_SIZE *)
(* is badly designed and ends the process; packets of valid size never do.   *)
ValidPacketsNeverCrash == (\A p \in Packets : IsValidPacketSize(p)) => ~crashed
=============================================================================
