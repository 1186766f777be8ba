------------------------------ MODULE LanClient ------------------------------
(* CMultiLanClient, the client of the DB server: a fixed list of channels    *)
(* (its sessions), IOCP workers, callers that send, and the Reconnecter,     *)
(* which connects the released channels again.  The receive ring is          *)
(* abstracted to whether it is full after the packets in it were taken, a    *)
(* send queue to its length.  bIsConnect and m_numOfReconnect are not read.  *)
EXTENDS Integers, Sequences, FiniteSets, FiniteSetsExt

CONSTANTS
    NumOfSession,              \* m_byNumOfSession
    NumOfUsingWorkerThread,    \* m_byNumOfUsingWorkerThread
    Workers, Callers,          \* threads
    Main, Reconnecter,
    SendMax,                   \* IOCP_ONE_SEND_WSABUF_MAX
    MaxSocket,                 \* bound: handles of the process
    MaxPackets,                \* bound: packets the callers send
    MaxFaults                  \* bound: failures of the network and of Winsock

ASSUME LanClientAssumption ==
    /\ NumOfSession \in Nat \ {0} /\ NumOfUsingWorkerThread \in Nat \ {0}
    /\ SendMax \in Nat \ {0} /\ MaxSocket \in Nat \ {0}
    /\ MaxPackets \in Nat /\ MaxFaults \in Nat
    /\ IsFiniteSet(Workers) /\ IsFiniteSet(Callers) /\ Workers # {}
    /\ Workers \cap Callers = {} /\ Main # Reconnecter
    /\ {Main, Reconnecter} \cap (Workers \cup Callers) = {}

Channels == 0 .. NumOfSession - 1
Threads == Workers \cup Callers \cup {Main, Reconnecter}
Sockets == 1 .. MaxSocket
INVALID_SOCKET == 0

VARIABLES
    pc, chan,       \* where a thread is, and the channel it works on
    rest,           \* UseSize in SendPost, Rest in ReleaseSession
    m_sock, m_IOCount, IOMode,
    SendQ,          \* SendQ.GetRestSize()
    lBufferCount,   \* packets in pSeirializeBufStore
    ringFull,       \* RingBuffer.IsFull()
    sock, bound,    \* sockets: their state, and whether the IOCP knows them
    recvs, sends,   \* overlapped requests the kernel holds
    lost,           \* requests that ended without a completion packet
    iocp,           \* the queue of m_hWorkerIOCP
    reconnectIdList, stopClient, channelSelector,
    isReconnect,    \* m_bIsReconnect, an option
    packets,        \* packets sent so far
    dangling,       \* channels whose store points at packets in the pool
    process,        \* up, ended, or crashed
    faults,
    disturbed,      \* channels on which a send and a release overlapped
    filled,         \* channels whose ring was full once
    raced           \* an append to the list was lost

locals == <<chan, rest>>
threads == <<pc, locals>>
channel == <<m_sock, ringFull>>
queue == <<SendQ, lBufferCount>>
session == <<channel, m_IOCount, IOMode, queue>>
sockets == <<sock, bound>>
requests == <<recvs, sends, lost>>
kernel == <<sockets, requests, iocp>>
inputs == <<channelSelector, packets, isReconnect>>
client == <<reconnectIdList, stopClient, inputs>>
marks == <<faults, filled, raced>>
history == <<dangling, disturbed, marks>>
others == <<kernel, client, process, history>>
vars == <<threads, session, others>>

SendPostPcs == {"cas", "size", "unmark", "recheck", "fill", "count", "wsasend"}
RecvPostPcs == {"recvpost", "wsarecv"}
ReleasePcs == {"release", "drain", "close", "invalidate", "append"}
Pcs == SendPostPcs \cup RecvPostPcs \cup ReleasePcs \cup
       {"gqcs", "sent", "dec", "exited", "idle", "peek", "socket", "connect", "bind", "pop",
        "start", "next", "run", "shutdown", "join"}
Entries == [io : {"recv", "recv0", "send"}, chan : Channels] \cup
           [io : {"stop", "null"}, chan : {-1}]

TypeOK ==
    /\ pc \in [Threads -> Pcs] /\ chan \in [Threads -> 0 .. NumOfSession]
    /\ rest \in [Threads -> 0 .. MaxPackets]
    /\ m_sock \in [Channels -> Sockets \cup {INVALID_SOCKET}]
    /\ m_IOCount \in [Channels -> Int]
    /\ IOMode \in [Channels -> {"NONSENDING", "SENDING"}]
    /\ SendQ \in [Channels -> 0 .. MaxPackets] /\ lBufferCount \in [Channels -> 0 .. SendMax]
    /\ ringFull \in [Channels -> BOOLEAN]
    /\ sock \in [Sockets -> {"new", "open", "broken", "closed"}]
    /\ bound \in [Sockets -> BOOLEAN]
    /\ recvs \in [Channels -> [Sockets -> Nat]]
    /\ sends \in [Channels -> Sockets \cup {INVALID_SOCKET}]
    /\ lost \in [Channels -> Nat]
    /\ iocp \in Seq(Entries)
    /\ reconnectIdList \in Seq(Channels)
    /\ stopClient \in BOOLEAN /\ isReconnect \in BOOLEAN /\ raced \in BOOLEAN
    /\ channelSelector \in 0 .. Cardinality(Workers) - 1 /\ packets \in 0 .. MaxPackets
    /\ process \in {"up", "ended", "crashed"}
    /\ faults \in 0 .. MaxFaults
    /\ {disturbed, filled, dangling} \subseteq SUBSET Channels

(* Start has read the options and begun the threads.                         *)
Init ==
    /\ pc = [t \in Threads |-> CASE t = Main -> "start" [] t \in Workers -> "gqcs"
                                 [] t = Reconnecter -> "peek" [] OTHER -> "idle"]
    /\ chan = [t \in Threads |-> 0] /\ rest = [t \in Threads |-> 0]
    /\ m_sock = [c \in Channels |-> INVALID_SOCKET]
    /\ m_IOCount = [c \in Channels |-> 0]
    /\ IOMode = [c \in Channels |-> "NONSENDING"]
    /\ SendQ = [c \in Channels |-> 0] /\ lBufferCount = [c \in Channels |-> 0]
    /\ ringFull = [c \in Channels |-> FALSE]
    /\ sock = [s \in Sockets |-> "closed"] /\ bound = [s \in Sockets |-> FALSE]
    /\ recvs = [c \in Channels |-> [s \in Sockets |-> 0]]
    /\ sends = [c \in Channels |-> INVALID_SOCKET] /\ lost = [c \in Channels |-> 0]
    /\ iocp = <<>> /\ reconnectIdList = <<>>
    /\ stopClient = FALSE /\ isReconnect \in BOOLEAN
    /\ channelSelector = 0 /\ packets = 0 /\ dangling = {}
    /\ process = "up" /\ faults = 0 /\ disturbed = {} /\ filled = {} /\ raced = FALSE

-----------------------------------------------------------------------------
(* A thread at "at" goes on at "to".                                         *)
Goto(t, at, to) == pc[t] = at /\ pc' = [pc EXCEPT ![t] = to]

(* Where RecvPost and SendPost return to with COMPLETE or ERR.  After        *)
(* ReleaseSession they return SESSION_DELETED, for which a worker skips its  *)
(* own decrement; nobody else looks at the result.                           *)
Return(t) ==
    CASE t \in Workers -> "dec" [] t = Reconnecter -> "pop"
      [] t = Main -> "next" [] OTHER -> "idle"

(* Mutant: the worker does not look at the result.                           *)
Deleted_Ignored(t) == Return(t)

Deleted(t) == IF t \in Workers THEN "gqcs" ELSE Return(t)

(* InterlockedDecrement; at zero the caller releases the session.  The count *)
(* is a UINT that is only compared with 0, so an integer stands for it.      *)
Decrement(t, at, to) ==
    /\ Goto(t, at, IF m_IOCount[chan[t]] = 1 THEN "release" ELSE to)
    /\ m_IOCount' = [m_IOCount EXCEPT ![chan[t]] = @ - 1]

Increment(t) == m_IOCount' = [m_IOCount EXCEPT ![chan[t]] = @ + 1]

(* CSerializationBuf::Free of the packets in the store; to free a packet     *)
(* that is in the pool already is undefined.                                 *)
FreeStore(c) ==
    process' \in IF lBufferCount[c] > 0 /\ c \in dangling THEN {process, "crashed"}
                 ELSE {process}

(* History: a send and a release of the channel have met.                    *)
Overlap(c, met) == disturbed' = IF met THEN disturbed \cup {c} ELSE disturbed

(* A Winsock call on a channel's socket: it fails when the socket cannot     *)
(* serve it, may fail when the connection is broken, and anywhere else that  *)
(* is a fault.                                                               *)
State(c) == IF m_sock[c] = INVALID_SOCKET THEN "closed" ELSE sock[m_sock[c]]
CanPost(c) == State(c) \in {"open", "broken"}
CallFails(c) ==
    /\ State(c) = "open" => faults < MaxFaults
    /\ faults' = IF State(c) = "open" THEN faults + 1 ELSE faults
-----------------------------------------------------------------------------
(* RecvPost.                                                                 *)

(* A full ring: the count is given back here, and by the worker once more.   *)
RecvPostFull(t) ==
    /\ Decrement(t, "recvpost", Return(t))
    /\ ringFull[chan[t]]
    /\ filled' = filled \cup {chan[t]}
    /\ UNCHANGED <<locals, channel, IOMode, queue, kernel, client, process, dangling,
                   disturbed, faults, raced>>

RecvPost(t) ==
    /\ Goto(t, "recvpost", "wsarecv") /\ Increment(t)
    /\ ~ringFull[chan[t]]
    /\ UNCHANGED <<locals, channel, IOMode, queue, others>>

WSARecv(t) ==
    /\ Goto(t, "wsarecv", Return(t))
    /\ CanPost(chan[t])
    /\ recvs' = [recvs EXCEPT ![chan[t]][m_sock[chan[t]]] = @ + 1]
    /\ UNCHANGED <<locals, session, sockets, sends, lost, iocp, client, process, history>>

WSARecvFails(t) ==
    /\ Decrement(t, "wsarecv", Return(t))
    /\ CallFails(chan[t])
    /\ UNCHANGED <<locals, channel, IOMode, queue, kernel, client, process, dangling,
                   disturbed, filled, raced>>
-----------------------------------------------------------------------------
(* SendPost.                                                                 *)

(* Mutant: an exchange that compares nothing.                                *)
ClaimIOMode_Blind(t) ==
    /\ Goto(t, "cas", "size")
    /\ IOMode' = [IOMode EXCEPT ![chan[t]] = "SENDING"]
    /\ UNCHANGED <<locals, channel, m_IOCount, queue, others>>

ClaimIOMode(t) ==
    /\ Goto(t, "cas", IF IOMode[chan[t]] = "SENDING" THEN Return(t) ELSE "size")
    /\ IOMode' = [IOMode EXCEPT ![chan[t]] = "SENDING"]
    /\ UNCHANGED <<locals, channel, m_IOCount, queue, others>>

(* UseSize, at most IOCP_ONE_SEND_WSABUF_MAX; it is never negative.          *)
GetUseSize(t) ==
    LET size == SendQ[chan[t]]
    IN  /\ Goto(t, "size", IF size = 0 THEN "unmark" ELSE "fill")
        /\ rest' = [rest EXCEPT ![t] = Min({size, SendMax})]
        /\ UNCHANGED <<chan, session, others>>

GiveIOModeBack(t) ==
    /\ Goto(t, "unmark", "recheck")
    /\ IOMode' = [IOMode EXCEPT ![chan[t]] = "NONSENDING"]
    /\ UNCHANGED <<locals, channel, m_IOCount, queue, others>>

Recheck(t) ==
    /\ Goto(t, "recheck", IF SendQ[chan[t]] = 0 THEN Return(t) ELSE "cas")
    /\ UNCHANGED <<locals, session, others>>

(* UseSize dequeues.  When ReleaseSession emptied the queue meanwhile,       *)
(* Dequeue leaves the old pointer in the store and SendPost follows it.      *)
FillStore(t) ==
    LET c == chan[t]
        short == SendQ[c] < rest[t]
    IN  /\ Goto(t, "fill", "count")
        /\ SendQ' = [SendQ EXCEPT ![c] = IF short THEN 0 ELSE @ - rest[t]]
        /\ lBufferCount' = [lBufferCount EXCEPT ![c] = rest[t]]
        /\ dangling' = IF short THEN dangling \cup {c} ELSE dangling \ {c}
        /\ process' \in IF short THEN {process, "crashed"} ELSE {process}
        /\ rest' = [rest EXCEPT ![t] = 0]
        /\ Overlap(c, short)
        /\ UNCHANGED <<chan, channel, m_IOCount, IOMode, kernel, client, marks>>

CountSend(t) ==
    /\ Goto(t, "count", "wsasend") /\ Increment(t)
    /\ Overlap(chan[t], m_IOCount[chan[t]] = 0)
    /\ UNCHANGED <<locals, channel, IOMode, queue, kernel, client, process, dangling, marks>>

(* The loop goes round and leaves at the compare-exchange, unless the send   *)
(* has completed by then.                                                    *)
WSASend(t) ==
    /\ Goto(t, "wsasend", "cas")
    /\ CanPost(chan[t])
    /\ sends' = [sends EXCEPT ![chan[t]] = m_sock[chan[t]]]
    /\ UNCHANGED <<locals, session, sockets, recvs, lost, iocp, client, process, history>>

(* IOMode stays SENDING.                                                     *)
WSASendFails(t) ==
    /\ Decrement(t, "wsasend", Return(t))
    /\ CallFails(chan[t])
    /\ UNCHANGED <<locals, channel, IOMode, queue, kernel, client, process, dangling,
                   disturbed, filled, raced>>

(* WSAENOBUFS.                                                               *)
WSASendCrashes(t) ==
    /\ pc[t] = "wsasend" /\ CanPost(chan[t]) /\ faults < MaxFaults
    /\ process' = "crashed" /\ faults' = faults + 1
    /\ UNCHANGED <<threads, session, kernel, client, dangling, disturbed, filled, raced>>

SendPost(t) ==
    \/ ClaimIOMode(t) \/ GetUseSize(t) \/ GiveIOModeBack(t) \/ Recheck(t)
    \/ FillStore(t) \/ CountSend(t) \/ WSASend(t) \/ WSASendFails(t) \/ WSASendCrashes(t)
-----------------------------------------------------------------------------
(* ReleaseSession.                                                           *)

(* It frees the packets of the store, without resetting lBufferCount, ...    *)
ReleaseSession(t) ==
    LET c == chan[t]
    IN  /\ Goto(t, "release", "drain")
        /\ rest' = [rest EXCEPT ![t] = SendQ[c]]
        /\ FreeStore(c)
        /\ dangling' = IF lBufferCount[c] > 0 THEN dangling \cup {c} ELSE dangling
        /\ Overlap(c, \E u \in Threads : chan[u] = c /\ pc[u] = "count")
        /\ UNCHANGED <<chan, session, kernel, client, marks>>

(* Mutant: Rest is subtracted, whatever SendPost has taken meanwhile.        *)
DrainSendQ_Blind(t) ==
    /\ Goto(t, "drain", "close")
    /\ SendQ' = [SendQ EXCEPT ![chan[t]] = @ - rest[t]]
    /\ rest' = [rest EXCEPT ![t] = 0]
    /\ UNCHANGED <<chan, channel, m_IOCount, IOMode, lBufferCount, others>>

(* ... and as many packets as the queue held; of a queue SendPost emptied    *)
(* meanwhile it frees the last pointer again.                                *)
DrainSendQ(t) ==
    LET c == chan[t]
        short == SendQ[c] < rest[t]
    IN  /\ Goto(t, "drain", "close")
        /\ SendQ' = [SendQ EXCEPT ![c] = IF short THEN 0 ELSE @ - rest[t]]
        /\ process' \in IF short THEN {process, "crashed"} ELSE {process}
        /\ rest' = [rest EXCEPT ![t] = 0]
        /\ UNCHANGED <<chan, channel, m_IOCount, IOMode, lBufferCount, kernel, client,
                       history>>

CloseSocket(t) ==
    LET s == m_sock[chan[t]]
    IN  /\ Goto(t, "close", IF isReconnect THEN "invalidate" ELSE Deleted(t))
        /\ sock' = [x \in Sockets |-> IF x = s THEN "closed" ELSE sock[x]]
        /\ UNCHANGED <<locals, session, bound, requests, iocp, client, process, history>>

InvalidateSocket(t) ==
    /\ Goto(t, "invalidate", "append")
    /\ m_sock' = [m_sock EXCEPT ![chan[t]] = INVALID_SOCKET]
    /\ UNCHANGED <<locals, ringFull, m_IOCount, IOMode, queue, others>>

(* Mutant: the channel is not put on the list.                               *)
AppendToList_Missing(t) ==
    /\ Goto(t, "append", Deleted(t))
    /\ UNCHANGED <<locals, session, others>>

AppendToList(t) ==
    /\ Goto(t, "append", Deleted(t))
    /\ reconnectIdList' = Append(reconnectIdList, chan[t])
    /\ UNCHANGED <<locals, session, kernel, stopClient, inputs, process, history>>

(* The Reconnecter pops without the lock: a data race, in which the new id   *)
(* is lost or the list is destroyed.                                         *)
AppendToListRaces(t) ==
    /\ pc[Reconnecter] = "pop"
    /\ Goto(t, "append", Deleted(t))
    /\ raced' = TRUE
    /\ process' \in {process, "crashed"}
    /\ UNCHANGED <<locals, session, kernel, client, dangling, disturbed, faults, filled>>

Release(t) ==
    \/ ReleaseSession(t) \/ DrainSendQ(t) \/ CloseSocket(t) \/ InvalidateSocket(t)
    \/ AppendToList(t) \/ AppendToListRaces(t)

Post(t) ==
    \/ RecvPostFull(t) \/ RecvPost(t) \/ WSARecv(t) \/ WSARecvFails(t)
    \/ SendPost(t) \/ Release(t)
-----------------------------------------------------------------------------
(* SendPacket.  A null packet is refused and changes nothing.                *)

Started == pc[Main] \notin {"start", "next"} \cup RecvPostPcs \cup ReleasePcs

(* sessionList[channelId] is not checked against the number of sessions.     *)
SendPacketImpl(t, c) ==
    /\ pc[t] = "idle" /\ Started /\ packets < MaxPackets
    /\ packets' = packets + 1
    /\ IF c \in Channels
       THEN /\ pc' = [pc EXCEPT ![t] = "cas"] /\ chan' = [chan EXCEPT ![t] = c]
            /\ SendQ' = [SendQ EXCEPT ![c] = @ + 1]
            /\ UNCHANGED process
       ELSE process' = "crashed" /\ UNCHANGED <<pc, chan, SendQ>>
    /\ UNCHANGED <<rest, channel, m_IOCount, IOMode, lBufferCount, kernel, reconnectIdList,
                   stopClient, isReconnect, history>>

(* GetChannelId takes the channels in turn, but modulo the number of workers;*)
(* only that remainder of m_channelSelector is kept.                         *)
SendPacket(t) ==
    /\ channelSelector' = (channelSelector + 1) % Cardinality(Workers)
    /\ SendPacketImpl(t, channelSelector')

SendPacketFixed(t) ==
    /\ \E fixedId \in 0 .. NumOfUsingWorkerThread - 1 :
           SendPacketImpl(t, fixedId % NumOfUsingWorkerThread)
    /\ UNCHANGED channelSelector
-----------------------------------------------------------------------------
(* Worker.                                                                   *)

Dequeued(t, io) ==
    /\ pc[t] = "gqcs" /\ iocp # <<>> /\ Head(iocp).io = io
    /\ iocp' = Tail(iocp)

(* Mutant: released at once.                                                 *)
RecvZero_AtOnce(t) ==
    /\ Dequeued(t, "recv0")
    /\ LET c == Head(iocp).chan
       IN  /\ chan' = [chan EXCEPT ![t] = c]
           /\ m_IOCount' = [m_IOCount EXCEPT ![c] = @ - 1]
           /\ pc' = [pc EXCEPT ![t] = "release"]
    /\ UNCHANGED <<rest, channel, IOMode, queue, sockets, requests, client, process, history>>

(* Nothing received: the connection is gone.                                 *)
RecvZero(t) ==
    /\ Dequeued(t, "recv0")
    /\ LET c == Head(iocp).chan
       IN  /\ chan' = [chan EXCEPT ![t] = c]
           /\ m_IOCount' = [m_IOCount EXCEPT ![c] = @ - 1]
           /\ pc' = [pc EXCEPT ![t] = IF m_IOCount[c] = 1 THEN "release" ELSE "gqcs"]
    /\ UNCHANGED <<rest, channel, IOMode, queue, sockets, requests, client, process, history>>

(* The packets that are complete are taken from the ring and handed to       *)
(* OnRecv; what is left of a packet longer than the ring fills it.           *)
RecvData(t) ==
    /\ Dequeued(t, "recv")
    /\ LET c == Head(iocp).chan
       IN  /\ chan' = [chan EXCEPT ![t] = c]
           /\ \E full \in BOOLEAN :
                  /\ full => faults < MaxFaults
                  /\ faults' = IF full THEN faults + 1 ELSE faults
                  /\ ringFull' = [ringFull EXCEPT ![c] = full]
    /\ pc' = [pc EXCEPT ![t] = "recvpost"]
    /\ UNCHANGED <<rest, m_sock, m_IOCount, IOMode, queue, sockets, requests, client, process,
                   dangling, disturbed, filled, raced>>

SendDone(t) ==
    /\ Dequeued(t, "send")
    /\ LET c == Head(iocp).chan
       IN  /\ chan' = [chan EXCEPT ![t] = c]
           /\ FreeStore(c) /\ dangling' = dangling \ {c}
           /\ lBufferCount' = [lBufferCount EXCEPT ![c] = 0]
    /\ pc' = [pc EXCEPT ![t] = "sent"]
    /\ UNCHANGED <<rest, channel, m_IOCount, IOMode, SendQ, sockets, requests, client,
                   disturbed, marks>>

SendNext(t) ==
    /\ Goto(t, "sent", "cas")
    /\ IOMode' = [IOMode EXCEPT ![chan[t]] = "NONSENDING"]
    /\ UNCHANGED <<locals, channel, m_IOCount, queue, others>>

IODone(t) ==
    /\ Decrement(t, "dec", "gqcs")
    /\ UNCHANGED <<locals, channel, IOMode, queue, others>>

(* Mutant: the packet is passed on as it is, and the loop goes on.           *)
WorkerStops_PassesOn(t) ==
    /\ pc[t] = "gqcs" /\ iocp # <<>> /\ Head(iocp).io = "stop"
    /\ iocp' = Append(Tail(iocp), Head(iocp))
    /\ UNCHANGED <<threads, session, sockets, requests, client, process, history>>

(* The packet Stop posted: the worker passes on one without an overlapped,   *)
(* and the next worker takes that for an error.                              *)
WorkerStops(t) ==
    /\ pc[t] = "gqcs" /\ iocp # <<>> /\ Head(iocp).io = "stop"
    /\ iocp' = Append(Tail(iocp), [io |-> "null", chan |-> -1])
    /\ pc' = [pc EXCEPT ![t] = "exited"]
    /\ UNCHANGED <<locals, session, sockets, requests, client, process, history>>

OverlappedNull(t) ==
    /\ Dequeued(t, "null")
    /\ process' = "crashed"
    /\ UNCHANGED <<threads, session, sockets, requests, client, history>>

Worker(t) ==
    \/ RecvZero(t) \/ RecvData(t) \/ SendDone(t) \/ SendNext(t) \/ IODone(t)
    \/ WorkerStops(t) \/ OverlappedNull(t)
-----------------------------------------------------------------------------
(* Reconnecter.                                                              *)

(* A handle that is closed and holds no request is used again.               *)
FreeSockets ==
    {s \in Sockets : sock[s] = "closed" /\ \A c \in Channels : recvs[c][s] = 0 /\ sends[c] # s}

(* socket(), connect() and CreateIoCompletionPort() on a new handle.         *)
MakeSocket(c, state, known) ==
    LET s == Min(FreeSockets)
    IN  /\ FreeSockets # {}
        /\ m_sock' = [m_sock EXCEPT ![c] = s]
        /\ sock' = [sock EXCEPT ![s] = state]
        /\ bound' = [bound EXCEPT ![s] = known]

(* A return statement ends the thread for good.                              *)
ReconnecterEnds ==
    /\ pc' = [pc EXCEPT ![Reconnecter] = "exited"]
    /\ UNCHANGED <<locals, session, kernel, client, process, dangling, disturbed, filled,
                   raced>>

PeekList ==
    /\ ~stopClient /\ reconnectIdList # <<>>
    /\ Goto(Reconnecter, "peek", "socket")
    /\ chan' = [chan EXCEPT ![Reconnecter] = Head(reconnectIdList)]
    /\ UNCHANGED <<rest, session, others>>

SeeStopClient ==
    /\ stopClient /\ pc[Reconnecter] \in {"peek", "connect"}
    /\ ReconnecterEnds /\ UNCHANGED faults

NewSocket ==
    /\ Goto(Reconnecter, "socket", "connect")
    /\ MakeSocket(chan[Reconnecter], "new", FALSE)
    /\ UNCHANGED <<locals, ringFull, m_IOCount, IOMode, queue, requests, iocp, client, process,
                   history>>

(* No handle is left, or another failure.                                    *)
NewSocketFails ==
    /\ pc[Reconnecter] = "socket"
    /\ FreeSockets # {} => faults < MaxFaults
    /\ faults' = IF FreeSockets # {} THEN faults + 1 ELSE faults
    /\ ReconnecterEnds

(* The server accepts; until it does the loop tries again.  On a handle that *)
(* another ReleaseSession has made invalid it tries for ever.                *)
Connect ==
    /\ Goto(Reconnecter, "connect", "bind")
    /\ ~stopClient /\ State(chan[Reconnecter]) = "new"
    /\ sock' = [sock EXCEPT ![m_sock[chan[Reconnecter]]] = "open"]
    /\ UNCHANGED <<locals, session, bound, requests, iocp, client, process, history>>

SetsockoptFails ==
    /\ pc[Reconnecter] = "bind"
    /\ CallFails(chan[Reconnecter]) /\ ReconnecterEnds

BindToIOCP ==
    /\ Goto(Reconnecter, "bind", "recvpost")
    /\ CanPost(chan[Reconnecter])
    /\ bound' = [bound EXCEPT ![m_sock[chan[Reconnecter]]] = TRUE]
    /\ UNCHANGED <<locals, session, sock, requests, iocp, client, process, history>>

PopList ==
    /\ Goto(Reconnecter, "pop", "peek")
    /\ reconnectIdList' = Tail(reconnectIdList)
    /\ UNCHANGED <<locals, session, kernel, stopClient, inputs, process, history>>

Reconnect ==
    \/ PeekList \/ SeeStopClient \/ NewSocket \/ NewSocketFails \/ Connect
    \/ SetsockoptFails \/ BindToIOCP \/ PopList
-----------------------------------------------------------------------------
(* Start, which nobody else can disturb before a channel's RecvPost, and     *)
(* Stop, called by the destructor of DBClient.                               *)

StartChannel ==
    /\ Goto(Main, "start", "recvpost")
    /\ MakeSocket(chan[Main], "open", TRUE)
    /\ UNCHANGED <<locals, ringFull, m_IOCount, IOMode, queue, requests, iocp, client, process,
                   history>>

(* Start returns false and DBClient::Start crashes the process.              *)
StartFails ==
    /\ pc[Main] = "start"
    /\ FreeSockets # {} => faults < MaxFaults
    /\ process' = "crashed"
    /\ UNCHANGED <<threads, session, kernel, client, history>>

NextChannel ==
    LET last == chan[Main] = NumOfSession - 1
    IN  /\ Goto(Main, "next", IF last THEN "run" ELSE "start")
        /\ chan' = [chan EXCEPT ![Main] = IF last THEN 0 ELSE @ + 1]
        /\ UNCHANGED <<rest, session, others>>

Stop ==
    /\ Goto(Main, "run", "shutdown")
    /\ stopClient' = TRUE
    /\ UNCHANGED <<locals, session, kernel, reconnectIdList, inputs, process, history>>

ShutdownChannel ==
    /\ pc[Main] = "shutdown" /\ chan[Main] \in Channels
    /\ sock' = [s \in Sockets |->
                   IF s = m_sock[chan[Main]] /\ sock[s] = "open" THEN "broken" ELSE sock[s]]
    /\ chan' = [chan EXCEPT ![Main] = @ + 1]
    /\ UNCHANGED <<pc, rest, session, bound, requests, iocp, client, process, history>>

PostStop ==
    /\ chan[Main] \notin Channels
    /\ Goto(Main, "shutdown", "join")
    /\ iocp' = Append(iocp, [io |-> "stop", chan |-> -1])
    /\ UNCHANGED <<locals, session, sockets, requests, client, process, history>>

(* WaitForMultipleObjects; the Reconnecter is not waited for.                *)
JoinWorkers ==
    /\ pc[Main] = "join" /\ \A w \in Workers : pc[w] = "exited"
    /\ process' = "ended"
    /\ UNCHANGED <<threads, session, kernel, client, history>>

StartAndStop ==
    \/ StartChannel \/ StartFails \/ NextChannel
    \/ ShutdownChannel \/ PostStop \/ JoinWorkers
-----------------------------------------------------------------------------
(* The network and the kernel.                                               *)

ServerDisconnects(s) ==
    /\ sock[s] = "open" /\ faults < MaxFaults
    /\ sock' = [sock EXCEPT ![s] = "broken"] /\ faults' = faults + 1
    /\ UNCHANGED <<threads, session, bound, requests, iocp, client, process, dangling,
                   disturbed, filled, raced>>

(* A request ends.  The port learns of it when it knows the socket.          *)
Completed(c, s, io) ==
    /\ iocp' = IF bound[s] THEN Append(iocp, [io |-> io, chan |-> c]) ELSE iocp
    /\ lost' = IF bound[s] THEN lost ELSE [lost EXCEPT ![c] = @ + 1]
    /\ UNCHANGED <<threads, session, sockets, client, process, history>>

RecvCompletes(c, s) ==
    /\ recvs[c][s] > 0 /\ sock[s] = "open"
    /\ recvs' = [recvs EXCEPT ![c][s] = @ - 1]
    /\ Completed(c, s, "recv") /\ UNCHANGED sends

(* On a connection that is broken or closed a receive ends with no bytes.    *)
RecvAborts(c, s) ==
    /\ recvs[c][s] > 0 /\ sock[s] \in {"broken", "closed"}
    /\ recvs' = [recvs EXCEPT ![c][s] = @ - 1]
    /\ Completed(c, s, "recv0") /\ UNCHANGED sends

SendCompletes(c) ==
    /\ sends[c] # INVALID_SOCKET
    /\ sends' = [sends EXCEPT ![c] = INVALID_SOCKET]
    /\ Completed(c, sends[c], "send") /\ UNCHANGED recvs

Kernel ==
    \E c \in Channels : SendCompletes(c) \/ \E s \in Sockets : RecvAborts(c, s)

Network ==
    \E s \in Sockets : ServerDisconnects(s) \/ \E c \in Channels : RecvCompletes(c, s)
-----------------------------------------------------------------------------
Over == process # "up" /\ UNCHANGED vars

Thread(t) ==
    \/ Post(t)
    \/ t \in Workers /\ Worker(t)
    \/ t = Reconnecter /\ Reconnect
    \/ t = Main /\ StartAndStop

Next ==
    \/ /\ process = "up"
       /\ \/ \E t \in Threads : Thread(t)
          \/ \E t \in Callers : SendPacket(t) \/ SendPacketFixed(t)
          \/ Stop \/ Kernel \/ Network
    \/ Over

Spec == Init /\ [][Next]_vars

(* Threads are scheduled, the server accepts connections, and requests that  *)
(* must end do; nobody has to send, to disconnect or to call Stop.           *)
FairSpec ==
    /\ Spec
    /\ \A t \in Threads : WF_vars(process = "up" /\ Thread(t))
    /\ WF_vars(process = "up" /\ Kernel)
-----------------------------------------------------------------------------
(* Properties.                                                               *)

(* The receives of a channel that the kernel holds.                          *)
Receives(c) == UNION {{s} \X (1 .. recvs[c][s]) : s \in Sockets}

(* The completion packets of a channel that no worker has taken.             *)
Arrived(c) == {i \in DOMAIN iocp : iocp[i].chan = c}

(* A worker takes over the part of the request whose packet it got; a thread *)
(* between the increment and the call of Winsock has one of its own.         *)
Serving(c) ==
    {t \in Workers : chan[t] = c /\ pc[t] \in {"sent", "dec"} \cup SendPostPcs \cup RecvPostPcs}
Posting(c) == {t \in Threads : chan[t] = c /\ pc[t] \in {"wsasend", "wsarecv"}}

(* m_IOCount is the number of requests and of threads that hold the channel, *)
(* so that ReleaseSession runs when there are none; a full ring, for which   *)
(* RecvPost and the worker both decrement, is the only exception.            *)
IOCountExact ==
    \A c \in Channels \ filled :
        m_IOCount[c] = Cardinality(Receives(c)) + (IF sends[c] = INVALID_SOCKET THEN 0 ELSE 1)
                       + lost[c] + Cardinality(Arrived(c))
                       + Cardinality(Serving(c)) + Cardinality(Posting(c))

(* The threads and the request that may use a channel's store.               *)
Senders(c) ==
    Cardinality({t \in Threads : chan[t] = c /\
                     pc[t] \in {"size", "unmark", "fill", "count", "wsasend", "sent"}})
    + (IF sends[c] = INVALID_SOCKET THEN 0 ELSE 1)
    + Cardinality({i \in DOMAIN iocp : iocp[i] = [io |-> "send", chan |-> c]})

(* One sender at a time owns a channel's store and OVERLAPPED; only a send   *)
(* that failed or ended without a packet leaves IOMode SENDING without one.  *)
SendExclusive ==
    \A c \in Channels :
        /\ Senders(c) <= 1
        /\ IOMode[c] = "NONSENDING" => Senders(c) = 0
        /\ IOMode[c] = "SENDING" /\ lBufferCount[c] = 0 => Senders(c) = 1

(* The steps of a thread that uses a channel's socket, ring or store; not of *)
(* a SendPost before it counts its send, of which m_IOCount does not know.   *)
Using == ReleasePcs \cup RecvPostPcs \cup {"wsasend", "sent", "dec", "socket", "connect", "bind"}

(* Of all the workers, callers and the Reconnecter that may see the last I/O *)
(* of a channel end, one runs its ReleaseSession; until it has put the       *)
(* channel on the list no request and no completion packet of it is left and *)
(* nobody else uses it.  Two cases are excepted, in which this does fail: a  *)
(* SendPost that overlaps the release before it has counted its send, and a  *)
(* full ring, for which the count is given back twice.                       *)
ReleaseIsAlone ==
    \A c \in Channels \ (disturbed \cup filled) : \A t \in Threads :
        chan[t] = c /\ pc[t] \in ReleasePcs =>
            /\ Receives(c) = {} /\ sends[c] = INVALID_SOCKET /\ Arrived(c) = {}
            /\ \A u \in Threads \ {t} : chan[u] = c => pc[u] \notin Using

Down(c) == Started /\ State(c) \in {"broken", "closed"}
Connected(c) ==
    State(c) = "open" /\ bound[m_sock[c]] /\ recvs[c][m_sock[c]] > 0

(* A channel that lost its connection gets a new one with a receive posted   *)
(* on it, as long as the client runs, unless a send overlapped the release   *)
(* or the time it was down, its ring filled up, or the pop of the list met   *)
(* an append.                                                                *)
Reconnects ==
    \A c \in Channels :
        Down(c) ~> \/ Connected(c)
                   \/ ~isReconnect \/ stopClient \/ process # "up"
                   \/ pc[Reconnecter] = "exited"
                   \/ c \in disturbed \cup filled \/ raced

(* Stop comes to an end: it returns, or, with a second worker, the process   *)
(* crashes on the packet without an overlapped.                              *)
StopEnds == stopClient ~> process # "up"
=============================================================================
