--------------------------- MODULE LanClientProofs ---------------------------
(* Proofs about CMultiLanClient, for every number of channels, workers,      *)
(* callers, sockets and packets.                                             *)
EXTENDS LanClient, FiniteSetTheorems, SequenceTheorems, WellFoundedInduction, TLAPS

-----------------------------------------------------------------------------
(* Min of the community modules.                                             *)

LEMMA LeastOfNaturals ==
    ASSUME NEW S \in SUBSET Nat, S # {}
    PROVE \E x \in S : \A y \in S : x <= y
<1>1. IsWellFoundedOn(OpToRel(<, Nat), Nat)
  BY NatLessThanWellFounded
<1>2. PICK x \in S : \A y \in S : ~(<<y, x>> \in OpToRel(<, Nat))
  BY <1>1, WFMin
<1>3. \A y \in S : ~(y < x)
  BY <1>2 DEF OpToRel
<1> QED
  BY <1>3

LEMMA MinOfSet == ASSUME NEW S \in SUBSET Nat, S # {} PROVE Min(S) \in S
  BY LeastOfNaturals DEF Min

LEMMA MinOfTwo ==
    ASSUME NEW a \in Nat, NEW b \in Nat
    PROVE Min({a, b}) = IF a <= b THEN a ELSE b
  BY DEF Min

-----------------------------------------------------------------------------
(* A thread that posts or releases works on a channel that exists; only Stop *)
(* counts beyond the last one.                                               *)
ChanInv == \A t \in Threads : pc[t] \notin {"shutdown", "join"} => chan[t] \in Channels

(* A queue holds no more than was sent, and UseSize is what SendPost takes.  *)
QueueInv ==
    /\ \A c \in Channels : SendQ[c] <= packets
    /\ \A t \in Threads : pc[t] = "fill" => rest[t] \in 1 .. SendMax

(* The Reconnecter pops what it has peeked at.                               *)
ListInv == pc[Reconnecter] \notin {"peek", "exited"} => reconnectIdList # <<>>

-----------------------------------------------------------------------------
(* Types, one group of variables at a time.                                  *)

ThreadType ==
    /\ pc \in [Threads -> Pcs] /\ chan \in [Threads -> 0 .. NumOfSession]
    /\ rest \in [Threads -> 0 .. MaxPackets]

ChannelType ==
    /\ m_sock \in [Channels -> Sockets \cup {INVALID_SOCKET}]
    /\ m_IOCount \in [Channels -> Int]
    /\ IOMode \in [Channels -> {"NONSENDING", "SENDING"}]
    /\ SendQ \in [Channels -> 0 .. MaxPackets] /\ lBufferCount \in [Channels -> 0 .. SendMax]
    /\ ringFull \in [Channels -> BOOLEAN]

KernelType ==
    /\ sock \in [Sockets -> {"new", "open", "broken", "closed"}]
    /\ bound \in [Sockets -> BOOLEAN]
    /\ recvs \in [Channels -> [Sockets -> Nat]]
    /\ sends \in [Channels -> Sockets \cup {INVALID_SOCKET}]
    /\ lost \in [Channels -> Nat]

ListType ==
    /\ iocp \in Seq(Entries)
    /\ reconnectIdList \in Seq(Channels)

ClientType ==
    /\ stopClient \in BOOLEAN /\ isReconnect \in BOOLEAN /\ raced \in BOOLEAN
    /\ channelSelector \in 0 .. Cardinality(Workers) - 1 /\ packets \in 0 .. MaxPackets
    /\ process \in {"up", "ended", "crashed"}
    /\ faults \in 0 .. MaxFaults

HistoryType == {disturbed, filled, dangling} \subseteq SUBSET Channels

LEMMA TypeParts ==
    TypeOK <=> /\ ThreadType /\ ChannelType /\ KernelType
               /\ ListType /\ ClientType /\ HistoryType
  BY DEF TypeOK, ThreadType, ChannelType, KernelType, ListType, ClientType, HistoryType

(* Where a thread may be sent.                                               *)
LEMMA PcsHas ==
    /\ {"cas", "size", "unmark", "recheck", "fill", "count", "wsasend", "recvpost", "wsarecv",
        "release", "drain", "close", "invalidate", "append", "gqcs", "sent", "dec", "exited",
        "idle", "peek", "socket", "connect", "bind", "pop", "start", "next", "run",
        "shutdown", "join"} \subseteq Pcs
    /\ \A t : Return(t) \in {"dec", "pop", "next", "idle"}
    /\ \A t : Deleted(t) \in {"gqcs", "dec", "pop", "next", "idle"}
  BY DEF Pcs, SendPostPcs, RecvPostPcs, ReleasePcs, Return, Deleted

(* A completion packet of a request names its channel.                       *)
LEMMA HeadOfPort ==
    ASSUME iocp \in Seq(Entries), iocp # <<>>, Head(iocp).io \in {"recv", "recv0", "send"}
    PROVE Head(iocp).chan \in Channels
<1>1. Head(iocp) \in Entries
  BY HeadTailProperties
<1> QED
  BY <1>1 DEF Entries

LEMMA ThreadTypeStep ==
    ASSUME TypeOK, ChanInv, QueueInv, ListInv, [Next]_vars
    PROVE ThreadType'
<1>a. pc \in [Threads -> Pcs] /\ chan \in [Threads -> 0 .. NumOfSession]
      /\ rest \in [Threads -> 0 .. MaxPackets]
  BY DEF TypeOK
<1>b. Channels \subseteq 0 .. NumOfSession /\ Workers \subseteq Threads /\ Callers \subseteq Threads
      /\ Main \in Threads /\ Reconnecter \in Threads
  BY LanClientAssumption DEF Channels, Threads
<1>c. 0 \in 0 .. MaxPackets /\ SendMax \in Nat \ {0}
  BY LanClientAssumption
<1>d. ASSUME NEW t \in Threads, pc[t] \in {"size", "release"}
      PROVE SendQ[chan[t]] \in 0 .. MaxPackets
  BY <1>d DEF ChanInv, TypeOK
<1>1. ASSUME NEW t \in Threads, RecvPostFull(t) PROVE ThreadType'
  BY <1>1, <1>a, <1>b, PcsHas DEF RecvPostFull, Decrement, Goto, ThreadType, threads, locals
<1>2. ASSUME NEW t \in Threads, RecvPost(t) PROVE ThreadType'
  BY <1>2, <1>a, <1>b, PcsHas DEF RecvPost, Increment, Goto, ThreadType, threads, locals
<1>3. ASSUME NEW t \in Threads, WSARecv(t) PROVE ThreadType'
  BY <1>3, <1>a, <1>b, PcsHas DEF WSARecv, Goto, ThreadType, threads, locals
<1>4. ASSUME NEW t \in Threads, WSARecvFails(t) PROVE ThreadType'
  BY <1>4, <1>a, <1>b, PcsHas
  DEF WSARecvFails, Decrement, Goto, CallFails, ThreadType, threads, locals
<1>5. ASSUME NEW t \in Threads, ClaimIOMode(t) PROVE ThreadType'
  BY <1>5, <1>a, <1>b, PcsHas DEF ClaimIOMode, Goto, ThreadType, threads, locals
<1>6. ASSUME NEW t \in Threads, GetUseSize(t) PROVE ThreadType'
  <2>1. SendQ[chan[t]] \in 0 .. MaxPackets
    BY <1>6, <1>d DEF GetUseSize, Goto
  <2>2. Min({SendQ[chan[t]], SendMax}) \in 0 .. MaxPackets
    <3>1. SendQ[chan[t]] \in Nat /\ SendMax \in Nat /\ MaxPackets \in Nat
      BY <2>1, LanClientAssumption
    <3>2. Min({SendQ[chan[t]], SendMax}) =
              IF SendQ[chan[t]] <= SendMax THEN SendQ[chan[t]] ELSE SendMax
      BY <3>1, MinOfTwo
    <3> QED
      BY <2>1, <3>1, <3>2
  <2> QED
    BY <1>6, <1>a, <2>2, PcsHas DEF GetUseSize, Goto, ThreadType
<1>7. ASSUME NEW t \in Threads, GiveIOModeBack(t) PROVE ThreadType'
  BY <1>7, <1>a, <1>b, PcsHas DEF GiveIOModeBack, Goto, ThreadType, threads, locals
<1>8. ASSUME NEW t \in Threads, Recheck(t) PROVE ThreadType'
  BY <1>8, <1>a, <1>b, PcsHas DEF Recheck, Goto, ThreadType, threads, locals
<1>9. ASSUME NEW t \in Threads, FillStore(t) PROVE ThreadType'
  BY <1>9, <1>a, <1>b, PcsHas, <1>c
  DEF FillStore, Goto, Overlap, ThreadType, threads, locals
<1>10. ASSUME NEW t \in Threads, CountSend(t) PROVE ThreadType'
  BY <1>10, <1>a, <1>b, PcsHas
  DEF CountSend, Goto, Increment, Overlap, ThreadType, threads, locals
<1>11. ASSUME NEW t \in Threads, WSASend(t) PROVE ThreadType'
  BY <1>11, <1>a, <1>b, PcsHas DEF WSASend, Goto, ThreadType, threads, locals
<1>12. ASSUME NEW t \in Threads, WSASendFails(t) PROVE ThreadType'
  BY <1>12, <1>a, <1>b, PcsHas
  DEF WSASendFails, Decrement, Goto, CallFails, ThreadType, threads, locals
<1>13. ASSUME NEW t \in Threads, WSASendCrashes(t) PROVE ThreadType'
  BY <1>13, <1>a, <1>b, PcsHas DEF WSASendCrashes, ThreadType, threads, locals
<1>14. ASSUME NEW t \in Threads, ReleaseSession(t) PROVE ThreadType'
  BY <1>14, <1>a, <1>b, PcsHas, <1>d
  DEF ReleaseSession, Goto, FreeStore, Overlap, ThreadType, threads, locals
<1>15. ASSUME NEW t \in Threads, DrainSendQ(t) PROVE ThreadType'
  BY <1>15, <1>a, <1>b, PcsHas, <1>c DEF DrainSendQ, Goto, ThreadType, threads, locals
<1>16. ASSUME NEW t \in Threads, CloseSocket(t) PROVE ThreadType'
  BY <1>16, <1>a, <1>b, PcsHas DEF CloseSocket, Goto, ThreadType, threads, locals
<1>17. ASSUME NEW t \in Threads, InvalidateSocket(t) PROVE ThreadType'
  BY <1>17, <1>a, <1>b, PcsHas DEF InvalidateSocket, Goto, ThreadType, threads, locals
<1>18. ASSUME NEW t \in Threads, AppendToList(t) PROVE ThreadType'
  BY <1>18, <1>a, <1>b, PcsHas DEF AppendToList, Goto, ThreadType, threads, locals
<1>19. ASSUME NEW t \in Threads, AppendToListRaces(t) PROVE ThreadType'
  BY <1>19, <1>a, <1>b, PcsHas DEF AppendToListRaces, Goto, ThreadType, threads, locals
<1>20. ASSUME NEW t \in Workers, RecvZero(t) PROVE ThreadType'
  <2>1. Head(iocp).chan \in 0 .. NumOfSession
    BY <1>20, <1>b, HeadOfPort DEF RecvZero, Dequeued, TypeOK
  <2>2. pc' \in [Threads -> Pcs]
    BY <1>20, <1>a, <1>b, PcsHas DEF RecvZero
  <2> QED
    BY <1>20, <1>a, <1>b, <2>1, <2>2 DEF RecvZero, ThreadType
<1>21. ASSUME NEW t \in Workers, RecvData(t) PROVE ThreadType'
  <2>1. Head(iocp).chan \in 0 .. NumOfSession
    BY <1>21, <1>b, HeadOfPort DEF RecvData, Dequeued, TypeOK
  <2>2. pc' \in [Threads -> Pcs]
    BY <1>21, <1>a, <1>b, PcsHas DEF RecvData
  <2> QED
    BY <1>21, <1>a, <1>b, <2>1, <2>2 DEF RecvData, ThreadType
<1>22. ASSUME NEW t \in Workers, SendDone(t) PROVE ThreadType'
  <2>1. Head(iocp).chan \in 0 .. NumOfSession
    BY <1>22, <1>b, HeadOfPort DEF SendDone, Dequeued, TypeOK
  <2>2. pc' \in [Threads -> Pcs]
    BY <1>22, <1>a, <1>b, PcsHas DEF SendDone
  <2> QED
    BY <1>22, <1>a, <1>b, <2>1, <2>2 DEF SendDone, ThreadType
<1>23. ASSUME NEW t \in Workers, SendNext(t) PROVE ThreadType'
  BY <1>23, <1>a, <1>b, PcsHas DEF SendNext, Goto, ThreadType, threads, locals
<1>24. ASSUME NEW t \in Workers, IODone(t) PROVE ThreadType'
  BY <1>24, <1>a, <1>b, PcsHas DEF IODone, Decrement, Goto, ThreadType, threads, locals
<1>25. ASSUME NEW t \in Workers, WorkerStops(t) PROVE ThreadType'
  BY <1>25, <1>a, <1>b, PcsHas DEF WorkerStops, ThreadType, threads, locals
<1>26. ASSUME NEW t \in Workers, OverlappedNull(t) PROVE ThreadType'
  BY <1>26, <1>a, <1>b, PcsHas DEF OverlappedNull, Dequeued, ThreadType, threads, locals
<1>27. CASE PeekList
  <2>1. Head(reconnectIdList) \in Channels
    BY <1>27, HeadTailProperties DEF PeekList, TypeOK
  <2> QED
    BY <1>27, <1>a, <1>b, <2>1, PcsHas DEF PeekList, Goto, ThreadType
<1>28. CASE SeeStopClient
  BY <1>28, <1>a, <1>b, PcsHas
  DEF SeeStopClient, ReconnecterEnds, ThreadType, threads, locals
<1>29. CASE NewSocket
  BY <1>29, <1>a, <1>b, PcsHas DEF NewSocket, Goto, MakeSocket, ThreadType, threads, locals
<1>30. CASE NewSocketFails
  BY <1>30, <1>a, <1>b, PcsHas
  DEF NewSocketFails, ReconnecterEnds, ThreadType, threads, locals
<1>31. CASE Connect
  BY <1>31, <1>a, <1>b, PcsHas DEF Connect, Goto, ThreadType, threads, locals
<1>32. CASE SetsockoptFails
  BY <1>32, <1>a, <1>b, PcsHas
  DEF SetsockoptFails, CallFails, ReconnecterEnds, ThreadType, threads, locals
<1>33. CASE BindToIOCP
  BY <1>33, <1>a, <1>b, PcsHas DEF BindToIOCP, Goto, ThreadType, threads, locals
<1>34. CASE PopList
  BY <1>34, <1>a, <1>b, PcsHas DEF PopList, Goto, ThreadType, threads, locals
<1>35. CASE StartChannel
  BY <1>35, <1>a, <1>b, PcsHas
  DEF StartChannel, Goto, MakeSocket, ThreadType, threads, locals
<1>36. CASE StartFails
  BY <1>36, <1>a, <1>b, PcsHas DEF StartFails, ThreadType, threads, locals
<1>37. CASE NextChannel
  <2>1. (IF chan[Main] = NumOfSession - 1 THEN 0 ELSE chan[Main] + 1) \in 0 .. NumOfSession
    BY <1>37, <1>a, <1>b, LanClientAssumption DEF NextChannel, Goto, ChanInv, Channels
  <2> QED
    BY <1>37, <1>a, <1>b, <2>1, PcsHas DEF NextChannel, Goto, ThreadType
<1>38. CASE ShutdownChannel
  <2>1. chan[Main] + 1 \in 0 .. NumOfSession
    BY <1>38, LanClientAssumption DEF ShutdownChannel, Channels
  <2> QED
    BY <1>38, <1>a, <1>b, <2>1 DEF ShutdownChannel, ThreadType
<1>39. CASE PostStop
  BY <1>39, <1>a, <1>b, PcsHas DEF PostStop, Goto, ThreadType, threads, locals
<1>40. CASE JoinWorkers
  BY <1>40, <1>a, <1>b, PcsHas DEF JoinWorkers, ThreadType, threads, locals
<1>41. CASE Stop
  BY <1>41, <1>a, <1>b, PcsHas DEF Stop, Goto, ThreadType, threads, locals
<1>42. ASSUME NEW t \in Callers, SendPacket(t) PROVE ThreadType'
  BY <1>42, <1>a, <1>b, PcsHas DEF SendPacket, SendPacketImpl, ThreadType, threads, locals
<1>43. ASSUME NEW t \in Callers, SendPacketFixed(t) PROVE ThreadType'
  BY <1>43, <1>a, <1>b, PcsHas, ZenonT(40)
  DEF SendPacketFixed, SendPacketImpl, ThreadType, threads, locals
<1>44. ASSUME NEW c \in Channels, SendCompletes(c) PROVE ThreadType'
  BY <1>44, <1>a, <1>b, PcsHas DEF SendCompletes, Completed, ThreadType, threads, locals
<1>45. ASSUME NEW c \in Channels, NEW s \in Sockets, RecvAborts(c, s) PROVE ThreadType'
  BY <1>45, <1>a, <1>b, PcsHas DEF RecvAborts, Completed, ThreadType, threads, locals
<1>46. ASSUME NEW c \in Channels, NEW s \in Sockets, RecvCompletes(c, s) PROVE ThreadType'
  BY <1>46, <1>a, <1>b, PcsHas DEF RecvCompletes, Completed, ThreadType, threads, locals
<1>47. ASSUME NEW s \in Sockets, ServerDisconnects(s) PROVE ThreadType'
  BY <1>47, <1>a, <1>b, PcsHas DEF ServerDisconnects, ThreadType, threads, locals
<1>48. CASE UNCHANGED vars
  BY <1>48, <1>a, <1>b, PcsHas DEF vars, ThreadType, threads, locals
<1> QED
  BY <1>1, <1>2, <1>3, <1>4, <1>5, <1>6, <1>7, <1>8, <1>9, <1>10, <1>11, <1>12, <1>13,
     <1>14, <1>15, <1>16, <1>17, <1>18, <1>19, <1>20, <1>21, <1>22, <1>23, <1>24, <1>25,
     <1>26, <1>27, <1>28, <1>29, <1>30, <1>31, <1>32, <1>33, <1>34, <1>35, <1>36, <1>37,
     <1>38, <1>39, <1>40, <1>41, <1>42, <1>43, <1>44, <1>45, <1>46, <1>47, <1>48
  DEF Next, Thread, Post, SendPost, Release, Worker, Reconnect, StartAndStop, Kernel,
      Network, Over

(* A free handle is one of the process.                                      *)
LEMMA FreeSocketIsSocket == FreeSockets # {} => Min(FreeSockets) \in Sockets
<1>1. FreeSockets \subseteq Sockets /\ FreeSockets \in SUBSET Nat
  BY DEF FreeSockets, Sockets
<1> QED
  BY <1>1, MinOfSet

LEMMA ChannelTypeStep ==
    ASSUME TypeOK, ChanInv, QueueInv, ListInv, [Next]_vars
    PROVE ChannelType'
<1>a. ChannelType
  BY TypeParts
<1>b. /\ chan \in [Threads -> 0 .. NumOfSession] /\ rest \in [Threads -> 0 .. MaxPackets]
      /\ packets \in 0 .. MaxPackets /\ MaxPackets \in Nat /\ SendMax \in Nat
  BY LanClientAssumption DEF TypeOK
<1>c. \A t \in Threads : pc[t] = "fill" => rest[t] \in 0 .. SendMax
  BY <1>b DEF QueueInv
<1>d. \A c \in Channels : SendQ[c] \in 0 .. MaxPackets /\ SendQ[c] <= packets
  BY <1>a DEF ChannelType, QueueInv
<1>e. \A c \in Channels : m_IOCount[c] + 1 \in Int /\ m_IOCount[c] - 1 \in Int
  BY <1>a DEF ChannelType
<1>f. 0 \in 0 .. SendMax
  BY <1>b
<1>1. ASSUME NEW t \in Threads, RecvPostFull(t) PROVE ChannelType'
  BY <1>1, <1>a, <1>e
  DEF RecvPostFull, Decrement, Goto, ChannelType, session, channel, queue
<1>2. ASSUME NEW t \in Threads, RecvPost(t) PROVE ChannelType'
  BY <1>2, <1>a, <1>e DEF RecvPost, Increment, Goto, ChannelType, session, channel, queue
<1>3. ASSUME NEW t \in Threads, WSARecv(t) PROVE ChannelType'
  BY <1>3, <1>a DEF WSARecv, Goto, ChannelType, session, channel, queue
<1>4. ASSUME NEW t \in Threads, WSARecvFails(t) PROVE ChannelType'
  BY <1>4, <1>a, <1>e
  DEF WSARecvFails, Decrement, Goto, CallFails, ChannelType, session, channel, queue
<1>5. ASSUME NEW t \in Threads, ClaimIOMode(t) PROVE ChannelType'
  BY <1>5, <1>a DEF ClaimIOMode, Goto, ChannelType, session, channel, queue
<1>6. ASSUME NEW t \in Threads, GetUseSize(t) PROVE ChannelType'
  BY <1>6, <1>a DEF GetUseSize, Goto, ChannelType, session, channel, queue
<1>7. ASSUME NEW t \in Threads, GiveIOModeBack(t) PROVE ChannelType'
  BY <1>7, <1>a DEF GiveIOModeBack, Goto, ChannelType, session, channel, queue
<1>8. ASSUME NEW t \in Threads, Recheck(t) PROVE ChannelType'
  BY <1>8, <1>a DEF Recheck, Goto, ChannelType, session, channel, queue
<1>9. ASSUME NEW t \in Threads, FillStore(t) PROVE ChannelType'
  <2>1. \A c \in Channels :
            (IF SendQ[c] < rest[t] THEN 0 ELSE SendQ[c] - rest[t]) \in 0 .. MaxPackets
    BY <1>b, <1>d
  <2> QED
    BY <1>9, <1>a, <1>c, <2>1 DEF FillStore, Goto, ChannelType, channel
<1>10. ASSUME NEW t \in Threads, CountSend(t) PROVE ChannelType'
  BY <1>10, <1>a, <1>e
  DEF CountSend, Goto, Increment, Overlap, ChannelType, session, channel, queue
<1>11. ASSUME NEW t \in Threads, WSASend(t) PROVE ChannelType'
  BY <1>11, <1>a DEF WSASend, Goto, ChannelType, session, channel, queue
<1>12. ASSUME NEW t \in Threads, WSASendFails(t) PROVE ChannelType'
  BY <1>12, <1>a, <1>e
  DEF WSASendFails, Decrement, Goto, CallFails, ChannelType, session, channel, queue
<1>13. ASSUME NEW t \in Threads, WSASendCrashes(t) PROVE ChannelType'
  BY <1>13, <1>a DEF WSASendCrashes, ChannelType, session, channel, queue
<1>14. ASSUME NEW t \in Threads, ReleaseSession(t) PROVE ChannelType'
  BY <1>14, <1>a
  DEF ReleaseSession, Goto, FreeStore, Overlap, ChannelType, session, channel, queue
<1>15. ASSUME NEW t \in Threads, DrainSendQ(t) PROVE ChannelType'
  <2>1. \A c \in Channels :
            (IF SendQ[c] < rest[t] THEN 0 ELSE SendQ[c] - rest[t]) \in 0 .. MaxPackets
    BY <1>b, <1>d
  <2> QED
    BY <1>15, <1>a, <1>c, <2>1 DEF DrainSendQ, Goto, ChannelType, channel
<1>16. ASSUME NEW t \in Threads, CloseSocket(t) PROVE ChannelType'
  BY <1>16, <1>a DEF CloseSocket, Goto, ChannelType, session, channel, queue
<1>17. ASSUME NEW t \in Threads, InvalidateSocket(t) PROVE ChannelType'
  BY <1>17, <1>a DEF InvalidateSocket, Goto, ChannelType, session, channel, queue
<1>18. ASSUME NEW t \in Threads, AppendToList(t) PROVE ChannelType'
  BY <1>18, <1>a DEF AppendToList, Goto, ChannelType, session, channel, queue
<1>19. ASSUME NEW t \in Threads, AppendToListRaces(t) PROVE ChannelType'
  BY <1>19, <1>a DEF AppendToListRaces, Goto, ChannelType, session, channel, queue
<1>20. ASSUME NEW t \in Workers, RecvZero(t) PROVE ChannelType'
  BY <1>20, <1>a, <1>e DEF RecvZero, Dequeued, ChannelType, session, channel, queue
<1>21. ASSUME NEW t \in Workers, RecvData(t) PROVE ChannelType'
  BY <1>21, <1>a DEF RecvData, Dequeued, ChannelType, session, channel, queue
<1>22. ASSUME NEW t \in Workers, SendDone(t) PROVE ChannelType'
  BY <1>22, <1>a, <1>f
  DEF SendDone, Dequeued, FreeStore, ChannelType, session, channel, queue
<1>23. ASSUME NEW t \in Workers, SendNext(t) PROVE ChannelType'
  BY <1>23, <1>a DEF SendNext, Goto, ChannelType, session, channel, queue
<1>24. ASSUME NEW t \in Workers, IODone(t) PROVE ChannelType'
  BY <1>24, <1>a, <1>e DEF IODone, Decrement, Goto, ChannelType, session, channel, queue
<1>25. ASSUME NEW t \in Workers, WorkerStops(t) PROVE ChannelType'
  BY <1>25, <1>a DEF WorkerStops, ChannelType, session, channel, queue
<1>26. ASSUME NEW t \in Workers, OverlappedNull(t) PROVE ChannelType'
  BY <1>26, <1>a DEF OverlappedNull, Dequeued, ChannelType, session, channel, queue
<1>27. CASE PeekList
  BY <1>27, <1>a DEF PeekList, Goto, ChannelType, session, channel, queue
<1>28. CASE SeeStopClient
  BY <1>28, <1>a DEF SeeStopClient, ReconnecterEnds, ChannelType, session, channel, queue
<1>29. CASE NewSocket
  BY <1>29, <1>a, FreeSocketIsSocket
  DEF NewSocket, Goto, MakeSocket, ChannelType, session, channel, queue
<1>30. CASE NewSocketFails
  BY <1>30, <1>a DEF NewSocketFails, ReconnecterEnds, ChannelType, session, channel, queue
<1>31. CASE Connect
  BY <1>31, <1>a DEF Connect, Goto, ChannelType, session, channel, queue
<1>32. CASE SetsockoptFails
  BY <1>32, <1>a
  DEF SetsockoptFails, CallFails, ReconnecterEnds, ChannelType, session, channel, queue
<1>33. CASE BindToIOCP
  BY <1>33, <1>a DEF BindToIOCP, Goto, ChannelType, session, channel, queue
<1>34. CASE PopList
  BY <1>34, <1>a DEF PopList, Goto, ChannelType, session, channel, queue
<1>35. CASE StartChannel
  BY <1>35, <1>a, FreeSocketIsSocket
  DEF StartChannel, Goto, MakeSocket, ChannelType, session, channel, queue
<1>36. CASE StartFails
  BY <1>36, <1>a DEF StartFails, ChannelType, session, channel, queue
<1>37. CASE NextChannel
  BY <1>37, <1>a DEF NextChannel, Goto, ChannelType, session, channel, queue
<1>38. CASE ShutdownChannel
  BY <1>38, <1>a DEF ShutdownChannel, ChannelType, session, channel, queue
<1>39. CASE PostStop
  BY <1>39, <1>a DEF PostStop, Goto, ChannelType, session, channel, queue
<1>40. CASE JoinWorkers
  BY <1>40, <1>a DEF JoinWorkers, ChannelType, session, channel, queue
<1>41. CASE Stop
  BY <1>41, <1>a DEF Stop, Goto, ChannelType, session, channel, queue
<1>42. ASSUME NEW t \in Callers, SendPacket(t) PROVE ChannelType'
  <2>1. packets + 1 \in 0 .. MaxPackets /\ \A c \in Channels : SendQ[c] + 1 \in 0 .. MaxPackets
    BY <1>42, <1>b, <1>d DEF SendPacket, SendPacketImpl
  <2> QED
    BY <1>42, <1>a, <2>1 DEF SendPacket, SendPacketImpl, ChannelType, channel
<1>43. ASSUME NEW t \in Callers, SendPacketFixed(t) PROVE ChannelType'
  <2>1. packets + 1 \in 0 .. MaxPackets /\ \A c \in Channels : SendQ[c] + 1 \in 0 .. MaxPackets
    BY <1>43, <1>b, <1>d DEF SendPacketFixed, SendPacketImpl
  <2> QED
    BY <1>43, <1>a, <2>1 DEF SendPacketFixed, SendPacketImpl, ChannelType, channel
<1>44. ASSUME NEW c \in Channels, SendCompletes(c) PROVE ChannelType'
  BY <1>44, <1>a DEF SendCompletes, Completed, ChannelType, session, channel, queue
<1>45. ASSUME NEW c \in Channels, NEW s \in Sockets, RecvAborts(c, s) PROVE ChannelType'
  BY <1>45, <1>a DEF RecvAborts, Completed, ChannelType, session, channel, queue
<1>46. ASSUME NEW c \in Channels, NEW s \in Sockets, RecvCompletes(c, s) PROVE ChannelType'
  BY <1>46, <1>a DEF RecvCompletes, Completed, ChannelType, session, channel, queue
<1>47. ASSUME NEW s \in Sockets, ServerDisconnects(s) PROVE ChannelType'
  BY <1>47, <1>a DEF ServerDisconnects, ChannelType, session, channel, queue
<1>48. CASE UNCHANGED vars
  BY <1>48, <1>a DEF vars, ChannelType, session, channel, queue
<1> QED
  BY <1>1, <1>2, <1>3, <1>4, <1>5, <1>6, <1>7, <1>8, <1>9, <1>10, <1>11, <1>12, <1>13,
     <1>14, <1>15, <1>16, <1>17, <1>18, <1>19, <1>20, <1>21, <1>22, <1>23, <1>24, <1>25,
     <1>26, <1>27, <1>28, <1>29, <1>30, <1>31, <1>32, <1>33, <1>34, <1>35, <1>36, <1>37,
     <1>38, <1>39, <1>40, <1>41, <1>42, <1>43, <1>44, <1>45, <1>46, <1>47, <1>48
  DEF Next, Thread, Post, SendPost, Release, Worker, Reconnect, StartAndStop, Kernel,
      Network, Over

LEMMA KernelTypeStep ==
    ASSUME TypeOK, ChanInv, QueueInv, ListInv, [Next]_vars
    PROVE KernelType'
<1>a. KernelType /\ m_sock \in [Channels -> Sockets \cup {INVALID_SOCKET}]
  BY TypeParts DEF ChannelType
<1>b. ASSUME NEW t \in Threads, pc[t] \in {"wsarecv", "wsasend"} PROVE chan[t] \in Channels
  BY <1>b DEF ChanInv
<1>c. \A c : CanPost(c) => m_sock[c] # INVALID_SOCKET
  BY DEF CanPost, State
<1>1. ASSUME NEW t \in Threads, RecvPostFull(t) PROVE KernelType'
  BY <1>1, <1>a
  DEF RecvPostFull, Decrement, Goto, KernelType, others, kernel, sockets, requests
<1>2. ASSUME NEW t \in Threads, RecvPost(t) PROVE KernelType'
  BY <1>2, <1>a DEF RecvPost, Increment, Goto, KernelType, others, kernel, sockets, requests
<1>3. ASSUME NEW t \in Threads, WSARecv(t) PROVE KernelType'
  BY <1>3, <1>a, <1>b, <1>c DEF WSARecv, Goto, KernelType, others, kernel, sockets, requests
<1>4. ASSUME NEW t \in Threads, WSARecvFails(t) PROVE KernelType'
  BY <1>4, <1>a
  DEF WSARecvFails, Decrement, Goto, CallFails, KernelType, others, kernel, sockets,
      requests
<1>5. ASSUME NEW t \in Threads, ClaimIOMode(t) PROVE KernelType'
  BY <1>5, <1>a DEF ClaimIOMode, Goto, KernelType, others, kernel, sockets, requests
<1>6. ASSUME NEW t \in Threads, GetUseSize(t) PROVE KernelType'
  BY <1>6, <1>a DEF GetUseSize, Goto, KernelType, others, kernel, sockets, requests
<1>7. ASSUME NEW t \in Threads, GiveIOModeBack(t) PROVE KernelType'
  BY <1>7, <1>a DEF GiveIOModeBack, Goto, KernelType, others, kernel, sockets, requests
<1>8. ASSUME NEW t \in Threads, Recheck(t) PROVE KernelType'
  BY <1>8, <1>a DEF Recheck, Goto, KernelType, others, kernel, sockets, requests
<1>9. ASSUME NEW t \in Threads, FillStore(t) PROVE KernelType'
  BY <1>9, <1>a DEF FillStore, Goto, Overlap, KernelType, others, kernel, sockets, requests
<1>10. ASSUME NEW t \in Threads, CountSend(t) PROVE KernelType'
  BY <1>10, <1>a
  DEF CountSend, Goto, Increment, Overlap, KernelType, others, kernel, sockets, requests
<1>11. ASSUME NEW t \in Threads, WSASend(t) PROVE KernelType'
  BY <1>11, <1>a, <1>b, <1>c
  DEF WSASend, Goto, KernelType, others, kernel, sockets, requests
<1>12. ASSUME NEW t \in Threads, WSASendFails(t) PROVE KernelType'
  BY <1>12, <1>a
  DEF WSASendFails, Decrement, Goto, CallFails, KernelType, others, kernel, sockets,
      requests
<1>13. ASSUME NEW t \in Threads, WSASendCrashes(t) PROVE KernelType'
  BY <1>13, <1>a DEF WSASendCrashes, KernelType, others, kernel, sockets, requests
<1>14. ASSUME NEW t \in Threads, ReleaseSession(t) PROVE KernelType'
  BY <1>14, <1>a
  DEF ReleaseSession, Goto, FreeStore, Overlap, KernelType, others, kernel, sockets,
      requests
<1>15. ASSUME NEW t \in Threads, DrainSendQ(t) PROVE KernelType'
  BY <1>15, <1>a DEF DrainSendQ, Goto, KernelType, others, kernel, sockets, requests
<1>16. ASSUME NEW t \in Threads, CloseSocket(t) PROVE KernelType'
  BY <1>16, <1>a DEF CloseSocket, Goto, KernelType, others, kernel, sockets, requests
<1>17. ASSUME NEW t \in Threads, InvalidateSocket(t) PROVE KernelType'
  BY <1>17, <1>a DEF InvalidateSocket, Goto, KernelType, others, kernel, sockets, requests
<1>18. ASSUME NEW t \in Threads, AppendToList(t) PROVE KernelType'
  BY <1>18, <1>a DEF AppendToList, Goto, KernelType, others, kernel, sockets, requests
<1>19. ASSUME NEW t \in Threads, AppendToListRaces(t) PROVE KernelType'
  BY <1>19, <1>a DEF AppendToListRaces, Goto, KernelType, others, kernel, sockets, requests
<1>20. ASSUME NEW t \in Workers, RecvZero(t) PROVE KernelType'
  BY <1>20, <1>a DEF RecvZero, Dequeued, KernelType, others, kernel, sockets, requests
<1>21. ASSUME NEW t \in Workers, RecvData(t) PROVE KernelType'
  BY <1>21, <1>a DEF RecvData, Dequeued, KernelType, others, kernel, sockets, requests
<1>22. ASSUME NEW t \in Workers, SendDone(t) PROVE KernelType'
  BY <1>22, <1>a
  DEF SendDone, Dequeued, FreeStore, KernelType, others, kernel, sockets, requests
<1>23. ASSUME NEW t \in Workers, SendNext(t) PROVE KernelType'
  BY <1>23, <1>a DEF SendNext, Goto, KernelType, others, kernel, sockets, requests
<1>24. ASSUME NEW t \in Workers, IODone(t) PROVE KernelType'
  BY <1>24, <1>a DEF IODone, Decrement, Goto, KernelType, others, kernel, sockets, requests
<1>25. ASSUME NEW t \in Workers, WorkerStops(t) PROVE KernelType'
  BY <1>25, <1>a DEF WorkerStops, KernelType, others, kernel, sockets, requests
<1>26. ASSUME NEW t \in Workers, OverlappedNull(t) PROVE KernelType'
  BY <1>26, <1>a DEF OverlappedNull, Dequeued, KernelType, others, kernel, sockets, requests
<1>27. CASE PeekList
  BY <1>27, <1>a DEF PeekList, Goto, KernelType, others, kernel, sockets, requests
<1>28. CASE SeeStopClient
  BY <1>28, <1>a
  DEF SeeStopClient, ReconnecterEnds, KernelType, others, kernel, sockets, requests
<1>29. CASE NewSocket
  BY <1>29, <1>a, FreeSocketIsSocket
  DEF NewSocket, Goto, MakeSocket, KernelType, others, kernel, sockets, requests
<1>30. CASE NewSocketFails
  BY <1>30, <1>a
  DEF NewSocketFails, ReconnecterEnds, KernelType, others, kernel, sockets, requests
<1>31. CASE Connect
  BY <1>31, <1>a DEF Connect, Goto, KernelType, others, kernel, sockets, requests
<1>32. CASE SetsockoptFails
  BY <1>32, <1>a
  DEF SetsockoptFails, CallFails, ReconnecterEnds, KernelType, others, kernel, sockets,
      requests
<1>33. CASE BindToIOCP
  BY <1>33, <1>a DEF BindToIOCP, Goto, KernelType, others, kernel, sockets, requests
<1>34. CASE PopList
  BY <1>34, <1>a DEF PopList, Goto, KernelType, others, kernel, sockets, requests
<1>35. CASE StartChannel
  BY <1>35, <1>a, FreeSocketIsSocket
  DEF StartChannel, Goto, MakeSocket, KernelType, others, kernel, sockets, requests
<1>36. CASE StartFails
  BY <1>36, <1>a DEF StartFails, KernelType, others, kernel, sockets, requests
<1>37. CASE NextChannel
  BY <1>37, <1>a DEF NextChannel, Goto, KernelType, others, kernel, sockets, requests
<1>38. CASE ShutdownChannel
  BY <1>38, <1>a DEF ShutdownChannel, KernelType, others, kernel, sockets, requests
<1>39. CASE PostStop
  BY <1>39, <1>a DEF PostStop, Goto, KernelType, others, kernel, sockets, requests
<1>40. CASE JoinWorkers
  BY <1>40, <1>a DEF JoinWorkers, KernelType, others, kernel, sockets, requests
<1>41. CASE Stop
  BY <1>41, <1>a DEF Stop, Goto, KernelType, others, kernel, sockets, requests
<1>42. ASSUME NEW t \in Callers, SendPacket(t) PROVE KernelType'
  BY <1>42, <1>a
  DEF SendPacket, SendPacketImpl, KernelType, others, kernel, sockets, requests
<1>43. ASSUME NEW t \in Callers, SendPacketFixed(t) PROVE KernelType'
  BY <1>43, <1>a
  DEF SendPacketFixed, SendPacketImpl, KernelType, others, kernel, sockets, requests
<1>44. ASSUME NEW c \in Channels, SendCompletes(c) PROVE KernelType'
  BY <1>44, <1>a DEF SendCompletes, Completed, KernelType, others, kernel, sockets, requests
<1>45. ASSUME NEW c \in Channels, NEW s \in Sockets, RecvAborts(c, s) PROVE KernelType'
  BY <1>45, <1>a DEF RecvAborts, Completed, KernelType, others, kernel, sockets, requests
<1>46. ASSUME NEW c \in Channels, NEW s \in Sockets, RecvCompletes(c, s) PROVE KernelType'
  BY <1>46, <1>a DEF RecvCompletes, Completed, KernelType, others, kernel, sockets, requests
<1>47. ASSUME NEW s \in Sockets, ServerDisconnects(s) PROVE KernelType'
  BY <1>47, <1>a DEF ServerDisconnects, KernelType, others, kernel, sockets, requests
<1>48. CASE UNCHANGED vars
  BY <1>48, <1>a DEF vars, KernelType, others, kernel, sockets, requests
<1> QED
  BY <1>1, <1>2, <1>3, <1>4, <1>5, <1>6, <1>7, <1>8, <1>9, <1>10, <1>11, <1>12, <1>13,
     <1>14, <1>15, <1>16, <1>17, <1>18, <1>19, <1>20, <1>21, <1>22, <1>23, <1>24, <1>25,
     <1>26, <1>27, <1>28, <1>29, <1>30, <1>31, <1>32, <1>33, <1>34, <1>35, <1>36, <1>37,
     <1>38, <1>39, <1>40, <1>41, <1>42, <1>43, <1>44, <1>45, <1>46, <1>47, <1>48
  DEF Next, Thread, Post, SendPost, Release, Worker, Reconnect, StartAndStop, Kernel,
      Network, Over

LEMMA ListTypeStep ==
    ASSUME TypeOK, ChanInv, QueueInv, ListInv, [Next]_vars
    PROVE ListType'
<1>a. ListType
  BY TypeParts
<1>b. \A x \in Entries : Append(iocp, x) \in Seq(Entries)
  BY <1>a, AppendProperties DEF ListType
<1>c. iocp # <<>> => /\ Tail(iocp) \in Seq(Entries)
                     /\ \A x \in Entries : Append(Tail(iocp), x) \in Seq(Entries)
  BY <1>a, HeadTailProperties, AppendProperties DEF ListType
<1>d. [io |-> "stop", chan |-> -1] \in Entries /\ [io |-> "null", chan |-> -1] \in Entries
  BY DEF Entries
<1>e. \A c \in Channels, io \in {"recv", "recv0", "send"} : [io |-> io, chan |-> c] \in Entries
  BY DEF Entries
<1>1. ASSUME NEW t \in Threads, RecvPostFull(t) PROVE ListType'
  BY <1>1, <1>a DEF RecvPostFull, Decrement, Goto, ListType, others, kernel, client
<1>2. ASSUME NEW t \in Threads, RecvPost(t) PROVE ListType'
  BY <1>2, <1>a DEF RecvPost, Increment, Goto, ListType, others, kernel, client
<1>3. ASSUME NEW t \in Threads, WSARecv(t) PROVE ListType'
  BY <1>3, <1>a DEF WSARecv, Goto, ListType, others, kernel, client
<1>4. ASSUME NEW t \in Threads, WSARecvFails(t) PROVE ListType'
  BY <1>4, <1>a
  DEF WSARecvFails, Decrement, Goto, CallFails, ListType, others, kernel, client
<1>5. ASSUME NEW t \in Threads, ClaimIOMode(t) PROVE ListType'
  BY <1>5, <1>a DEF ClaimIOMode, Goto, ListType, others, kernel, client
<1>6. ASSUME NEW t \in Threads, GetUseSize(t) PROVE ListType'
  BY <1>6, <1>a DEF GetUseSize, Goto, ListType, others, kernel, client
<1>7. ASSUME NEW t \in Threads, GiveIOModeBack(t) PROVE ListType'
  BY <1>7, <1>a DEF GiveIOModeBack, Goto, ListType, others, kernel, client
<1>8. ASSUME NEW t \in Threads, Recheck(t) PROVE ListType'
  BY <1>8, <1>a DEF Recheck, Goto, ListType, others, kernel, client
<1>9. ASSUME NEW t \in Threads, FillStore(t) PROVE ListType'
  BY <1>9, <1>a DEF FillStore, Goto, Overlap, ListType, others, kernel, client
<1>10. ASSUME NEW t \in Threads, CountSend(t) PROVE ListType'
  BY <1>10, <1>a DEF CountSend, Goto, Increment, Overlap, ListType, others, kernel, client
<1>11. ASSUME NEW t \in Threads, WSASend(t) PROVE ListType'
  BY <1>11, <1>a DEF WSASend, Goto, ListType, others, kernel, client
<1>12. ASSUME NEW t \in Threads, WSASendFails(t) PROVE ListType'
  BY <1>12, <1>a
  DEF WSASendFails, Decrement, Goto, CallFails, ListType, others, kernel, client
<1>13. ASSUME NEW t \in Threads, WSASendCrashes(t) PROVE ListType'
  BY <1>13, <1>a DEF WSASendCrashes, ListType, others, kernel, client
<1>14. ASSUME NEW t \in Threads, ReleaseSession(t) PROVE ListType'
  BY <1>14, <1>a
  DEF ReleaseSession, Goto, FreeStore, Overlap, ListType, others, kernel, client
<1>15. ASSUME NEW t \in Threads, DrainSendQ(t) PROVE ListType'
  BY <1>15, <1>a DEF DrainSendQ, Goto, ListType, others, kernel, client
<1>16. ASSUME NEW t \in Threads, CloseSocket(t) PROVE ListType'
  BY <1>16, <1>a DEF CloseSocket, Goto, ListType, others, kernel, client
<1>17. ASSUME NEW t \in Threads, InvalidateSocket(t) PROVE ListType'
  BY <1>17, <1>a DEF InvalidateSocket, Goto, ListType, others, kernel, client
<1>18. ASSUME NEW t \in Threads, AppendToList(t) PROVE ListType'
  <2>1. chan[t] \in Channels
    BY <1>18 DEF AppendToList, Goto, ChanInv
  <2>2. reconnectIdList' \in Seq(Channels)
    BY <1>18, <1>a, <2>1, AppendProperties DEF AppendToList, ListType
  <2> QED
    BY <1>18, <1>a, <2>2 DEF AppendToList, ListType, kernel
<1>19. ASSUME NEW t \in Threads, AppendToListRaces(t) PROVE ListType'
  BY <1>19, <1>a DEF AppendToListRaces, Goto, ListType, others, kernel, client
<1>20. ASSUME NEW t \in Workers, RecvZero(t) PROVE ListType'
  BY <1>20, <1>a, <1>c, <1>d DEF RecvZero, Dequeued, ListType, others, kernel, client
<1>21. ASSUME NEW t \in Workers, RecvData(t) PROVE ListType'
  BY <1>21, <1>a, <1>c, <1>d DEF RecvData, Dequeued, ListType, others, kernel, client
<1>22. ASSUME NEW t \in Workers, SendDone(t) PROVE ListType'
  BY <1>22, <1>a, <1>c, <1>d
  DEF SendDone, Dequeued, FreeStore, ListType, others, kernel, client
<1>23. ASSUME NEW t \in Workers, SendNext(t) PROVE ListType'
  BY <1>23, <1>a DEF SendNext, Goto, ListType, others, kernel, client
<1>24. ASSUME NEW t \in Workers, IODone(t) PROVE ListType'
  BY <1>24, <1>a DEF IODone, Decrement, Goto, ListType, others, kernel, client
<1>25. ASSUME NEW t \in Workers, WorkerStops(t) PROVE ListType'
  BY <1>25, <1>a, <1>c, <1>d DEF WorkerStops, ListType, others, kernel, client
<1>26. ASSUME NEW t \in Workers, OverlappedNull(t) PROVE ListType'
  BY <1>26, <1>a, <1>c, <1>d DEF OverlappedNull, Dequeued, ListType, others, kernel, client
<1>27. CASE PeekList
  BY <1>27, <1>a DEF PeekList, Goto, ListType, others, kernel, client
<1>28. CASE SeeStopClient
  BY <1>28, <1>a DEF SeeStopClient, ReconnecterEnds, ListType, others, kernel, client
<1>29. CASE NewSocket
  BY <1>29, <1>a DEF NewSocket, Goto, MakeSocket, ListType, others, kernel, client
<1>30. CASE NewSocketFails
  BY <1>30, <1>a DEF NewSocketFails, ReconnecterEnds, ListType, others, kernel, client
<1>31. CASE Connect
  BY <1>31, <1>a DEF Connect, Goto, ListType, others, kernel, client
<1>32. CASE SetsockoptFails
  BY <1>32, <1>a
  DEF SetsockoptFails, CallFails, ReconnecterEnds, ListType, others, kernel, client
<1>33. CASE BindToIOCP
  BY <1>33, <1>a DEF BindToIOCP, Goto, ListType, others, kernel, client
<1>34. CASE PopList
  <2>1. reconnectIdList # <<>>
    BY <1>34 DEF PopList, Goto, ListInv
  <2>2. reconnectIdList' \in Seq(Channels)
    BY <1>34, <1>a, <2>1, HeadTailProperties DEF PopList, ListType
  <2> QED
    BY <1>34, <1>a, <2>2 DEF PopList, ListType, kernel
<1>35. CASE StartChannel
  BY <1>35, <1>a DEF StartChannel, Goto, MakeSocket, ListType, others, kernel, client
<1>36. CASE StartFails
  BY <1>36, <1>a DEF StartFails, ListType, others, kernel, client
<1>37. CASE NextChannel
  BY <1>37, <1>a DEF NextChannel, Goto, ListType, others, kernel, client
<1>38. CASE ShutdownChannel
  BY <1>38, <1>a DEF ShutdownChannel, ListType, others, kernel, client
<1>39. CASE PostStop
  BY <1>39, <1>a, <1>b, <1>d, <1>e DEF PostStop, Goto, ListType, others, kernel, client
<1>40. CASE JoinWorkers
  BY <1>40, <1>a DEF JoinWorkers, ListType, others, kernel, client
<1>41. CASE Stop
  BY <1>41, <1>a DEF Stop, Goto, ListType, others, kernel, client
<1>42. ASSUME NEW t \in Callers, SendPacket(t) PROVE ListType'
  BY <1>42, <1>a DEF SendPacket, SendPacketImpl, ListType, others, kernel, client
<1>43. ASSUME NEW t \in Callers, SendPacketFixed(t) PROVE ListType'
  BY <1>43, <1>a DEF SendPacketFixed, SendPacketImpl, ListType, others, kernel, client
<1>44. ASSUME NEW c \in Channels, SendCompletes(c) PROVE ListType'
  BY <1>44, <1>a, <1>b, <1>d, <1>e
  DEF SendCompletes, Completed, ListType, others, kernel, client
<1>45. ASSUME NEW c \in Channels, NEW s \in Sockets, RecvAborts(c, s) PROVE ListType'
  BY <1>45, <1>a, <1>b, <1>d, <1>e
  DEF RecvAborts, Completed, ListType, others, kernel, client
<1>46. ASSUME NEW c \in Channels, NEW s \in Sockets, RecvCompletes(c, s) PROVE ListType'
  BY <1>46, <1>a, <1>b, <1>d, <1>e
  DEF RecvCompletes, Completed, ListType, others, kernel, client
<1>47. ASSUME NEW s \in Sockets, ServerDisconnects(s) PROVE ListType'
  BY <1>47, <1>a DEF ServerDisconnects, ListType, others, kernel, client
<1>48. CASE UNCHANGED vars
  BY <1>48, <1>a DEF vars, ListType, others, kernel, client
<1> QED
  BY <1>1, <1>2, <1>3, <1>4, <1>5, <1>6, <1>7, <1>8, <1>9, <1>10, <1>11, <1>12, <1>13,
     <1>14, <1>15, <1>16, <1>17, <1>18, <1>19, <1>20, <1>21, <1>22, <1>23, <1>24, <1>25,
     <1>26, <1>27, <1>28, <1>29, <1>30, <1>31, <1>32, <1>33, <1>34, <1>35, <1>36, <1>37,
     <1>38, <1>39, <1>40, <1>41, <1>42, <1>43, <1>44, <1>45, <1>46, <1>47, <1>48
  DEF Next, Thread, Post, SendPost, Release, Worker, Reconnect, StartAndStop, Kernel,
      Network, Over

LEMMA ClientTypeStep ==
    ASSUME TypeOK, ChanInv, QueueInv, ListInv, [Next]_vars
    PROVE ClientType'
<1>a. ClientType
  BY TypeParts
<1>b. MaxPackets \in Nat /\ MaxFaults \in Nat
  BY LanClientAssumption
<1>c. Cardinality(Workers) \in Nat \ {0}
  BY LanClientAssumption, FS_CardinalityType, FS_EmptySet
<1>d. /\ faults < MaxFaults => faults + 1 \in 0 .. MaxFaults
      /\ packets < MaxPackets => packets + 1 \in 0 .. MaxPackets
  BY <1>a, <1>b DEF ClientType
<1>e. (channelSelector + 1) % Cardinality(Workers) \in 0 .. Cardinality(Workers) - 1
  <2>1. channelSelector + 1 \in Nat
    BY <1>a DEF ClientType
  <2> QED
    BY <1>c, <2>1
<1>1. ASSUME NEW t \in Threads, RecvPostFull(t) PROVE ClientType'
  BY <1>1, <1>a
  DEF RecvPostFull, Decrement, Goto, ClientType, others, client, inputs, history, marks
<1>2. ASSUME NEW t \in Threads, RecvPost(t) PROVE ClientType'
  BY <1>2, <1>a
  DEF RecvPost, Increment, Goto, ClientType, others, client, inputs, history, marks
<1>3. ASSUME NEW t \in Threads, WSARecv(t) PROVE ClientType'
  BY <1>3, <1>a DEF WSARecv, Goto, ClientType, others, client, inputs, history, marks
<1>4. ASSUME NEW t \in Threads, WSARecvFails(t) PROVE ClientType'
  BY <1>4, <1>a, <1>d
  DEF WSARecvFails, Decrement, Goto, CallFails, ClientType, others, client, inputs,
      history, marks
<1>5. ASSUME NEW t \in Threads, ClaimIOMode(t) PROVE ClientType'
  BY <1>5, <1>a DEF ClaimIOMode, Goto, ClientType, others, client, inputs, history, marks
<1>6. ASSUME NEW t \in Threads, GetUseSize(t) PROVE ClientType'
  BY <1>6, <1>a DEF GetUseSize, Goto, ClientType, others, client, inputs, history, marks
<1>7. ASSUME NEW t \in Threads, GiveIOModeBack(t) PROVE ClientType'
  BY <1>7, <1>a DEF GiveIOModeBack, Goto, ClientType, others, client, inputs, history, marks
<1>8. ASSUME NEW t \in Threads, Recheck(t) PROVE ClientType'
  BY <1>8, <1>a DEF Recheck, Goto, ClientType, others, client, inputs, history, marks
<1>9. ASSUME NEW t \in Threads, FillStore(t) PROVE ClientType'
  BY <1>9, <1>a
  DEF FillStore, Goto, Overlap, ClientType, others, client, inputs, history, marks
<1>10. ASSUME NEW t \in Threads, CountSend(t) PROVE ClientType'
  BY <1>10, <1>a
  DEF CountSend, Goto, Increment, Overlap, ClientType, others, client, inputs, history,
      marks
<1>11. ASSUME NEW t \in Threads, WSASend(t) PROVE ClientType'
  BY <1>11, <1>a DEF WSASend, Goto, ClientType, others, client, inputs, history, marks
<1>12. ASSUME NEW t \in Threads, WSASendFails(t) PROVE ClientType'
  BY <1>12, <1>a, <1>d
  DEF WSASendFails, Decrement, Goto, CallFails, ClientType, others, client, inputs,
      history, marks
<1>13. ASSUME NEW t \in Threads, WSASendCrashes(t) PROVE ClientType'
  BY <1>13, <1>a, <1>d
  DEF WSASendCrashes, ClientType, others, client, inputs, history, marks
<1>14. ASSUME NEW t \in Threads, ReleaseSession(t) PROVE ClientType'
  BY <1>14, <1>a
  DEF ReleaseSession, Goto, FreeStore, Overlap, ClientType, others, client, inputs,
      history, marks
<1>15. ASSUME NEW t \in Threads, DrainSendQ(t) PROVE ClientType'
  BY <1>15, <1>a DEF DrainSendQ, Goto, ClientType, others, client, inputs, history, marks
<1>16. ASSUME NEW t \in Threads, CloseSocket(t) PROVE ClientType'
  BY <1>16, <1>a DEF CloseSocket, Goto, ClientType, others, client, inputs, history, marks
<1>17. ASSUME NEW t \in Threads, InvalidateSocket(t) PROVE ClientType'
  BY <1>17, <1>a
  DEF InvalidateSocket, Goto, ClientType, others, client, inputs, history, marks
<1>18. ASSUME NEW t \in Threads, AppendToList(t) PROVE ClientType'
  BY <1>18, <1>a DEF AppendToList, Goto, ClientType, others, client, inputs, history, marks
<1>19. ASSUME NEW t \in Threads, AppendToListRaces(t) PROVE ClientType'
  BY <1>19, <1>a
  DEF AppendToListRaces, Goto, ClientType, others, client, inputs, history, marks
<1>20. ASSUME NEW t \in Workers, RecvZero(t) PROVE ClientType'
  BY <1>20, <1>a DEF RecvZero, Dequeued, ClientType, others, client, inputs, history, marks
<1>21. ASSUME NEW t \in Workers, RecvData(t) PROVE ClientType'
  BY <1>21, <1>a, <1>d
  DEF RecvData, Dequeued, ClientType, others, client, inputs, history, marks
<1>22. ASSUME NEW t \in Workers, SendDone(t) PROVE ClientType'
  BY <1>22, <1>a
  DEF SendDone, Dequeued, FreeStore, ClientType, others, client, inputs, history, marks
<1>23. ASSUME NEW t \in Workers, SendNext(t) PROVE ClientType'
  BY <1>23, <1>a DEF SendNext, Goto, ClientType, others, client, inputs, history, marks
<1>24. ASSUME NEW t \in Workers, IODone(t) PROVE ClientType'
  BY <1>24, <1>a
  DEF IODone, Decrement, Goto, ClientType, others, client, inputs, history, marks
<1>25. ASSUME NEW t \in Workers, WorkerStops(t) PROVE ClientType'
  BY <1>25, <1>a DEF WorkerStops, ClientType, others, client, inputs, history, marks
<1>26. ASSUME NEW t \in Workers, OverlappedNull(t) PROVE ClientType'
  BY <1>26, <1>a
  DEF OverlappedNull, Dequeued, ClientType, others, client, inputs, history, marks
<1>27. CASE PeekList
  BY <1>27, <1>a DEF PeekList, Goto, ClientType, others, client, inputs, history, marks
<1>28. CASE SeeStopClient
  BY <1>28, <1>a
  DEF SeeStopClient, ReconnecterEnds, ClientType, others, client, inputs, history, marks
<1>29. CASE NewSocket
  BY <1>29, <1>a
  DEF NewSocket, Goto, MakeSocket, ClientType, others, client, inputs, history, marks
<1>30. CASE NewSocketFails
  BY <1>30, <1>a, <1>d
  DEF NewSocketFails, ReconnecterEnds, ClientType, others, client, inputs, history, marks
<1>31. CASE Connect
  BY <1>31, <1>a DEF Connect, Goto, ClientType, others, client, inputs, history, marks
<1>32. CASE SetsockoptFails
  BY <1>32, <1>a, <1>d
  DEF SetsockoptFails, CallFails, ReconnecterEnds, ClientType, others, client, inputs,
      history, marks
<1>33. CASE BindToIOCP
  BY <1>33, <1>a DEF BindToIOCP, Goto, ClientType, others, client, inputs, history, marks
<1>34. CASE PopList
  BY <1>34, <1>a DEF PopList, Goto, ClientType, others, client, inputs, history, marks
<1>35. CASE StartChannel
  BY <1>35, <1>a
  DEF StartChannel, Goto, MakeSocket, ClientType, others, client, inputs, history, marks
<1>36. CASE StartFails
  BY <1>36, <1>a DEF StartFails, ClientType, others, client, inputs, history, marks
<1>37. CASE NextChannel
  BY <1>37, <1>a DEF NextChannel, Goto, ClientType, others, client, inputs, history, marks
<1>38. CASE ShutdownChannel
  BY <1>38, <1>a DEF ShutdownChannel, ClientType, others, client, inputs, history, marks
<1>39. CASE PostStop
  BY <1>39, <1>a DEF PostStop, Goto, ClientType, others, client, inputs, history, marks
<1>40. CASE JoinWorkers
  BY <1>40, <1>a DEF JoinWorkers, ClientType, others, client, inputs, history, marks
<1>41. CASE Stop
  BY <1>41, <1>a DEF Stop, Goto, ClientType, others, client, inputs, history, marks
<1>42. ASSUME NEW t \in Callers, SendPacket(t) PROVE ClientType'
  BY <1>42, <1>a, <1>d, <1>e
  DEF SendPacket, SendPacketImpl, ClientType, others, client, inputs, history, marks
<1>43. ASSUME NEW t \in Callers, SendPacketFixed(t) PROVE ClientType'
  BY <1>43, <1>a, <1>d
  DEF SendPacketFixed, SendPacketImpl, ClientType, others, client, inputs, history, marks
<1>44. ASSUME NEW c \in Channels, SendCompletes(c) PROVE ClientType'
  BY <1>44, <1>a
  DEF SendCompletes, Completed, ClientType, others, client, inputs, history, marks
<1>45. ASSUME NEW c \in Channels, NEW s \in Sockets, RecvAborts(c, s) PROVE ClientType'
  BY <1>45, <1>a
  DEF RecvAborts, Completed, ClientType, others, client, inputs, history, marks
<1>46. ASSUME NEW c \in Channels, NEW s \in Sockets, RecvCompletes(c, s) PROVE ClientType'
  BY <1>46, <1>a
  DEF RecvCompletes, Completed, ClientType, others, client, inputs, history, marks
<1>47. ASSUME NEW s \in Sockets, ServerDisconnects(s) PROVE ClientType'
  BY <1>47, <1>a, <1>d
  DEF ServerDisconnects, ClientType, others, client, inputs, history, marks
<1>48. CASE UNCHANGED vars
  BY <1>48, <1>a DEF vars, ClientType, others, client, inputs, history, marks
<1> QED
  BY <1>1, <1>2, <1>3, <1>4, <1>5, <1>6, <1>7, <1>8, <1>9, <1>10, <1>11, <1>12, <1>13,
     <1>14, <1>15, <1>16, <1>17, <1>18, <1>19, <1>20, <1>21, <1>22, <1>23, <1>24, <1>25,
     <1>26, <1>27, <1>28, <1>29, <1>30, <1>31, <1>32, <1>33, <1>34, <1>35, <1>36, <1>37,
     <1>38, <1>39, <1>40, <1>41, <1>42, <1>43, <1>44, <1>45, <1>46, <1>47, <1>48
  DEF Next, Thread, Post, SendPost, Release, Worker, Reconnect, StartAndStop, Kernel,
      Network, Over

LEMMA HistoryTypeStep ==
    ASSUME TypeOK, ChanInv, QueueInv, ListInv, [Next]_vars
    PROVE HistoryType'
<1>a. disturbed \subseteq Channels /\ filled \subseteq Channels /\ dangling \subseteq Channels
  BY DEF TypeOK
<1>b. ASSUME NEW t \in Threads, pc[t] \in {"recvpost", "fill", "count", "release"}
      PROVE chan[t] \in Channels
  BY <1>b DEF ChanInv
<1>c. SUFFICES /\ disturbed' \subseteq Channels /\ filled' \subseteq Channels
               /\ dangling' \subseteq Channels
  BY DEF HistoryType
<1>1. ASSUME NEW t \in Threads, RecvPostFull(t)
      PROVE  (disturbed \cup filled \cup dangling)' \subseteq Channels
  BY <1>1, <1>a, <1>b DEF RecvPostFull, Decrement, Goto, others, history, marks
<1>2. ASSUME NEW t \in Threads, RecvPost(t)
      PROVE  (disturbed \cup filled \cup dangling)' \subseteq Channels
  BY <1>2, <1>a DEF RecvPost, Increment, Goto, others, history, marks
<1>3. ASSUME NEW t \in Threads, WSARecv(t)
      PROVE  (disturbed \cup filled \cup dangling)' \subseteq Channels
  BY <1>3, <1>a DEF WSARecv, Goto, others, history, marks
<1>4. ASSUME NEW t \in Threads, WSARecvFails(t)
      PROVE  (disturbed \cup filled \cup dangling)' \subseteq Channels
  BY <1>4, <1>a DEF WSARecvFails, Decrement, Goto, CallFails, others, history, marks
<1>5. ASSUME NEW t \in Threads, ClaimIOMode(t)
      PROVE  (disturbed \cup filled \cup dangling)' \subseteq Channels
  BY <1>5, <1>a DEF ClaimIOMode, Goto, others, history, marks
<1>6. ASSUME NEW t \in Threads, GetUseSize(t)
      PROVE  (disturbed \cup filled \cup dangling)' \subseteq Channels
  BY <1>6, <1>a DEF GetUseSize, Goto, others, history, marks
<1>7. ASSUME NEW t \in Threads, GiveIOModeBack(t)
      PROVE  (disturbed \cup filled \cup dangling)' \subseteq Channels
  BY <1>7, <1>a DEF GiveIOModeBack, Goto, others, history, marks
<1>8. ASSUME NEW t \in Threads, Recheck(t)
      PROVE  (disturbed \cup filled \cup dangling)' \subseteq Channels
  BY <1>8, <1>a DEF Recheck, Goto, others, history, marks
<1>9. ASSUME NEW t \in Threads, FillStore(t)
      PROVE  (disturbed \cup filled \cup dangling)' \subseteq Channels
  BY <1>9, <1>a, <1>b DEF FillStore, Goto, Overlap, others, history, marks
<1>10. ASSUME NEW t \in Threads, CountSend(t)
       PROVE  (disturbed \cup filled \cup dangling)' \subseteq Channels
  BY <1>10, <1>a, <1>b DEF CountSend, Goto, Increment, Overlap, others, history, marks
<1>11. ASSUME NEW t \in Threads, WSASend(t)
       PROVE  (disturbed \cup filled \cup dangling)' \subseteq Channels
  BY <1>11, <1>a DEF WSASend, Goto, others, history, marks
<1>12. ASSUME NEW t \in Threads, WSASendFails(t)
       PROVE  (disturbed \cup filled \cup dangling)' \subseteq Channels
  BY <1>12, <1>a DEF WSASendFails, Decrement, Goto, CallFails, others, history, marks
<1>13. ASSUME NEW t \in Threads, WSASendCrashes(t)
       PROVE  (disturbed \cup filled \cup dangling)' \subseteq Channels
  BY <1>13, <1>a DEF WSASendCrashes, others, history, marks
<1>14. ASSUME NEW t \in Threads, ReleaseSession(t)
       PROVE  (disturbed \cup filled \cup dangling)' \subseteq Channels
  BY <1>14, <1>a, <1>b DEF ReleaseSession, Goto, FreeStore, Overlap, others, history, marks
<1>15. ASSUME NEW t \in Threads, DrainSendQ(t)
       PROVE  (disturbed \cup filled \cup dangling)' \subseteq Channels
  BY <1>15, <1>a DEF DrainSendQ, Goto, others, history, marks
<1>16. ASSUME NEW t \in Threads, CloseSocket(t)
       PROVE  (disturbed \cup filled \cup dangling)' \subseteq Channels
  BY <1>16, <1>a DEF CloseSocket, Goto, others, history, marks
<1>17. ASSUME NEW t \in Threads, InvalidateSocket(t)
       PROVE  (disturbed \cup filled \cup dangling)' \subseteq Channels
  BY <1>17, <1>a DEF InvalidateSocket, Goto, others, history, marks
<1>18. ASSUME NEW t \in Threads, AppendToList(t)
       PROVE  (disturbed \cup filled \cup dangling)' \subseteq Channels
  BY <1>18, <1>a DEF AppendToList, Goto, others, history, marks
<1>19. ASSUME NEW t \in Threads, AppendToListRaces(t)
       PROVE  (disturbed \cup filled \cup dangling)' \subseteq Channels
  BY <1>19, <1>a DEF AppendToListRaces, Goto, others, history, marks
<1>20. ASSUME NEW t \in Workers, RecvZero(t)
       PROVE  (disturbed \cup filled \cup dangling)' \subseteq Channels
  BY <1>20, <1>a DEF RecvZero, Dequeued, others, history, marks
<1>21. ASSUME NEW t \in Workers, RecvData(t)
       PROVE  (disturbed \cup filled \cup dangling)' \subseteq Channels
  BY <1>21, <1>a DEF RecvData, Dequeued, others, history, marks
<1>22. ASSUME NEW t \in Workers, SendDone(t)
       PROVE  (disturbed \cup filled \cup dangling)' \subseteq Channels
  BY <1>22, <1>a DEF SendDone, Dequeued, FreeStore, others, history, marks
<1>23. ASSUME NEW t \in Workers, SendNext(t)
       PROVE  (disturbed \cup filled \cup dangling)' \subseteq Channels
  BY <1>23, <1>a DEF SendNext, Goto, others, history, marks
<1>24. ASSUME NEW t \in Workers, IODone(t)
       PROVE  (disturbed \cup filled \cup dangling)' \subseteq Channels
  BY <1>24, <1>a DEF IODone, Decrement, Goto, others, history, marks
<1>25. ASSUME NEW t \in Workers, WorkerStops(t)
       PROVE  (disturbed \cup filled \cup dangling)' \subseteq Channels
  BY <1>25, <1>a DEF WorkerStops, others, history, marks
<1>26. ASSUME NEW t \in Workers, OverlappedNull(t)
       PROVE  (disturbed \cup filled \cup dangling)' \subseteq Channels
  BY <1>26, <1>a DEF OverlappedNull, Dequeued, others, history, marks
<1>27. CASE PeekList
  BY <1>27, <1>a DEF PeekList, Goto, others, history, marks
<1>28. CASE SeeStopClient
  BY <1>28, <1>a DEF SeeStopClient, ReconnecterEnds, others, history, marks
<1>29. CASE NewSocket
  BY <1>29, <1>a DEF NewSocket, Goto, MakeSocket, others, history, marks
<1>30. CASE NewSocketFails
  BY <1>30, <1>a DEF NewSocketFails, ReconnecterEnds, others, history, marks
<1>31. CASE Connect
  BY <1>31, <1>a DEF Connect, Goto, others, history, marks
<1>32. CASE SetsockoptFails
  BY <1>32, <1>a DEF SetsockoptFails, CallFails, ReconnecterEnds, others, history, marks
<1>33. CASE BindToIOCP
  BY <1>33, <1>a DEF BindToIOCP, Goto, others, history, marks
<1>34. CASE PopList
  BY <1>34, <1>a DEF PopList, Goto, others, history, marks
<1>35. CASE StartChannel
  BY <1>35, <1>a DEF StartChannel, Goto, MakeSocket, others, history, marks
<1>36. CASE StartFails
  BY <1>36, <1>a DEF StartFails, others, history, marks
<1>37. CASE NextChannel
  BY <1>37, <1>a DEF NextChannel, Goto, others, history, marks
<1>38. CASE ShutdownChannel
  BY <1>38, <1>a DEF ShutdownChannel, others, history, marks
<1>39. CASE PostStop
  BY <1>39, <1>a DEF PostStop, Goto, others, history, marks
<1>40. CASE JoinWorkers
  BY <1>40, <1>a DEF JoinWorkers, others, history, marks
<1>41. CASE Stop
  BY <1>41, <1>a DEF Stop, Goto, others, history, marks
<1>42. ASSUME NEW t \in Callers, SendPacket(t)
       PROVE  (disturbed \cup filled \cup dangling)' \subseteq Channels
  BY <1>42, <1>a DEF SendPacket, SendPacketImpl, others, history, marks
<1>43. ASSUME NEW t \in Callers, SendPacketFixed(t)
       PROVE  (disturbed \cup filled \cup dangling)' \subseteq Channels
  BY <1>43, <1>a DEF SendPacketFixed, SendPacketImpl, others, history, marks
<1>44. ASSUME NEW c \in Channels, SendCompletes(c)
       PROVE  (disturbed \cup filled \cup dangling)' \subseteq Channels
  BY <1>44, <1>a DEF SendCompletes, Completed, others, history, marks
<1>45. ASSUME NEW c \in Channels, NEW s \in Sockets, RecvAborts(c, s)
       PROVE  (disturbed \cup filled \cup dangling)' \subseteq Channels
  BY <1>45, <1>a DEF RecvAborts, Completed, others, history, marks
<1>46. ASSUME NEW c \in Channels, NEW s \in Sockets, RecvCompletes(c, s)
       PROVE  (disturbed \cup filled \cup dangling)' \subseteq Channels
  BY <1>46, <1>a DEF RecvCompletes, Completed, others, history, marks
<1>47. ASSUME NEW s \in Sockets, ServerDisconnects(s)
       PROVE  (disturbed \cup filled \cup dangling)' \subseteq Channels
  BY <1>47, <1>a DEF ServerDisconnects, others, history, marks
<1>48. CASE UNCHANGED vars
  BY <1>48, <1>a DEF vars, others, history, marks
<1> QED
  BY <1>1, <1>2, <1>3, <1>4, <1>5, <1>6, <1>7, <1>8, <1>9, <1>10, <1>11, <1>12, <1>13,
     <1>14, <1>15, <1>16, <1>17, <1>18, <1>19, <1>20, <1>21, <1>22, <1>23, <1>24, <1>25,
     <1>26, <1>27, <1>28, <1>29, <1>30, <1>31, <1>32, <1>33, <1>34, <1>35, <1>36, <1>37,
     <1>38, <1>39, <1>40, <1>41, <1>42, <1>43, <1>44, <1>45, <1>46, <1>47, <1>48
  DEF Next, Thread, Post, SendPost, Release, Worker, Reconnect, StartAndStop, Kernel,
      Network, Over

LEMMA TypeStep ==
    ASSUME TypeOK, ChanInv, QueueInv, ListInv, [Next]_vars
    PROVE TypeOK'
<1>1. ThreadType' /\ ChannelType' /\ KernelType' /\ ListType' /\ ClientType' /\ HistoryType'
  BY ThreadTypeStep, ChannelTypeStep, KernelTypeStep, ListTypeStep, ClientTypeStep,
     HistoryTypeStep
<1> QED
  BY <1>1
  DEF TypeOK, ThreadType, ChannelType, KernelType, ListType, ClientType, HistoryType

-----------------------------------------------------------------------------
LEMMA ChanStep ==
    ASSUME TypeOK, ChanInv, [Next]_vars
    PROVE ChanInv'
<1>a. pc \in [Threads -> Pcs] /\ chan \in [Threads -> 0 .. NumOfSession]
  BY DEF TypeOK
<1>b. /\ Workers \subseteq Threads /\ Callers \subseteq Threads
      /\ Main \in Threads /\ Reconnecter \in Threads /\ 0 \in Channels
  BY LanClientAssumption DEF Channels, Threads
<1>1. ASSUME NEW t \in Threads, RecvPostFull(t) PROVE ChanInv'
  BY <1>1, <1>a, <1>b DEF RecvPostFull, Decrement, Goto, ChanInv, threads, locals
<1>2. ASSUME NEW t \in Threads, RecvPost(t) PROVE ChanInv'
  BY <1>2, <1>a, <1>b DEF RecvPost, Increment, Goto, ChanInv, threads, locals
<1>3. ASSUME NEW t \in Threads, WSARecv(t) PROVE ChanInv'
  BY <1>3, <1>a, <1>b DEF WSARecv, Goto, ChanInv, threads, locals
<1>4. ASSUME NEW t \in Threads, WSARecvFails(t) PROVE ChanInv'
  BY <1>4, <1>a, <1>b DEF WSARecvFails, Decrement, Goto, CallFails, ChanInv, threads, locals
<1>5. ASSUME NEW t \in Threads, ClaimIOMode(t) PROVE ChanInv'
  BY <1>5, <1>a, <1>b DEF ClaimIOMode, Goto, ChanInv, threads, locals
<1>6. ASSUME NEW t \in Threads, GetUseSize(t) PROVE ChanInv'
  BY <1>6, <1>a, <1>b DEF GetUseSize, Goto, ChanInv, threads, locals
<1>7. ASSUME NEW t \in Threads, GiveIOModeBack(t) PROVE ChanInv'
  BY <1>7, <1>a, <1>b DEF GiveIOModeBack, Goto, ChanInv, threads, locals
<1>8. ASSUME NEW t \in Threads, Recheck(t) PROVE ChanInv'
  BY <1>8, <1>a, <1>b DEF Recheck, Goto, ChanInv, threads, locals
<1>9. ASSUME NEW t \in Threads, FillStore(t) PROVE ChanInv'
  BY <1>9, <1>a, <1>b DEF FillStore, Goto, Overlap, ChanInv, threads, locals
<1>10. ASSUME NEW t \in Threads, CountSend(t) PROVE ChanInv'
  BY <1>10, <1>a, <1>b DEF CountSend, Goto, Increment, Overlap, ChanInv, threads, locals
<1>11. ASSUME NEW t \in Threads, WSASend(t) PROVE ChanInv'
  BY <1>11, <1>a, <1>b DEF WSASend, Goto, ChanInv, threads, locals
<1>12. ASSUME NEW t \in Threads, WSASendFails(t) PROVE ChanInv'
  BY <1>12, <1>a, <1>b
  DEF WSASendFails, Decrement, Goto, CallFails, ChanInv, threads, locals
<1>13. ASSUME NEW t \in Threads, WSASendCrashes(t) PROVE ChanInv'
  BY <1>13, <1>a, <1>b DEF WSASendCrashes, ChanInv, threads, locals
<1>14. ASSUME NEW t \in Threads, ReleaseSession(t) PROVE ChanInv'
  BY <1>14, <1>a, <1>b
  DEF ReleaseSession, Goto, FreeStore, Overlap, ChanInv, threads, locals
<1>15. ASSUME NEW t \in Threads, DrainSendQ(t) PROVE ChanInv'
  BY <1>15, <1>a, <1>b DEF DrainSendQ, Goto, ChanInv, threads, locals
<1>16. ASSUME NEW t \in Threads, CloseSocket(t) PROVE ChanInv'
  BY <1>16, <1>a, <1>b DEF CloseSocket, Goto, ChanInv, threads, locals
<1>17. ASSUME NEW t \in Threads, InvalidateSocket(t) PROVE ChanInv'
  BY <1>17, <1>a, <1>b DEF InvalidateSocket, Goto, ChanInv, threads, locals
<1>18. ASSUME NEW t \in Threads, AppendToList(t) PROVE ChanInv'
  BY <1>18, <1>a, <1>b DEF AppendToList, Goto, ChanInv, threads, locals
<1>19. ASSUME NEW t \in Threads, AppendToListRaces(t) PROVE ChanInv'
  BY <1>19, <1>a, <1>b DEF AppendToListRaces, Goto, ChanInv, threads, locals
<1>20. ASSUME NEW t \in Workers, RecvZero(t) PROVE ChanInv'
  <2>1. Head(iocp).chan \in Channels
    BY <1>20, HeadOfPort DEF RecvZero, Dequeued, TypeOK
  <2> QED
    BY <1>20, <1>a, <1>b, <2>1 DEF RecvZero, Dequeued, ChanInv
<1>21. ASSUME NEW t \in Workers, RecvData(t) PROVE ChanInv'
  <2>1. Head(iocp).chan \in Channels
    BY <1>21, HeadOfPort DEF RecvData, Dequeued, TypeOK
  <2> QED
    BY <1>21, <1>a, <1>b, <2>1 DEF RecvData, Dequeued, ChanInv
<1>22. ASSUME NEW t \in Workers, SendDone(t) PROVE ChanInv'
  <2>1. Head(iocp).chan \in Channels
    BY <1>22, HeadOfPort DEF SendDone, Dequeued, TypeOK
  <2> QED
    BY <1>22, <1>a, <1>b, <2>1 DEF SendDone, Dequeued, ChanInv
<1>23. ASSUME NEW t \in Workers, SendNext(t) PROVE ChanInv'
  BY <1>23, <1>a, <1>b DEF SendNext, Goto, ChanInv, threads, locals
<1>24. ASSUME NEW t \in Workers, IODone(t) PROVE ChanInv'
  BY <1>24, <1>a, <1>b DEF IODone, Decrement, Goto, ChanInv, threads, locals
<1>25. ASSUME NEW t \in Workers, WorkerStops(t) PROVE ChanInv'
  BY <1>25, <1>a, <1>b DEF WorkerStops, ChanInv, threads, locals
<1>26. ASSUME NEW t \in Workers, OverlappedNull(t) PROVE ChanInv'
  BY <1>26, <1>a, <1>b DEF OverlappedNull, Dequeued, ChanInv, threads, locals
<1>27. CASE PeekList
  <2>1. Head(reconnectIdList) \in Channels
    BY <1>27, HeadTailProperties DEF PeekList, TypeOK
  <2> QED
    BY <1>27, <1>a, <1>b, <2>1 DEF PeekList, Goto, ChanInv
<1>28. CASE SeeStopClient
  BY <1>28, <1>a, <1>b DEF SeeStopClient, ReconnecterEnds, ChanInv, threads, locals
<1>29. CASE NewSocket
  BY <1>29, <1>a, <1>b DEF NewSocket, Goto, MakeSocket, ChanInv, threads, locals
<1>30. CASE NewSocketFails
  BY <1>30, <1>a, <1>b DEF NewSocketFails, ReconnecterEnds, ChanInv, threads, locals
<1>31. CASE Connect
  BY <1>31, <1>a, <1>b DEF Connect, Goto, ChanInv, threads, locals
<1>32. CASE SetsockoptFails
  BY <1>32, <1>a, <1>b
  DEF SetsockoptFails, CallFails, ReconnecterEnds, ChanInv, threads, locals
<1>33. CASE BindToIOCP
  BY <1>33, <1>a, <1>b DEF BindToIOCP, Goto, ChanInv, threads, locals
<1>34. CASE PopList
  BY <1>34, <1>a, <1>b DEF PopList, Goto, ChanInv, threads, locals
<1>35. CASE StartChannel
  BY <1>35, <1>a, <1>b DEF StartChannel, Goto, MakeSocket, ChanInv, threads, locals
<1>36. CASE StartFails
  BY <1>36, <1>a, <1>b DEF StartFails, ChanInv, threads, locals
<1>37. CASE NextChannel
  <2>1. (IF chan[Main] = NumOfSession - 1 THEN 0 ELSE chan[Main] + 1) \in Channels
    BY <1>37, <1>a, <1>b, LanClientAssumption DEF NextChannel, Goto, ChanInv, Channels
  <2> QED
    BY <1>37, <1>a, <1>b, <2>1 DEF NextChannel, Goto, ChanInv
<1>38. CASE ShutdownChannel
  BY <1>38, <1>a, <1>b DEF ShutdownChannel, ChanInv, threads, locals
<1>39. CASE PostStop
  BY <1>39, <1>a, <1>b DEF PostStop, Goto, ChanInv, threads, locals
<1>40. CASE JoinWorkers
  BY <1>40, <1>a, <1>b DEF JoinWorkers, ChanInv, threads, locals
<1>41. CASE Stop
  BY <1>41, <1>a, <1>b DEF Stop, Goto, ChanInv, threads, locals
<1>42. ASSUME NEW t \in Callers, SendPacket(t) PROVE ChanInv'
  BY <1>42, <1>a, <1>b DEF SendPacket, SendPacketImpl, ChanInv, threads, locals
<1>43. ASSUME NEW t \in Callers, SendPacketFixed(t) PROVE ChanInv'
  BY <1>43, <1>a, <1>b DEF SendPacketFixed, SendPacketImpl, ChanInv, threads, locals
<1>44. ASSUME NEW c \in Channels, SendCompletes(c) PROVE ChanInv'
  BY <1>44, <1>a, <1>b DEF SendCompletes, Completed, ChanInv, threads, locals
<1>45. ASSUME NEW c \in Channels, NEW s \in Sockets, RecvAborts(c, s) PROVE ChanInv'
  BY <1>45, <1>a, <1>b DEF RecvAborts, Completed, ChanInv, threads, locals
<1>46. ASSUME NEW c \in Channels, NEW s \in Sockets, RecvCompletes(c, s) PROVE ChanInv'
  BY <1>46, <1>a, <1>b DEF RecvCompletes, Completed, ChanInv, threads, locals
<1>47. ASSUME NEW s \in Sockets, ServerDisconnects(s) PROVE ChanInv'
  BY <1>47, <1>a, <1>b DEF ServerDisconnects, ChanInv, threads, locals
<1>48. CASE UNCHANGED vars
  BY <1>48, <1>a, <1>b DEF vars, ChanInv, threads, locals
<1> QED
  BY <1>1, <1>2, <1>3, <1>4, <1>5, <1>6, <1>7, <1>8, <1>9, <1>10, <1>11, <1>12, <1>13,
     <1>14, <1>15, <1>16, <1>17, <1>18, <1>19, <1>20, <1>21, <1>22, <1>23, <1>24, <1>25,
     <1>26, <1>27, <1>28, <1>29, <1>30, <1>31, <1>32, <1>33, <1>34, <1>35, <1>36, <1>37,
     <1>38, <1>39, <1>40, <1>41, <1>42, <1>43, <1>44, <1>45, <1>46, <1>47, <1>48
  DEF Next, Thread, Post, SendPost, Release, Worker, Reconnect, StartAndStop, Kernel,
      Network, Over

LEMMA QueueStep ==
    ASSUME TypeOK, ChanInv, QueueInv, [Next]_vars
    PROVE QueueInv'
<1>a. /\ pc \in [Threads -> Pcs] /\ rest \in [Threads -> 0 .. MaxPackets]
      /\ SendQ \in [Channels -> 0 .. MaxPackets]
      /\ packets \in 0 .. MaxPackets /\ SendMax \in Nat \ {0} /\ MaxPackets \in Nat
  BY LanClientAssumption DEF TypeOK
<1>b. /\ Workers \subseteq Threads /\ Callers \subseteq Threads
      /\ Main \in Threads /\ Reconnecter \in Threads
  BY DEF Threads
<1>c. \A t : Return(t) # "fill" /\ Deleted(t) # "fill"
  BY PcsHas
<1>1. ASSUME NEW t \in Threads, RecvPostFull(t) PROVE QueueInv'
  BY <1>1, <1>a, <1>b, <1>c
  DEF RecvPostFull, Decrement, Goto, QueueInv, threads, locals, session, queue, others,
      client, inputs
<1>2. ASSUME NEW t \in Threads, RecvPost(t) PROVE QueueInv'
  BY <1>2, <1>a, <1>b, <1>c
  DEF RecvPost, Increment, Goto, QueueInv, threads, locals, session, queue, others,
      client, inputs
<1>3. ASSUME NEW t \in Threads, WSARecv(t) PROVE QueueInv'
  BY <1>3, <1>a, <1>b, <1>c
  DEF WSARecv, Goto, QueueInv, threads, locals, session, queue, others, client, inputs
<1>4. ASSUME NEW t \in Threads, WSARecvFails(t) PROVE QueueInv'
  BY <1>4, <1>a, <1>b, <1>c
  DEF WSARecvFails, Decrement, Goto, CallFails, QueueInv, threads, locals, session, queue,
      others, client, inputs
<1>5. ASSUME NEW t \in Threads, ClaimIOMode(t) PROVE QueueInv'
  BY <1>5, <1>a, <1>b, <1>c
  DEF ClaimIOMode, Goto, QueueInv, threads, locals, session, queue, others, client, inputs
<1>6. ASSUME NEW t \in Threads, GetUseSize(t) PROVE QueueInv'
  <2>1. SendQ[chan[t]] \in 0 .. MaxPackets
    BY <1>6, <1>a DEF GetUseSize, Goto, ChanInv
  <2>2. Min({SendQ[chan[t]], SendMax}) =
            IF SendQ[chan[t]] <= SendMax THEN SendQ[chan[t]] ELSE SendMax
    BY <1>a, <2>1, MinOfTwo
  <2>3. SendQ[chan[t]] # 0 => Min({SendQ[chan[t]], SendMax}) \in 1 .. SendMax
    BY <1>a, <2>1, <2>2
  <2> HIDE <2>2
  <2> QED
    BY <1>6, <1>a, <2>3 DEF GetUseSize, Goto, QueueInv, session, queue, others, client, inputs
<1>7. ASSUME NEW t \in Threads, GiveIOModeBack(t) PROVE QueueInv'
  BY <1>7, <1>a, <1>b, <1>c
  DEF GiveIOModeBack, Goto, QueueInv, threads, locals, session, queue, others, client,
      inputs
<1>8. ASSUME NEW t \in Threads, Recheck(t) PROVE QueueInv'
  BY <1>8, <1>a, <1>b, <1>c
  DEF Recheck, Goto, QueueInv, threads, locals, session, queue, others, client, inputs
<1>9. ASSUME NEW t \in Threads, FillStore(t) PROVE QueueInv'
  <2>1. \A c \in Channels : (IF SendQ[c] < rest[t] THEN 0 ELSE SendQ[c] - rest[t]) <= SendQ[c]
    BY <1>a
  <2>2. \A c \in Channels : SendQ'[c] <= SendQ[c] /\ SendQ'[c] \in Int
    BY <1>9, <1>a, <2>1 DEF FillStore
  <2>3. \A c \in Channels : SendQ'[c] <= packets
    BY <1>a, <2>2 DEF QueueInv
  <2>4. \A u \in Threads : pc'[u] = "fill" => rest'[u] \in 1 .. SendMax
    BY <1>9, <1>a DEF FillStore, Goto, QueueInv
  <2> QED
    BY <1>9, <2>3, <2>4 DEF FillStore, QueueInv, history, client, inputs
<1>10. ASSUME NEW t \in Threads, CountSend(t) PROVE QueueInv'
  BY <1>10, <1>a, <1>b, <1>c
  DEF CountSend, Goto, Increment, Overlap, QueueInv, threads, locals, session, queue,
      others, client, inputs
<1>11. ASSUME NEW t \in Threads, WSASend(t) PROVE QueueInv'
  BY <1>11, <1>a, <1>b, <1>c
  DEF WSASend, Goto, QueueInv, threads, locals, session, queue, others, client, inputs
<1>12. ASSUME NEW t \in Threads, WSASendFails(t) PROVE QueueInv'
  BY <1>12, <1>a, <1>b, <1>c
  DEF WSASendFails, Decrement, Goto, CallFails, QueueInv, threads, locals, session, queue,
      others, client, inputs
<1>13. ASSUME NEW t \in Threads, WSASendCrashes(t) PROVE QueueInv'
  BY <1>13, <1>a, <1>b, <1>c
  DEF WSASendCrashes, QueueInv, threads, locals, session, queue, others, client, inputs
<1>14. ASSUME NEW t \in Threads, ReleaseSession(t) PROVE QueueInv'
  BY <1>14, <1>a, <1>b, <1>c
  DEF ReleaseSession, Goto, FreeStore, Overlap, QueueInv, threads, locals, session, queue,
      others, client, inputs
<1>15. ASSUME NEW t \in Threads, DrainSendQ(t) PROVE QueueInv'
  <2>1. \A c \in Channels : (IF SendQ[c] < rest[t] THEN 0 ELSE SendQ[c] - rest[t]) <= SendQ[c]
    BY <1>a
  <2>2. \A c \in Channels : SendQ'[c] <= SendQ[c] /\ SendQ'[c] \in Int
    BY <1>15, <1>a, <2>1 DEF DrainSendQ
  <2>3. \A c \in Channels : SendQ'[c] <= packets
    BY <1>a, <2>2 DEF QueueInv
  <2>4. \A u \in Threads : pc'[u] = "fill" => rest'[u] \in 1 .. SendMax
    BY <1>15, <1>a DEF DrainSendQ, Goto, QueueInv
  <2> QED
    BY <1>15, <2>3, <2>4 DEF DrainSendQ, QueueInv, history, client, inputs
<1>16. ASSUME NEW t \in Threads, CloseSocket(t) PROVE QueueInv'
  BY <1>16, <1>a, <1>b, <1>c
  DEF CloseSocket, Goto, QueueInv, threads, locals, session, queue, others, client, inputs
<1>17. ASSUME NEW t \in Threads, InvalidateSocket(t) PROVE QueueInv'
  BY <1>17, <1>a, <1>b, <1>c
  DEF InvalidateSocket, Goto, QueueInv, threads, locals, session, queue, others, client,
      inputs
<1>18. ASSUME NEW t \in Threads, AppendToList(t) PROVE QueueInv'
  BY <1>18, <1>a, <1>b, <1>c
  DEF AppendToList, Goto, QueueInv, threads, locals, session, queue, others, client,
      inputs
<1>19. ASSUME NEW t \in Threads, AppendToListRaces(t) PROVE QueueInv'
  BY <1>19, <1>a, <1>b, <1>c
  DEF AppendToListRaces, Goto, QueueInv, threads, locals, session, queue, others, client,
      inputs
<1>20. ASSUME NEW t \in Workers, RecvZero(t) PROVE QueueInv'
  BY <1>20, <1>a, <1>b, <1>c
  DEF RecvZero, Dequeued, QueueInv, threads, locals, session, queue, others, client,
      inputs
<1>21. ASSUME NEW t \in Workers, RecvData(t) PROVE QueueInv'
  BY <1>21, <1>a, <1>b, <1>c
  DEF RecvData, Dequeued, QueueInv, threads, locals, session, queue, others, client,
      inputs
<1>22. ASSUME NEW t \in Workers, SendDone(t) PROVE QueueInv'
  BY <1>22, <1>a, <1>b, <1>c
  DEF SendDone, Dequeued, FreeStore, QueueInv, threads, locals, session, queue, others,
      client, inputs
<1>23. ASSUME NEW t \in Workers, SendNext(t) PROVE QueueInv'
  BY <1>23, <1>a, <1>b, <1>c
  DEF SendNext, Goto, QueueInv, threads, locals, session, queue, others, client, inputs
<1>24. ASSUME NEW t \in Workers, IODone(t) PROVE QueueInv'
  BY <1>24, <1>a, <1>b, <1>c
  DEF IODone, Decrement, Goto, QueueInv, threads, locals, session, queue, others, client,
      inputs
<1>25. ASSUME NEW t \in Workers, WorkerStops(t) PROVE QueueInv'
  BY <1>25, <1>a, <1>b, <1>c
  DEF WorkerStops, QueueInv, threads, locals, session, queue, others, client, inputs
<1>26. ASSUME NEW t \in Workers, OverlappedNull(t) PROVE QueueInv'
  BY <1>26, <1>a, <1>b, <1>c
  DEF OverlappedNull, Dequeued, QueueInv, threads, locals, session, queue, others, client,
      inputs
<1>27. CASE PeekList
  BY <1>27, <1>a, <1>b, <1>c
  DEF PeekList, Goto, QueueInv, threads, locals, session, queue, others, client, inputs
<1>28. CASE SeeStopClient
  BY <1>28, <1>a, <1>b, <1>c
  DEF SeeStopClient, ReconnecterEnds, QueueInv, threads, locals, session, queue, others,
      client, inputs
<1>29. CASE NewSocket
  BY <1>29, <1>a, <1>b, <1>c
  DEF NewSocket, Goto, MakeSocket, QueueInv, threads, locals, session, queue, others,
      client, inputs
<1>30. CASE NewSocketFails
  BY <1>30, <1>a, <1>b, <1>c
  DEF NewSocketFails, ReconnecterEnds, QueueInv, threads, locals, session, queue, others,
      client, inputs
<1>31. CASE Connect
  BY <1>31, <1>a, <1>b, <1>c
  DEF Connect, Goto, QueueInv, threads, locals, session, queue, others, client, inputs
<1>32. CASE SetsockoptFails
  BY <1>32, <1>a, <1>b, <1>c
  DEF SetsockoptFails, CallFails, ReconnecterEnds, QueueInv, threads, locals, session,
      queue, others, client, inputs
<1>33. CASE BindToIOCP
  BY <1>33, <1>a, <1>b, <1>c
  DEF BindToIOCP, Goto, QueueInv, threads, locals, session, queue, others, client, inputs
<1>34. CASE PopList
  BY <1>34, <1>a, <1>b, <1>c
  DEF PopList, Goto, QueueInv, threads, locals, session, queue, others, client, inputs
<1>35. CASE StartChannel
  BY <1>35, <1>a, <1>b, <1>c
  DEF StartChannel, Goto, MakeSocket, QueueInv, threads, locals, session, queue, others,
      client, inputs
<1>36. CASE StartFails
  BY <1>36, <1>a, <1>b, <1>c
  DEF StartFails, QueueInv, threads, locals, session, queue, others, client, inputs
<1>37. CASE NextChannel
  BY <1>37, <1>a, <1>b, <1>c
  DEF NextChannel, Goto, QueueInv, threads, locals, session, queue, others, client, inputs
<1>38. CASE ShutdownChannel
  BY <1>38, <1>a, <1>b, <1>c
  DEF ShutdownChannel, QueueInv, threads, locals, session, queue, others, client, inputs
<1>39. CASE PostStop
  BY <1>39, <1>a, <1>b, <1>c
  DEF PostStop, Goto, QueueInv, threads, locals, session, queue, others, client, inputs
<1>40. CASE JoinWorkers
  BY <1>40, <1>a, <1>b, <1>c
  DEF JoinWorkers, QueueInv, threads, locals, session, queue, others, client, inputs
<1>41. CASE Stop
  BY <1>41, <1>a, <1>b, <1>c
  DEF Stop, Goto, QueueInv, threads, locals, session, queue, others, client, inputs
<1>42. ASSUME NEW t \in Callers, SendPacket(t) PROVE QueueInv'
  <2>1. \A c \in Channels : SendQ'[c] <= packets'
    BY <1>42, <1>a DEF SendPacket, SendPacketImpl, QueueInv
  <2>2. \A u \in Threads : pc'[u] = "fill" => rest'[u] \in 1 .. SendMax
    BY <1>42, <1>a, <1>b DEF SendPacket, SendPacketImpl, QueueInv
  <2> QED
    BY <2>1, <2>2 DEF QueueInv
<1>43. ASSUME NEW t \in Callers, SendPacketFixed(t) PROVE QueueInv'
  <2>1. \A c \in Channels : SendQ'[c] <= packets'
    BY <1>43, <1>a DEF SendPacketFixed, SendPacketImpl, QueueInv
  <2>2. \A u \in Threads : pc'[u] = "fill" => rest'[u] \in 1 .. SendMax
    BY <1>43, <1>a, <1>b DEF SendPacketFixed, SendPacketImpl, QueueInv
  <2> QED
    BY <2>1, <2>2 DEF QueueInv
<1>44. ASSUME NEW c \in Channels, SendCompletes(c) PROVE QueueInv'
  BY <1>44, <1>a, <1>b, <1>c
  DEF SendCompletes, Completed, QueueInv, threads, locals, session, queue, others, client,
      inputs
<1>45. ASSUME NEW c \in Channels, NEW s \in Sockets, RecvAborts(c, s) PROVE QueueInv'
  BY <1>45, <1>a, <1>b, <1>c
  DEF RecvAborts, Completed, QueueInv, threads, locals, session, queue, others, client,
      inputs
<1>46. ASSUME NEW c \in Channels, NEW s \in Sockets, RecvCompletes(c, s) PROVE QueueInv'
  BY <1>46, <1>a, <1>b, <1>c
  DEF RecvCompletes, Completed, QueueInv, threads, locals, session, queue, others, client,
      inputs
<1>47. ASSUME NEW s \in Sockets, ServerDisconnects(s) PROVE QueueInv'
  BY <1>47, <1>a, <1>b, <1>c
  DEF ServerDisconnects, QueueInv, threads, locals, session, queue, others, client, inputs
<1>48. CASE UNCHANGED vars
  BY <1>48, <1>a, <1>b, <1>c
  DEF vars, QueueInv, threads, locals, session, queue, others, client, inputs
<1> QED
  BY <1>1, <1>2, <1>3, <1>4, <1>5, <1>6, <1>7, <1>8, <1>9, <1>10, <1>11, <1>12, <1>13,
     <1>14, <1>15, <1>16, <1>17, <1>18, <1>19, <1>20, <1>21, <1>22, <1>23, <1>24, <1>25,
     <1>26, <1>27, <1>28, <1>29, <1>30, <1>31, <1>32, <1>33, <1>34, <1>35, <1>36, <1>37,
     <1>38, <1>39, <1>40, <1>41, <1>42, <1>43, <1>44, <1>45, <1>46, <1>47, <1>48
  DEF Next, Thread, Post, SendPost, Release, Worker, Reconnect, StartAndStop, Kernel,
      Network, Over

LEMMA ListStep ==
    ASSUME TypeOK, ChanInv, ListInv, [Next]_vars
    PROVE ListInv'
<1>a. pc \in [Threads -> Pcs] /\ Reconnecter \in Threads
  BY DEF TypeOK, Threads
<1>b. Reconnecter \notin Workers /\ Reconnecter \notin Callers /\ Reconnecter # Main
  BY LanClientAssumption
<1>c. \A t \in Threads : pc[t] = "append" => Append(reconnectIdList, chan[t]) # <<>>
  <2> SUFFICES ASSUME NEW t \in Threads, pc[t] = "append"
               PROVE Append(reconnectIdList, chan[t]) # <<>>
    OBVIOUS
  <2>1. chan[t] \in Channels /\ reconnectIdList \in Seq(Channels)
    BY DEF TypeOK, ChanInv
  <2> QED
    BY <2>1, AppendProperties
<1>1. ASSUME NEW t \in Threads, RecvPostFull(t) PROVE ListInv'
  BY <1>1, <1>a, <1>b DEF RecvPostFull, Decrement, Goto, ListInv, threads, others, client
<1>2. ASSUME NEW t \in Threads, RecvPost(t) PROVE ListInv'
  BY <1>2, <1>a, <1>b DEF RecvPost, Increment, Goto, ListInv, threads, others, client
<1>3. ASSUME NEW t \in Threads, WSARecv(t) PROVE ListInv'
  BY <1>3, <1>a, <1>b DEF WSARecv, Goto, ListInv, threads, others, client
<1>4. ASSUME NEW t \in Threads, WSARecvFails(t) PROVE ListInv'
  BY <1>4, <1>a, <1>b
  DEF WSARecvFails, Decrement, Goto, CallFails, ListInv, threads, others, client
<1>5. ASSUME NEW t \in Threads, ClaimIOMode(t) PROVE ListInv'
  BY <1>5, <1>a, <1>b DEF ClaimIOMode, Goto, ListInv, threads, others, client
<1>6. ASSUME NEW t \in Threads, GetUseSize(t) PROVE ListInv'
  BY <1>6, <1>a, <1>b DEF GetUseSize, Goto, ListInv, threads, others, client
<1>7. ASSUME NEW t \in Threads, GiveIOModeBack(t) PROVE ListInv'
  BY <1>7, <1>a, <1>b DEF GiveIOModeBack, Goto, ListInv, threads, others, client
<1>8. ASSUME NEW t \in Threads, Recheck(t) PROVE ListInv'
  BY <1>8, <1>a, <1>b DEF Recheck, Goto, ListInv, threads, others, client
<1>9. ASSUME NEW t \in Threads, FillStore(t) PROVE ListInv'
  BY <1>9, <1>a, <1>b DEF FillStore, Goto, Overlap, ListInv, threads, others, client
<1>10. ASSUME NEW t \in Threads, CountSend(t) PROVE ListInv'
  BY <1>10, <1>a, <1>b
  DEF CountSend, Goto, Increment, Overlap, ListInv, threads, others, client
<1>11. ASSUME NEW t \in Threads, WSASend(t) PROVE ListInv'
  BY <1>11, <1>a, <1>b DEF WSASend, Goto, ListInv, threads, others, client
<1>12. ASSUME NEW t \in Threads, WSASendFails(t) PROVE ListInv'
  BY <1>12, <1>a, <1>b
  DEF WSASendFails, Decrement, Goto, CallFails, ListInv, threads, others, client
<1>13. ASSUME NEW t \in Threads, WSASendCrashes(t) PROVE ListInv'
  BY <1>13, <1>a, <1>b DEF WSASendCrashes, ListInv, threads, others, client
<1>14. ASSUME NEW t \in Threads, ReleaseSession(t) PROVE ListInv'
  BY <1>14, <1>a, <1>b
  DEF ReleaseSession, Goto, FreeStore, Overlap, ListInv, threads, others, client
<1>15. ASSUME NEW t \in Threads, DrainSendQ(t) PROVE ListInv'
  BY <1>15, <1>a, <1>b DEF DrainSendQ, Goto, ListInv, threads, others, client
<1>16. ASSUME NEW t \in Threads, CloseSocket(t) PROVE ListInv'
  BY <1>16, <1>a, <1>b DEF CloseSocket, Goto, ListInv, threads, others, client
<1>17. ASSUME NEW t \in Threads, InvalidateSocket(t) PROVE ListInv'
  BY <1>17, <1>a, <1>b DEF InvalidateSocket, Goto, ListInv, threads, others, client
<1>18. ASSUME NEW t \in Threads, AppendToList(t) PROVE ListInv'
  BY <1>18, <1>a, <1>b, <1>c DEF AppendToList, Goto, ListInv, threads, others, client
<1>19. ASSUME NEW t \in Threads, AppendToListRaces(t) PROVE ListInv'
  BY <1>19, <1>a, <1>b DEF AppendToListRaces, Goto, ListInv, threads, others, client
<1>20. ASSUME NEW t \in Workers, RecvZero(t) PROVE ListInv'
  BY <1>20, <1>a, <1>b DEF RecvZero, Dequeued, ListInv, threads, others, client
<1>21. ASSUME NEW t \in Workers, RecvData(t) PROVE ListInv'
  BY <1>21, <1>a, <1>b DEF RecvData, Dequeued, ListInv, threads, others, client
<1>22. ASSUME NEW t \in Workers, SendDone(t) PROVE ListInv'
  BY <1>22, <1>a, <1>b DEF SendDone, Dequeued, FreeStore, ListInv, threads, others, client
<1>23. ASSUME NEW t \in Workers, SendNext(t) PROVE ListInv'
  BY <1>23, <1>a, <1>b DEF SendNext, Goto, ListInv, threads, others, client
<1>24. ASSUME NEW t \in Workers, IODone(t) PROVE ListInv'
  BY <1>24, <1>a, <1>b DEF IODone, Decrement, Goto, ListInv, threads, others, client
<1>25. ASSUME NEW t \in Workers, WorkerStops(t) PROVE ListInv'
  BY <1>25, <1>a, <1>b DEF WorkerStops, ListInv, threads, others, client
<1>26. ASSUME NEW t \in Workers, OverlappedNull(t) PROVE ListInv'
  BY <1>26, <1>a, <1>b DEF OverlappedNull, Dequeued, ListInv, threads, others, client
<1>27. CASE PeekList
  BY <1>27, <1>a, <1>b DEF PeekList, Goto, ListInv, threads, others, client
<1>28. CASE SeeStopClient
  BY <1>28, <1>a, <1>b DEF SeeStopClient, ReconnecterEnds, ListInv, threads, others, client
<1>29. CASE NewSocket
  BY <1>29, <1>a, <1>b DEF NewSocket, Goto, MakeSocket, ListInv, threads, others, client
<1>30. CASE NewSocketFails
  BY <1>30, <1>a, <1>b DEF NewSocketFails, ReconnecterEnds, ListInv, threads, others, client
<1>31. CASE Connect
  BY <1>31, <1>a, <1>b DEF Connect, Goto, ListInv, threads, others, client
<1>32. CASE SetsockoptFails
  BY <1>32, <1>a, <1>b
  DEF SetsockoptFails, CallFails, ReconnecterEnds, ListInv, threads, others, client
<1>33. CASE BindToIOCP
  BY <1>33, <1>a, <1>b DEF BindToIOCP, Goto, ListInv, threads, others, client
<1>34. CASE PopList
  BY <1>34, <1>a, <1>b DEF PopList, Goto, ListInv, threads, others, client
<1>35. CASE StartChannel
  BY <1>35, <1>a, <1>b DEF StartChannel, Goto, MakeSocket, ListInv, threads, others, client
<1>36. CASE StartFails
  BY <1>36, <1>a, <1>b DEF StartFails, ListInv, threads, others, client
<1>37. CASE NextChannel
  BY <1>37, <1>a, <1>b DEF NextChannel, Goto, ListInv, threads, others, client
<1>38. CASE ShutdownChannel
  BY <1>38, <1>a, <1>b DEF ShutdownChannel, ListInv, threads, others, client
<1>39. CASE PostStop
  BY <1>39, <1>a, <1>b DEF PostStop, Goto, ListInv, threads, others, client
<1>40. CASE JoinWorkers
  BY <1>40, <1>a, <1>b DEF JoinWorkers, ListInv, threads, others, client
<1>41. CASE Stop
  BY <1>41, <1>a, <1>b DEF Stop, Goto, ListInv, threads, others, client
<1>42. ASSUME NEW t \in Callers, SendPacket(t) PROVE ListInv'
  BY <1>42, <1>a, <1>b DEF SendPacket, SendPacketImpl, ListInv, threads, others, client
<1>43. ASSUME NEW t \in Callers, SendPacketFixed(t) PROVE ListInv'
  BY <1>43, <1>a, <1>b DEF SendPacketFixed, SendPacketImpl, ListInv, threads, others, client
<1>44. ASSUME NEW c \in Channels, SendCompletes(c) PROVE ListInv'
  BY <1>44, <1>a, <1>b DEF SendCompletes, Completed, ListInv, threads, others, client
<1>45. ASSUME NEW c \in Channels, NEW s \in Sockets, RecvAborts(c, s) PROVE ListInv'
  BY <1>45, <1>a, <1>b DEF RecvAborts, Completed, ListInv, threads, others, client
<1>46. ASSUME NEW c \in Channels, NEW s \in Sockets, RecvCompletes(c, s) PROVE ListInv'
  BY <1>46, <1>a, <1>b DEF RecvCompletes, Completed, ListInv, threads, others, client
<1>47. ASSUME NEW s \in Sockets, ServerDisconnects(s) PROVE ListInv'
  BY <1>47, <1>a, <1>b DEF ServerDisconnects, ListInv, threads, others, client
<1>48. CASE UNCHANGED vars
  BY <1>48, <1>a, <1>b DEF vars, ListInv, threads, others, client
<1> QED
  BY <1>1, <1>2, <1>3, <1>4, <1>5, <1>6, <1>7, <1>8, <1>9, <1>10, <1>11, <1>12, <1>13,
     <1>14, <1>15, <1>16, <1>17, <1>18, <1>19, <1>20, <1>21, <1>22, <1>23, <1>24, <1>25,
     <1>26, <1>27, <1>28, <1>29, <1>30, <1>31, <1>32, <1>33, <1>34, <1>35, <1>36, <1>37,
     <1>38, <1>39, <1>40, <1>41, <1>42, <1>43, <1>44, <1>45, <1>46, <1>47, <1>48
  DEF Next, Thread, Post, SendPost, Release, Worker, Reconnect, StartAndStop, Kernel,
      Network, Over

-----------------------------------------------------------------------------
(* Who owns the store and the OVERLAPPED of a channel: a thread of SendPost, *)
(* the kernel, or the completion packet, until the worker that took it has   *)
(* given IOMode back.                                                        *)

Owning == {"size", "unmark", "fill", "count", "wsasend", "sent"}
Owns(t, c) == chan[t] = c /\ pc[t] \in Owning
HasOwner(c) == \E t \in Threads : Owns(t, c)

Sent(i, c) == iocp[i] = [io |-> "send", chan |-> c]
HasSent(c) == \E i \in DOMAIN iocp : Sent(i, c)
OneSent(c) == \A i, j \in DOMAIN iocp : Sent(i, c) /\ Sent(j, c) => i = j

OwnerInv(c) ==
    /\ OneSent(c)
    /\ \A t, u \in Threads : Owns(t, c) /\ Owns(u, c) => t = u
    /\ HasOwner(c) => sends[c] = INVALID_SOCKET /\ ~HasSent(c)
    /\ sends[c] # INVALID_SOCKET => ~HasSent(c)
    /\ IOMode[c] = "NONSENDING" => sends[c] = INVALID_SOCKET /\ ~HasOwner(c) /\ ~HasSent(c)
    /\ IOMode[c] = "SENDING" /\ lBufferCount[c] = 0 =>
           HasOwner(c) \/ sends[c] # INVALID_SOCKET \/ HasSent(c)
    /\ \A t \in Threads : chan[t] = c /\ pc[t] \in {"count", "wsasend"} => lBufferCount[c] > 0
    /\ sends[c] # INVALID_SOCKET => lBufferCount[c] > 0

StoreInv == \A c \in Channels : OwnerInv(c)

(* A step in which nobody becomes an owner and nobody ceases to be one.      *)
OwnersStay(c) ==
    \A u \in Threads : \/ pc'[u] = pc[u] /\ chan'[u] = chan[u]
                       \/ ~Owns(u, c) /\ ~Owns(u, c)'

(* What the port holds of a channel's sends after one more packet ...        *)
LEMMA PortAppend ==
    ASSUME iocp \in Seq(Entries), NEW x \in Entries, iocp' = Append(iocp, x), NEW c,
           OneSent(c)
    PROVE /\ x # [io |-> "send", chan |-> c] => OneSent(c)' /\ (HasSent(c)' <=> HasSent(c))
          /\ x = [io |-> "send", chan |-> c] /\ ~HasSent(c) => OneSent(c)'
<1>1. /\ DOMAIN iocp = 1 .. Len(iocp) /\ Len(iocp) \in Nat
      /\ DOMAIN iocp' = 1 .. Len(iocp) + 1
      /\ \A i \in 1 .. Len(iocp) : iocp'[i] = iocp[i]
      /\ iocp'[Len(iocp) + 1] = x
  <2>1. iocp' \in Seq(Entries) /\ Len(iocp') = Len(iocp) + 1
    BY AppendProperties
  <2> QED
    BY <2>1, AppendProperties, LenProperties
<1>2. \A i \in DOMAIN iocp' : i \in DOMAIN iocp \/ i = Len(iocp) + 1
  BY <1>1
<1>3. DOMAIN iocp \subseteq DOMAIN iocp'
  BY <1>1
<1> QED
  BY <1>1, <1>2, <1>3 DEF OneSent, HasSent, Sent

(* ... and after one less.                                                   *)
LEMMA PortTail ==
    ASSUME iocp \in Seq(Entries), iocp # <<>>, iocp' = Tail(iocp), NEW c, OneSent(c)
    PROVE /\ OneSent(c)'
          /\ Head(iocp) # [io |-> "send", chan |-> c] => (HasSent(c)' <=> HasSent(c))
          /\ Head(iocp) = [io |-> "send", chan |-> c] => HasSent(c) /\ ~HasSent(c)'
<1>1. /\ DOMAIN iocp = 1 .. Len(iocp) /\ Len(iocp) \in Nat \ {0}
      /\ DOMAIN iocp' = 1 .. Len(iocp) - 1
      /\ \A i \in 1 .. Len(iocp) - 1 : iocp'[i] = iocp[i + 1]
      /\ Head(iocp) = iocp[1]
  <2>1. iocp' \in Seq(Entries) /\ Len(iocp') = Len(iocp) - 1
    BY HeadTailProperties
  <2> QED
    BY <2>1, HeadTailProperties, LenProperties, EmptySeq
<1>2. \A i \in DOMAIN iocp' : i + 1 \in DOMAIN iocp /\ i + 1 # 1 /\ (Sent(i, c)' <=> Sent(i + 1, c))
  BY <1>1 DEF Sent
<1>3. \A i \in DOMAIN iocp : i = 1 \/ (i - 1 \in DOMAIN iocp' /\ (i - 1) + 1 = i)
  BY <1>1
<1>4. 1 \in DOMAIN iocp /\ (Sent(1, c) <=> Head(iocp) = [io |-> "send", chan |-> c])
  BY <1>1 DEF Sent
<1>5. OneSent(c)'
  <2> SUFFICES ASSUME NEW i \in DOMAIN iocp', NEW j \in DOMAIN iocp', Sent(i, c)', Sent(j, c)'
               PROVE i = j
    BY DEF OneSent
  <2>1. i + 1 = j + 1
    BY <1>2 DEF OneSent
  <2> QED
    BY <1>1, <2>1
<1>6. ASSUME ~Sent(1, c) PROVE HasSent(c)' <=> HasSent(c)
  <2>1. ASSUME HasSent(c)' PROVE HasSent(c)
    BY <1>2, <2>1 DEF HasSent
  <2>2. ASSUME HasSent(c) PROVE HasSent(c)'
    <3>1. PICK i \in DOMAIN iocp : Sent(i, c)
      BY <2>2 DEF HasSent
    <3>2. i - 1 \in DOMAIN iocp' /\ (i - 1) + 1 = i
      BY <1>3, <1>6, <3>1
    <3>3. Sent(i - 1, c)'
      BY <1>2, <3>1, <3>2
    <3> QED
      BY <3>2, <3>3 DEF HasSent
  <2> QED
    BY <2>1, <2>2
<1>7. ASSUME Sent(1, c) PROVE HasSent(c) /\ ~HasSent(c)'
  <2>1. HasSent(c)
    BY <1>4, <1>7 DEF HasSent
  <2>2. ASSUME NEW i \in DOMAIN iocp', Sent(i, c)' PROVE FALSE
    BY <1>2, <1>4, <1>7, <2>2 DEF OneSent
  <2> QED
    BY <2>1, <2>2 DEF HasSent
<1> QED
  BY <1>4, <1>5, <1>6, <1>7

(* A packet taken from the front and one put at the end, none of them a send.*)
LEMMA PortMoves ==
    ASSUME iocp \in Seq(Entries), iocp # <<>>, NEW x \in Entries, NEW c, OneSent(c),
           iocp' = Append(Tail(iocp), x), x # [io |-> "send", chan |-> c],
           Head(iocp) # [io |-> "send", chan |-> c]
    PROVE OneSent(c)' /\ (HasSent(c)' <=> HasSent(c))
<1>1. /\ DOMAIN iocp = 1 .. Len(iocp) /\ Len(iocp) \in Nat \ {0} /\ Head(iocp) = iocp[1]
      /\ Tail(iocp) \in Seq(Entries) /\ Len(Tail(iocp)) = Len(iocp) - 1
      /\ \A i \in 1 .. Len(iocp) - 1 : Tail(iocp)[i] = iocp[i + 1]
  BY HeadTailProperties, LenProperties, EmptySeq
<1>2. /\ DOMAIN iocp' = 1 .. Len(iocp)
      /\ \A i \in 1 .. Len(iocp) - 1 : iocp'[i] = iocp[i + 1]
      /\ iocp'[Len(iocp)] = x
  <2>1. /\ iocp' \in Seq(Entries) /\ Len(iocp') = Len(Tail(iocp)) + 1
        /\ \A i \in 1 .. Len(Tail(iocp)) : iocp'[i] = Tail(iocp)[i]
        /\ iocp'[Len(Tail(iocp)) + 1] = x
    BY <1>1, AppendProperties
  <2>2. Len(Tail(iocp)) + 1 = Len(iocp)
    BY <1>1
  <2> QED
    BY <1>1, <2>1, <2>2, LenProperties
<1>3. \A i \in DOMAIN iocp' : Sent(i, c)' => i + 1 \in DOMAIN iocp /\ Sent(i + 1, c)
  BY <1>1, <1>2 DEF Sent
<1>4. \A i \in DOMAIN iocp : Sent(i, c) => i - 1 \in DOMAIN iocp' /\ Sent(i - 1, c)'
  BY <1>1, <1>2 DEF Sent
<1>5. OneSent(c)'
  <2> SUFFICES ASSUME NEW i \in DOMAIN iocp', NEW j \in DOMAIN iocp', Sent(i, c)', Sent(j, c)'
               PROVE i = j
    BY DEF OneSent
  <2>1. i + 1 = j + 1
    BY <1>3 DEF OneSent
  <2> QED
    BY <1>2, <2>1
<1> QED
  BY <1>3, <1>4, <1>5 DEF HasSent

LEMMA StoreStep ==
    ASSUME TypeOK, ChanInv, QueueInv, StoreInv, [Next]_vars
    PROVE StoreInv'
<1> SUFFICES ASSUME NEW k \in Channels PROVE OwnerInv(k)'
  BY DEF StoreInv
<1>a. /\ pc \in [Threads -> Pcs] /\ chan \in [Threads -> 0 .. NumOfSession]
      /\ IOMode \in [Channels -> {"NONSENDING", "SENDING"}]
      /\ lBufferCount \in [Channels -> 0 .. SendMax]
      /\ sends \in [Channels -> Sockets \cup {INVALID_SOCKET}] /\ iocp \in Seq(Entries)
  BY DEF TypeOK
<1>b. /\ Workers \subseteq Threads /\ Callers \subseteq Threads
      /\ Main \in Threads /\ Reconnecter \in Threads
  BY DEF Threads
<1>c. \A t : Return(t) \notin Owning /\ Deleted(t) \notin Owning
  BY PcsHas DEF Owning
<1>d. OwnerInv(k)
  BY DEF StoreInv
<1>m. ASSUME OwnersStay(k), HasSent(k)' <=> HasSent(k), OneSent(k)',
             sends'[k] = sends[k], IOMode'[k] = IOMode[k], lBufferCount'[k] = lBufferCount[k]
      PROVE OwnerInv(k)'
  <2>1. \A u \in Threads : Owns(u, k)' <=> Owns(u, k)
    BY <1>m DEF Owns, OwnersStay
  <2>2. HasOwner(k)' <=> HasOwner(k)
    BY <2>1 DEF HasOwner
  <2>3. \A u \in Threads : chan'[u] = k /\ pc'[u] \in {"count", "wsasend"} =>
            chan[u] = k /\ pc[u] \in {"count", "wsasend"}
    BY <1>m DEF Owning, Owns, OwnersStay
  <2> QED
    BY <1>d, <1>m, <2>1, <2>2, <2>3 DEF OwnerInv
<1>n. ASSUME OwnersStay(k), iocp' = iocp,
             sends'[k] = sends[k], IOMode'[k] = IOMode[k], lBufferCount'[k] = lBufferCount[k]
      PROVE OwnerInv(k)'
  <2>1. (HasSent(k)' <=> HasSent(k)) /\ OneSent(k)'
    BY <1>d, <1>n DEF HasSent, OneSent, Sent, OwnerInv
  <2> QED
    BY <1>m, <1>n, <2>1
<1>o. ASSUME NEW t \in Threads, Owns(t, k)
      PROVE /\ \A u \in Threads : Owns(u, k) => u = t
            /\ sends[k] = INVALID_SOCKET /\ ~HasSent(k) /\ IOMode[k] = "SENDING"
  <2>1. HasOwner(k)
    BY <1>o DEF HasOwner
  <2> QED
    BY <1>a, <1>d, <1>o, <2>1 DEF OwnerInv
<1>p. ASSUME NEW t \in Threads, Owns(t, k)', \A u \in Threads : Owns(u, k)' => u = t,
             sends'[k] = INVALID_SOCKET, ~HasSent(k)', IOMode'[k] = "SENDING",
             pc'[t] \in {"count", "wsasend"} => lBufferCount'[k] > 0
      PROVE OwnerInv(k)'
  <2>1. OneSent(k)' /\ HasOwner(k)'
    BY <1>p DEF OneSent, HasSent, HasOwner
  <2>2. \A u \in Threads : chan'[u] = k /\ pc'[u] \in {"count", "wsasend"} => Owns(u, k)'
    BY DEF Owns, Owning
  <2> QED
    BY <1>p, <2>1, <2>2 DEF OwnerInv
<1>q. ASSUME \A u \in Threads : ~Owns(u, k)',
             sends'[k] = INVALID_SOCKET \/ (~HasSent(k)' /\ lBufferCount'[k] > 0), OneSent(k)',
             \/ IOMode'[k] = "NONSENDING" /\ sends'[k] = INVALID_SOCKET /\ ~HasSent(k)'
             \/ IOMode'[k] = "SENDING" /\ (lBufferCount'[k] # 0 \/ HasSent(k)')
      PROVE OwnerInv(k)'
  <2>1. ~HasOwner(k)'
    BY <1>q DEF HasOwner
  <2>2. \A u \in Threads : chan'[u] = k /\ pc'[u] \in {"count", "wsasend"} => Owns(u, k)'
    BY DEF Owns, Owning
  <2> QED
    BY <1>q, <2>1, <2>2 DEF OwnerInv
<1>r. iocp' = iocp => (HasSent(k)' <=> HasSent(k)) /\ OneSent(k)'
  BY <1>d DEF HasSent, OneSent, Sent, OwnerInv
<1>1. ASSUME NEW t \in Threads, RecvPostFull(t) PROVE OwnerInv(k)'
  <2>1. OwnersStay(k)
    BY <1>1, <1>a, <1>b, <1>c
    DEF RecvPostFull, Decrement, Goto, OwnersStay, Owns, Owning, threads, locals
  <2>2. iocp' = iocp
        /\ sends'[k] = sends[k] /\ IOMode'[k] = IOMode[k] /\ lBufferCount'[k] = lBufferCount[k]
    BY <1>1 DEF RecvPostFull, Decrement, Goto, session, queue, others, kernel, requests
  <2> QED
    BY <1>n, <2>1, <2>2
<1>2. ASSUME NEW t \in Threads, RecvPost(t) PROVE OwnerInv(k)'
  <2>1. OwnersStay(k)
    BY <1>2, <1>a, <1>b, <1>c DEF RecvPost, Goto, OwnersStay, Owns, Owning, threads, locals
  <2>2. iocp' = iocp
        /\ sends'[k] = sends[k] /\ IOMode'[k] = IOMode[k] /\ lBufferCount'[k] = lBufferCount[k]
    BY <1>2 DEF RecvPost, Goto, session, queue, others, kernel, requests
  <2> QED
    BY <1>n, <2>1, <2>2
<1>3. ASSUME NEW t \in Threads, WSARecv(t) PROVE OwnerInv(k)'
  <2>1. OwnersStay(k)
    BY <1>3, <1>a, <1>b, <1>c DEF WSARecv, Goto, OwnersStay, Owns, Owning, threads, locals
  <2>2. iocp' = iocp
        /\ sends'[k] = sends[k] /\ IOMode'[k] = IOMode[k] /\ lBufferCount'[k] = lBufferCount[k]
    BY <1>3 DEF WSARecv, Goto, session, queue, others, kernel, requests
  <2> QED
    BY <1>n, <2>1, <2>2
<1>4. ASSUME NEW t \in Threads, WSARecvFails(t) PROVE OwnerInv(k)'
  <2>1. OwnersStay(k)
    BY <1>4, <1>a, <1>b, <1>c
    DEF WSARecvFails, Decrement, Goto, OwnersStay, Owns, Owning, threads, locals
  <2>2. iocp' = iocp
        /\ sends'[k] = sends[k] /\ IOMode'[k] = IOMode[k] /\ lBufferCount'[k] = lBufferCount[k]
    BY <1>4 DEF WSARecvFails, Decrement, Goto, session, queue, others, kernel, requests
  <2> QED
    BY <1>n, <2>1, <2>2
<1>5. ASSUME NEW t \in Threads, ClaimIOMode(t) PROVE OwnerInv(k)'
  <2>1. CASE chan[t] # k
    <3>1. OwnersStay(k)
      BY <1>5, <1>a, <1>b, <1>c, <2>1
      DEF ClaimIOMode, Goto, OwnersStay, Owns, Owning, threads, locals
    <3>2. iocp' = iocp
          /\ sends'[k] = sends[k] /\ IOMode'[k] = IOMode[k] /\ lBufferCount'[k] = lBufferCount[k]
      BY <1>5, <2>1, <1>a DEF ClaimIOMode, Goto, session, queue, others, kernel, requests
    <3> QED
      BY <1>n, <3>1, <3>2
  <2>2. CASE chan[t] = k /\ IOMode[k] = "SENDING"
    <3>1. OwnersStay(k)
      BY <1>5, <1>a, <1>b, <1>c, <2>2
      DEF ClaimIOMode, Goto, OwnersStay, Owns, Owning, threads, locals
    <3>2. iocp' = iocp
          /\ sends'[k] = sends[k] /\ IOMode'[k] = IOMode[k] /\ lBufferCount'[k] = lBufferCount[k]
      BY <1>5, <2>2, <1>a DEF ClaimIOMode, Goto, session, queue, others, kernel, requests
    <3> QED
      BY <1>n, <3>1, <3>2
  <2>3. CASE chan[t] = k /\ IOMode[k] # "SENDING"
    <3>1. IOMode[k] = "NONSENDING"
      BY <1>a, <2>3
    <3>2. ~HasOwner(k) /\ sends[k] = INVALID_SOCKET /\ ~HasSent(k)
      BY <1>d, <3>1 DEF OwnerInv
    <3>3. Owns(t, k)' /\ pc'[t] = "size"
      BY <1>5, <1>a, <2>3 DEF ClaimIOMode, Goto, Owns, Owning, locals
    <3>4. \A u \in Threads : u # t => (Owns(u, k)' <=> Owns(u, k))
      BY <1>5, <1>a DEF ClaimIOMode, Goto, Owns, locals
    <3>5. \A u \in Threads : Owns(u, k)' => u = t
      BY <3>2, <3>4 DEF HasOwner
    <3>6. iocp' = iocp /\ sends'[k] = sends[k] /\ IOMode'[k] = "SENDING"
      BY <1>5, <1>a, <2>3 DEF ClaimIOMode, others, kernel, requests
    <3> QED
      BY <1>p, <1>r, <3>2, <3>3, <3>5, <3>6
  <2> QED
    BY <2>1, <2>2, <2>3
<1>6. ASSUME NEW t \in Threads, GetUseSize(t) PROVE OwnerInv(k)'
  <2>1. CASE chan[t] # k
    <3>1. OwnersStay(k)
      BY <1>6, <1>a, <1>b, <1>c, <2>1
      DEF GetUseSize, Goto, OwnersStay, Owns, Owning, threads, locals
    <3>2. iocp' = iocp
          /\ sends'[k] = sends[k] /\ IOMode'[k] = IOMode[k] /\ lBufferCount'[k] = lBufferCount[k]
      BY <1>6, <2>1, <1>a DEF GetUseSize, Goto, session, queue, others, kernel, requests
    <3> QED
      BY <1>n, <3>1, <3>2
  <2>2. CASE chan[t] = k
    <3>1. Owns(t, k)
      BY <1>6, <2>2 DEF GetUseSize, Goto, Owns, Owning
    <3>2. Owns(t, k)'
      BY <1>6, <2>2, <1>a DEF GetUseSize, Goto, Owns, Owning, locals
    <3>3. \A u \in Threads : u # t => (Owns(u, k)' <=> Owns(u, k))
      BY <1>6, <1>a DEF GetUseSize, Goto, Owns, locals
    <3>4. iocp' = iocp /\ sends'[k] = sends[k] /\ IOMode'[k] = IOMode[k]
      BY <1>6 DEF GetUseSize, Goto, session, others, kernel, requests
    <3>5. pc'[t] \in {"count", "wsasend"} => lBufferCount'[k] > 0
      BY <1>6, <1>a DEF GetUseSize, Goto
    <3> QED
      BY <1>o, <1>p, <1>r, <3>1, <3>2, <3>3, <3>4, <3>5
  <2> QED
    BY <2>1, <2>2
<1>7. ASSUME NEW t \in Threads, GiveIOModeBack(t) PROVE OwnerInv(k)'
  <2>1. CASE chan[t] # k
    <3>1. OwnersStay(k)
      BY <1>7, <1>a, <1>b, <1>c, <2>1
      DEF GiveIOModeBack, Goto, OwnersStay, Owns, Owning, threads, locals
    <3>2. iocp' = iocp
          /\ sends'[k] = sends[k] /\ IOMode'[k] = IOMode[k] /\ lBufferCount'[k] = lBufferCount[k]
      BY <1>7, <2>1, <1>a DEF GiveIOModeBack, Goto, session, queue, others, kernel, requests
    <3> QED
      BY <1>n, <3>1, <3>2
  <2>2. CASE chan[t] = k
    <3>1. Owns(t, k)
      BY <1>7, <2>2 DEF GiveIOModeBack, Goto, Owns, Owning
    <3>2. ~Owns(t, k)'
      BY <1>7, <1>a, <1>b, <1>c DEF GiveIOModeBack, Goto, Owns, Owning, locals
    <3>3. \A u \in Threads : u # t => (Owns(u, k)' <=> Owns(u, k))
      BY <1>7, <1>a, <1>b DEF GiveIOModeBack, Goto, Owns, locals
    <3>4. \A u \in Threads : ~Owns(u, k)'
      BY <1>b, <1>o, <3>1, <3>2, <3>3
    <3>5. iocp' = iocp /\ sends'[k] = sends[k] /\ IOMode'[k] = "NONSENDING"
      BY <1>7, <1>a, <2>2 DEF GiveIOModeBack, others, kernel, requests
    <3> QED
      BY <1>b, <1>o, <1>q, <1>r, <3>1, <3>4, <3>5
  <2> QED
    BY <2>1, <2>2
<1>8. ASSUME NEW t \in Threads, Recheck(t) PROVE OwnerInv(k)'
  <2>1. OwnersStay(k)
    BY <1>8, <1>a, <1>b, <1>c DEF Recheck, Goto, OwnersStay, Owns, Owning, threads, locals
  <2>2. iocp' = iocp
        /\ sends'[k] = sends[k] /\ IOMode'[k] = IOMode[k] /\ lBufferCount'[k] = lBufferCount[k]
    BY <1>8 DEF Recheck, Goto, session, queue, others, kernel, requests
  <2> QED
    BY <1>n, <2>1, <2>2
<1>9. ASSUME NEW t \in Threads, FillStore(t) PROVE OwnerInv(k)'
  <2>1. CASE chan[t] # k
    <3>1. OwnersStay(k)
      BY <1>9, <1>a, <1>b, <1>c, <2>1
      DEF FillStore, Goto, OwnersStay, Owns, Owning, threads, locals
    <3>2. iocp' = iocp
          /\ sends'[k] = sends[k] /\ IOMode'[k] = IOMode[k] /\ lBufferCount'[k] = lBufferCount[k]
      BY <1>9, <2>1, <1>a DEF FillStore, Goto, session, queue, others, kernel, requests
    <3> QED
      BY <1>n, <3>1, <3>2
  <2>2. CASE chan[t] = k
    <3>1. Owns(t, k)
      BY <1>9, <2>2 DEF FillStore, Goto, Owns, Owning
    <3>2. Owns(t, k)'
      BY <1>9, <2>2, <1>a DEF FillStore, Goto, Owns, Owning, locals
    <3>3. \A u \in Threads : u # t => (Owns(u, k)' <=> Owns(u, k))
      BY <1>9, <1>a DEF FillStore, Goto, Owns, locals
    <3>4. iocp' = iocp /\ sends'[k] = sends[k] /\ IOMode'[k] = IOMode[k]
      BY <1>9 DEF FillStore, Goto, session, others, kernel, requests
    <3>5. pc'[t] \in {"count", "wsasend"} => lBufferCount'[k] > 0
      <4>1. rest[t] \in 1 .. SendMax /\ lBufferCount'[k] = rest[t]
        BY <1>9, <1>a, <2>2 DEF FillStore, Goto, QueueInv
      <4> QED
        BY <4>1, LanClientAssumption
    <3> QED
      BY <1>o, <1>p, <1>r, <3>1, <3>2, <3>3, <3>4, <3>5
  <2> QED
    BY <2>1, <2>2
<1>10. ASSUME NEW t \in Threads, CountSend(t) PROVE OwnerInv(k)'
  <2>1. CASE chan[t] # k
    <3>1. OwnersStay(k)
      BY <1>10, <1>a, <1>b, <1>c, <2>1
      DEF CountSend, Goto, OwnersStay, Owns, Owning, threads, locals
    <3>2. iocp' = iocp
          /\ sends'[k] = sends[k] /\ IOMode'[k] = IOMode[k] /\ lBufferCount'[k] = lBufferCount[k]
      BY <1>10, <2>1, <1>a DEF CountSend, Goto, session, queue, others, kernel, requests
    <3> QED
      BY <1>n, <3>1, <3>2
  <2>2. CASE chan[t] = k
    <3>1. Owns(t, k)
      BY <1>10, <2>2 DEF CountSend, Goto, Owns, Owning
    <3>2. Owns(t, k)'
      BY <1>10, <2>2, <1>a DEF CountSend, Goto, Owns, Owning, locals
    <3>3. \A u \in Threads : u # t => (Owns(u, k)' <=> Owns(u, k))
      BY <1>10, <1>a DEF CountSend, Goto, Owns, locals
    <3>4. iocp' = iocp /\ sends'[k] = sends[k] /\ IOMode'[k] = IOMode[k]
      BY <1>10 DEF CountSend, Goto, session, others, kernel, requests
    <3>5. pc'[t] \in {"count", "wsasend"} => lBufferCount'[k] > 0
      <4>1. lBufferCount[k] > 0
        BY <1>10, <1>d, <2>2 DEF CountSend, Goto, OwnerInv
      <4> QED
        BY <1>10, <4>1 DEF CountSend, queue
    <3> QED
      BY <1>o, <1>p, <1>r, <3>1, <3>2, <3>3, <3>4, <3>5
  <2> QED
    BY <2>1, <2>2
<1>11. ASSUME NEW t \in Threads, WSASend(t) PROVE OwnerInv(k)'
  <2>1. CASE chan[t] # k
    <3>1. OwnersStay(k)
      BY <1>11, <1>a, <1>b, <1>c, <2>1
      DEF WSASend, Goto, OwnersStay, Owns, Owning, threads, locals
    <3>2. iocp' = iocp
          /\ sends'[k] = sends[k] /\ IOMode'[k] = IOMode[k] /\ lBufferCount'[k] = lBufferCount[k]
      BY <1>11, <2>1, <1>a DEF WSASend, Goto, session, queue, others, kernel, requests
    <3> QED
      BY <1>n, <3>1, <3>2
  <2>2. CASE chan[t] = k
    <3>1. Owns(t, k)
      BY <1>11, <2>2 DEF WSASend, Goto, Owns, Owning
    <3>2. ~Owns(t, k)'
      BY <1>11, <1>a, <1>b, <1>c DEF WSASend, Goto, Owns, Owning, locals
    <3>3. \A u \in Threads : u # t => (Owns(u, k)' <=> Owns(u, k))
      BY <1>11, <1>a, <1>b DEF WSASend, Goto, Owns, locals
    <3>4. \A u \in Threads : ~Owns(u, k)'
      BY <1>b, <1>o, <3>1, <3>2, <3>3
    <3>5. iocp' = iocp /\ IOMode'[k] = IOMode[k]
      BY <1>11 DEF WSASend, session
    <3>6. lBufferCount'[k] > 0
      BY <1>11, <1>d, <2>2 DEF WSASend, Goto, OwnerInv, session, queue
    <3>7. lBufferCount'[k] # 0
      BY <3>6
    <3> QED
      BY <1>o, <1>q, <1>r, <3>1, <3>4, <3>5, <3>6, <3>7
  <2> QED
    BY <2>1, <2>2
<1>12. ASSUME NEW t \in Threads, WSASendFails(t) PROVE OwnerInv(k)'
  <2>1. CASE chan[t] # k
    <3>1. OwnersStay(k)
      BY <1>12, <1>a, <1>b, <1>c, <2>1
      DEF WSASendFails, Decrement, Goto, OwnersStay, Owns, Owning, threads, locals
    <3>2. iocp' = iocp
          /\ sends'[k] = sends[k] /\ IOMode'[k] = IOMode[k] /\ lBufferCount'[k] = lBufferCount[k]
      BY <1>12, <2>1, <1>a
      DEF WSASendFails, Decrement, Goto, session, queue, others, kernel, requests
    <3> QED
      BY <1>n, <3>1, <3>2
  <2>2. CASE chan[t] = k
    <3>1. Owns(t, k)
      BY <1>12, <2>2 DEF WSASendFails, Decrement, Goto, Owns, Owning
    <3>2. ~Owns(t, k)'
      BY <1>12, <1>a, <1>b, <1>c DEF WSASendFails, Decrement, Goto, Owns, Owning, locals
    <3>3. \A u \in Threads : u # t => (Owns(u, k)' <=> Owns(u, k))
      BY <1>12, <1>a, <1>b DEF WSASendFails, Decrement, Goto, Owns, locals
    <3>4. \A u \in Threads : ~Owns(u, k)'
      BY <1>b, <1>o, <3>1, <3>2, <3>3
    <3>5. iocp' = iocp /\ sends'[k] = sends[k] /\ IOMode'[k] = IOMode[k]
      BY <1>12 DEF WSASendFails, kernel, requests
    <3>6. lBufferCount'[k] # 0
      BY <1>12, <1>d, <2>2 DEF WSASendFails, Decrement, Goto, OwnerInv, queue
    <3> QED
      BY <1>o, <1>q, <1>r, <3>1, <3>4, <3>5, <3>6
  <2> QED
    BY <2>1, <2>2
<1>13. ASSUME NEW t \in Threads, WSASendCrashes(t) PROVE OwnerInv(k)'
  <2>1. OwnersStay(k)
    BY <1>13, <1>a, <1>b, <1>c DEF WSASendCrashes, OwnersStay, Owns, Owning, threads, locals
  <2>2. iocp' = iocp
        /\ sends'[k] = sends[k] /\ IOMode'[k] = IOMode[k] /\ lBufferCount'[k] = lBufferCount[k]
    BY <1>13 DEF WSASendCrashes, session, queue, others, kernel, requests
  <2> QED
    BY <1>n, <2>1, <2>2
<1>14. ASSUME NEW t \in Threads, ReleaseSession(t) PROVE OwnerInv(k)'
  <2>1. OwnersStay(k)
    BY <1>14, <1>a, <1>b, <1>c
    DEF ReleaseSession, Goto, OwnersStay, Owns, Owning, threads, locals
  <2>2. iocp' = iocp
        /\ sends'[k] = sends[k] /\ IOMode'[k] = IOMode[k] /\ lBufferCount'[k] = lBufferCount[k]
    BY <1>14 DEF ReleaseSession, Goto, session, queue, others, kernel, requests
  <2> QED
    BY <1>n, <2>1, <2>2
<1>15. ASSUME NEW t \in Threads, DrainSendQ(t) PROVE OwnerInv(k)'
  <2>1. OwnersStay(k)
    BY <1>15, <1>a, <1>b, <1>c DEF DrainSendQ, Goto, OwnersStay, Owns, Owning, threads, locals
  <2>2. iocp' = iocp
        /\ sends'[k] = sends[k] /\ IOMode'[k] = IOMode[k] /\ lBufferCount'[k] = lBufferCount[k]
    BY <1>15 DEF DrainSendQ, Goto, session, queue, others, kernel, requests
  <2> QED
    BY <1>n, <2>1, <2>2
<1>16. ASSUME NEW t \in Threads, CloseSocket(t) PROVE OwnerInv(k)'
  <2>1. OwnersStay(k)
    BY <1>16, <1>a, <1>b, <1>c DEF CloseSocket, Goto, OwnersStay, Owns, Owning, threads, locals
  <2>2. iocp' = iocp
        /\ sends'[k] = sends[k] /\ IOMode'[k] = IOMode[k] /\ lBufferCount'[k] = lBufferCount[k]
    BY <1>16 DEF CloseSocket, Goto, session, queue, others, kernel, requests
  <2> QED
    BY <1>n, <2>1, <2>2
<1>17. ASSUME NEW t \in Threads, InvalidateSocket(t) PROVE OwnerInv(k)'
  <2>1. OwnersStay(k)
    BY <1>17, <1>a, <1>b, <1>c
    DEF InvalidateSocket, Goto, OwnersStay, Owns, Owning, threads, locals
  <2>2. iocp' = iocp
        /\ sends'[k] = sends[k] /\ IOMode'[k] = IOMode[k] /\ lBufferCount'[k] = lBufferCount[k]
    BY <1>17 DEF InvalidateSocket, Goto, session, queue, others, kernel, requests
  <2> QED
    BY <1>n, <2>1, <2>2
<1>18. ASSUME NEW t \in Threads, AppendToList(t) PROVE OwnerInv(k)'
  <2>1. OwnersStay(k)
    BY <1>18, <1>a, <1>b, <1>c DEF AppendToList, Goto, OwnersStay, Owns, Owning, threads, locals
  <2>2. iocp' = iocp
        /\ sends'[k] = sends[k] /\ IOMode'[k] = IOMode[k] /\ lBufferCount'[k] = lBufferCount[k]
    BY <1>18 DEF AppendToList, Goto, session, queue, others, kernel, requests
  <2> QED
    BY <1>n, <2>1, <2>2
<1>19. ASSUME NEW t \in Threads, AppendToListRaces(t) PROVE OwnerInv(k)'
  <2>1. OwnersStay(k)
    BY <1>19, <1>a, <1>b, <1>c
    DEF AppendToListRaces, Goto, OwnersStay, Owns, Owning, threads, locals
  <2>2. iocp' = iocp
        /\ sends'[k] = sends[k] /\ IOMode'[k] = IOMode[k] /\ lBufferCount'[k] = lBufferCount[k]
    BY <1>19 DEF AppendToListRaces, Goto, session, queue, others, kernel, requests
  <2> QED
    BY <1>n, <2>1, <2>2
<1>20. ASSUME NEW t \in Workers, RecvZero(t) PROVE OwnerInv(k)'
  <2>1. OneSent(k)' /\ (HasSent(k)' <=> HasSent(k))
    <3>1. iocp # <<>> /\ iocp' = Tail(iocp) /\ Head(iocp).io = "recv0"
      BY <1>20 DEF RecvZero, Dequeued
    <3>2. Head(iocp) # [io |-> "send", chan |-> k]
      BY <3>1
    <3> QED
      BY <1>a, <1>d, <3>1, <3>2, PortTail DEF OwnerInv
  <2>2. OwnersStay(k)
    BY <1>20, <1>a, <1>b DEF RecvZero, Dequeued, OwnersStay, Owns, Owning, threads, locals
  <2>3. sends'[k] = sends[k] /\ IOMode'[k] = IOMode[k] /\ lBufferCount'[k] = lBufferCount[k]
    BY <1>20 DEF RecvZero, Dequeued, session, queue, others, kernel, requests
  <2> QED
    BY <1>m, <2>1, <2>2, <2>3
<1>21. ASSUME NEW t \in Workers, RecvData(t) PROVE OwnerInv(k)'
  <2>1. OneSent(k)' /\ (HasSent(k)' <=> HasSent(k))
    <3>1. iocp # <<>> /\ iocp' = Tail(iocp) /\ Head(iocp).io = "recv"
      BY <1>21 DEF RecvData, Dequeued
    <3>2. Head(iocp) # [io |-> "send", chan |-> k]
      BY <3>1
    <3> QED
      BY <1>a, <1>d, <3>1, <3>2, PortTail DEF OwnerInv
  <2>2. OwnersStay(k)
    BY <1>21, <1>a, <1>b DEF RecvData, Dequeued, OwnersStay, Owns, Owning, threads, locals
  <2>3. sends'[k] = sends[k] /\ IOMode'[k] = IOMode[k] /\ lBufferCount'[k] = lBufferCount[k]
    BY <1>21 DEF RecvData, Dequeued, session, queue, others, kernel, requests
  <2> QED
    BY <1>m, <2>1, <2>2, <2>3
<1>22. ASSUME NEW t \in Workers, SendDone(t) PROVE OwnerInv(k)'
  <2>0. /\ iocp # <<>> /\ iocp' = Tail(iocp) /\ Head(iocp).io = "send"
        /\ pc[t] = "gqcs" /\ pc' = [pc EXCEPT ![t] = "sent"]
        /\ chan' = [chan EXCEPT ![t] = Head(iocp).chan]
        /\ lBufferCount' = [lBufferCount EXCEPT ![Head(iocp).chan] = 0]
        /\ sends' = sends /\ IOMode' = IOMode
    BY <1>22 DEF SendDone, Dequeued, requests
  <2>a. Head(iocp) \in [io : {"recv", "recv0", "send"}, chan : Channels]
    <3>1. Head(iocp) \in Entries
      BY <1>a, <2>0, HeadTailProperties
    <3> QED
      BY <2>0, <3>1 DEF Entries
  <2>b. OneSent(k)
    BY <1>d DEF OwnerInv
  <2>1. CASE Head(iocp).chan # k
    <3>1. Head(iocp) # [io |-> "send", chan |-> k]
      BY <2>1
    <3>2. OneSent(k)' /\ (HasSent(k)' <=> HasSent(k))
      BY <1>a, <2>0, <2>b, <3>1, PortTail
    <3>3. OwnersStay(k)
      BY <1>a, <1>b, <2>0, <2>1 DEF OwnersStay, Owns, Owning
    <3>4. sends'[k] = sends[k] /\ IOMode'[k] = IOMode[k] /\ lBufferCount'[k] = lBufferCount[k]
      BY <1>a, <2>0, <2>1
    <3> QED
      BY <1>m, <3>2, <3>3, <3>4
  <2>2. CASE Head(iocp).chan = k
    <3>1. Head(iocp) = [io |-> "send", chan |-> k]
      BY <2>0, <2>2, <2>a
    <3>2. HasSent(k) /\ ~HasSent(k)'
      BY <1>a, <2>0, <2>b, <3>1, PortTail
    <3>3. sends[k] = INVALID_SOCKET /\ ~HasOwner(k) /\ IOMode[k] = "SENDING"
      BY <1>a, <1>d, <3>2 DEF OwnerInv
    <3>4. Owns(t, k)' /\ pc'[t] = "sent"
      BY <1>a, <1>b, <2>0, <2>2 DEF Owns, Owning
    <3>5. \A u \in Threads : u # t => (Owns(u, k)' <=> Owns(u, k))
      BY <1>a, <1>b, <2>0 DEF Owns
    <3>6. \A u \in Threads : Owns(u, k)' => u = t
      BY <3>3, <3>5 DEF HasOwner
    <3>7. sends'[k] = INVALID_SOCKET /\ IOMode'[k] = "SENDING" /\ t \in Threads
      BY <1>b, <2>0, <3>3
    <3> QED
      BY <1>p, <3>2, <3>4, <3>6, <3>7
  <2> QED
    BY <2>1, <2>2
<1>23. ASSUME NEW t \in Workers, SendNext(t) PROVE OwnerInv(k)'
  <2>1. CASE chan[t] # k
    <3>1. OwnersStay(k)
      BY <1>23, <1>a, <1>b, <1>c, <2>1
      DEF SendNext, Goto, OwnersStay, Owns, Owning, threads, locals
    <3>2. iocp' = iocp
          /\ sends'[k] = sends[k] /\ IOMode'[k] = IOMode[k] /\ lBufferCount'[k] = lBufferCount[k]
      BY <1>23, <2>1, <1>a DEF SendNext, Goto, session, queue, others, kernel, requests
    <3> QED
      BY <1>n, <3>1, <3>2
  <2>2. CASE chan[t] = k
    <3>1. Owns(t, k)
      BY <1>23, <2>2 DEF SendNext, Goto, Owns, Owning
    <3>2. ~Owns(t, k)'
      BY <1>23, <1>a, <1>b, <1>c DEF SendNext, Goto, Owns, Owning, locals
    <3>3. \A u \in Threads : u # t => (Owns(u, k)' <=> Owns(u, k))
      BY <1>23, <1>a, <1>b DEF SendNext, Goto, Owns, locals
    <3>4. \A u \in Threads : ~Owns(u, k)'
      BY <1>b, <1>o, <3>1, <3>2, <3>3
    <3>5. iocp' = iocp /\ sends'[k] = sends[k] /\ IOMode'[k] = "NONSENDING"
      BY <1>23, <1>a, <2>2 DEF SendNext, others, kernel, requests
    <3> QED
      BY <1>b, <1>o, <1>q, <1>r, <3>1, <3>4, <3>5
  <2> QED
    BY <2>1, <2>2
<1>24. ASSUME NEW t \in Workers, IODone(t) PROVE OwnerInv(k)'
  <2>1. OwnersStay(k)
    BY <1>24, <1>a, <1>b, <1>c
    DEF IODone, Decrement, Goto, OwnersStay, Owns, Owning, threads, locals
  <2>2. iocp' = iocp
        /\ sends'[k] = sends[k] /\ IOMode'[k] = IOMode[k] /\ lBufferCount'[k] = lBufferCount[k]
    BY <1>24 DEF IODone, Decrement, Goto, session, queue, others, kernel, requests
  <2> QED
    BY <1>n, <2>1, <2>2
<1>25. ASSUME NEW t \in Workers, WorkerStops(t) PROVE OwnerInv(k)'
  <2>1. OneSent(k)' /\ (HasSent(k)' <=> HasSent(k))
    <3> DEFINE null == [io |-> "null", chan |-> -1]
               sent == [io |-> "send", chan |-> k]
    <3>1. iocp # <<>> /\ iocp' = Append(Tail(iocp), null) /\ Head(iocp).io = "stop"
      BY <1>25 DEF WorkerStops
    <3>2. null \in Entries /\ null # sent /\ sent.io = "send"
      BY DEF Entries
    <3>3. Head(iocp) # sent
      BY <3>1, <3>2
    <3>4. OneSent(k)
      BY <1>d DEF OwnerInv
    <3> HIDE DEF null
    <3> QED
      BY <1>a, <3>1, <3>2, <3>3, <3>4, PortMoves
  <2>2. OwnersStay(k)
    BY <1>25, <1>a, <1>b DEF WorkerStops, OwnersStay, Owns, Owning, threads, locals
  <2>3. sends'[k] = sends[k] /\ IOMode'[k] = IOMode[k] /\ lBufferCount'[k] = lBufferCount[k]
    BY <1>25 DEF WorkerStops, session, queue, others, kernel, requests
  <2> QED
    BY <1>m, <2>1, <2>2, <2>3
<1>26. ASSUME NEW t \in Workers, OverlappedNull(t) PROVE OwnerInv(k)'
  <2>1. OneSent(k)' /\ (HasSent(k)' <=> HasSent(k))
    <3>1. iocp # <<>> /\ iocp' = Tail(iocp) /\ Head(iocp).io = "null"
      BY <1>26 DEF OverlappedNull, Dequeued
    <3>2. Head(iocp) # [io |-> "send", chan |-> k]
      BY <3>1
    <3> QED
      BY <1>a, <1>d, <3>1, <3>2, PortTail DEF OwnerInv
  <2>2. OwnersStay(k)
    BY <1>26, <1>a, <1>b DEF OverlappedNull, Dequeued, OwnersStay, Owns, Owning, threads, locals
  <2>3. sends'[k] = sends[k] /\ IOMode'[k] = IOMode[k] /\ lBufferCount'[k] = lBufferCount[k]
    BY <1>26 DEF OverlappedNull, Dequeued, session, queue, others, kernel, requests
  <2> QED
    BY <1>m, <2>1, <2>2, <2>3
<1>27. CASE PeekList
  <2>1. OwnersStay(k)
    BY <1>27, <1>a, <1>b, <1>c DEF PeekList, Goto, OwnersStay, Owns, Owning, threads, locals
  <2>2. iocp' = iocp
        /\ sends'[k] = sends[k] /\ IOMode'[k] = IOMode[k] /\ lBufferCount'[k] = lBufferCount[k]
    BY <1>27 DEF PeekList, Goto, session, queue, others, kernel, requests
  <2> QED
    BY <1>n, <2>1, <2>2
<1>28. CASE SeeStopClient
  <2>1. OwnersStay(k)
    BY <1>28, <1>a, <1>b, <1>c
    DEF SeeStopClient, ReconnecterEnds, OwnersStay, Owns, Owning, threads, locals
  <2>2. iocp' = iocp
        /\ sends'[k] = sends[k] /\ IOMode'[k] = IOMode[k] /\ lBufferCount'[k] = lBufferCount[k]
    BY <1>28 DEF SeeStopClient, ReconnecterEnds, session, queue, others, kernel, requests
  <2> QED
    BY <1>n, <2>1, <2>2
<1>29. CASE NewSocket
  <2>1. OwnersStay(k)
    BY <1>29, <1>a, <1>b, <1>c DEF NewSocket, Goto, OwnersStay, Owns, Owning, threads, locals
  <2>2. iocp' = iocp
        /\ sends'[k] = sends[k] /\ IOMode'[k] = IOMode[k] /\ lBufferCount'[k] = lBufferCount[k]
    BY <1>29 DEF NewSocket, Goto, session, queue, others, kernel, requests
  <2> QED
    BY <1>n, <2>1, <2>2
<1>30. CASE NewSocketFails
  <2>1. OwnersStay(k)
    BY <1>30, <1>a, <1>b, <1>c
    DEF NewSocketFails, ReconnecterEnds, OwnersStay, Owns, Owning, threads, locals
  <2>2. iocp' = iocp
        /\ sends'[k] = sends[k] /\ IOMode'[k] = IOMode[k] /\ lBufferCount'[k] = lBufferCount[k]
    BY <1>30 DEF NewSocketFails, ReconnecterEnds, session, queue, others, kernel, requests
  <2> QED
    BY <1>n, <2>1, <2>2
<1>31. CASE Connect
  <2>1. OwnersStay(k)
    BY <1>31, <1>a, <1>b, <1>c DEF Connect, Goto, OwnersStay, Owns, Owning, threads, locals
  <2>2. iocp' = iocp
        /\ sends'[k] = sends[k] /\ IOMode'[k] = IOMode[k] /\ lBufferCount'[k] = lBufferCount[k]
    BY <1>31 DEF Connect, Goto, session, queue, others, kernel, requests
  <2> QED
    BY <1>n, <2>1, <2>2
<1>32. CASE SetsockoptFails
  <2>1. OwnersStay(k)
    BY <1>32, <1>a, <1>b, <1>c
    DEF SetsockoptFails, ReconnecterEnds, OwnersStay, Owns, Owning, threads, locals
  <2>2. iocp' = iocp
        /\ sends'[k] = sends[k] /\ IOMode'[k] = IOMode[k] /\ lBufferCount'[k] = lBufferCount[k]
    BY <1>32 DEF SetsockoptFails, ReconnecterEnds, session, queue, others, kernel, requests
  <2> QED
    BY <1>n, <2>1, <2>2
<1>33. CASE BindToIOCP
  <2>1. OwnersStay(k)
    BY <1>33, <1>a, <1>b, <1>c DEF BindToIOCP, Goto, OwnersStay, Owns, Owning, threads, locals
  <2>2. iocp' = iocp
        /\ sends'[k] = sends[k] /\ IOMode'[k] = IOMode[k] /\ lBufferCount'[k] = lBufferCount[k]
    BY <1>33 DEF BindToIOCP, Goto, session, queue, others, kernel, requests
  <2> QED
    BY <1>n, <2>1, <2>2
<1>34. CASE PopList
  <2>1. OwnersStay(k)
    BY <1>34, <1>a, <1>b, <1>c DEF PopList, Goto, OwnersStay, Owns, Owning, threads, locals
  <2>2. iocp' = iocp
        /\ sends'[k] = sends[k] /\ IOMode'[k] = IOMode[k] /\ lBufferCount'[k] = lBufferCount[k]
    BY <1>34 DEF PopList, Goto, session, queue, others, kernel, requests
  <2> QED
    BY <1>n, <2>1, <2>2
<1>35. CASE StartChannel
  <2>1. OwnersStay(k)
    BY <1>35, <1>a, <1>b, <1>c DEF StartChannel, Goto, OwnersStay, Owns, Owning, threads, locals
  <2>2. iocp' = iocp
        /\ sends'[k] = sends[k] /\ IOMode'[k] = IOMode[k] /\ lBufferCount'[k] = lBufferCount[k]
    BY <1>35 DEF StartChannel, Goto, session, queue, others, kernel, requests
  <2> QED
    BY <1>n, <2>1, <2>2
<1>36. CASE StartFails
  <2>1. OwnersStay(k)
    BY <1>36, <1>a, <1>b, <1>c DEF StartFails, OwnersStay, Owns, Owning, threads, locals
  <2>2. iocp' = iocp
        /\ sends'[k] = sends[k] /\ IOMode'[k] = IOMode[k] /\ lBufferCount'[k] = lBufferCount[k]
    BY <1>36 DEF StartFails, session, queue, others, kernel, requests
  <2> QED
    BY <1>n, <2>1, <2>2
<1>37. CASE NextChannel
  <2>1. OwnersStay(k)
    BY <1>37, <1>a, <1>b, <1>c DEF NextChannel, Goto, OwnersStay, Owns, Owning, threads, locals
  <2>2. iocp' = iocp
        /\ sends'[k] = sends[k] /\ IOMode'[k] = IOMode[k] /\ lBufferCount'[k] = lBufferCount[k]
    BY <1>37 DEF NextChannel, Goto, session, queue, others, kernel, requests
  <2> QED
    BY <1>n, <2>1, <2>2
<1>38. CASE ShutdownChannel
  <2>1. OwnersStay(k)
    BY <1>38, <1>a, <1>b, <1>c DEF ShutdownChannel, OwnersStay, Owns, Owning, threads, locals
  <2>2. iocp' = iocp
        /\ sends'[k] = sends[k] /\ IOMode'[k] = IOMode[k] /\ lBufferCount'[k] = lBufferCount[k]
    BY <1>38 DEF ShutdownChannel, session, queue, others, kernel, requests
  <2> QED
    BY <1>n, <2>1, <2>2
<1>39. CASE PostStop
  <2>1. OneSent(k)' /\ (HasSent(k)' <=> HasSent(k))
    <3>1. [io |-> "stop", chan |-> -1] \in Entries
          /\ [io |-> "stop", chan |-> -1] # [io |-> "send", chan |-> k]
      BY DEF Entries
    <3> QED
      BY <1>39, <1>a, <1>d, <3>1, PortAppend DEF OwnerInv, PostStop
  <2>2. OwnersStay(k)
    BY <1>39, <1>a, <1>b DEF PostStop, Goto, OwnersStay, Owns, Owning, threads, locals
  <2>3. sends'[k] = sends[k] /\ IOMode'[k] = IOMode[k] /\ lBufferCount'[k] = lBufferCount[k]
    BY <1>39 DEF PostStop, Goto, session, queue, others, kernel, requests
  <2> QED
    BY <1>m, <2>1, <2>2, <2>3
<1>40. CASE JoinWorkers
  <2>1. OwnersStay(k)
    BY <1>40, <1>a, <1>b, <1>c DEF JoinWorkers, OwnersStay, Owns, Owning, threads, locals
  <2>2. iocp' = iocp
        /\ sends'[k] = sends[k] /\ IOMode'[k] = IOMode[k] /\ lBufferCount'[k] = lBufferCount[k]
    BY <1>40 DEF JoinWorkers, session, queue, others, kernel, requests
  <2> QED
    BY <1>n, <2>1, <2>2
<1>41. CASE Stop
  <2>1. OwnersStay(k)
    BY <1>41, <1>a, <1>b, <1>c DEF Stop, Goto, OwnersStay, Owns, Owning, threads, locals
  <2>2. iocp' = iocp
        /\ sends'[k] = sends[k] /\ IOMode'[k] = IOMode[k] /\ lBufferCount'[k] = lBufferCount[k]
    BY <1>41 DEF Stop, Goto, session, queue, others, kernel, requests
  <2> QED
    BY <1>n, <2>1, <2>2
<1>42. ASSUME NEW t \in Callers, SendPacket(t) PROVE OwnerInv(k)'
  <2>1. OwnersStay(k)
    BY <1>42, <1>a, <1>b, <1>c
    DEF SendPacket, SendPacketImpl, OwnersStay, Owns, Owning, threads, locals
  <2>2. iocp' = iocp
        /\ sends'[k] = sends[k] /\ IOMode'[k] = IOMode[k] /\ lBufferCount'[k] = lBufferCount[k]
    BY <1>42 DEF SendPacket, SendPacketImpl, session, queue, others, kernel, requests
  <2> QED
    BY <1>n, <2>1, <2>2
<1>43. ASSUME NEW t \in Callers, SendPacketFixed(t) PROVE OwnerInv(k)'
  <2>1. OwnersStay(k)
    BY <1>43, <1>a, <1>b, <1>c
    DEF SendPacketFixed, SendPacketImpl, OwnersStay, Owns, Owning, threads, locals
  <2>2. iocp' = iocp
        /\ sends'[k] = sends[k] /\ IOMode'[k] = IOMode[k] /\ lBufferCount'[k] = lBufferCount[k]
    BY <1>43 DEF SendPacketFixed, SendPacketImpl, session, queue, others, kernel, requests
  <2> QED
    BY <1>n, <2>1, <2>2
<1>44. ASSUME NEW c \in Channels, SendCompletes(c) PROVE OwnerInv(k)'
  <2> DEFINE x == [io |-> "send", chan |-> c]
  <2>0. /\ iocp' = Append(iocp, x) \/ iocp' = iocp
        /\ sends[c] # INVALID_SOCKET /\ sends' = [sends EXCEPT ![c] = INVALID_SOCKET]
        /\ UNCHANGED <<pc, chan, IOMode, lBufferCount>>
    BY <1>44 DEF SendCompletes, Completed, threads, locals, session, queue
  <2>a. x \in Entries /\ (c # k => x # [io |-> "send", chan |-> k])
    BY DEF Entries
  <2>b. OneSent(k)
    BY <1>d DEF OwnerInv
  <2>1. CASE c # k
    <3> HIDE DEF x
    <3>1. OneSent(k)' /\ (HasSent(k)' <=> HasSent(k))
      <4>1. CASE iocp' = Append(iocp, x)
        BY <1>a, <2>1, <2>a, <2>b, <4>1, PortAppend
      <4> QED
        BY <1>r, <2>0, <4>1
    <3>2. OwnersStay(k)
          /\ sends'[k] = sends[k] /\ IOMode'[k] = IOMode[k] /\ lBufferCount'[k] = lBufferCount[k]
      BY <1>a, <2>0, <2>1 DEF OwnersStay
    <3> QED
      BY <1>m, <3>1, <3>2
  <2>2. CASE c = k
    <3>1. ~HasOwner(k) /\ ~HasSent(k) /\ IOMode[k] = "SENDING" /\ lBufferCount[k] > 0
      BY <1>a, <1>d, <2>0, <2>2 DEF OwnerInv
    <3>2. \A u \in Threads : ~Owns(u, k)'
      BY <2>0, <3>1 DEF HasOwner, Owns
    <3>3. OneSent(k)'
      <4>1. CASE iocp' = Append(iocp, x)
        BY <1>a, <2>2, <2>a, <2>b, <3>1, <4>1, PortAppend
      <4> QED
        BY <1>r, <2>0, <4>1
    <3>4. sends'[k] = INVALID_SOCKET /\ IOMode'[k] = "SENDING" /\ lBufferCount'[k] # 0
      BY <1>a, <2>0, <2>2, <3>1
    <3> QED
      BY <1>q, <3>2, <3>3, <3>4
  <2> QED
    BY <2>1, <2>2
<1>45. ASSUME NEW c \in Channels, NEW s \in Sockets, RecvAborts(c, s) PROVE OwnerInv(k)'
  <2>1. OneSent(k)' /\ (HasSent(k)' <=> HasSent(k))
    <3> DEFINE x == [io |-> "recv0", chan |-> c]
    <3>1. x \in Entries /\ x # [io |-> "send", chan |-> k]
      BY DEF Entries
    <3>2. iocp' = Append(iocp, x) \/ iocp' = iocp
      BY <1>45 DEF RecvAborts, Completed
    <3> HIDE DEF x
    <3>3. CASE iocp' = Append(iocp, x)
      BY <1>a, <1>d, <3>1, <3>3, PortAppend DEF OwnerInv
    <3> QED
      BY <1>r, <3>2, <3>3
  <2>2. OwnersStay(k)
    BY <1>45, <1>a, <1>b DEF RecvAborts, Completed, OwnersStay, Owns, Owning, threads, locals
  <2>3. sends'[k] = sends[k] /\ IOMode'[k] = IOMode[k] /\ lBufferCount'[k] = lBufferCount[k]
    BY <1>45 DEF RecvAborts, Completed, session, queue, others, kernel, requests
  <2> QED
    BY <1>m, <2>1, <2>2, <2>3
<1>46. ASSUME NEW c \in Channels, NEW s \in Sockets, RecvCompletes(c, s) PROVE OwnerInv(k)'
  <2>1. OneSent(k)' /\ (HasSent(k)' <=> HasSent(k))
    <3> DEFINE x == [io |-> "recv", chan |-> c]
    <3>1. x \in Entries /\ x # [io |-> "send", chan |-> k]
      BY DEF Entries
    <3>2. iocp' = Append(iocp, x) \/ iocp' = iocp
      BY <1>46 DEF RecvCompletes, Completed
    <3> HIDE DEF x
    <3>3. CASE iocp' = Append(iocp, x)
      BY <1>a, <1>d, <3>1, <3>3, PortAppend DEF OwnerInv
    <3> QED
      BY <1>r, <3>2, <3>3
  <2>2. OwnersStay(k)
    BY <1>46, <1>a, <1>b DEF RecvCompletes, Completed, OwnersStay, Owns, Owning, threads, locals
  <2>3. sends'[k] = sends[k] /\ IOMode'[k] = IOMode[k] /\ lBufferCount'[k] = lBufferCount[k]
    BY <1>46 DEF RecvCompletes, Completed, session, queue, others, kernel, requests
  <2> QED
    BY <1>m, <2>1, <2>2, <2>3
<1>47. ASSUME NEW s \in Sockets, ServerDisconnects(s) PROVE OwnerInv(k)'
  <2>1. OwnersStay(k)
    BY <1>47, <1>a, <1>b, <1>c DEF ServerDisconnects, OwnersStay, Owns, Owning, threads, locals
  <2>2. iocp' = iocp
        /\ sends'[k] = sends[k] /\ IOMode'[k] = IOMode[k] /\ lBufferCount'[k] = lBufferCount[k]
    BY <1>47 DEF ServerDisconnects, session, queue, others, kernel, requests
  <2> QED
    BY <1>n, <2>1, <2>2
<1>48. CASE UNCHANGED vars
  <2>1. OwnersStay(k)
    BY <1>48, <1>a, <1>b, <1>c DEF vars, OwnersStay, Owns, Owning, threads, locals
  <2>2. iocp' = iocp
        /\ sends'[k] = sends[k] /\ IOMode'[k] = IOMode[k] /\ lBufferCount'[k] = lBufferCount[k]
    BY <1>48 DEF vars, session, queue, others, kernel, requests
  <2> QED
    BY <1>n, <2>1, <2>2
<1> QED
  BY <1>1, <1>2, <1>3, <1>4, <1>5, <1>6, <1>7, <1>8, <1>9, <1>10, <1>11, <1>12, <1>13,
     <1>14, <1>15, <1>16, <1>17, <1>18, <1>19, <1>20, <1>21, <1>22, <1>23, <1>24, <1>25,
     <1>26, <1>27, <1>28, <1>29, <1>30, <1>31, <1>32, <1>33, <1>34, <1>35, <1>36, <1>37,
     <1>38, <1>39, <1>40, <1>41, <1>42, <1>43, <1>44, <1>45, <1>46, <1>47, <1>48
  DEF Next, Thread, Post, SendPost, Release, Worker, Reconnect, StartAndStop, Kernel,
      Network, Over

-----------------------------------------------------------------------------
(* The inductive invariant.                                                  *)
IInv == TypeOK /\ ChanInv /\ QueueInv /\ ListInv /\ StoreInv

LEMMA InitInv == Init => IInv
<1> SUFFICES ASSUME Init PROVE IInv
  OBVIOUS
<1>a. /\ 0 \in 0 .. NumOfSession /\ 0 \in 0 .. MaxPackets /\ 0 \in 0 .. SendMax
      /\ 0 \in 0 .. MaxFaults /\ 0 \in Channels /\ Main \in Threads /\ Reconnecter \in Threads
  BY LanClientAssumption DEF Channels, Threads
<1>b. 0 \in 0 .. Cardinality(Workers) - 1
  <2>1. Cardinality(Workers) \in Nat \ {0}
    BY LanClientAssumption, FS_CardinalityType, FS_EmptySet
  <2> QED
    BY <2>1
<1>c. /\ DOMAIN pc = Threads /\ DOMAIN chan = Threads
      /\ \A t \in Threads : pc[t] \in {"start", "gqcs", "peek", "idle"} /\ chan[t] = 0
      /\ pc[Reconnecter] = "peek"
  <2>1. pc[Reconnecter] = "peek"
    BY <1>a, LanClientAssumption DEF Init
  <2> QED
    BY <2>1 DEF Init
<1>d. iocp = <<>> /\ DOMAIN iocp = {} /\ iocp \in Seq(Entries) /\ reconnectIdList \in Seq(Channels)
  BY DEF Init
<1>1. TypeOK
  <2>1. ThreadType
    <3>1. pc \in [Threads -> Pcs]
      BY <1>c, PcsHas DEF Init
    <3> QED
      BY <1>a, <3>1 DEF Init, ThreadType
  <2>2. ChannelType
    BY <1>a DEF Init, ChannelType
  <2>3. KernelType
    BY DEF Init, KernelType
  <2>4. ListType
    BY <1>d DEF ListType
  <2>5. ClientType
    BY <1>a, <1>b DEF Init, ClientType
  <2>6. HistoryType
    BY DEF Init, HistoryType
  <2> QED
    BY <2>1, <2>2, <2>3, <2>4, <2>5, <2>6, TypeParts
<1>2. ChanInv
  BY <1>a, <1>c DEF ChanInv
<1>3. QueueInv
  BY <1>c DEF Init, QueueInv
<1>4. ListInv
  BY <1>c DEF ListInv
<1>5. StoreInv
  <2> SUFFICES ASSUME NEW c \in Channels PROVE OwnerInv(c)
    BY DEF StoreInv
  <2>1. \A t \in Threads : ~Owns(t, c) /\ pc[t] \notin {"count", "wsasend"}
    BY <1>c DEF Owns, Owning
  <2>2. ~HasSent(c) /\ OneSent(c)
    BY <1>d DEF HasSent, OneSent
  <2>3. sends[c] = INVALID_SOCKET /\ IOMode[c] = "NONSENDING"
    BY DEF Init
  <2> QED
    BY <2>1, <2>2, <2>3 DEF OwnerInv, HasOwner
<1> QED
  BY <1>1, <1>2, <1>3, <1>4, <1>5 DEF IInv

LEMMA NextInv == IInv /\ [Next]_vars => IInv'
  BY TypeStep, ChanStep, QueueStep, ListStep, StoreStep DEF IInv

LEMMA AlwaysInv == Spec => []IInv
  BY InitInv, NextInv, PTL DEF Spec

(* Every variable keeps its type: nothing is written outside the channels,   *)
(* and no queue, store or count leaves its range, however the threads of     *)
(* CMultiLanClient are interleaved.                                          *)
THEOREM TypeCorrect == Spec => []TypeOK
<1>1. IInv => TypeOK
  BY DEF IInv
<1> QED
  BY <1>1, AlwaysInv, PTL

(* How many owners there are.                                                *)
LEMMA AtMostOne ==
    ASSUME NEW S, \A x, y \in S : x = y
    PROVE Cardinality(S) = IF S = {} THEN 0 ELSE 1
<1>1. CASE S = {}
  BY <1>1, FS_EmptySet
<1>2. CASE S # {}
  <2>1. PICK x : x \in S
    BY <1>2
  <2>2. S = {x}
    BY <2>1
  <2> QED
    BY <1>2, <2>2, FS_Singleton
<1> QED
  BY <1>1, <1>2

LEMMA SendersOf ==
    ASSUME NEW c \in Channels, TypeOK, OwnerInv(c)
    PROVE Senders(c) = (IF HasOwner(c) THEN 1 ELSE 0)
                       + (IF sends[c] = INVALID_SOCKET THEN 0 ELSE 1)
                       + (IF HasSent(c) THEN 1 ELSE 0)
<1> DEFINE A == {t \in Threads : chan[t] = c /\
                     pc[t] \in {"size", "unmark", "fill", "count", "wsasend", "sent"}}
           B == {i \in DOMAIN iocp : iocp[i] = [io |-> "send", chan |-> c]}
<1>1. (A = {} <=> ~HasOwner(c)) /\ \A x, y \in A : x = y
  BY DEF HasOwner, Owns, Owning, OwnerInv
<1>2. (B = {} <=> ~HasSent(c)) /\ \A x, y \in B : x = y
  BY DEF HasSent, Sent, OwnerInv, OneSent
<1>3. Senders(c) = Cardinality(A) + (IF sends[c] = INVALID_SOCKET THEN 0 ELSE 1) + Cardinality(B)
  BY DEF Senders
<1> HIDE DEF A, B
<1>4. /\ Cardinality(A) = IF HasOwner(c) THEN 1 ELSE 0
      /\ Cardinality(B) = IF HasSent(c) THEN 1 ELSE 0
  BY <1>1, <1>2, AtMostOne
<1> QED
  BY <1>3, <1>4

(* One sender at a time owns the store and the OVERLAPPED of a channel, from *)
(* the compare-exchange of SendPost to the completion, however many callers  *)
(* and workers enter SendPost; IOMode is NONSENDING only without an owner,   *)
(* and a channel that is SENDING with an empty store has one.                *)
THEOREM OneSenderOwns == Spec => []SendExclusive
<1>1. IInv => SendExclusive
  <2> SUFFICES ASSUME IInv, NEW c \in Channels
               PROVE /\ Senders(c) <= 1
                     /\ IOMode[c] = "NONSENDING" => Senders(c) = 0
                     /\ IOMode[c] = "SENDING" /\ lBufferCount[c] = 0 => Senders(c) = 1
    BY DEF SendExclusive
  <2>1. TypeOK /\ OwnerInv(c)
    BY DEF IInv, StoreInv
  <2>2. Senders(c) = (IF HasOwner(c) THEN 1 ELSE 0)
                     + (IF sends[c] = INVALID_SOCKET THEN 0 ELSE 1)
                     + (IF HasSent(c) THEN 1 ELSE 0)
    BY <2>1, SendersOf
  <2> QED
    BY <2>1, <2>2 DEF OwnerInv
<1> QED
  BY <1>1, AlwaysInv, PTL
=============================================================================
