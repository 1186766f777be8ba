------------------------ MODULE SessionReleaseProofs ------------------------
(* The release of a session is safe when packets are well formed and no      *)
(* thread but the session's own sends on it: nothing of it is with the       *)
(* kernel when ReleaseSession starts, and nothing is posted afterwards.  And *)
(* whoever sends, the count of a released session does not go below zero.    *)
EXTENDS SessionLifecycleProofs

(* The server as it is used by handlers that answer on their own session.    *)
WorkerOnly == Callers = {} /\ ~BadPackets

(* No thread keeps a session between two calls, and a packet is never bad;   *)
(* sends are made by handlers; IOCountDecrement reaches zero in no send.     *)
FlowInv ==
    /\ \A t \in Threads : pc[t] # "hold" /\ ~packetError[t]
    /\ \A t \in Threads : pc[t] \in SendPostPCs => ret[t] \in {"recvDone", "finish"}
    /\ \A t \in Threads : pc[t] \in ReleasePCs => ret[t] \in {"idle", "entered"}

(* A socket is closed before its session leaves the map, and is registered   *)
(* until then.                                                               *)
LiveInv ==
    /\ \A t \in Threads : pc[t] \in {"erase", "dereg"} => socket[session[t]] = "closed"
    /\ \A s \in Sessions : socket[s] \in {"open", "down"} => s \in registered /\ s \in Alive

(* Once the release of a session has begun, no request of it is with the     *)
(* kernel and no thread is on its way to post one.                           *)
Over(s) ==
    \/ socket[s] = "closed"
    \/ \E t \in Threads : session[t] = s /\ pc[t] \in ReleasePCs
OverPCs == {"idle", "recvInc", "recvPosted", "finish", "dec", "entered", "counted"}
             \cup ReleasePCs
OverInv ==
    \A s \in Sessions : Over(s) =>
        /\ \A c \in Contexts : context[c].st \in {"posted", "queued"} => context[c].owner # s
        /\ \A t \in Threads : session[t] = s => pc[t] \in OverPCs

ReleaseInv == IInv /\ FlowInv /\ LiveInv /\ OverInv
-----------------------------------------------------------------------------
(* A thread that works for a session without releasing it keeps it alive.    *)
LEMMA WorkKeepsAlive ==
    ASSUME ReleaseInv, NEW t \in Threads, session[t] \in Sessions, ~Over(session[t])
    PROVE  session[t] \in Alive
BY DEF ReleaseInv, IInv, TypeOK, SessionTypes, FreshInv, LiveInv, Over

(* The decrement that finds zero is the last handler's: the others have      *)
(* posted a receive that is not counted yet, and nothing is in flight.       *)
LEMMA LastDecrement ==
    ASSUME ReleaseInv, NEW t \in Threads, pc[t] \in {"dec", "sendDec"},
           ioCount[session[t]] = 1, ~Over(session[t])
    PROVE  /\ pc[t] = "dec"
           /\ Inflight(session[t]) = {}
           /\ \A u \in Handling(session[t]) \ {t} : pc[u] = "recvInc"
<1> DEFINE s == session[t]
           H == Handling(s)
           U == Uncounted(s)
           A == H \ U
<1>1. s \in Sessions
  BY DEF ReleaseInv, IInv, SessionInv
<1>2. s \in Alive
  BY <1>1, WorkKeepsAlive
<1>3. IsFiniteSet(H) /\ IsFiniteSet(U) /\ IsFiniteSet(Inflight(s)) /\ IsFiniteSet(Sending(s))
  BY CountsFinite
<1>4. U \subseteq H
  BY DEF Uncounted, Handling, Handles, HandlerPCs, RecvPostPCs
<1>5. t \in A
  <2>1. session[t] = s /\ pc[t] # "recvInc"
    OBVIOUS
  <2>2. Handles(t)
    BY DEF Handles, HandlerPCs, ReleaseInv, FlowInv, SendPostPCs
  <2> QED
    BY <2>1, <2>2 DEF Handling, Uncounted
<1>6. /\ IsFiniteSet(A) /\ Cardinality(A) \in Nat /\ Cardinality(U) \in Nat
      /\ Cardinality(H) = Cardinality(A) + Cardinality(U)
  <2> HIDE DEF H, U
  <2>1. IsFiniteSet(A) /\ Cardinality(A) = Cardinality(H) - Cardinality(H \cap U)
    BY <1>3, FS_Difference
  <2>2. Cardinality(H \cap U) = Cardinality(U)
    <3>1. H \cap U = U
      BY <1>4
    <3> QED
      BY <3>1
  <2>3. Cardinality(A) \in Nat /\ Cardinality(U) \in Nat /\ Cardinality(H) \in Nat
    BY <1>3, <2>1, FS_CardinalityType
  <2> HIDE DEF A
  <2> QED
    BY <2>1, <2>2, <2>3
<1> HIDE DEF A, H, U
<1>7. 1 = Cardinality(Inflight(s)) + Cardinality(A) + Cardinality(Sending(s))
  <2>1. 1 + Cardinality(U) = Cardinality(Inflight(s)) + Cardinality(H) + Cardinality(Sending(s))
    BY <1>2 DEF ReleaseInv, IInv, IOCountAccounting, H, U
  <2>2. Cardinality(Inflight(s)) \in Nat /\ Cardinality(Sending(s)) \in Nat
    BY <1>3, FS_CardinalityType
  <2> QED
    BY <1>6, <2>1, <2>2
<1>8. Cardinality(A) # 0
  BY <1>5, <1>6, FS_EmptySet
<1>9. /\ Cardinality(Inflight(s)) = 0 /\ Cardinality(Sending(s)) = 0 /\ Cardinality(A) = 1
  <2>1. Cardinality(Inflight(s)) \in Nat /\ Cardinality(Sending(s)) \in Nat
    BY <1>3, FS_CardinalityType
  <2> QED
    BY <1>6, <1>7, <1>8, <2>1
<1>10. Inflight(s) = {} /\ Sending(s) = {}
  BY <1>3, <1>9, FS_EmptySet
<1>11. A = {t}
  BY <1>5, <1>6, <1>9, FS_Singleton
<1>12. pc[t] = "dec"
  BY <1>10 DEF Sending
<1>13. \A u \in H \ {t} : pc[u] = "recvInc"
  BY <1>11 DEF A, U, Uncounted
<1> QED
  BY <1>10, <1>12, <1>13 DEF H

(* Who releases a session returns to its main loop or to MakeNewSession.     *)
LEMMA FlowStep ==
    ASSUME WorkerOnly, ReleaseInv, [Next]_vars
    PROVE  FlowInv'
<1>i. TypeOK /\ ReturnInv /\ FlowInv
  BY DEF ReleaseInv, IInv
<1> USE DEF SendPostPCs, ReleasePCs
<1> USE ThreadsFacts
    DEF sessionVars, tableVars, ioVars, localVars, Goto, Return, TypeOK, LocalTypes
<1>1. ASSUME CountInWorker PROVE FlowInv'
  BY <1>1, <1>i DEF CountInWorker, FlowInv, ReturnInv
<1>2. ASSUME Emplace PROVE FlowInv'
  BY <1>2, <1>i DEF Emplace, FlowInv, ReturnInv
<1>3. ASSUME OnSessionEntered PROVE FlowInv'
  BY <1>3, <1>i DEF OnSessionEntered, FlowInv, ReturnInv
<1>4. ASSUME CountSession PROVE FlowInv'
  BY <1>4, <1>i DEF CountSession, FlowInv, ReturnInv
<1>5. ASSUME NEW t \in Threads, NEW c \in Contexts, RIOReceive(t, c) PROVE FlowInv'
  BY <1>5, <1>i DEF RIOReceive, Alloc, FlowInv, ReturnInv
<1>6. ASSUME NEW t \in Threads, NEW c \in Contexts, RIOReceiveFails(t, c) PROVE FlowInv'
  BY <1>6, <1>i DEF RIOReceiveFails, Leak, FlowInv, ReturnInv
<1>7. ASSUME NEW t \in Threads, NEW c \in Contexts, RIOSend(t, c) PROVE FlowInv'
  BY <1>7, <1>i DEF RIOSend, Alloc, FlowInv, ReturnInv
<1>8. ASSUME NEW t \in Threads, NEW c \in Contexts, RIOSendFails(t, c) PROVE FlowInv'
  BY <1>8, <1>i DEF RIOSendFails, Leak, FlowInv, ReturnInv
<1>9. ASSUME NEW t \in Threads, RecvPostIncrement(t) PROVE FlowInv'
  BY <1>9, <1>i DEF RecvPostIncrement, FlowInv, ReturnInv
<1>10. ASSUME NEW t \in Threads, RecvPostReturns(t) PROVE FlowInv'
  BY <1>10, <1>i DEF RecvPostReturns, FlowInv, ReturnInv
<1>11. ASSUME NEW t \in Threads, SendPostReturns(t) PROVE FlowInv'
  BY <1>11, <1>i DEF SendPostReturns, FlowInv, ReturnInv
<1>12. ASSUME NEW t \in Threads, SendPostClaims(t) PROVE FlowInv'
  BY <1>12, <1>i DEF SendPostClaims, FlowInv, ReturnInv
<1>13. ASSUME NEW t \in Threads, SendPostIncrement(t) PROVE FlowInv'
  BY <1>13, <1>i DEF SendPostIncrement, FlowInv, ReturnInv
<1>14. ASSUME NEW t \in Threads, IOCountDecrement(t) PROVE FlowInv'
  <2>1. ioCount[session[t]] \in Int
    BY <1>14, <1>i DEF IOCountDecrement, SessionTypes, ReleaseInv, IInv, SessionInv
  <2>2. CASE pc[t] = "sendDec"
    <3>1. ~Over(session[t])
      BY <1>14, <2>2 DEF IOCountDecrement, ReleaseInv, IInv, SessionInv, OverInv, OverPCs
    <3>2. ioCount[session[t]] # 1
      BY <2>2, <3>1, LastDecrement
    <3>3. Return(t)
      BY <1>14, <2>1, <3>2 DEF IOCountDecrement
    <3> QED
      BY <1>14, <1>i, <2>2, <3>3 DEF IOCountDecrement, FlowInv
  <2>3. CASE pc[t] = "dec"
    BY <1>14, <1>i, <2>3 DEF IOCountDecrement, FlowInv, ReturnInv
  <2> QED
    BY <1>14, <2>2, <2>3 DEF IOCountDecrement
<1>15. ASSUME NEW t \in Threads, OnSessionLeaved(t) PROVE FlowInv'
  BY <1>15, <1>i DEF OnSessionLeaved, FlowInv, ReturnInv
<1>16. ASSUME NEW t \in Threads, CloseSocket(t) PROVE FlowInv'
  BY <1>16, <1>i DEF CloseSocket, FlowInv, ReturnInv
<1>17. ASSUME NEW t \in Threads, EraseSession(t) PROVE FlowInv'
  BY <1>17, <1>i DEF EraseSession, FlowInv, ReturnInv
<1>18. ASSUME NEW t \in Threads, OnSessionReleased(t) PROVE FlowInv'
  BY <1>18, <1>i DEF OnSessionReleased, FlowInv, ReturnInv
<1>19. ASSUME NEW t \in Threads, DropSession(t) PROVE FlowInv'
  BY <1>19, <1>i DEF DropSession, FlowInv, ReturnInv
<1>20. ASSUME NEW w \in Workers, DropCompletion(w) PROVE FlowInv'
  BY <1>20, <1>i DEF DropCompletion, FreeContext, FlowInv, ReturnInv
<1>21. ASSUME NEW w \in Workers, ZeroCompletion(w) PROVE FlowInv'
  BY <1>21, <1>i DEF ZeroCompletion, FreeContext, FlowInv, ReturnInv
<1>22. ASSUME NEW w \in Workers, NEW n \in 0 .. MaxBatch, IOCompleted(w, n) PROVE FlowInv'
  BY <1>22, <1>i DEF IOCompleted, FlowInv, ReturnInv
<1>23. ASSUME NEW w \in Workers, PacketIgnored(w) PROVE FlowInv'
  BY <1>23, <1>i DEF PacketIgnored, FlowInv, ReturnInv
<1>24. ASSUME NEW w \in Workers, NEW d \in BOOLEAN, PacketAnswered(w, d) PROVE FlowInv'
  BY <1>24, <1>i DEF PacketAnswered, Enqueue, FlowInv, ReturnInv
<1>25. ASSUME NEW w \in Workers, PacketBad(w) PROVE FlowInv'
  BY <1>25, <1>i, WorkerOnly DEF PacketBad, FlowInv, ReturnInv, WorkerOnly
<1>26. ASSUME NEW w \in Workers, RecvCompleted(w) PROVE FlowInv'
  BY <1>26, <1>i DEF RecvCompleted, FlowInv, ReturnInv
<1>27. ASSUME NEW w \in Workers, SendIOCompleted(w) PROVE FlowInv'
  BY <1>27, <1>i DEF SendIOCompleted, FlowInv, ReturnInv
<1>28. ASSUME NEW w \in Workers, SendCompleted(w) PROVE FlowInv'
  BY <1>28, <1>i DEF SendCompleted, Disconnect, FlowInv, ReturnInv
<1>29. ASSUME NEW w \in Workers, FreeIOContext(w) PROVE FlowInv'
  BY <1>29, <1>i DEF FreeIOContext, FreeContext, FlowInv, ReturnInv
<1>30. ASSUME NEW t \in Callers, NEW s \in Sessions, GetSession(t, s) PROVE FlowInv'
  BY <1>30 DEF WorkerOnly
<1>31. ASSUME NEW t \in Callers, NEW d \in BOOLEAN, SendPacket(t, d) PROVE FlowInv'
  BY <1>31 DEF WorkerOnly
<1>32. ASSUME NEW t \in Callers, NEW s \in Sessions, CallDisconnect(t, s) PROVE FlowInv'
  BY <1>32 DEF WorkerOnly
<1>33. ASSUME NEW s \in Sessions, NEW w \in Workers, Accept(s, w) PROVE FlowInv'
  BY <1>33, <1>i DEF Accept, InitSession, FlowInv, ReturnInv
<1>34. ASSUME NEW s \in Sessions, AcceptFails(s) PROVE FlowInv'
  BY <1>34, <1>i DEF AcceptFails, FlowInv, ReturnInv
<1>35. ASSUME NEW s \in Sessions, ClientCloses(s) PROVE FlowInv'
  BY <1>35, <1>i DEF ClientCloses, FlowInv, ReturnInv
<1>36. ASSUME NEW c \in Contexts, CompleteData(c) PROVE FlowInv'
  BY <1>36, <1>i DEF CompleteData, Complete, FlowInv, ReturnInv
<1>37. ASSUME NEW c \in Contexts, CompleteZero(c) PROVE FlowInv'
  BY <1>37, <1>i DEF CompleteZero, Complete, FlowInv, ReturnInv
<1>38. ASSUME UNCHANGED vars PROVE FlowInv'
  BY <1>38, <1>i DEF vars, FlowInv, ReturnInv
<1> QED
  BY <1>1, <1>2, <1>3, <1>4, <1>5, <1>6, <1>7, <1>8, <1>9, <1>10, <1>11, <1>12, <1>13,
     <1>14, <1>15, <1>16, <1>17, <1>18, <1>19, <1>20, <1>21, <1>22, <1>23, <1>24, <1>25,
     <1>26, <1>27, <1>28, <1>29, <1>30, <1>31, <1>32, <1>33, <1>34, <1>35, <1>36, <1>37,
     <1>38
  DEF Next, ThreadStep, AccepterStep, PostStep, ReleaseStep, WorkerStep, CallerStep,
      Environment, Poll

(* The socket of a session in use is open, its buffers are registered, and   *)
(* it can be looked up.                                                      *)
LEMMA LiveStep ==
    ASSUME WorkerOnly, ReleaseInv, [Next]_vars
    PROVE  LiveInv'
<1>i. TypeOK /\ ReturnInv /\ FlowInv /\ LiveInv /\ SessionInv /\ FreshInv
  BY DEF ReleaseInv, IInv
<1> USE DEF Alive, SessionTypes, TableTypes
<1> USE ThreadsFacts
    DEF sessionVars, tableVars, ioVars, localVars, Goto, Return, TypeOK, LocalTypes
<1>1. ASSUME CountInWorker PROVE LiveInv'
  BY <1>1, <1>i DEF CountInWorker, LiveInv, SessionInv
<1>2. ASSUME Emplace PROVE LiveInv'
  BY <1>2, <1>i DEF Emplace, LiveInv, SessionInv
<1>3. ASSUME OnSessionEntered PROVE LiveInv'
  BY <1>3, <1>i DEF OnSessionEntered, LiveInv, SessionInv
<1>4. ASSUME CountSession PROVE LiveInv'
  BY <1>4, <1>i DEF CountSession, LiveInv, SessionInv
<1>5. ASSUME NEW t \in Threads, NEW c \in Contexts, RIOReceive(t, c) PROVE LiveInv'
  BY <1>5, <1>i DEF RIOReceive, Alloc, LiveInv, SessionInv
<1>6. ASSUME NEW t \in Threads, NEW c \in Contexts, RIOReceiveFails(t, c) PROVE LiveInv'
  BY <1>6, <1>i DEF RIOReceiveFails, Leak, LiveInv, SessionInv
<1>7. ASSUME NEW t \in Threads, NEW c \in Contexts, RIOSend(t, c) PROVE LiveInv'
  BY <1>7, <1>i DEF RIOSend, Alloc, LiveInv, SessionInv
<1>8. ASSUME NEW t \in Threads, NEW c \in Contexts, RIOSendFails(t, c) PROVE LiveInv'
  BY <1>8, <1>i DEF RIOSendFails, Leak, LiveInv, SessionInv
<1>9. ASSUME NEW t \in Threads, RecvPostIncrement(t) PROVE LiveInv'
  BY <1>9, <1>i DEF RecvPostIncrement, LiveInv, SessionInv
<1>10. ASSUME NEW t \in Threads, RecvPostReturns(t) PROVE LiveInv'
  BY <1>10, <1>i DEF RecvPostReturns, LiveInv, SessionInv
<1>11. ASSUME NEW t \in Threads, SendPostReturns(t) PROVE LiveInv'
  BY <1>11, <1>i DEF SendPostReturns, LiveInv, SessionInv
<1>12. ASSUME NEW t \in Threads, SendPostClaims(t) PROVE LiveInv'
  BY <1>12, <1>i DEF SendPostClaims, LiveInv, SessionInv
<1>13. ASSUME NEW t \in Threads, SendPostIncrement(t) PROVE LiveInv'
  BY <1>13, <1>i DEF SendPostIncrement, LiveInv, SessionInv
<1>14. ASSUME NEW t \in Threads, IOCountDecrement(t) PROVE LiveInv'
  BY <1>14, <1>i DEF IOCountDecrement, LiveInv, SessionInv
<1>15. ASSUME NEW t \in Threads, OnSessionLeaved(t) PROVE LiveInv'
  BY <1>15, <1>i DEF OnSessionLeaved, LiveInv, SessionInv
<1>16. ASSUME NEW t \in Threads, CloseSocket(t) PROVE LiveInv'
  BY <1>16, <1>i DEF CloseSocket, LiveInv, SessionInv
<1>17. ASSUME NEW t \in Threads, EraseSession(t) PROVE LiveInv'
  BY <1>17, <1>i DEF EraseSession, LiveInv, SessionInv
<1>18. ASSUME NEW t \in Threads, OnSessionReleased(t) PROVE LiveInv'
  BY <1>18, <1>i DEF OnSessionReleased, LiveInv, SessionInv
<1>19. ASSUME NEW t \in Threads, DropSession(t) PROVE LiveInv'
  BY <1>19, <1>i DEF DropSession, LiveInv, SessionInv
<1>20. ASSUME NEW w \in Workers, DropCompletion(w) PROVE LiveInv'
  BY <1>20, <1>i DEF DropCompletion, FreeContext, LiveInv, SessionInv
<1>21. ASSUME NEW w \in Workers, ZeroCompletion(w) PROVE LiveInv'
  BY <1>21, <1>i, SMTT(30) DEF ZeroCompletion, FreeContext, LiveInv, SessionInv
<1>22. ASSUME NEW w \in Workers, NEW n \in 0 .. MaxBatch, IOCompleted(w, n) PROVE LiveInv'
  <2>1. /\ pc'[w] \in {"recvDone", "sendDone"}
        /\ \A t \in Threads \ {w} : pc'[t] = pc[t] /\ session'[t] = session[t]
    BY <1>22, <1>i DEF IOCompleted
  <2>2. UNCHANGED <<socket, registered, sessionMap>> /\ w # Accepter
    BY <1>22, ThreadsAssumption DEF IOCompleted
  <2> QED
    BY <1>i, <2>1, <2>2 DEF LiveInv
<1>23. ASSUME NEW w \in Workers, PacketIgnored(w) PROVE LiveInv'
  BY <1>23, <1>i DEF PacketIgnored, LiveInv, SessionInv
<1>24. ASSUME NEW w \in Workers, NEW d \in BOOLEAN, PacketAnswered(w, d) PROVE LiveInv'
  BY <1>24, <1>i DEF PacketAnswered, Enqueue, LiveInv, SessionInv
<1>25. ASSUME NEW w \in Workers, PacketBad(w) PROVE LiveInv'
  BY <1>25, <1>i DEF PacketBad, LiveInv, SessionInv
<1>26. ASSUME NEW w \in Workers, RecvCompleted(w) PROVE LiveInv'
  BY <1>26, <1>i DEF RecvCompleted, LiveInv, SessionInv
<1>27. ASSUME NEW w \in Workers, SendIOCompleted(w) PROVE LiveInv'
  BY <1>27, <1>i DEF SendIOCompleted, LiveInv, SessionInv
<1>28. ASSUME NEW w \in Workers, SendCompleted(w) PROVE LiveInv'
  BY <1>28, <1>i DEF SendCompleted, Disconnect, LiveInv, SessionInv
<1>29. ASSUME NEW w \in Workers, FreeIOContext(w) PROVE LiveInv'
  BY <1>29, <1>i DEF FreeIOContext, FreeContext, LiveInv, SessionInv
<1>30. ASSUME NEW t \in Callers, NEW s \in Sessions, GetSession(t, s) PROVE LiveInv'
  BY <1>30, <1>i DEF GetSession, LiveInv, SessionInv
<1>31. ASSUME NEW t \in Callers, NEW d \in BOOLEAN, SendPacket(t, d) PROVE LiveInv'
  BY <1>31, <1>i DEF SendPacket, Enqueue, LiveInv, SessionInv
<1>32. ASSUME NEW t \in Callers, NEW s \in Sessions, CallDisconnect(t, s) PROVE LiveInv'
  BY <1>32, <1>i DEF CallDisconnect, Disconnect, LiveInv, SessionInv
<1>33. ASSUME NEW s \in Sessions, NEW w \in Workers, Accept(s, w) PROVE LiveInv'
  BY <1>33, <1>i DEF Accept, InitSession, LiveInv, SessionInv
<1>34. ASSUME NEW s \in Sessions, AcceptFails(s) PROVE LiveInv'
  BY <1>34, <1>i DEF AcceptFails, LiveInv, SessionInv
<1>35. ASSUME NEW s \in Sessions, ClientCloses(s) PROVE LiveInv'
  BY <1>35, <1>i DEF ClientCloses, LiveInv, SessionInv
<1>36. ASSUME NEW c \in Contexts, CompleteData(c) PROVE LiveInv'
  BY <1>36, <1>i DEF CompleteData, Complete, LiveInv, SessionInv
<1>37. ASSUME NEW c \in Contexts, CompleteZero(c) PROVE LiveInv'
  BY <1>37, <1>i DEF CompleteZero, Complete, LiveInv, SessionInv
<1>38. ASSUME UNCHANGED vars PROVE LiveInv'
  BY <1>38, <1>i DEF vars, LiveInv, SessionInv
<1> QED
  BY <1>1, <1>2, <1>3, <1>4, <1>5, <1>6, <1>7, <1>8, <1>9, <1>10, <1>11, <1>12, <1>13,
     <1>14, <1>15, <1>16, <1>17, <1>18, <1>19, <1>20, <1>21, <1>22, <1>23, <1>24, <1>25,
     <1>26, <1>27, <1>28, <1>29, <1>30, <1>31, <1>32, <1>33, <1>34, <1>35, <1>36, <1>37,
     <1>38
  DEF Next, ThreadStep, AccepterStep, PostStep, ReleaseStep, WorkerStep, CallerStep,
      Environment, Poll

(* What a step that begins no release must leave alone.                      *)
LEMMA OverFrame ==
    ASSUME OverInv,
           \A s \in Sessions : Over(s)' => Over(s),
           \A s \in Sessions, c \in Contexts :
               Over(s) /\ context'[c].st \in {"posted", "queued"} /\ context'[c].owner = s
                   => context[c].st \in {"posted", "queued"} /\ context[c].owner = s,
           \A s \in Sessions, t \in Threads :
               Over(s) /\ session'[t] = s
                   => session[t] = s /\ (pc[t] \in OverPCs => pc'[t] \in OverPCs)
    PROVE  OverInv'
<1> SUFFICES ASSUME NEW s \in Sessions, Over(s)'
             PROVE  /\ \A c \in Contexts : context'[c].st \in {"posted", "queued"}
                                            => context'[c].owner # s
                    /\ \A t \in Threads : session'[t] = s => pc'[t] \in OverPCs
  BY DEF OverInv, OverPCs
<1> QED
  BY DEF OverInv

(* A release begins with the last decrement, and from then on nothing is     *)
(* posted.                                                                   *)
LEMMA OverStep ==
    ASSUME WorkerOnly, ReleaseInv, [Next]_vars
    PROVE  OverInv'
<1>i. /\ TypeOK /\ QueueInv /\ ReturnInv /\ SessionInv /\ FreshInv
      /\ FlowInv /\ LiveInv /\ OverInv
  BY DEF ReleaseInv, IInv
<1> USE DEF Over, OverPCs, ReleasePCs, SessionTypes
<1> USE ThreadsFacts
    DEF sessionVars, tableVars, ioVars, localVars, Goto, Return, TypeOK, LocalTypes
<1>1. ASSUME CountInWorker PROVE OverInv'
  BY <1>1, <1>i DEF CountInWorker, OverInv, SessionInv, IOTypes
<1>2. ASSUME Emplace PROVE OverInv'
  BY <1>2, <1>i DEF Emplace, OverInv, SessionInv, IOTypes
<1>3. ASSUME OnSessionEntered PROVE OverInv'
  BY <1>3, <1>i DEF OnSessionEntered, OverInv, SessionInv, IOTypes
<1>4. ASSUME CountSession PROVE OverInv'
  BY <1>4, <1>i DEF CountSession, OverInv, SessionInv, IOTypes
<1>5. ASSUME NEW t \in Threads, NEW c \in Contexts, RIOReceive(t, c) PROVE OverInv'
  <2>1. session[t] \in Sessions /\ ~Over(session[t])
    BY <1>5, <1>i DEF RIOReceive, OverInv, SessionInv
  <2>2. \A d \in Contexts : context'[d] # context[d] => context'[d].owner = session[t]
    BY <1>5, <1>i DEF RIOReceive, Alloc, IOTypes
  <2>3. pc' = [pc EXCEPT ![t] = "recvInc"] /\ UNCHANGED <<socket, session>>
    BY <1>5 DEF RIOReceive
  <2> QED
    BY <1>i, <2>1, <2>2, <2>3, OverFrame
<1>6. ASSUME NEW t \in Threads, NEW c \in Contexts, RIOReceiveFails(t, c) PROVE OverInv'
  BY <1>6, <1>i DEF RIOReceiveFails, Leak, OverInv, SessionInv, IOTypes
<1>7. ASSUME NEW t \in Threads, NEW c \in Contexts, RIOSend(t, c) PROVE OverInv'
  <2>1. session[t] \in Sessions /\ ~Over(session[t])
    BY <1>7, <1>i DEF RIOSend, OverInv, SessionInv
  <2>2. \A d \in Contexts : context'[d] # context[d] => context'[d].owner = session[t]
    BY <1>7, <1>i DEF RIOSend, Alloc, IOTypes
  <2>3. pc' = [pc EXCEPT ![t] = "sendPost"] /\ UNCHANGED <<socket, session>>
    BY <1>7 DEF RIOSend
  <2> QED
    BY <1>i, <2>1, <2>2, <2>3, OverFrame
<1>8. ASSUME NEW t \in Threads, NEW c \in Contexts, RIOSendFails(t, c) PROVE OverInv'
  BY <1>8, <1>i, SMTT(30) DEF RIOSendFails, Leak, OverInv, SessionInv, IOTypes
<1>9. ASSUME NEW t \in Threads, RecvPostIncrement(t) PROVE OverInv'
  BY <1>9, <1>i DEF RecvPostIncrement, OverInv, SessionInv, IOTypes
<1>10. ASSUME NEW t \in Threads, RecvPostReturns(t) PROVE OverInv'
  <2>1. /\ pc' = [pc EXCEPT ![t] = "dec"] \/ pc' = [pc EXCEPT ![t] = "finish"]
        /\ UNCHANGED <<socket, session, context>>
    BY <1>10, <1>i DEF RecvPostReturns, FlowInv
  <2> QED
    BY <1>i, <2>1, OverFrame
<1>11. ASSUME NEW t \in Threads, SendPostReturns(t) PROVE OverInv'
  BY <1>11, <1>i DEF SendPostReturns, OverInv, SessionInv, IOTypes
<1>12. ASSUME NEW t \in Threads, SendPostClaims(t) PROVE OverInv'
  BY <1>12, <1>i, SMTT(30) DEF SendPostClaims, OverInv, SessionInv, IOTypes
<1>13. ASSUME NEW t \in Threads, SendPostIncrement(t) PROVE OverInv'
  BY <1>13, <1>i DEF SendPostIncrement, OverInv, SessionInv, IOTypes
<1>14. ASSUME NEW t \in Threads, IOCountDecrement(t) PROVE OverInv'
  <2>1. session[t] \in Sessions /\ ioCount[session[t]] \in Int
    BY <1>14, <1>i DEF IOCountDecrement, SessionInv
  <2>2. UNCHANGED <<socket, context>>
    BY <1>14 DEF IOCountDecrement
  <2>3. CASE Return(t)
    <3>1. pc[t] = "sendDec" => ~Over(session[t])
      BY <1>i, <2>1 DEF OverInv
    <3>2. pc[t] = "dec" => ret[t] \in {"idle", "entered"}
      BY <1>i DEF ReturnInv
    <3>3. /\ pc' = [pc EXCEPT ![t] = ret[t]]
          /\ \A u \in Threads : session'[u] \in {session[u], NoSession}
      BY <1>i, <2>3
    <3> QED
      BY <1>14, <1>i, <2>1, <2>2, <2>3, <3>1, <3>2, <3>3, OverFrame, SessionsAssumption
      DEF IOCountDecrement, FlowInv, SendPostPCs
  <2>4. CASE ioCount[session[t]] = 1 /\ Goto(t, "leave") /\ Over(session[t])
    BY <1>i, <2>2, <2>4, OverFrame
  <2>5. CASE ioCount[session[t]] = 1 /\ Goto(t, "leave") /\ ~Over(session[t])
    <3>1. /\ pc[t] = "dec" /\ Inflight(session[t]) = {}
          /\ \A u \in Handling(session[t]) \ {t} : pc[u] = "recvInc"
      BY <1>14, <2>5, LastDecrement DEF IOCountDecrement
    <3>2. ASSUME NEW u \in Threads \ {t}, session[u] = session[t]
          PROVE  pc[u] \in OverPCs
      <4>1. CASE Handles(u)
        BY <3>1, <3>2, <4>1 DEF Handling
      <4>2. CASE ~Handles(u)
        <5>1. pc[u] \in PCs /\ pc[u] # "hold"
          BY <1>i DEF FlowInv
        <5>2. pc[u] \notin SendPostPCs
          BY <1>i, <4>2 DEF Handles, FlowInv
        <5> QED
          BY <4>2, <5>1, <5>2
          DEF Handles, HandlerPCs, PCs, SessionPCs, RecvPostPCs, CompletionPCs
      <4> QED
        BY <4>1, <4>2
    <3>3. pc' = [pc EXCEPT ![t] = "leave"] /\ session' = session
      BY <2>5
    <3>4. \A c \in Contexts : context[c].st \in {"posted", "queued"}
                                  => context[c].owner # session[t]
      BY <3>1 DEF Inflight
    <3>5. \A s \in Sessions \ {session[t]} : Over(s)' => Over(s)
      BY <1>i, <2>2, <3>3
    <3> QED
      <4> SUFFICES ASSUME NEW s \in Sessions, Over(s)'
                   PROVE  /\ \A c \in Contexts : context[c].st \in {"posted", "queued"}
                                                     => context[c].owner # s
                          /\ \A u \in Threads : session[u] = s => pc'[u] \in OverPCs
        BY <2>2, <3>3 DEF OverInv
      <4>1. CASE s = session[t]
        BY <1>i, <3>2, <3>3, <3>4, <4>1
      <4>2. CASE s # session[t]
        BY <1>i, <3>3, <3>5, <4>2 DEF OverInv
      <4> QED
        BY <4>1, <4>2
  <2> QED
    BY <1>14, <2>1, <2>3, <2>4, <2>5 DEF IOCountDecrement
<1>15. ASSUME NEW t \in Threads, OnSessionLeaved(t) PROVE OverInv'
  BY <1>15, <1>i DEF OnSessionLeaved, OverInv, SessionInv, IOTypes
<1>16. ASSUME NEW t \in Threads, CloseSocket(t) PROVE OverInv'
  <2>1. /\ socket' = [socket EXCEPT ![session[t]] = "closed"]
        /\ pc[t] = "close" /\ pc' = [pc EXCEPT ![t] = "erase"]
        /\ UNCHANGED <<context, session>>
    BY <1>16 DEF CloseSocket
  <2>2. \A s \in Sessions : Over(s)' => Over(s)
    BY <1>i, <2>1
  <2> QED
    BY <1>i, <2>1, <2>2, OverFrame
<1>17. ASSUME NEW t \in Threads, EraseSession(t) PROVE OverInv'
  BY <1>17, <1>i DEF EraseSession, OverInv, SessionInv, IOTypes
<1>18. ASSUME NEW t \in Threads, OnSessionReleased(t) PROVE OverInv'
  <2>1. /\ pc[t] = "dereg" /\ pc' = [pc EXCEPT ![t] = ret[t]]
        /\ \A u \in Threads : session'[u] \in {session[u], NoSession}
        /\ UNCHANGED <<context, socket>>
    BY <1>18, <1>i DEF OnSessionReleased
  <2>2. ret[t] \in {"idle", "entered"}
    BY <1>i, <2>1 DEF FlowInv
  <2> QED
    BY <1>i, <2>1, <2>2, OverFrame, SessionsAssumption
<1>19. ASSUME NEW t \in Threads, DropSession(t) PROVE OverInv'
  BY <1>19, <1>i DEF DropSession, OverInv, SessionInv, IOTypes
<1>20. ASSUME NEW w \in Workers, DropCompletion(w) PROVE OverInv'
  BY <1>20, <1>i, HeadFacts, SMTT(30) DEF DropCompletion, FreeContext, OverInv, SessionInv, IOTypes
<1>21. ASSUME NEW w \in Workers, ZeroCompletion(w) PROVE OverInv'
  <2>1. PICK c \in Contexts : c = Dequeued(w)
    BY <1>21, <1>i, HeadFacts DEF ZeroCompletion
  <2>2. context[c].st = "queued" /\ context[c].owner \in Sessions
    BY <1>21, <1>i, <2>1, HeadQueued DEF ZeroCompletion, TableTypes
  <2>3. ~Over(context[c].owner)
    BY <1>i, <2>2 DEF OverInv
  <2>4. \A d \in Contexts : context'[d].st \in {"posted", "queued"} => context'[d] = context[d]
    <3>1. context' = [context EXCEPT ![c] = FreeContext]
      BY <1>21, <2>1 DEF ZeroCompletion
    <3> QED
      BY <1>i, <3>1 DEF FreeContext, IOTypes
  <2>5. /\ pc'[w] \in {"dec"} /\ session'[w] = context[c].owner
        /\ \A t \in Threads \ {w} : pc'[t] = pc[t] /\ session'[t] = session[t]
        /\ UNCHANGED socket
    BY <1>21, <1>i, <2>1 DEF ZeroCompletion
  <2> QED
    BY <1>i, <2>2, <2>3, <2>4, <2>5, OverFrame
<1>22. ASSUME NEW w \in Workers, NEW n \in 0 .. MaxBatch, IOCompleted(w, n) PROVE OverInv'
  <2>1. PICK c \in Contexts : c = Dequeued(w)
    BY <1>22, <1>i, HeadFacts DEF IOCompleted
  <2>2. context[c].st = "queued" /\ context[c].owner \in Sessions
    BY <1>22, <1>i, <2>1, HeadQueued DEF IOCompleted, TableTypes
  <2>3. ~Over(context[c].owner)
    BY <1>i, <2>2 DEF OverInv
  <2>4. \A d \in Contexts : context'[d].st \in {"posted", "queued"} => context'[d] = context[d]
    <3>1. context' = [context EXCEPT ![c].st = "held"]
      BY <1>22, <2>1 DEF IOCompleted
    <3> QED
      BY <1>i, <3>1 DEF FreeContext, IOTypes
  <2>5. /\ pc'[w] \in {"recvDone", "sendDone"} /\ session'[w] = context[c].owner
        /\ \A t \in Threads \ {w} : pc'[t] = pc[t] /\ session'[t] = session[t]
        /\ UNCHANGED socket
    BY <1>22, <1>i, <2>1 DEF IOCompleted
  <2> QED
    BY <1>i, <2>2, <2>3, <2>4, <2>5, OverFrame
<1>23. ASSUME NEW w \in Workers, PacketIgnored(w) PROVE OverInv'
  BY <1>23, <1>i DEF PacketIgnored, OverInv, SessionInv, IOTypes
<1>24. ASSUME NEW w \in Workers, NEW d \in BOOLEAN, PacketAnswered(w, d) PROVE OverInv'
  BY <1>24, <1>i, SMTT(30) DEF PacketAnswered, Enqueue, OverInv, SessionInv, IOTypes
<1>25. ASSUME NEW w \in Workers, PacketBad(w) PROVE OverInv'
  BY <1>25, <1>i DEF PacketBad, OverInv, SessionInv, IOTypes
<1>26. ASSUME NEW w \in Workers, RecvCompleted(w) PROVE OverInv'
  BY <1>26, <1>i DEF RecvCompleted, OverInv, SessionInv, IOTypes
<1>27. ASSUME NEW w \in Workers, SendIOCompleted(w) PROVE OverInv'
  BY <1>27, <1>i DEF SendIOCompleted, OverInv, SessionInv, IOTypes
<1>28. ASSUME NEW w \in Workers, SendCompleted(w) PROVE OverInv'
  <2>1. session[w] \in Sessions /\ ~Over(session[w])
    BY <1>28, <1>i DEF SendCompleted, OverInv, SessionInv
  <2>2. /\ \A s \in Sessions : socket'[s] = "closed" => socket[s] = "closed"
        /\ pc'[w] \in {"finish", "sendPost"}
        /\ \A t \in Threads \ {w} : pc'[t] = pc[t]
        /\ UNCHANGED <<session, context>>
    BY <1>28, <1>i DEF SendCompleted, Disconnect
  <2> QED
    BY <1>i, <2>1, <2>2, OverFrame
<1>29. ASSUME NEW w \in Workers, FreeIOContext(w) PROVE OverInv'
  BY <1>29, <1>i DEF FreeIOContext, FreeContext, OverInv, SessionInv, IOTypes
<1>30. ASSUME NEW t \in Callers, NEW s \in Sessions, GetSession(t, s) PROVE OverInv'
  BY <1>30 DEF WorkerOnly
<1>31. ASSUME NEW t \in Callers, NEW d \in BOOLEAN, SendPacket(t, d) PROVE OverInv'
  BY <1>31 DEF WorkerOnly
<1>32. ASSUME NEW t \in Callers, NEW s \in Sessions, CallDisconnect(t, s) PROVE OverInv'
  BY <1>32 DEF WorkerOnly
<1>33. ASSUME NEW s \in Sessions, NEW w \in Workers, Accept(s, w) PROVE OverInv'
  <2>1. /\ socket' = [socket EXCEPT ![s] = "open"] /\ context' = context
        /\ pc' = [pc EXCEPT ![Accepter] = "count"]
        /\ session' = [session EXCEPT ![Accepter] = s]
    BY <1>33 DEF Accept, InitSession
  <2>2. ~Over(s)
    BY <1>33, <1>i DEF Accept, InitSession, FreshInv
  <2>3. \A r \in Sessions : Over(r)' => Over(r)
    BY <1>i, <2>1
  <2> QED
    BY <1>i, <2>1, <2>2, <2>3, OverFrame
<1>34. ASSUME NEW s \in Sessions, AcceptFails(s) PROVE OverInv'
  <2>1. /\ socket' = [socket EXCEPT ![s] = "closed"] /\ UNCHANGED <<context, pc, session>>
        /\ \A c \in Contexts : context[c].owner # s
        /\ \A t \in Threads : session[t] # s
    BY <1>34, <1>i DEF AcceptFails, FreshInv
  <2>2. \A r \in Sessions \ {s} : Over(r)' => Over(r)
    BY <1>i, <2>1
  <2> QED
    BY <1>i, <2>1, <2>2 DEF OverInv
<1>35. ASSUME NEW s \in Sessions, ClientCloses(s) PROVE OverInv'
  BY <1>35, <1>i DEF ClientCloses, OverInv, SessionInv, IOTypes
<1>36. ASSUME NEW c \in Contexts, CompleteData(c) PROVE OverInv'
  BY <1>36, <1>i, SMTT(30) DEF CompleteData, Complete, OverInv, SessionInv, IOTypes
<1>37. ASSUME NEW c \in Contexts, CompleteZero(c) PROVE OverInv'
  BY <1>37, <1>i, SMTT(30) DEF CompleteZero, Complete, OverInv, SessionInv, IOTypes
<1>38. ASSUME UNCHANGED vars PROVE OverInv'
  BY <1>38, <1>i DEF vars, OverInv, SessionInv, IOTypes
<1> QED
  BY <1>1, <1>2, <1>3, <1>4, <1>5, <1>6, <1>7, <1>8, <1>9, <1>10, <1>11, <1>12, <1>13,
     <1>14, <1>15, <1>16, <1>17, <1>18, <1>19, <1>20, <1>21, <1>22, <1>23, <1>24, <1>25,
     <1>26, <1>27, <1>28, <1>29, <1>30, <1>31, <1>32, <1>33, <1>34, <1>35, <1>36, <1>37,
     <1>38
  DEF Next, ThreadStep, AccepterStep, PostStep, ReleaseStep, WorkerStep, CallerStep,
      Environment, Poll

(* Every behaviour of the server satisfies the release invariant.            *)
LEMMA AlwaysRelease ==
    ASSUME WorkerOnly
    PROVE  Spec => []ReleaseInv
<1>1. Init => ReleaseInv
  <2> SUFFICES ASSUME Init PROVE ReleaseInv
    OBVIOUS
  <2>1. IInv
    BY InitInv
  <2>2. FlowInv /\ LiveInv
    BY DEF Init, FlowInv, LiveInv, SendPostPCs, ReleasePCs
  <2>3. OverInv
    BY DEF Init, OverInv, Over, OverPCs, ReleasePCs, FreeContext
  <2> QED
    BY <2>1, <2>2, <2>3 DEF ReleaseInv
<1>2. ReleaseInv /\ [Next]_vars => ReleaseInv'
  BY StepInv, FlowStep, LiveStep, OverStep DEF ReleaseInv
<1> QED
  BY <1>1, <1>2, PTL DEF Spec

(* OnSessionReleased deregisters no buffer the kernel still has, in a server *)
(* whose packets are well formed and whose sends come from the worker, even  *)
(* when RIO calls fail and although the Accepter may release a session that  *)
(* its worker has released.                                                  *)
THEOREM BuffersOutliveRequests ==
    ASSUME WorkerOnly
    PROVE  Spec => []PostedBuffersRegistered
<1>1. ReleaseInv => PostedBuffersRegistered
  <2> SUFFICES ASSUME ReleaseInv, NEW c \in Contexts, context[c].st = "posted"
               PROVE  context[c].owner \in registered
    BY DEF PostedBuffersRegistered
  <2>1. context[c].owner \in Sessions /\ socket[context[c].owner] # "none"
    BY DEF ReleaseInv, IInv, SessionInv, FreshInv
  <2>2. socket[context[c].owner] # "closed"
    BY <2>1 DEF ReleaseInv, OverInv, Over
  <2>3. socket[context[c].owner] \in {"open", "down"}
    BY <2>1, <2>2 DEF ReleaseInv, IInv, TypeOK, SessionTypes
  <2> QED
    BY <2>1, <2>3 DEF ReleaseInv, LiveInv
<1> QED
  BY <1>1, AlwaysRelease, PTL

-----------------------------------------------------------------------------
(* The count of a session that has left the map.  Completions that come too  *)
(* late are dropped and count nothing down, so the count stays above what    *)
(* its threads are going to subtract.                                        *)

Acting(s) == {t \in Threads : session[t] = s /\ Handles(t) /\ pc[t] # "recvInc"}
Enough(s) == ioCount[s] >= Cardinality(Acting(s)) + Cardinality(Sending(s))
GoneInv == \A s \in Sessions \ Alive : Enough(s)

(* What a thread is going to subtract.                                       *)
Share(t, s) ==
    (IF session[t] = s /\ Handles(t) /\ pc[t] # "recvInc" THEN 1 ELSE 0)
    + (IF session[t] = s /\ pc[t] \in {"rioSend", "sendDec"} THEN 1 ELSE 0)

(* The threads other than t do nothing.                                      *)
StepOf(t) ==
    \A u \in Threads \ {t} : pc'[u] = pc[u] /\ session'[u] = session[u] /\ ret'[u] = ret[u]

(* A set of which one element may come or go.                                *)
LEMMA CardOfOne ==
    ASSUME NEW S, NEW T, NEW x, IsFiniteSet(S), IsFiniteSet(T), S \ {x} = T \ {x}
    PROVE  Cardinality(T) + (IF x \in S THEN 1 ELSE 0)
               = Cardinality(S) + (IF x \in T THEN 1 ELSE 0)
<1>0. Cardinality(S) \in Nat /\ Cardinality(T) \in Nat
  BY FS_CardinalityType
<1>1. CASE x \in S <=> x \in T
  <2>1. S = T
    BY <1>1
  <2> QED
    BY <2>1, <1>0
<1>2. CASE x \in S /\ x \notin T
  <2>1. T = S \ {x}
    BY <1>2
  <2> QED
    BY <2>1, <1>0, <1>2, CardLose
<1>3. CASE x \notin S /\ x \in T
  <2>1. S = T \ {x}
    BY <1>3
  <2> QED
    BY <2>1, <1>0, <1>3, CardLose
<1> QED
  BY <1>1, <1>2, <1>3

LEMMA ActingFinite ==
    ASSUME NEW s
    PROVE  /\ IsFiniteSet(Acting(s)) /\ Cardinality(Acting(s)) \in Nat
           /\ IsFiniteSet(Sending(s)) /\ Cardinality(Sending(s)) \in Nat
<1>1. Acting(s) \subseteq Threads
  BY DEF Acting
<1> QED
  BY <1>1, CountsFinite, ThreadsAssumption, FS_Subset, FS_CardinalityType

(* A session in the map has enough by the accounting equation.               *)
LEMMA AliveEnough ==
    ASSUME IInv, NEW s \in Sessions, s \in Alive
    PROVE  Enough(s)
<1> DEFINE H == Handling(s)
           U == Uncounted(s)
<1>1. IsFiniteSet(H) /\ IsFiniteSet(U) /\ Cardinality(H) \in Nat /\ Cardinality(U) \in Nat
  BY CountsFinite
<1>2. U \subseteq H
  BY DEF Uncounted, Handling, Handles, HandlerPCs, RecvPostPCs
<1>3. Acting(s) = H \ U
  BY DEF Acting, Handling, Uncounted
<1>4. ioCount[s] + Cardinality(U)
          = Cardinality(Inflight(s)) + Cardinality(H) + Cardinality(Sending(s))
  BY DEF IInv, IOCountAccounting
<1>5. Cardinality(Inflight(s)) \in Nat /\ Cardinality(Sending(s)) \in Nat /\ ioCount[s] \in Int
  BY CountsFinite DEF IInv, TypeOK, SessionTypes
<1> HIDE DEF H, U
<1>6. Cardinality(H \ U) = Cardinality(H) - Cardinality(H \cap U)
  BY <1>1, FS_Difference
<1>7. H \cap U = U
  BY <1>2
<1>8. Cardinality(Acting(s)) = Cardinality(H) - Cardinality(U)
  BY <1>3, <1>6, <1>7
<1>9. ioCount[s] >= (Cardinality(H) - Cardinality(U)) + Cardinality(Sending(s))
  BY <1>1, <1>4, <1>5
<1> QED
  BY <1>8, <1>9 DEF Enough

(* A step of one thread that changes the count by at least what it changes   *)
(* the thread's share.                                                       *)
LEMMA ShareStep ==
    ASSUME TypeOK, TypeOK', NEW s \in Sessions, Enough(s), NEW t \in Threads, StepOf(t),
           ioCount'[s] + Share(t, s) >= ioCount[s] + Share(t, s)'
    PROVE  Enough(s)'
<1> DEFINE A == Acting(s)
           B == Acting(s)'
           S == Sending(s)
           T == Sending(s)'
<1>1. A \ {t} = B \ {t}
  BY DEF Acting, Handles, StepOf
<1>2. S \ {t} = T \ {t}
  BY DEF Sending, StepOf
<1>3. A \subseteq Threads /\ B \subseteq Threads /\ S \subseteq Threads /\ T \subseteq Threads
  BY DEF Acting, Sending
<1>4. IsFiniteSet(A) /\ IsFiniteSet(B) /\ IsFiniteSet(S) /\ IsFiniteSet(T)
  BY <1>3, ThreadsAssumption, FS_Subset
<1>5. /\ t \in A <=> session[t] = s /\ Handles(t) /\ pc[t] # "recvInc"
      /\ t \in S <=> session[t] = s /\ pc[t] \in {"rioSend", "sendDec"}
  BY DEF Acting, Sending
<1>6. /\ t \in B <=> session'[t] = s /\ Handles(t)' /\ pc'[t] # "recvInc"
      /\ t \in T <=> session'[t] = s /\ pc'[t] \in {"rioSend", "sendDec"}
  BY DEF Acting, Sending
<1>7. Share(t, s) = (IF t \in A THEN 1 ELSE 0) + (IF t \in S THEN 1 ELSE 0)
  BY <1>5 DEF Share
<1>8. Share(t, s)' = (IF t \in B THEN 1 ELSE 0) + (IF t \in T THEN 1 ELSE 0)
  BY <1>6 DEF Share
<1>9. ioCount[s] \in Int /\ ioCount'[s] \in Int
  BY DEF TypeOK, SessionTypes
<1>10. ioCount[s] >= Cardinality(A) + Cardinality(S)
  BY DEF Enough
<1> SUFFICES ioCount'[s] >= Cardinality(B) + Cardinality(T)
  BY DEF Enough
<1> HIDE DEF A, B, S, T
<1>11. Cardinality(B) + (IF t \in A THEN 1 ELSE 0) = Cardinality(A) + (IF t \in B THEN 1 ELSE 0)
  BY <1>1, <1>4, CardOfOne
<1>12. Cardinality(T) + (IF t \in S THEN 1 ELSE 0) = Cardinality(S) + (IF t \in T THEN 1 ELSE 0)
  BY <1>2, <1>4, CardOfOne
<1>13. /\ Cardinality(A) \in Nat /\ Cardinality(B) \in Nat
       /\ Cardinality(S) \in Nat /\ Cardinality(T) \in Nat
  BY <1>4, FS_CardinalityType
<1> QED
  BY <1>7, <1>8, <1>9, <1>10, <1>11, <1>12, <1>13

(* Every step leaves a session outside the map with enough.                  *)
LEMMA GoneStep == IInv /\ IInv' /\ GoneInv /\ [Next]_vars => GoneInv'
<1> SUFFICES ASSUME IInv, IInv', GoneInv, [Next]_vars, NEW s \in Sessions, s \notin Alive'
             PROVE  Enough(s)'
  BY DEF GoneInv
<1>i. TypeOK /\ TypeOK' /\ ReturnInv /\ SessionInv /\ FreshInv
  BY DEF IInv
<1>e. Enough(s)
  BY AliveEnough DEF GoneInv
<1> DEFINE Covered(t) == StepOf(t) /\ ioCount'[s] + Share(t, s) >= ioCount[s] + Share(t, s)'
<1>c. ASSUME NEW t \in Threads, Covered(t) PROVE Enough(s)'
  BY <1>c, <1>e, <1>i, ShareStep
<1>y. /\ pc \in [Threads -> PCs] /\ ret \in [Threads -> {"idle", "entered", "recvDone", "finish"}]
      /\ session \in [Threads -> Sessions \cup {NoSession}]
      /\ ioCount \in [Sessions -> Int]
  BY <1>i DEF TypeOK, LocalTypes, SessionTypes
<1>z. NoSession \notin Sessions /\ \A t \in Threads : pc[t] # "idle" => session[t] \in Sessions
  BY <1>i, SessionsAssumption DEF SessionInv
<1>r. \A t \in Threads : pc[t] = "dec" => ret[t] \in {"idle", "entered"}
  BY <1>i DEF ReturnInv
<1> USE ThreadsFacts, <1>y, <1>z DEF sessionVars, tableVars, ioVars, localVars, Goto, Return
<1>h. \A t \in Threads : pc[t] = "hold" => ret[t] = "idle"
  BY <1>i DEF ReturnInv
<1>v. sessionMap' = sessionMap => s \notin sessionMap
  BY DEF Alive
<1>1. ASSUME CountInWorker PROVE Enough(s)'
  <2>1. StepOf(Accepter)
    BY <1>1 DEF CountInWorker, StepOf
  <2>2. ioCount'[s] + Share(Accepter, s) >= ioCount[s] + Share(Accepter, s)'
    BY <1>1 DEF CountInWorker, Share, Handles, HandlerPCs, RecvPostPCs,
       CompletionPCs, SendPostPCs, ReleasePCs
  <2> QED
    BY <2>1, <2>2, <1>c
<1>2. ASSUME Emplace PROVE Enough(s)'
  <2>1. StepOf(Accepter)
    BY <1>2 DEF Emplace, StepOf
  <2>2. ioCount'[s] + Share(Accepter, s) >= ioCount[s] + Share(Accepter, s)'
    BY <1>2 DEF Emplace, Share, Handles, HandlerPCs, RecvPostPCs,
       CompletionPCs, SendPostPCs, ReleasePCs
  <2> QED
    BY <2>1, <2>2, <1>c
<1>3. ASSUME OnSessionEntered PROVE Enough(s)'
  <2>1. StepOf(Accepter)
    BY <1>3 DEF OnSessionEntered, StepOf
  <2>2. ioCount'[s] + Share(Accepter, s) >= ioCount[s] + Share(Accepter, s)'
    BY <1>3 DEF OnSessionEntered, Share, Handles, HandlerPCs, RecvPostPCs,
       CompletionPCs, SendPostPCs, ReleasePCs
  <2> QED
    BY <2>1, <2>2, <1>c
<1>4. ASSUME CountSession PROVE Enough(s)'
  <2>1. StepOf(Accepter)
    BY <1>4 DEF CountSession, StepOf
  <2>2. ioCount'[s] + Share(Accepter, s) >= ioCount[s] + Share(Accepter, s)'
    BY <1>4 DEF CountSession, Share, Handles, HandlerPCs, RecvPostPCs,
       CompletionPCs, SendPostPCs, ReleasePCs
  <2> QED
    BY <2>1, <2>2, <1>c
<1>5. ASSUME NEW t \in Threads, NEW c \in Contexts, RIOReceive(t, c) PROVE Enough(s)'
  <2>1. StepOf(t)
    BY <1>5 DEF RIOReceive, StepOf
  <2>2. ioCount'[s] + Share(t, s) >= ioCount[s] + Share(t, s)'
    BY <1>5 DEF RIOReceive, Share, Handles, HandlerPCs, RecvPostPCs,
       CompletionPCs, SendPostPCs, ReleasePCs
  <2> QED
    BY <2>1, <2>2, <1>c
<1>6. ASSUME NEW t \in Threads, NEW c \in Contexts, RIOReceiveFails(t, c) PROVE Enough(s)'
  <2>1. StepOf(t)
    BY <1>6 DEF RIOReceiveFails, StepOf
  <2>2. ioCount'[s] + Share(t, s) >= ioCount[s] + Share(t, s)'
    BY <1>6 DEF RIOReceiveFails, Share, Handles, HandlerPCs, RecvPostPCs,
       CompletionPCs, SendPostPCs, ReleasePCs
  <2> QED
    BY <2>1, <2>2, <1>c
<1>7. ASSUME NEW t \in Threads, NEW c \in Contexts, RIOSend(t, c) PROVE Enough(s)'
  <2>1. StepOf(t)
    BY <1>7 DEF RIOSend, StepOf
  <2>2. ioCount'[s] + Share(t, s) >= ioCount[s] + Share(t, s)'
    BY <1>7 DEF RIOSend, Share, Handles, HandlerPCs, RecvPostPCs,
       CompletionPCs, SendPostPCs, ReleasePCs
  <2> QED
    BY <2>1, <2>2, <1>c
<1>8. ASSUME NEW t \in Threads, NEW c \in Contexts, RIOSendFails(t, c) PROVE Enough(s)'
  <2>1. StepOf(t)
    BY <1>8 DEF RIOSendFails, StepOf
  <2>2. ioCount'[s] + Share(t, s) >= ioCount[s] + Share(t, s)'
    BY <1>8 DEF RIOSendFails, Share, Handles, HandlerPCs, RecvPostPCs,
       CompletionPCs, SendPostPCs, ReleasePCs
  <2> QED
    BY <2>1, <2>2, <1>c
<1>9. ASSUME NEW t \in Threads, RecvPostIncrement(t) PROVE Enough(s)'
  <2>1. StepOf(t)
    BY <1>9 DEF RecvPostIncrement, StepOf
  <2>2. ioCount'[s] + Share(t, s) >= ioCount[s] + Share(t, s)'
    BY <1>9 DEF RecvPostIncrement, Share, Handles, HandlerPCs, RecvPostPCs,
       CompletionPCs, SendPostPCs, ReleasePCs
  <2> QED
    BY <2>1, <2>2, <1>c
<1>10. ASSUME NEW t \in Threads, RecvPostReturns(t) PROVE Enough(s)'
  <2>1. StepOf(t)
    BY <1>10 DEF RecvPostReturns, StepOf
  <2>2. ioCount'[s] + Share(t, s) >= ioCount[s] + Share(t, s)'
    BY <1>10 DEF RecvPostReturns, Share, Handles, HandlerPCs, RecvPostPCs,
       CompletionPCs, SendPostPCs, ReleasePCs
  <2> QED
    BY <2>1, <2>2, <1>c
<1>11. ASSUME NEW t \in Threads, SendPostReturns(t) PROVE Enough(s)'
  <2>1. StepOf(t)
    BY <1>11 DEF SendPostReturns, StepOf
  <2>2. ioCount'[s] + Share(t, s) >= ioCount[s] + Share(t, s)'
    BY <1>11 DEF SendPostReturns, Share, Handles, HandlerPCs, RecvPostPCs,
       CompletionPCs, SendPostPCs, ReleasePCs
  <2> QED
    BY <2>1, <2>2, <1>c
<1>12. ASSUME NEW t \in Threads, SendPostClaims(t) PROVE Enough(s)'
  <2>1. StepOf(t)
    BY <1>12 DEF SendPostClaims, StepOf
  <2>2. ioCount'[s] + Share(t, s) >= ioCount[s] + Share(t, s)'
    BY <1>12 DEF SendPostClaims, Share, Handles, HandlerPCs, RecvPostPCs,
       CompletionPCs, SendPostPCs, ReleasePCs
  <2> QED
    BY <2>1, <2>2, <1>c
<1>13. ASSUME NEW t \in Threads, SendPostIncrement(t) PROVE Enough(s)'
  <2>1. StepOf(t)
    BY <1>13 DEF SendPostIncrement, StepOf
  <2>2. ioCount'[s] + Share(t, s) >= ioCount[s] + Share(t, s)'
    BY <1>13 DEF SendPostIncrement, Share, Handles, HandlerPCs, RecvPostPCs,
       CompletionPCs, SendPostPCs, ReleasePCs
  <2> QED
    BY <2>1, <2>2, <1>c
<1>14. ASSUME NEW t \in Threads, IOCountDecrement(t) PROVE Enough(s)'
  <2>1. StepOf(t)
    BY <1>14 DEF IOCountDecrement, StepOf
  <2>2. ioCount'[s] + Share(t, s) >= ioCount[s] + Share(t, s)'
    BY <1>14, <1>r DEF IOCountDecrement, Share, Handles, HandlerPCs, RecvPostPCs,
       CompletionPCs, SendPostPCs, ReleasePCs
  <2> QED
    BY <2>1, <2>2, <1>c
<1>15. ASSUME NEW t \in Threads, OnSessionLeaved(t) PROVE Enough(s)'
  <2>1. StepOf(t)
    BY <1>15 DEF OnSessionLeaved, StepOf
  <2>2. ioCount'[s] + Share(t, s) >= ioCount[s] + Share(t, s)'
    BY <1>15 DEF OnSessionLeaved, Share, Handles, HandlerPCs, RecvPostPCs,
       CompletionPCs, SendPostPCs, ReleasePCs
  <2> QED
    BY <2>1, <2>2, <1>c
<1>16. ASSUME NEW t \in Threads, CloseSocket(t) PROVE Enough(s)'
  <2>1. StepOf(t)
    BY <1>16 DEF CloseSocket, StepOf
  <2>2. ioCount'[s] + Share(t, s) >= ioCount[s] + Share(t, s)'
    BY <1>16 DEF CloseSocket, Share, Handles, HandlerPCs, RecvPostPCs,
       CompletionPCs, SendPostPCs, ReleasePCs
  <2> QED
    BY <2>1, <2>2, <1>c
<1>17. ASSUME NEW t \in Threads, EraseSession(t) PROVE Enough(s)'
  <2>1. StepOf(t)
    BY <1>17 DEF EraseSession, StepOf
  <2>2. ioCount'[s] + Share(t, s) >= ioCount[s] + Share(t, s)'
    BY <1>17 DEF EraseSession, Share, Handles, HandlerPCs, RecvPostPCs,
       CompletionPCs, SendPostPCs, ReleasePCs
  <2> QED
    BY <2>1, <2>2, <1>c
<1>18. ASSUME NEW t \in Threads, OnSessionReleased(t) PROVE Enough(s)'
  <2>1. StepOf(t)
    BY <1>18 DEF OnSessionReleased, StepOf
  <2>2. ioCount'[s] + Share(t, s) >= ioCount[s] + Share(t, s)'
    BY <1>18 DEF OnSessionReleased, Share, Handles, HandlerPCs, RecvPostPCs,
       CompletionPCs, SendPostPCs, ReleasePCs
  <2> QED
    BY <2>1, <2>2, <1>c
<1>19. ASSUME NEW t \in Threads, DropSession(t) PROVE Enough(s)'
  <2>1. StepOf(t)
    BY <1>19 DEF DropSession, StepOf
  <2>2. ioCount'[s] + Share(t, s) >= ioCount[s] + Share(t, s)'
    BY <1>19, <1>h DEF DropSession, Share, Handles, HandlerPCs, RecvPostPCs,
       CompletionPCs, SendPostPCs, ReleasePCs
  <2> QED
    BY <2>1, <2>2, <1>c
<1>20. ASSUME NEW w \in Workers, DropCompletion(w) PROVE Enough(s)'
  <2>1. StepOf(w)
    BY <1>20 DEF DropCompletion, StepOf
  <2>2. ioCount'[s] + Share(w, s) >= ioCount[s] + Share(w, s)'
    BY <1>20 DEF DropCompletion, Share, Handles, HandlerPCs, RecvPostPCs,
       CompletionPCs, SendPostPCs, ReleasePCs
  <2> QED
    BY <2>1, <2>2, <1>c
<1>21. ASSUME NEW w \in Workers, ZeroCompletion(w) PROVE Enough(s)'
  <2>1. StepOf(w)
    BY <1>21 DEF ZeroCompletion, Alive, StepOf
  <2>2. ioCount'[s] + Share(w, s) >= ioCount[s] + Share(w, s)'
    BY <1>21, <1>v DEF ZeroCompletion, Alive, Share, Handles, HandlerPCs, RecvPostPCs,
       CompletionPCs, SendPostPCs, ReleasePCs
  <2> QED
    BY <2>1, <2>2, <1>c
<1>22. ASSUME NEW w \in Workers, NEW n \in 0 .. MaxBatch, IOCompleted(w, n) PROVE Enough(s)'
  <2>1. StepOf(w)
    BY <1>22 DEF IOCompleted, Alive, StepOf
  <2>2. ioCount'[s] + Share(w, s) >= ioCount[s] + Share(w, s)'
    BY <1>22, <1>v DEF IOCompleted, Alive, Share, Handles, HandlerPCs, RecvPostPCs,
       CompletionPCs, SendPostPCs, ReleasePCs
  <2> QED
    BY <2>1, <2>2, <1>c
<1>23. ASSUME NEW w \in Workers, PacketIgnored(w) PROVE Enough(s)'
  <2>1. StepOf(w)
    BY <1>23 DEF PacketIgnored, StepOf
  <2>2. ioCount'[s] + Share(w, s) >= ioCount[s] + Share(w, s)'
    BY <1>23 DEF PacketIgnored, Share, Handles, HandlerPCs, RecvPostPCs,
       CompletionPCs, SendPostPCs, ReleasePCs
  <2> QED
    BY <2>1, <2>2, <1>c
<1>24. ASSUME NEW w \in Workers, NEW d \in BOOLEAN, PacketAnswered(w, d) PROVE Enough(s)'
  <2>1. StepOf(w)
    BY <1>24 DEF PacketAnswered, Enqueue, StepOf
  <2>2. ioCount'[s] + Share(w, s) >= ioCount[s] + Share(w, s)'
    BY <1>24 DEF PacketAnswered, Enqueue, Share, Handles, HandlerPCs, RecvPostPCs,
       CompletionPCs, SendPostPCs, ReleasePCs
  <2> QED
    BY <2>1, <2>2, <1>c
<1>25. ASSUME NEW w \in Workers, PacketBad(w) PROVE Enough(s)'
  <2>1. StepOf(w)
    BY <1>25 DEF PacketBad, StepOf
  <2>2. ioCount'[s] + Share(w, s) >= ioCount[s] + Share(w, s)'
    BY <1>25 DEF PacketBad, Share, Handles, HandlerPCs, RecvPostPCs,
       CompletionPCs, SendPostPCs, ReleasePCs
  <2> QED
    BY <2>1, <2>2, <1>c
<1>26. ASSUME NEW w \in Workers, RecvCompleted(w) PROVE Enough(s)'
  <2>1. StepOf(w)
    BY <1>26 DEF RecvCompleted, StepOf
  <2>2. ioCount'[s] + Share(w, s) >= ioCount[s] + Share(w, s)'
    BY <1>26 DEF RecvCompleted, Share, Handles, HandlerPCs, RecvPostPCs,
       CompletionPCs, SendPostPCs, ReleasePCs
  <2> QED
    BY <2>1, <2>2, <1>c
<1>27. ASSUME NEW w \in Workers, SendIOCompleted(w) PROVE Enough(s)'
  <2>1. StepOf(w)
    BY <1>27 DEF SendIOCompleted, StepOf
  <2>2. ioCount'[s] + Share(w, s) >= ioCount[s] + Share(w, s)'
    BY <1>27 DEF SendIOCompleted, Share, Handles, HandlerPCs, RecvPostPCs,
       CompletionPCs, SendPostPCs, ReleasePCs
  <2> QED
    BY <2>1, <2>2, <1>c
<1>28. ASSUME NEW w \in Workers, SendCompleted(w) PROVE Enough(s)'
  <2>1. StepOf(w)
    BY <1>28 DEF SendCompleted, StepOf
  <2>2. ioCount'[s] + Share(w, s) >= ioCount[s] + Share(w, s)'
    BY <1>28 DEF SendCompleted, Share, Handles, HandlerPCs, RecvPostPCs,
       CompletionPCs, SendPostPCs, ReleasePCs
  <2> QED
    BY <2>1, <2>2, <1>c
<1>29. ASSUME NEW w \in Workers, FreeIOContext(w) PROVE Enough(s)'
  <2>1. StepOf(w)
    BY <1>29 DEF FreeIOContext, StepOf
  <2>2. ioCount'[s] + Share(w, s) >= ioCount[s] + Share(w, s)'
    BY <1>29 DEF FreeIOContext, Share, Handles, HandlerPCs, RecvPostPCs,
       CompletionPCs, SendPostPCs, ReleasePCs
  <2> QED
    BY <2>1, <2>2, <1>c
<1>30. ASSUME NEW t \in Callers, NEW r \in Sessions, GetSession(t, r) PROVE Enough(s)'
  <2>1. StepOf(t)
    BY <1>30 DEF GetSession, StepOf
  <2>2. ioCount'[s] + Share(t, s) >= ioCount[s] + Share(t, s)'
    BY <1>30 DEF GetSession, Share, Handles, HandlerPCs, RecvPostPCs,
       CompletionPCs, SendPostPCs, ReleasePCs
  <2> QED
    BY <2>1, <2>2, <1>c
<1>31. ASSUME NEW t \in Callers, NEW d \in BOOLEAN, SendPacket(t, d) PROVE Enough(s)'
  <2>1. StepOf(t)
    BY <1>31 DEF SendPacket, Enqueue, StepOf
  <2>2. ioCount'[s] + Share(t, s) >= ioCount[s] + Share(t, s)'
    BY <1>31, <1>h DEF SendPacket, Enqueue, Share, Handles, HandlerPCs, RecvPostPCs,
       CompletionPCs, SendPostPCs, ReleasePCs
  <2> QED
    BY <2>1, <2>2, <1>c
<1>32. ASSUME NEW t \in Callers, NEW r \in Sessions, CallDisconnect(t, r) PROVE Enough(s)'
  <2>1. StepOf(t)
    BY <1>32 DEF CallDisconnect, StepOf
  <2>2. ioCount'[s] + Share(t, s) >= ioCount[s] + Share(t, s)'
    BY <1>32 DEF CallDisconnect, Share, Handles, HandlerPCs, RecvPostPCs,
       CompletionPCs, SendPostPCs, ReleasePCs
  <2> QED
    BY <2>1, <2>2, <1>c
<1>33. ASSUME NEW r \in Sessions, NEW w \in Workers, Accept(r, w) PROVE Enough(s)'
  <2>1. StepOf(Accepter)
    BY <1>33 DEF Accept, InitSession, StepOf
  <2>2. ioCount'[s] + Share(Accepter, s) >= ioCount[s] + Share(Accepter, s)'
    BY <1>33 DEF Accept, InitSession, Share, Handles, HandlerPCs, RecvPostPCs,
       CompletionPCs, SendPostPCs, ReleasePCs
  <2> QED
    BY <2>1, <2>2, <1>c
<1>34. ASSUME NEW r \in Sessions, AcceptFails(r) PROVE Enough(s)'
  <2>1. StepOf(Accepter)
    BY <1>34 DEF AcceptFails, StepOf
  <2>2. ioCount'[s] + Share(Accepter, s) >= ioCount[s] + Share(Accepter, s)'
    BY <1>34 DEF AcceptFails, Share, Handles, HandlerPCs, RecvPostPCs,
       CompletionPCs, SendPostPCs, ReleasePCs
  <2> QED
    BY <2>1, <2>2, <1>c
<1>35. ASSUME NEW r \in Sessions, ClientCloses(r) PROVE Enough(s)'
  <2>1. StepOf(Accepter)
    BY <1>35 DEF ClientCloses, StepOf
  <2>2. ioCount'[s] + Share(Accepter, s) >= ioCount[s] + Share(Accepter, s)'
    BY <1>35 DEF ClientCloses, Share, Handles, HandlerPCs, RecvPostPCs,
       CompletionPCs, SendPostPCs, ReleasePCs
  <2> QED
    BY <2>1, <2>2, <1>c
<1>36. ASSUME NEW c \in Contexts, CompleteData(c) PROVE Enough(s)'
  <2>1. StepOf(Accepter)
    BY <1>36 DEF CompleteData, Complete, StepOf
  <2>2. ioCount'[s] + Share(Accepter, s) >= ioCount[s] + Share(Accepter, s)'
    BY <1>36 DEF CompleteData, Complete, Share, Handles, HandlerPCs, RecvPostPCs,
       CompletionPCs, SendPostPCs, ReleasePCs
  <2> QED
    BY <2>1, <2>2, <1>c
<1>37. ASSUME NEW c \in Contexts, CompleteZero(c) PROVE Enough(s)'
  <2>1. StepOf(Accepter)
    BY <1>37 DEF CompleteZero, Complete, StepOf
  <2>2. ioCount'[s] + Share(Accepter, s) >= ioCount[s] + Share(Accepter, s)'
    BY <1>37 DEF CompleteZero, Complete, Share, Handles, HandlerPCs, RecvPostPCs,
       CompletionPCs, SendPostPCs, ReleasePCs
  <2> QED
    BY <2>1, <2>2, <1>c
<1>38. ASSUME UNCHANGED vars PROVE Enough(s)'
  <2>1. StepOf(Accepter)
    BY <1>38 DEF vars, StepOf
  <2>2. ioCount'[s] + Share(Accepter, s) >= ioCount[s] + Share(Accepter, s)'
    BY <1>38 DEF vars, Share, Handles, HandlerPCs, RecvPostPCs,
       CompletionPCs, SendPostPCs, ReleasePCs
  <2> QED
    BY <2>1, <2>2, <1>c
<1> QED
  BY <1>1, <1>2, <1>3, <1>4, <1>5, <1>6, <1>7, <1>8, <1>9, <1>10, <1>11, <1>12, <1>13,
     <1>14, <1>15, <1>16, <1>17, <1>18, <1>19, <1>20, <1>21, <1>22, <1>23, <1>24, <1>25,
     <1>26, <1>27, <1>28, <1>29, <1>30, <1>31, <1>32, <1>33, <1>34, <1>35, <1>36, <1>37,
     <1>38
  DEF Next, ThreadStep, AccepterStep, PostStep, ReleaseStep, WorkerStep, CallerStep,
      Environment, Poll

(* No interleaving of handlers, senders and releases brings ioCount below    *)
(* zero, before or after the session has left the map, with any number of    *)
(* senders and with packets that do not decode.                              *)
THEOREM CountNotNegative == Spec => []IOCountNotNegative
<1>1. Init => GoneInv
  <2> SUFFICES ASSUME Init, NEW s \in Sessions PROVE Enough(s)
    BY DEF GoneInv
  <2>1. Acting(s) = {} /\ Sending(s) = {} /\ ioCount[s] = 0
    BY SessionsAssumption DEF Init, Acting, Sending
  <2> QED
    BY <2>1, FS_EmptySet DEF Enough
<1>2. Spec => []GoneInv
  BY <1>1, GoneStep, AlwaysInv, PTL DEF Spec
<1>3. IInv /\ GoneInv => IOCountNotNegative
  <2> SUFFICES ASSUME IInv, GoneInv, NEW s \in Sessions PROVE ioCount[s] >= 0
    BY DEF IOCountNotNegative
  <2>1. Enough(s)
    BY AliveEnough DEF GoneInv
  <2>2. ioCount[s] \in Int
    BY DEF IInv, TypeOK, SessionTypes
  <2> QED
    BY <2>1, <2>2, ActingFinite DEF Enough
<1> QED
  BY <1>2, <1>3, AlwaysInv, PTL
=============================================================================
