----------------------- MODULE SessionLifecycleProofs -----------------------
(* ioCount is exact: the inductive invariant of SessionLifecycle and the     *)
(* proof that it implies IOCountAccounting.                                  *)
EXTENDS SessionLifecycle, FiniteSetTheorems, SequenceTheorems, TLAPS

(* A completion queue holds contexts the kernel gave back, each one once.    *)
QueueInv ==
    /\ \A w \in Workers : \A i \in 1 .. Len(cq[w]) : context[cq[w][i].ctx].st = "queued"
    /\ \A v, w \in Workers : \A i \in 1 .. Len(cq[v]) : \A j \in 1 .. Len(cq[w]) :
          cq[v][i].ctx = cq[w][j].ctx => v = w /\ i = j

(* A context a worker handles is in no queue and in no other worker's hands. *)
HeldInv ==
    /\ \A t \in Threads : ioContext[t] # NoContext => context[ioContext[t]].st = "held"
    /\ \A t, u \in Threads :
          t # u /\ ioContext[t] = ioContext[u] => ioContext[t] = NoContext

(* Where a thread goes when it is done with a session.                       *)
ReturnInv ==
    /\ \A t \in Threads : pc[t] = "dec" => ret[t] \in {"idle", "entered"}
    /\ \A t \in Threads : pc[t] = "hold" => ret[t] = "idle"
    /\ pc[Accepter] \in {"count", "emplace"} \cup RecvPostPCs => ret[Accepter] = "entered"
    /\ \A t \in Threads : pc[t] \in SessionPCs \/ ret[t] = "entered" => t = Accepter

(* A busy thread has a session, a context in use has an owner.               *)
SessionInv ==
    /\ \A t \in Threads : pc[t] # "idle" => session[t] \in Sessions
    /\ \A c \in Contexts : context[c].st # "free" => context[c].owner \in Sessions

(* Nobody knows a session before it is accepted, ...                         *)
FreshInv ==
    \A s \in Sessions : socket[s] = "none" =>
        /\ ioCount[s] = 0 /\ s \notin sessionMap
        /\ \A c \in Contexts : context[c].owner # s
        /\ \A t \in Threads : session[t] # s

(* ... and only the Accepter does until it is in the map.                    *)
NewInv ==
    pc[Accepter] \in {"count", "emplace"} =>
        /\ session[Accepter] \notin sessionMap
        /\ \A c \in Contexts : context[c].owner # session[Accepter]
        /\ \A t \in Threads \ {Accepter} : session[t] # session[Accepter]

IInv ==
    /\ TypeOK /\ QueueInv /\ HeldInv /\ ReturnInv /\ SessionInv
    /\ FreshInv /\ NewInv
    /\ IOCountAccounting
-----------------------------------------------------------------------------
(* The initial states have the right types.                                  *)
LEMMA TypeInit == Init => TypeOK
BY WorkersAssumption, BoundsAssumption
DEF Init, TypeOK, SessionTypes, RequestQueueTypes, TableTypes, IOTypes, LocalTypes, Workers,
    FreeContext, ContextStates, PCs

(* The accepter, the workers and the callers are threads.                    *)
LEMMA ThreadsFacts == Accepter \in Threads /\ Workers \subseteq Threads /\ Callers \subseteq Threads
BY DEF Threads

(* What a worker takes from its queue is a completion.                       *)
LEMMA HeadFacts ==
    ASSUME TypeOK, NEW w \in Workers, cq[w] # <<>>
    PROVE  /\ Dequeued(w) \in Contexts
           /\ Tail(cq[w]) \in Seq(Completion)
<1>1. cq[w] \in Seq(Completion)
  BY DEF TypeOK, IOTypes
<1>2. Head(cq[w]) \in Completion /\ Tail(cq[w]) \in Seq(Completion)
  BY <1>1, HeadTailProperties
<1> QED
  BY <1>2 DEF Completion, Dequeued

ContextTypes == [st : ContextStates, owner : Sessions \cup {NoSession},
                 op : {"none", "recv", "send"}]

(* Changing the state of one IOContext keeps the pool's type.                *)
LEMMA ContextUpdate ==
    ASSUME NEW f \in [Contexts -> ContextTypes], NEW c \in Contexts, NEW x \in ContextStates
    PROVE  [f EXCEPT ![c].st = x] \in [Contexts -> ContextTypes]
BY DEF ContextTypes

(* Only MakeNewSession chooses a worker, and InitSession in it creates the   *)
(* request queue.                                                            *)
LEMMA RequestQueueStep ==
    [Next]_vars => \/ UNCHANGED <<threadId, rioRQ>>
                   \/ \E s \in Sessions, w \in Workers : Accept(s, w)
<1> SUFFICES ASSUME [Next]_vars
             PROVE  \/ UNCHANGED <<threadId, rioRQ>>
                    \/ \E s \in Sessions, w \in Workers : Accept(s, w)
  OBVIOUS
<1> USE DEF sessionVars
<1>1. ASSUME AccepterStep PROVE UNCHANGED <<threadId, rioRQ>>
  BY <1>1 DEF AccepterStep, CountInWorker, Emplace, OnSessionEntered, CountSession
<1>2. ASSUME NEW t \in Threads, PostStep(t) PROVE UNCHANGED <<threadId, rioRQ>>
  BY <1>2 DEF PostStep, RIOReceive, RIOReceiveFails, RIOSend, RIOSendFails, RecvPostIncrement,
              RecvPostReturns, SendPostReturns, SendPostClaims, SendPostIncrement
<1>3. ASSUME NEW t \in Threads, ReleaseStep(t) PROVE UNCHANGED <<threadId, rioRQ>>
  BY <1>3 DEF ReleaseStep, IOCountDecrement, OnSessionLeaved, CloseSocket, EraseSession,
              OnSessionReleased
<1>4. ASSUME NEW w \in Workers, WorkerStep(w) PROVE UNCHANGED <<threadId, rioRQ>>
  BY <1>4 DEF WorkerStep, DropCompletion, ZeroCompletion, IOCompleted, PacketIgnored, PacketBad,
              RecvCompleted, PacketAnswered, Enqueue, SendIOCompleted, SendCompleted,
              FreeIOContext
<1>5. ASSUME NEW t \in Threads, DropSession(t) PROVE UNCHANGED <<threadId, rioRQ>>
  BY <1>5 DEF DropSession
<1>6. ASSUME NEW t \in Callers, CallerStep(t) PROVE UNCHANGED <<threadId, rioRQ>>
  BY <1>6 DEF CallerStep, GetSession, CallDisconnect, SendPacket, Enqueue
<1>7. ASSUME NEW s \in Sessions, AcceptFails(s) \/ ClientCloses(s)
      PROVE  UNCHANGED <<threadId, rioRQ>>
  BY <1>7 DEF AcceptFails, ClientCloses
<1>8. ASSUME NEW c \in Contexts, CompleteData(c) \/ CompleteZero(c)
      PROVE  UNCHANGED <<threadId, rioRQ>>
  BY <1>8 DEF CompleteData, CompleteZero, Complete
<1>9. ASSUME UNCHANGED vars PROVE UNCHANGED <<threadId, rioRQ>>
  BY <1>9 DEF vars
<1> QED
  BY <1>1, <1>2, <1>3, <1>4, <1>5, <1>6, <1>7, <1>8, <1>9
  DEF Next, ThreadStep, Environment, Poll

(* Every step preserves the types.                                           *)
LEMMA TypeStep == TypeOK /\ SessionInv /\ [Next]_vars => TypeOK'
<1> SUFFICES ASSUME TypeOK, SessionInv, [Next]_vars PROVE TypeOK'
  OBVIOUS
<1>s. \A t \in Threads : pc[t] # "idle" => session[t] \in Sessions
  BY DEF SessionInv
<1>q. RequestQueueTypes'
  <2>1. CASE UNCHANGED <<threadId, rioRQ>>
    BY <2>1 DEF TypeOK, RequestQueueTypes
  <2>2. ASSUME NEW s \in Sessions, NEW w \in Workers, Accept(s, w) PROVE RequestQueueTypes'
    BY <2>2 DEF TypeOK, RequestQueueTypes, Accept, InitSession
  <2> QED
    BY <2>1, <2>2, RequestQueueStep
<1> USE <1>q, WorkersAssumption, BoundsAssumption, ThreadsFacts
<1> USE DEF TypeOK, SessionTypes, TableTypes, IOTypes, LocalTypes,
            sessionVars, tableVars, ioVars, localVars, Goto, Return
<1>l. /\ "idle" \in PCs /\ "hold" \in PCs /\ "dec" \in PCs /\ "count" \in PCs
      /\ "emplace" \in PCs /\ "entered" \in PCs /\ "counted" \in PCs /\ "recvPost" \in PCs
      /\ "recvInc" \in PCs /\ "recvPosted" \in PCs /\ "recvDone" \in PCs /\ "sendDone" \in PCs
      /\ "sendChk" \in PCs /\ "finish" \in PCs /\ "sendPost" \in PCs /\ "sendInc" \in PCs
      /\ "rioSend" \in PCs /\ "sendDec" \in PCs /\ "leave" \in PCs /\ "close" \in PCs
      /\ "erase" \in PCs /\ "dereg" \in PCs
  BY DEF PCs, SessionPCs, RecvPostPCs, CompletionPCs, SendPostPCs, ReleasePCs
<1>c. {"free", "posted", "queued", "held", "leaked"} \subseteq ContextStates
  BY DEF ContextStates
<1>1. ASSUME CountInWorker PROVE TypeOK'
  <2>1. SessionTypes'
    BY <1>1, <1>s, <1>l DEF CountInWorker, UIntInc
  <2>2. TableTypes' /\ IOTypes'
    BY <1>1, <1>s, <1>l DEF CountInWorker, UIntInc
  <2>3. LocalTypes'
    BY <1>1, <1>s, <1>l DEF CountInWorker, UIntInc
  <2> QED
    BY <2>1, <2>2, <2>3
<1>2. ASSUME Emplace PROVE TypeOK'
  BY <1>2, <1>s, <1>l DEF Emplace
<1>3. ASSUME OnSessionEntered PROVE TypeOK'
  BY <1>3, <1>s, <1>l DEF OnSessionEntered
<1>4. ASSUME CountSession PROVE TypeOK'
  BY <1>4, <1>s, <1>l DEF CountSession, UIntInc
<1>5. ASSUME NEW t \in Threads, NEW c \in Contexts, RIOReceive(t, c) PROVE TypeOK'
  BY <1>5, <1>s, <1>l, <1>c DEF RIOReceive, Alloc
<1>6. ASSUME NEW t \in Threads, NEW c \in Contexts, RIOReceiveFails(t, c) PROVE TypeOK'
  BY <1>6, <1>s, <1>l, <1>c DEF RIOReceiveFails, Leak
<1>7. ASSUME NEW t \in Threads, NEW c \in Contexts, RIOSend(t, c) PROVE TypeOK'
  BY <1>7, <1>s, <1>l, <1>c DEF RIOSend, Alloc
<1>8. ASSUME NEW t \in Threads, NEW c \in Contexts, RIOSendFails(t, c) PROVE TypeOK'
  BY <1>8, <1>s, <1>l, <1>c DEF RIOSendFails, Leak
<1>9. ASSUME NEW t \in Threads, RecvPostIncrement(t) PROVE TypeOK'
  <2>1. session[t] \in Sessions /\ ioCount[session[t]] + 1 \in Int
    BY <1>9, <1>s DEF RecvPostIncrement
  <2>2. SessionTypes'
    BY <1>9, <2>1 DEF RecvPostIncrement
  <2>3. TableTypes' /\ IOTypes' /\ LocalTypes'
    BY <1>9, <1>s, <1>l DEF RecvPostIncrement
  <2> QED
    BY <2>2, <2>3
<1>10. ASSUME NEW t \in Threads, RecvPostReturns(t) PROVE TypeOK'
  <2>1. SessionTypes' /\ TableTypes' /\ IOTypes'
    BY <1>10 DEF RecvPostReturns
  <2>2. pc' \in [Threads -> PCs] /\ ret' \in [Threads -> {"idle", "entered", "recvDone", "finish"}]
    <3>1. \/ pc' = [pc EXCEPT ![t] = "dec"] /\ ret' = ret
          \/ pc' = [pc EXCEPT ![t] = "finish"] /\ ret' = ret
          \/ pc' = [pc EXCEPT ![t] = "close"] /\ ret' = [ret EXCEPT ![t] = "finish"]
      BY <1>10 DEF RecvPostReturns
    <3>2. CASE pc' = [pc EXCEPT ![t] = "dec"] /\ ret' = ret
      BY <3>2, <1>l
    <3>3. CASE pc' = [pc EXCEPT ![t] = "finish"] /\ ret' = ret
      BY <3>3, <1>l
    <3>4. CASE pc' = [pc EXCEPT ![t] = "close"] /\ ret' = [ret EXCEPT ![t] = "finish"]
      BY <3>4, <1>l
    <3> QED
      BY <3>1, <3>2, <3>3, <3>4
  <2>3. UNCHANGED <<session, ioContext, todo, packetError>>
    BY <1>10 DEF RecvPostReturns
  <2> QED
    BY <2>1, <2>2, <2>3
<1>11. ASSUME NEW t \in Threads, SendPostReturns(t) PROVE TypeOK'
  BY <1>11, <1>s, <1>l DEF SendPostReturns
<1>12. ASSUME NEW t \in Threads, SendPostClaims(t) PROVE TypeOK'
  <2>1. session[t] \in Sessions /\ sendQueue[session[t]] \in 0 .. MaxQueue
    BY <1>12, <1>s DEF SendPostClaims
  <2>2. PICK rest \in 0 .. sendQueue[session[t]] - 1 :
            sendQueue' = [sendQueue EXCEPT ![session[t]] = rest]
    BY <1>12 DEF SendPostClaims
  <2>3. rest \in 0 .. MaxQueue
    BY <2>1, BoundsAssumption
  <2>4. SessionTypes'
    BY <1>12, <2>1, <2>2, <2>3 DEF SendPostClaims
  <2>5. TableTypes' /\ IOTypes' /\ LocalTypes'
    BY <1>12, <1>s, <1>l DEF SendPostClaims
  <2> QED
    BY <2>4, <2>5
<1>13. ASSUME NEW t \in Threads, SendPostIncrement(t) PROVE TypeOK'
  <2>1. session[t] \in Sessions /\ ioCount[session[t]] + 1 \in Int
    BY <1>13, <1>s DEF SendPostIncrement
  <2>2. SessionTypes'
    BY <1>13, <2>1 DEF SendPostIncrement
  <2>3. TableTypes' /\ IOTypes' /\ LocalTypes'
    BY <1>13, <1>s, <1>l DEF SendPostIncrement
  <2> QED
    BY <2>2, <2>3
<1>14. ASSUME NEW t \in Threads, IOCountDecrement(t) PROVE TypeOK'
  <2>1. session[t] \in Sessions /\ ioCount[session[t]] - 1 \in Int
    BY <1>14, <1>s DEF IOCountDecrement
  <2>2. SessionTypes'
    BY <1>14, <2>1 DEF IOCountDecrement
  <2>3. TableTypes' /\ IOTypes'
    BY <1>14 DEF IOCountDecrement
  <2>4. LocalTypes'
    <3>1. Goto(t, "leave") \/ Return(t)
      BY <1>14 DEF IOCountDecrement
    <3>2. CASE Goto(t, "leave")
      BY <3>2, <1>l
    <3>3. CASE Return(t)
      BY <3>3, <1>l
    <3> QED
      BY <3>1, <3>2, <3>3
  <2> QED
    BY <2>2, <2>3, <2>4
<1>15. ASSUME NEW t \in Threads, OnSessionLeaved(t) PROVE TypeOK'
  BY <1>15, <1>s, <1>l DEF OnSessionLeaved
<1>16. ASSUME NEW t \in Threads, CloseSocket(t) PROVE TypeOK'
  BY <1>16, <1>s, <1>l, SMTT(30) DEF CloseSocket, UIntDec
<1>17. ASSUME NEW t \in Threads, EraseSession(t) PROVE TypeOK'
  BY <1>17, <1>s, <1>l DEF EraseSession
<1>18. ASSUME NEW t \in Threads, OnSessionReleased(t) PROVE TypeOK'
  BY <1>18, <1>s, <1>l DEF OnSessionReleased
<1>19. ASSUME NEW t \in Threads, DropSession(t) PROVE TypeOK'
  BY <1>19, <1>s, <1>l DEF DropSession
<1>20. ASSUME NEW w \in Workers, DropCompletion(w) PROVE TypeOK'
  BY <1>20, <1>s, <1>l, <1>c, HeadFacts DEF DropCompletion, FreeContext
<1>21. ASSUME NEW w \in Workers, ZeroCompletion(w) PROVE TypeOK'
  BY <1>21, <1>s, <1>l, <1>c, HeadFacts DEF ZeroCompletion, FreeContext
<1>22. ASSUME NEW w \in Workers, NEW n \in 0 .. MaxBatch, IOCompleted(w, n) PROVE TypeOK'
  <2>1. Dequeued(w) \in Contexts /\ Tail(cq[w]) \in Seq(Completion)
    BY <1>22, HeadFacts DEF IOCompleted
  <2>2. context[Dequeued(w)].owner \in Sessions
    BY <1>22 DEF IOCompleted
  <2>3. SessionTypes' /\ TableTypes'
    BY <1>22 DEF IOCompleted
  <2>4. IOTypes'
    <3>1. context' \in [Contexts -> [st : ContextStates, owner : Sessions \cup {NoSession},
                                     op : {"none", "recv", "send"}]]
      <4>1. PICK c \in Contexts : c = Dequeued(w)
        BY <2>1
      <4>2. context' = [context EXCEPT ![c].st = "held"]
        BY <1>22, <4>1 DEF IOCompleted
      <4> QED
        BY <1>c, <4>2, ContextUpdate DEF ContextTypes
    <3>2. cq' \in [Workers -> Seq(Completion)]
      BY <1>22, <2>1 DEF IOCompleted
    <3> QED
      BY <3>1, <3>2
  <2>5. session' \in [Threads -> Sessions \cup {NoSession}]
    BY <1>22, <2>2 DEF IOCompleted
  <2>6. ioContext' \in [Threads -> Contexts \cup {NoContext}]
    BY <1>22, <2>1 DEF IOCompleted
  <2>7. packetError' \in [Threads -> BOOLEAN] /\ ret' = ret
    BY <1>22 DEF IOCompleted
  <2>8. pc' \in [Threads -> PCs] /\ todo' \in [Threads -> 0 .. MaxBatch]
    <3>1. \/ pc' = [pc EXCEPT ![w] = "recvDone"] /\ todo' = [todo EXCEPT ![w] = n]
          \/ pc' = [pc EXCEPT ![w] = "sendDone"] /\ todo' = todo
      BY <1>22 DEF IOCompleted
    <3>2. CASE pc' = [pc EXCEPT ![w] = "recvDone"] /\ todo' = [todo EXCEPT ![w] = n]
      BY <3>2, <1>l
    <3>3. CASE pc' = [pc EXCEPT ![w] = "sendDone"] /\ todo' = todo
      BY <3>3, <1>l
    <3> QED
      BY <3>1, <3>2, <3>3
  <2> QED
    BY <2>3, <2>4, <2>5, <2>6, <2>7, <2>8
<1>23. ASSUME NEW w \in Workers, PacketIgnored(w) PROVE TypeOK'
  <2>1. SessionTypes'
    BY <1>23, <1>s, <1>l, <1>c DEF PacketIgnored
  <2>2. TableTypes' /\ IOTypes'
    BY <1>23, <1>s, <1>l, <1>c DEF PacketIgnored
  <2>3. LocalTypes'
    BY <1>23, <1>s, <1>l, <1>c DEF PacketIgnored
  <2> QED
    BY <2>1, <2>2, <2>3
<1>24. ASSUME NEW w \in Workers, NEW d \in BOOLEAN, PacketAnswered(w, d) PROVE TypeOK'
  <2>1. SessionTypes'
    BY <1>24, <1>s, <1>l, <1>c, SMTT(30) DEF PacketAnswered, Enqueue
  <2>2. TableTypes' /\ IOTypes'
    BY <1>24, <1>s, <1>l, <1>c DEF PacketAnswered, Enqueue
  <2>3. LocalTypes'
    BY <1>24, <1>s, <1>l, <1>c, SMTT(30) DEF PacketAnswered, Enqueue
  <2> QED
    BY <2>1, <2>2, <2>3
<1>25. ASSUME NEW w \in Workers, PacketBad(w) PROVE TypeOK'
  BY <1>25, <1>s, <1>l, <1>c DEF PacketBad
<1>26. ASSUME NEW w \in Workers, RecvCompleted(w) PROVE TypeOK'
  BY <1>26, <1>s, <1>l, <1>c DEF RecvCompleted
<1>27. ASSUME NEW w \in Workers, SendIOCompleted(w) PROVE TypeOK'
  BY <1>27, <1>s, <1>l, <1>c DEF SendIOCompleted
<1>28. ASSUME NEW w \in Workers, SendCompleted(w) PROVE TypeOK'
  <2>1. CASE sendDisconnect[session[w]]
    <3>1. Disconnect(session[w]) /\ Goto(w, "finish")
      BY <1>28, <2>1 DEF SendCompleted
    <3>2. socket' \in [Sessions -> {"none", "open", "down", "closed"}]
      BY <3>1 DEF Disconnect
    <3> QED
      BY <1>28, <1>l, <3>1, <3>2 DEF SendCompleted
  <2>2. CASE ~sendDisconnect[session[w]]
    <3>1. SessionTypes' /\ TableTypes' /\ IOTypes'
      BY <1>28, <2>2 DEF SendCompleted
    <3>2. /\ pc' = [pc EXCEPT ![w] = "sendPost"]
          /\ ret' = [ret EXCEPT ![w] = "finish"]
          /\ UNCHANGED <<session, ioContext, todo, packetError>>
      BY <1>28, <2>2 DEF SendCompleted
    <3>3. LocalTypes'
      BY <3>2, <1>l
    <3> QED
      BY <3>1, <3>3
  <2> QED
    BY <2>1, <2>2
<1>29. ASSUME NEW w \in Workers, FreeIOContext(w) PROVE TypeOK'
  BY <1>29, <1>s, <1>l, <1>c DEF FreeIOContext, FreeContext
<1>30. ASSUME NEW t \in Callers, NEW s \in Sessions, GetSession(t, s) PROVE TypeOK'
  BY <1>30, <1>s, <1>l DEF GetSession
<1>31. ASSUME NEW t \in Callers, NEW d \in BOOLEAN, SendPacket(t, d) PROVE TypeOK'
  BY <1>31, <1>s, <1>l, SMTT(30) DEF SendPacket, Enqueue
<1>32. ASSUME NEW t \in Callers, NEW s \in Sessions, CallDisconnect(t, s) PROVE TypeOK'
  BY <1>32, <1>s, <1>l DEF CallDisconnect, Disconnect
<1>33. ASSUME NEW s \in Sessions, NEW w \in Workers, Accept(s, w) PROVE TypeOK'
  <2>1. SessionTypes'
    BY <1>33, <1>s, <1>l DEF Accept, InitSession
  <2>2. TableTypes' /\ IOTypes'
    BY <1>33, <1>s, <1>l DEF Accept, InitSession
  <2>3. LocalTypes'
    BY <1>33, <1>s, <1>l DEF Accept, InitSession
  <2> QED
    BY <2>1, <2>2, <2>3
<1>34. ASSUME NEW s \in Sessions, AcceptFails(s) PROVE TypeOK'
  BY <1>34, <1>s, <1>l DEF AcceptFails
<1>35. ASSUME NEW s \in Sessions, ClientCloses(s) PROVE TypeOK'
  BY <1>35, <1>s, <1>l DEF ClientCloses
<1>co. ASSUME NEW c \in Contexts, NEW b \in {"data", "zero"},
             context[c].st = "posted", Complete(c, b)
      PROVE  TypeOK'
  <2> DEFINE w == CompletionQueue(c)
             x == [ctx |-> c, bytes |-> b]
  <2>1. w \in Workers
    BY <1>co DEF SessionInv, CompletionQueue, RequestQueueTypes
  <2>2. x \in Completion
    BY DEF Completion
  <2>3. Append(cq[w], x) \in Seq(Completion)
    BY <2>1, <2>2, AppendProperties
  <2> HIDE DEF w, x
  <2>4. cq' = [cq EXCEPT ![w] = Append(cq[w], x)]
    BY <1>co DEF Complete, w, x
  <2>5. context' \in [Contexts -> [st : ContextStates, owner : Sessions \cup {NoSession},
                                   op : {"none", "recv", "send"}]]
    BY <1>co, <1>c, ContextUpdate DEF Complete, ContextTypes
  <2>6. cq' \in [Workers -> Seq(Completion)]
    BY <2>1, <2>3, <2>4
  <2> QED
    BY <1>co, <2>5, <2>6 DEF Complete
<1>36. ASSUME NEW c \in Contexts, CompleteData(c) PROVE TypeOK'
  BY <1>36, <1>co DEF CompleteData
<1>37. ASSUME NEW c \in Contexts, CompleteZero(c) PROVE TypeOK'
  BY <1>37, <1>co DEF CompleteZero
<1>38. ASSUME UNCHANGED vars PROVE TypeOK'
  BY <1>38, ThreadsFacts DEF vars
<1> HIDE DEF TypeOK
<1> QED
  BY <1>1, <1>2, <1>3, <1>4, <1>5, <1>6, <1>7, <1>8, <1>9, <1>10, <1>11, <1>12, <1>13,
     <1>14, <1>15, <1>16, <1>17, <1>18, <1>19, <1>20, <1>21, <1>22, <1>23, <1>24, <1>25,
     <1>26, <1>27, <1>28, <1>29, <1>30, <1>31, <1>32, <1>33, <1>34, <1>35, <1>36, <1>37,
     <1>38
  DEF Next, ThreadStep, AccepterStep, PostStep, ReleaseStep, WorkerStep, CallerStep,
      Environment, Poll

(* A thread that leaves its main loop has a session, and a context taken     *)
(* from the pool has an owner.                                               *)
LEMMA SessionStep == TypeOK /\ SessionInv /\ [Next]_vars => SessionInv'
<1> SUFFICES ASSUME TypeOK, SessionInv, [Next]_vars PROVE SessionInv'
  OBVIOUS
<1> USE ThreadsFacts
    DEF sessionVars, tableVars, ioVars, localVars, Goto, Return, TypeOK, LocalTypes
<1>1. ASSUME CountInWorker PROVE SessionInv'
  BY <1>1, HeadFacts DEF CountInWorker, SessionInv, IOTypes, TableTypes
<1>2. ASSUME Emplace PROVE SessionInv'
  BY <1>2, HeadFacts DEF Emplace, SessionInv, IOTypes, TableTypes
<1>3. ASSUME OnSessionEntered PROVE SessionInv'
  BY <1>3, HeadFacts DEF OnSessionEntered, SessionInv, IOTypes, TableTypes
<1>4. ASSUME CountSession PROVE SessionInv'
  BY <1>4, HeadFacts DEF CountSession, SessionInv, IOTypes, TableTypes
<1>5. ASSUME NEW t \in Threads, NEW c \in Contexts, RIOReceive(t, c) PROVE SessionInv'
  BY <1>5, HeadFacts DEF RIOReceive, Alloc, SessionInv, IOTypes, TableTypes
<1>6. ASSUME NEW t \in Threads, NEW c \in Contexts, RIOReceiveFails(t, c) PROVE SessionInv'
  BY <1>6, HeadFacts DEF RIOReceiveFails, Leak, SessionInv, IOTypes, TableTypes
<1>7. ASSUME NEW t \in Threads, NEW c \in Contexts, RIOSend(t, c) PROVE SessionInv'
  BY <1>7, HeadFacts DEF RIOSend, Alloc, SessionInv, IOTypes, TableTypes
<1>8. ASSUME NEW t \in Threads, NEW c \in Contexts, RIOSendFails(t, c) PROVE SessionInv'
  BY <1>8, HeadFacts DEF RIOSendFails, Leak, SessionInv, IOTypes, TableTypes
<1>9. ASSUME NEW t \in Threads, RecvPostIncrement(t) PROVE SessionInv'
  BY <1>9, HeadFacts DEF RecvPostIncrement, SessionInv, IOTypes, TableTypes
<1>10. ASSUME NEW t \in Threads, RecvPostReturns(t) PROVE SessionInv'
  BY <1>10, HeadFacts DEF RecvPostReturns, SessionInv, IOTypes, TableTypes
<1>11. ASSUME NEW t \in Threads, SendPostReturns(t) PROVE SessionInv'
  BY <1>11, HeadFacts DEF SendPostReturns, SessionInv, IOTypes, TableTypes
<1>12. ASSUME NEW t \in Threads, SendPostClaims(t) PROVE SessionInv'
  BY <1>12, HeadFacts DEF SendPostClaims, SessionInv, IOTypes, TableTypes
<1>13. ASSUME NEW t \in Threads, SendPostIncrement(t) PROVE SessionInv'
  BY <1>13, HeadFacts DEF SendPostIncrement, SessionInv, IOTypes, TableTypes
<1>14. ASSUME NEW t \in Threads, IOCountDecrement(t) PROVE SessionInv'
  BY <1>14, HeadFacts DEF IOCountDecrement, SessionInv, IOTypes, TableTypes
<1>15. ASSUME NEW t \in Threads, OnSessionLeaved(t) PROVE SessionInv'
  BY <1>15, HeadFacts DEF OnSessionLeaved, SessionInv, IOTypes, TableTypes
<1>16. ASSUME NEW t \in Threads, CloseSocket(t) PROVE SessionInv'
  BY <1>16, HeadFacts DEF CloseSocket, SessionInv, IOTypes, TableTypes
<1>17. ASSUME NEW t \in Threads, EraseSession(t) PROVE SessionInv'
  BY <1>17, HeadFacts DEF EraseSession, SessionInv, IOTypes, TableTypes
<1>18. ASSUME NEW t \in Threads, OnSessionReleased(t) PROVE SessionInv'
  BY <1>18, HeadFacts DEF OnSessionReleased, SessionInv, IOTypes, TableTypes
<1>19. ASSUME NEW t \in Threads, DropSession(t) PROVE SessionInv'
  BY <1>19, HeadFacts DEF DropSession, SessionInv, IOTypes, TableTypes
<1>20. ASSUME NEW w \in Workers, DropCompletion(w) PROVE SessionInv'
  BY <1>20, HeadFacts DEF DropCompletion, FreeContext, SessionInv, IOTypes, TableTypes
<1>21. ASSUME NEW w \in Workers, ZeroCompletion(w) PROVE SessionInv'
  BY <1>21, HeadFacts DEF ZeroCompletion, FreeContext, SessionInv, IOTypes, TableTypes
<1>22. ASSUME NEW w \in Workers, NEW n \in 0 .. MaxBatch, IOCompleted(w, n) PROVE SessionInv'
  BY <1>22, HeadFacts DEF IOCompleted, SessionInv, IOTypes, TableTypes
<1>23. ASSUME NEW w \in Workers, PacketIgnored(w) PROVE SessionInv'
  BY <1>23, HeadFacts DEF PacketIgnored, SessionInv, IOTypes, TableTypes
<1>24. ASSUME NEW w \in Workers, NEW d \in BOOLEAN, PacketAnswered(w, d) PROVE SessionInv'
  BY <1>24, HeadFacts DEF PacketAnswered, Enqueue, SessionInv, IOTypes, TableTypes
<1>25. ASSUME NEW w \in Workers, PacketBad(w) PROVE SessionInv'
  BY <1>25, HeadFacts DEF PacketBad, SessionInv, IOTypes, TableTypes
<1>26. ASSUME NEW w \in Workers, RecvCompleted(w) PROVE SessionInv'
  BY <1>26, HeadFacts DEF RecvCompleted, SessionInv, IOTypes, TableTypes
<1>27. ASSUME NEW w \in Workers, SendIOCompleted(w) PROVE SessionInv'
  BY <1>27, HeadFacts DEF SendIOCompleted, SessionInv, IOTypes, TableTypes
<1>28. ASSUME NEW w \in Workers, SendCompleted(w) PROVE SessionInv'
  BY <1>28, HeadFacts DEF SendCompleted, Disconnect, SessionInv, IOTypes, TableTypes
<1>29. ASSUME NEW w \in Workers, FreeIOContext(w) PROVE SessionInv'
  BY <1>29, HeadFacts DEF FreeIOContext, FreeContext, SessionInv, IOTypes, TableTypes
<1>30. ASSUME NEW t \in Callers, NEW s \in Sessions, GetSession(t, s) PROVE SessionInv'
  BY <1>30, HeadFacts DEF GetSession, SessionInv, IOTypes, TableTypes
<1>31. ASSUME NEW t \in Callers, NEW d \in BOOLEAN, SendPacket(t, d) PROVE SessionInv'
  BY <1>31, HeadFacts DEF SendPacket, Enqueue, SessionInv, IOTypes, TableTypes
<1>32. ASSUME NEW t \in Callers, NEW s \in Sessions, CallDisconnect(t, s) PROVE SessionInv'
  BY <1>32, HeadFacts DEF CallDisconnect, Disconnect, SessionInv, IOTypes, TableTypes
<1>33. ASSUME NEW s \in Sessions, NEW w \in Workers, Accept(s, w) PROVE SessionInv'
  BY <1>33, HeadFacts DEF Accept, InitSession, SessionInv, IOTypes, TableTypes
<1>34. ASSUME NEW s \in Sessions, AcceptFails(s) PROVE SessionInv'
  BY <1>34, HeadFacts DEF AcceptFails, SessionInv, IOTypes, TableTypes
<1>35. ASSUME NEW s \in Sessions, ClientCloses(s) PROVE SessionInv'
  BY <1>35, HeadFacts DEF ClientCloses, SessionInv, IOTypes, TableTypes
<1>36. ASSUME NEW c \in Contexts, CompleteData(c) PROVE SessionInv'
  BY <1>36, HeadFacts DEF CompleteData, Complete, SessionInv, IOTypes, TableTypes
<1>37. ASSUME NEW c \in Contexts, CompleteZero(c) PROVE SessionInv'
  BY <1>37, HeadFacts DEF CompleteZero, Complete, SessionInv, IOTypes, TableTypes
<1>38. ASSUME UNCHANGED vars PROVE SessionInv'
  BY <1>38 DEF vars, SessionInv, IOTypes, TableTypes
<1> QED
  BY <1>1, <1>2, <1>3, <1>4, <1>5, <1>6, <1>7, <1>8, <1>9, <1>10, <1>11, <1>12, <1>13,
     <1>14, <1>15, <1>16, <1>17, <1>18, <1>19, <1>20, <1>21, <1>22, <1>23, <1>24, <1>25,
     <1>26, <1>27, <1>28, <1>29, <1>30, <1>31, <1>32, <1>33, <1>34, <1>35, <1>36, <1>37,
     <1>38
  DEF Next, ThreadStep, AccepterStep, PostStep, ReleaseStep, WorkerStep, CallerStep,
      Environment, Poll

(* RecvPost, SendPost and ReleaseSession return where they were called from. *)
LEMMA ReturnStep == TypeOK /\ ReturnInv /\ [Next]_vars => ReturnInv'
<1> SUFFICES ASSUME TypeOK, ReturnInv, [Next]_vars PROVE ReturnInv'
  OBVIOUS
<1> USE ThreadsFacts
    DEF sessionVars, tableVars, ioVars, localVars, Goto, Return, TypeOK, LocalTypes
<1>1. ASSUME CountInWorker PROVE ReturnInv'
  BY <1>1, ThreadsAssumption DEF CountInWorker, ReturnInv, RecvPostPCs, SessionPCs
<1>2. ASSUME Emplace PROVE ReturnInv'
  BY <1>2, ThreadsAssumption DEF Emplace, ReturnInv, RecvPostPCs, SessionPCs
<1>3. ASSUME OnSessionEntered PROVE ReturnInv'
  BY <1>3, ThreadsAssumption DEF OnSessionEntered, ReturnInv, RecvPostPCs, SessionPCs
<1>4. ASSUME CountSession PROVE ReturnInv'
  BY <1>4, ThreadsAssumption DEF CountSession, ReturnInv, RecvPostPCs, SessionPCs
<1>5. ASSUME NEW t \in Threads, NEW c \in Contexts, RIOReceive(t, c) PROVE ReturnInv'
  BY <1>5, ThreadsAssumption DEF RIOReceive, Alloc, ReturnInv, RecvPostPCs, SessionPCs
<1>6. ASSUME NEW t \in Threads, NEW c \in Contexts, RIOReceiveFails(t, c) PROVE ReturnInv'
  BY <1>6, ThreadsAssumption DEF RIOReceiveFails, Leak, ReturnInv, RecvPostPCs, SessionPCs
<1>7. ASSUME NEW t \in Threads, NEW c \in Contexts, RIOSend(t, c) PROVE ReturnInv'
  BY <1>7, ThreadsAssumption DEF RIOSend, Alloc, ReturnInv, RecvPostPCs, SessionPCs
<1>8. ASSUME NEW t \in Threads, NEW c \in Contexts, RIOSendFails(t, c) PROVE ReturnInv'
  BY <1>8, ThreadsAssumption DEF RIOSendFails, Leak, ReturnInv, RecvPostPCs, SessionPCs
<1>9. ASSUME NEW t \in Threads, RecvPostIncrement(t) PROVE ReturnInv'
  BY <1>9, ThreadsAssumption DEF RecvPostIncrement, ReturnInv, RecvPostPCs, SessionPCs
<1>10. ASSUME NEW t \in Threads, RecvPostReturns(t) PROVE ReturnInv'
  BY <1>10, ThreadsAssumption DEF RecvPostReturns, ReturnInv, RecvPostPCs, SessionPCs
<1>11. ASSUME NEW t \in Threads, SendPostReturns(t) PROVE ReturnInv'
  BY <1>11, ThreadsAssumption DEF SendPostReturns, ReturnInv, RecvPostPCs, SessionPCs
<1>12. ASSUME NEW t \in Threads, SendPostClaims(t) PROVE ReturnInv'
  BY <1>12, ThreadsAssumption DEF SendPostClaims, ReturnInv, RecvPostPCs, SessionPCs
<1>13. ASSUME NEW t \in Threads, SendPostIncrement(t) PROVE ReturnInv'
  BY <1>13, ThreadsAssumption DEF SendPostIncrement, ReturnInv, RecvPostPCs, SessionPCs
<1>14. ASSUME NEW t \in Threads, IOCountDecrement(t) PROVE ReturnInv'
  BY <1>14, ThreadsAssumption DEF IOCountDecrement, ReturnInv, RecvPostPCs, SessionPCs
<1>15. ASSUME NEW t \in Threads, OnSessionLeaved(t) PROVE ReturnInv'
  BY <1>15, ThreadsAssumption DEF OnSessionLeaved, ReturnInv, RecvPostPCs, SessionPCs
<1>16. ASSUME NEW t \in Threads, CloseSocket(t) PROVE ReturnInv'
  BY <1>16, ThreadsAssumption DEF CloseSocket, ReturnInv, RecvPostPCs, SessionPCs
<1>17. ASSUME NEW t \in Threads, EraseSession(t) PROVE ReturnInv'
  BY <1>17, ThreadsAssumption DEF EraseSession, ReturnInv, RecvPostPCs, SessionPCs
<1>18. ASSUME NEW t \in Threads, OnSessionReleased(t) PROVE ReturnInv'
  BY <1>18, ThreadsAssumption DEF OnSessionReleased, ReturnInv, RecvPostPCs, SessionPCs
<1>19. ASSUME NEW t \in Threads, DropSession(t) PROVE ReturnInv'
  BY <1>19, ThreadsAssumption DEF DropSession, ReturnInv, RecvPostPCs, SessionPCs
<1>20. ASSUME NEW w \in Workers, DropCompletion(w) PROVE ReturnInv'
  BY <1>20, ThreadsAssumption
  DEF DropCompletion, FreeContext, ReturnInv, RecvPostPCs, SessionPCs
<1>21. ASSUME NEW w \in Workers, ZeroCompletion(w) PROVE ReturnInv'
  BY <1>21, ThreadsAssumption
  DEF ZeroCompletion, FreeContext, ReturnInv, RecvPostPCs, SessionPCs
<1>22. ASSUME NEW w \in Workers, NEW n \in 0 .. MaxBatch, IOCompleted(w, n) PROVE ReturnInv'
  BY <1>22, ThreadsAssumption DEF IOCompleted, ReturnInv, RecvPostPCs, SessionPCs
<1>23. ASSUME NEW w \in Workers, PacketIgnored(w) PROVE ReturnInv'
  BY <1>23, ThreadsAssumption DEF PacketIgnored, ReturnInv, RecvPostPCs, SessionPCs
<1>24. ASSUME NEW w \in Workers, NEW d \in BOOLEAN, PacketAnswered(w, d) PROVE ReturnInv'
  BY <1>24, ThreadsAssumption DEF PacketAnswered, Enqueue, ReturnInv, RecvPostPCs, SessionPCs
<1>25. ASSUME NEW w \in Workers, PacketBad(w) PROVE ReturnInv'
  BY <1>25, ThreadsAssumption DEF PacketBad, ReturnInv, RecvPostPCs, SessionPCs
<1>26. ASSUME NEW w \in Workers, RecvCompleted(w) PROVE ReturnInv'
  BY <1>26, ThreadsAssumption DEF RecvCompleted, ReturnInv, RecvPostPCs, SessionPCs
<1>27. ASSUME NEW w \in Workers, SendIOCompleted(w) PROVE ReturnInv'
  BY <1>27, ThreadsAssumption DEF SendIOCompleted, ReturnInv, RecvPostPCs, SessionPCs
<1>28. ASSUME NEW w \in Workers, SendCompleted(w) PROVE ReturnInv'
  BY <1>28, ThreadsAssumption DEF SendCompleted, Disconnect, ReturnInv, RecvPostPCs, SessionPCs
<1>29. ASSUME NEW w \in Workers, FreeIOContext(w) PROVE ReturnInv'
  BY <1>29, ThreadsAssumption DEF FreeIOContext, FreeContext, ReturnInv, RecvPostPCs, SessionPCs
<1>30. ASSUME NEW t \in Callers, NEW s \in Sessions, GetSession(t, s) PROVE ReturnInv'
  BY <1>30, ThreadsAssumption DEF GetSession, ReturnInv, RecvPostPCs, SessionPCs
<1>31. ASSUME NEW t \in Callers, NEW d \in BOOLEAN, SendPacket(t, d) PROVE ReturnInv'
  BY <1>31, ThreadsAssumption DEF SendPacket, Enqueue, ReturnInv, RecvPostPCs, SessionPCs
<1>32. ASSUME NEW t \in Callers, NEW s \in Sessions, CallDisconnect(t, s) PROVE ReturnInv'
  BY <1>32, ThreadsAssumption DEF CallDisconnect, Disconnect, ReturnInv, RecvPostPCs, SessionPCs
<1>33. ASSUME NEW s \in Sessions, NEW w \in Workers, Accept(s, w) PROVE ReturnInv'
  BY <1>33, ThreadsAssumption DEF Accept, InitSession, ReturnInv, RecvPostPCs, SessionPCs
<1>34. ASSUME NEW s \in Sessions, AcceptFails(s) PROVE ReturnInv'
  BY <1>34, ThreadsAssumption DEF AcceptFails, ReturnInv, RecvPostPCs, SessionPCs
<1>35. ASSUME NEW s \in Sessions, ClientCloses(s) PROVE ReturnInv'
  BY <1>35, ThreadsAssumption DEF ClientCloses, ReturnInv, RecvPostPCs, SessionPCs
<1>36. ASSUME NEW c \in Contexts, CompleteData(c) PROVE ReturnInv'
  BY <1>36, ThreadsAssumption DEF CompleteData, Complete, ReturnInv, RecvPostPCs, SessionPCs
<1>37. ASSUME NEW c \in Contexts, CompleteZero(c) PROVE ReturnInv'
  BY <1>37, ThreadsAssumption DEF CompleteZero, Complete, ReturnInv, RecvPostPCs, SessionPCs
<1>38. ASSUME UNCHANGED vars PROVE ReturnInv'
  BY <1>38 DEF vars, ReturnInv, RecvPostPCs, SessionPCs
<1> QED
  BY <1>1, <1>2, <1>3, <1>4, <1>5, <1>6, <1>7, <1>8, <1>9, <1>10, <1>11, <1>12, <1>13,
     <1>14, <1>15, <1>16, <1>17, <1>18, <1>19, <1>20, <1>21, <1>22, <1>23, <1>24, <1>25,
     <1>26, <1>27, <1>28, <1>29, <1>30, <1>31, <1>32, <1>33, <1>34, <1>35, <1>36, <1>37,
     <1>38
  DEF Next, ThreadStep, AccepterStep, PostStep, ReleaseStep, WorkerStep, CallerStep,
      Environment, Poll

(* What a worker takes from its queue was put there by the kernel.           *)
LEMMA HeadQueued ==
    ASSUME TypeOK, QueueInv, NEW w \in Workers, cq[w] # <<>>
    PROVE  context[Dequeued(w)].st = "queued"
<1>1. cq[w] \in Seq(Completion)
  BY DEF TypeOK, IOTypes
<1>2. Head(cq[w]) = cq[w][1] /\ 1 \in 1 .. Len(cq[w])
  BY <1>1
<1> QED
  BY <1>2 DEF QueueInv, Dequeued

(* A completion in a handler is not shared with another worker.              *)
LEMMA HeldStep == TypeOK /\ QueueInv /\ HeldInv /\ [Next]_vars => HeldInv'
<1> SUFFICES ASSUME TypeOK, QueueInv, HeldInv, [Next]_vars PROVE HeldInv'
  OBVIOUS
<1> USE ThreadsFacts
    DEF sessionVars, tableVars, ioVars, localVars, Goto, Return, TypeOK, LocalTypes
<1>1. ASSUME CountInWorker PROVE HeldInv'
  BY <1>1, HeadFacts, ContextsAssumption, HeadQueued DEF CountInWorker, HeldInv, IOTypes
<1>2. ASSUME Emplace PROVE HeldInv'
  BY <1>2, HeadFacts, ContextsAssumption, HeadQueued DEF Emplace, HeldInv, IOTypes
<1>3. ASSUME OnSessionEntered PROVE HeldInv'
  BY <1>3, HeadFacts, ContextsAssumption, HeadQueued DEF OnSessionEntered, HeldInv, IOTypes
<1>4. ASSUME CountSession PROVE HeldInv'
  BY <1>4, HeadFacts, ContextsAssumption, HeadQueued DEF CountSession, HeldInv, IOTypes
<1>5. ASSUME NEW t \in Threads, NEW c \in Contexts, RIOReceive(t, c) PROVE HeldInv'
  BY <1>5, HeadFacts, ContextsAssumption, HeadQueued DEF RIOReceive, Alloc, HeldInv, IOTypes
<1>6. ASSUME NEW t \in Threads, NEW c \in Contexts, RIOReceiveFails(t, c) PROVE HeldInv'
  BY <1>6, HeadFacts, ContextsAssumption, HeadQueued DEF RIOReceiveFails, Leak, HeldInv, IOTypes
<1>7. ASSUME NEW t \in Threads, NEW c \in Contexts, RIOSend(t, c) PROVE HeldInv'
  BY <1>7, HeadFacts, ContextsAssumption, HeadQueued DEF RIOSend, Alloc, HeldInv, IOTypes
<1>8. ASSUME NEW t \in Threads, NEW c \in Contexts, RIOSendFails(t, c) PROVE HeldInv'
  BY <1>8, HeadFacts, ContextsAssumption, HeadQueued DEF RIOSendFails, Leak, HeldInv, IOTypes
<1>9. ASSUME NEW t \in Threads, RecvPostIncrement(t) PROVE HeldInv'
  BY <1>9, HeadFacts, ContextsAssumption, HeadQueued DEF RecvPostIncrement, HeldInv, IOTypes
<1>10. ASSUME NEW t \in Threads, RecvPostReturns(t) PROVE HeldInv'
  BY <1>10, HeadFacts, ContextsAssumption, HeadQueued DEF RecvPostReturns, HeldInv, IOTypes
<1>11. ASSUME NEW t \in Threads, SendPostReturns(t) PROVE HeldInv'
  BY <1>11, HeadFacts, ContextsAssumption, HeadQueued DEF SendPostReturns, HeldInv, IOTypes
<1>12. ASSUME NEW t \in Threads, SendPostClaims(t) PROVE HeldInv'
  BY <1>12, HeadFacts, ContextsAssumption, HeadQueued DEF SendPostClaims, HeldInv, IOTypes
<1>13. ASSUME NEW t \in Threads, SendPostIncrement(t) PROVE HeldInv'
  BY <1>13, HeadFacts, ContextsAssumption, HeadQueued DEF SendPostIncrement, HeldInv, IOTypes
<1>14. ASSUME NEW t \in Threads, IOCountDecrement(t) PROVE HeldInv'
  BY <1>14, HeadFacts, ContextsAssumption, HeadQueued DEF IOCountDecrement, HeldInv, IOTypes
<1>15. ASSUME NEW t \in Threads, OnSessionLeaved(t) PROVE HeldInv'
  BY <1>15, HeadFacts, ContextsAssumption, HeadQueued DEF OnSessionLeaved, HeldInv, IOTypes
<1>16. ASSUME NEW t \in Threads, CloseSocket(t) PROVE HeldInv'
  BY <1>16, HeadFacts, ContextsAssumption, HeadQueued DEF CloseSocket, HeldInv, IOTypes
<1>17. ASSUME NEW t \in Threads, EraseSession(t) PROVE HeldInv'
  BY <1>17, HeadFacts, ContextsAssumption, HeadQueued DEF EraseSession, HeldInv, IOTypes
<1>18. ASSUME NEW t \in Threads, OnSessionReleased(t) PROVE HeldInv'
  BY <1>18, HeadFacts, ContextsAssumption, HeadQueued DEF OnSessionReleased, HeldInv, IOTypes
<1>19. ASSUME NEW t \in Threads, DropSession(t) PROVE HeldInv'
  BY <1>19, HeadFacts, ContextsAssumption, HeadQueued DEF DropSession, HeldInv, IOTypes
<1>20. ASSUME NEW w \in Workers, DropCompletion(w) PROVE HeldInv'
  BY <1>20, HeadFacts, ContextsAssumption, HeadQueued
  DEF DropCompletion, FreeContext, HeldInv, IOTypes
<1>21. ASSUME NEW w \in Workers, ZeroCompletion(w) PROVE HeldInv'
  BY <1>21, HeadFacts, ContextsAssumption, HeadQueued
  DEF ZeroCompletion, FreeContext, HeldInv, IOTypes
<1>22. ASSUME NEW w \in Workers, NEW n \in 0 .. MaxBatch, IOCompleted(w, n) PROVE HeldInv'
  BY <1>22, HeadFacts, ContextsAssumption, HeadQueued DEF IOCompleted, HeldInv, IOTypes
<1>23. ASSUME NEW w \in Workers, PacketIgnored(w) PROVE HeldInv'
  BY <1>23, HeadFacts, ContextsAssumption, HeadQueued DEF PacketIgnored, HeldInv, IOTypes
<1>24. ASSUME NEW w \in Workers, NEW d \in BOOLEAN, PacketAnswered(w, d) PROVE HeldInv'
  BY <1>24, HeadFacts, ContextsAssumption, HeadQueued
  DEF PacketAnswered, Enqueue, HeldInv, IOTypes
<1>25. ASSUME NEW w \in Workers, PacketBad(w) PROVE HeldInv'
  BY <1>25, HeadFacts, ContextsAssumption, HeadQueued DEF PacketBad, HeldInv, IOTypes
<1>26. ASSUME NEW w \in Workers, RecvCompleted(w) PROVE HeldInv'
  BY <1>26, HeadFacts, ContextsAssumption, HeadQueued DEF RecvCompleted, HeldInv, IOTypes
<1>27. ASSUME NEW w \in Workers, SendIOCompleted(w) PROVE HeldInv'
  BY <1>27, HeadFacts, ContextsAssumption, HeadQueued DEF SendIOCompleted, HeldInv, IOTypes
<1>28. ASSUME NEW w \in Workers, SendCompleted(w) PROVE HeldInv'
  BY <1>28, HeadFacts, ContextsAssumption, HeadQueued
  DEF SendCompleted, Disconnect, HeldInv, IOTypes
<1>29. ASSUME NEW w \in Workers, FreeIOContext(w) PROVE HeldInv'
  BY <1>29, HeadFacts, ContextsAssumption, HeadQueued
  DEF FreeIOContext, FreeContext, HeldInv, IOTypes
<1>30. ASSUME NEW t \in Callers, NEW s \in Sessions, GetSession(t, s) PROVE HeldInv'
  BY <1>30, HeadFacts, ContextsAssumption, HeadQueued DEF GetSession, HeldInv, IOTypes
<1>31. ASSUME NEW t \in Callers, NEW d \in BOOLEAN, SendPacket(t, d) PROVE HeldInv'
  BY <1>31, HeadFacts, ContextsAssumption, HeadQueued DEF SendPacket, Enqueue, HeldInv, IOTypes
<1>32. ASSUME NEW t \in Callers, NEW s \in Sessions, CallDisconnect(t, s) PROVE HeldInv'
  BY <1>32, HeadFacts, ContextsAssumption, HeadQueued
  DEF CallDisconnect, Disconnect, HeldInv, IOTypes
<1>33. ASSUME NEW s \in Sessions, NEW w \in Workers, Accept(s, w) PROVE HeldInv'
  BY <1>33, HeadFacts, ContextsAssumption, HeadQueued DEF Accept, InitSession, HeldInv, IOTypes
<1>34. ASSUME NEW s \in Sessions, AcceptFails(s) PROVE HeldInv'
  BY <1>34, HeadFacts, ContextsAssumption, HeadQueued DEF AcceptFails, HeldInv, IOTypes
<1>35. ASSUME NEW s \in Sessions, ClientCloses(s) PROVE HeldInv'
  BY <1>35, HeadFacts, ContextsAssumption, HeadQueued DEF ClientCloses, HeldInv, IOTypes
<1>36. ASSUME NEW c \in Contexts, CompleteData(c) PROVE HeldInv'
  BY <1>36, HeadFacts, ContextsAssumption, HeadQueued
  DEF CompleteData, Complete, HeldInv, IOTypes
<1>37. ASSUME NEW c \in Contexts, CompleteZero(c) PROVE HeldInv'
  BY <1>37, HeadFacts, ContextsAssumption, HeadQueued
  DEF CompleteZero, Complete, HeldInv, IOTypes
<1>38. ASSUME UNCHANGED vars PROVE HeldInv'
  BY <1>38 DEF vars, HeldInv, IOTypes
<1> QED
  BY <1>1, <1>2, <1>3, <1>4, <1>5, <1>6, <1>7, <1>8, <1>9, <1>10, <1>11, <1>12, <1>13,
     <1>14, <1>15, <1>16, <1>17, <1>18, <1>19, <1>20, <1>21, <1>22, <1>23, <1>24, <1>25,
     <1>26, <1>27, <1>28, <1>29, <1>30, <1>31, <1>32, <1>33, <1>34, <1>35, <1>36, <1>37,
     <1>38
  DEF Next, ThreadStep, AccepterStep, PostStep, ReleaseStep, WorkerStep, CallerStep,
      Environment, Poll

(* A session id is unknown to every thread and table until accept.           *)
LEMMA FreshStep == TypeOK /\ SessionInv /\ FreshInv /\ [Next]_vars => FreshInv'
<1> SUFFICES ASSUME TypeOK, SessionInv, FreshInv, [Next]_vars PROVE FreshInv'
  OBVIOUS
<1> USE ThreadsFacts
    DEF sessionVars, tableVars, ioVars, localVars, Goto, Return, TypeOK, LocalTypes
<1>1. ASSUME CountInWorker PROVE FreshInv'
  BY <1>1, HeadFacts, SessionsAssumption
  DEF CountInWorker, FreshInv, SessionTypes, TableTypes, SessionInv
<1>2. ASSUME Emplace PROVE FreshInv'
  BY <1>2, HeadFacts, SessionsAssumption
  DEF Emplace, FreshInv, SessionTypes, TableTypes, SessionInv
<1>3. ASSUME OnSessionEntered PROVE FreshInv'
  BY <1>3, HeadFacts, SessionsAssumption
  DEF OnSessionEntered, FreshInv, SessionTypes, TableTypes, SessionInv
<1>4. ASSUME CountSession PROVE FreshInv'
  BY <1>4, HeadFacts, SessionsAssumption
  DEF CountSession, FreshInv, SessionTypes, TableTypes, SessionInv
<1>5. ASSUME NEW t \in Threads, NEW c \in Contexts, RIOReceive(t, c) PROVE FreshInv'
  BY <1>5, HeadFacts, SessionsAssumption
  DEF RIOReceive, Alloc, FreshInv, SessionTypes, TableTypes, SessionInv
<1>6. ASSUME NEW t \in Threads, NEW c \in Contexts, RIOReceiveFails(t, c) PROVE FreshInv'
  BY <1>6, HeadFacts, SessionsAssumption
  DEF RIOReceiveFails, Leak, FreshInv, SessionTypes, TableTypes, SessionInv
<1>7. ASSUME NEW t \in Threads, NEW c \in Contexts, RIOSend(t, c) PROVE FreshInv'
  BY <1>7, HeadFacts, SessionsAssumption
  DEF RIOSend, Alloc, FreshInv, SessionTypes, TableTypes, SessionInv
<1>8. ASSUME NEW t \in Threads, NEW c \in Contexts, RIOSendFails(t, c) PROVE FreshInv'
  BY <1>8, HeadFacts, SessionsAssumption
  DEF RIOSendFails, Leak, FreshInv, SessionTypes, TableTypes, SessionInv
<1>9. ASSUME NEW t \in Threads, RecvPostIncrement(t) PROVE FreshInv'
  BY <1>9, HeadFacts, SessionsAssumption
  DEF RecvPostIncrement, FreshInv, SessionTypes, TableTypes, SessionInv
<1>10. ASSUME NEW t \in Threads, RecvPostReturns(t) PROVE FreshInv'
  BY <1>10, HeadFacts, SessionsAssumption
  DEF RecvPostReturns, FreshInv, SessionTypes, TableTypes, SessionInv
<1>11. ASSUME NEW t \in Threads, SendPostReturns(t) PROVE FreshInv'
  BY <1>11, HeadFacts, SessionsAssumption
  DEF SendPostReturns, FreshInv, SessionTypes, TableTypes, SessionInv
<1>12. ASSUME NEW t \in Threads, SendPostClaims(t) PROVE FreshInv'
  BY <1>12, HeadFacts, SessionsAssumption
  DEF SendPostClaims, FreshInv, SessionTypes, TableTypes, SessionInv
<1>13. ASSUME NEW t \in Threads, SendPostIncrement(t) PROVE FreshInv'
  BY <1>13, HeadFacts, SessionsAssumption
  DEF SendPostIncrement, FreshInv, SessionTypes, TableTypes, SessionInv
<1>14. ASSUME NEW t \in Threads, IOCountDecrement(t) PROVE FreshInv'
  BY <1>14, HeadFacts, SessionsAssumption
  DEF IOCountDecrement, FreshInv, SessionTypes, TableTypes, SessionInv
<1>15. ASSUME NEW t \in Threads, OnSessionLeaved(t) PROVE FreshInv'
  BY <1>15, HeadFacts, SessionsAssumption
  DEF OnSessionLeaved, FreshInv, SessionTypes, TableTypes, SessionInv
<1>16. ASSUME NEW t \in Threads, CloseSocket(t) PROVE FreshInv'
  BY <1>16, HeadFacts, SessionsAssumption
  DEF CloseSocket, FreshInv, SessionTypes, TableTypes, SessionInv
<1>17. ASSUME NEW t \in Threads, EraseSession(t) PROVE FreshInv'
  BY <1>17, HeadFacts, SessionsAssumption
  DEF EraseSession, FreshInv, SessionTypes, TableTypes, SessionInv
<1>18. ASSUME NEW t \in Threads, OnSessionReleased(t) PROVE FreshInv'
  BY <1>18, HeadFacts, SessionsAssumption
  DEF OnSessionReleased, FreshInv, SessionTypes, TableTypes, SessionInv
<1>19. ASSUME NEW t \in Threads, DropSession(t) PROVE FreshInv'
  BY <1>19, HeadFacts, SessionsAssumption
  DEF DropSession, FreshInv, SessionTypes, TableTypes, SessionInv
<1>20. ASSUME NEW w \in Workers, DropCompletion(w) PROVE FreshInv'
  BY <1>20, HeadFacts, SessionsAssumption, SMTT(30)
  DEF DropCompletion, FreeContext, FreshInv, SessionTypes, TableTypes, SessionInv
<1>21. ASSUME NEW w \in Workers, ZeroCompletion(w) PROVE FreshInv'
  <2>1. Dequeued(w) \in Contexts /\ context[Dequeued(w)].owner \in sessionMap
    BY <1>21, HeadFacts DEF ZeroCompletion
  <2>2. \A c \in Contexts : context'[c].owner \in {context[c].owner, NoSession}
    BY <1>21, <2>1 DEF ZeroCompletion, IOTypes, FreeContext
  <2>3. \A t \in Threads : session'[t] \in {session[t], context[Dequeued(w)].owner}
    BY <1>21 DEF ZeroCompletion
  <2>4. UNCHANGED <<socket, ioCount, sessionMap>>
    BY <1>21 DEF ZeroCompletion
  <2> QED
    BY <2>1, <2>2, <2>3, <2>4, SessionsAssumption DEF FreshInv
<1>22. ASSUME NEW w \in Workers, NEW n \in 0 .. MaxBatch, IOCompleted(w, n) PROVE FreshInv'
  <2>1. Dequeued(w) \in Contexts /\ context[Dequeued(w)].owner \in sessionMap
    BY <1>22, HeadFacts DEF IOCompleted
  <2>2. \A c \in Contexts : context'[c].owner \in {context[c].owner, NoSession}
    BY <1>22, <2>1 DEF IOCompleted, IOTypes
  <2>3. \A t \in Threads : session'[t] \in {session[t], context[Dequeued(w)].owner}
    BY <1>22 DEF IOCompleted
  <2>4. UNCHANGED <<socket, ioCount, sessionMap>>
    BY <1>22 DEF IOCompleted
  <2> QED
    BY <2>1, <2>2, <2>3, <2>4, SessionsAssumption DEF FreshInv
<1>23. ASSUME NEW w \in Workers, PacketIgnored(w) PROVE FreshInv'
  BY <1>23, HeadFacts, SessionsAssumption
  DEF PacketIgnored, FreshInv, SessionTypes, TableTypes, SessionInv
<1>24. ASSUME NEW w \in Workers, NEW d \in BOOLEAN, PacketAnswered(w, d) PROVE FreshInv'
  BY <1>24, HeadFacts, SessionsAssumption
  DEF PacketAnswered, Enqueue, FreshInv, SessionTypes, TableTypes, SessionInv
<1>25. ASSUME NEW w \in Workers, PacketBad(w) PROVE FreshInv'
  BY <1>25, HeadFacts, SessionsAssumption
  DEF PacketBad, FreshInv, SessionTypes, TableTypes, SessionInv
<1>26. ASSUME NEW w \in Workers, RecvCompleted(w) PROVE FreshInv'
  BY <1>26, HeadFacts, SessionsAssumption
  DEF RecvCompleted, FreshInv, SessionTypes, TableTypes, SessionInv
<1>27. ASSUME NEW w \in Workers, SendIOCompleted(w) PROVE FreshInv'
  BY <1>27, HeadFacts, SessionsAssumption
  DEF SendIOCompleted, FreshInv, SessionTypes, TableTypes, SessionInv
<1>28. ASSUME NEW w \in Workers, SendCompleted(w) PROVE FreshInv'
  BY <1>28, HeadFacts, SessionsAssumption, SMTT(30)
  DEF SendCompleted, Disconnect, FreshInv, SessionTypes, TableTypes, SessionInv
<1>29. ASSUME NEW w \in Workers, FreeIOContext(w) PROVE FreshInv'
  BY <1>29, HeadFacts, SessionsAssumption
  DEF FreeIOContext, FreeContext, FreshInv, SessionTypes, TableTypes, SessionInv
<1>30. ASSUME NEW t \in Callers, NEW s \in Sessions, GetSession(t, s) PROVE FreshInv'
  BY <1>30, HeadFacts, SessionsAssumption
  DEF GetSession, FreshInv, SessionTypes, TableTypes, SessionInv
<1>31. ASSUME NEW t \in Callers, NEW d \in BOOLEAN, SendPacket(t, d) PROVE FreshInv'
  BY <1>31, HeadFacts, SessionsAssumption
  DEF SendPacket, Enqueue, FreshInv, SessionTypes, TableTypes, SessionInv
<1>32. ASSUME NEW t \in Callers, NEW s \in Sessions, CallDisconnect(t, s) PROVE FreshInv'
  BY <1>32, HeadFacts, SessionsAssumption
  DEF CallDisconnect, Disconnect, FreshInv, SessionTypes, TableTypes, SessionInv
<1>33. ASSUME NEW s \in Sessions, NEW w \in Workers, Accept(s, w) PROVE FreshInv'
  BY <1>33, HeadFacts, SessionsAssumption, SMTT(30)
  DEF Accept, InitSession, FreshInv, SessionTypes, TableTypes, SessionInv
<1>34. ASSUME NEW s \in Sessions, AcceptFails(s) PROVE FreshInv'
  BY <1>34, HeadFacts, SessionsAssumption
  DEF AcceptFails, FreshInv, SessionTypes, TableTypes, SessionInv
<1>35. ASSUME NEW s \in Sessions, ClientCloses(s) PROVE FreshInv'
  BY <1>35, HeadFacts, SessionsAssumption
  DEF ClientCloses, FreshInv, SessionTypes, TableTypes, SessionInv
<1>36. ASSUME NEW c \in Contexts, CompleteData(c) PROVE FreshInv'
  BY <1>36, HeadFacts, SessionsAssumption
  DEF CompleteData, Complete, FreshInv, SessionTypes, TableTypes, SessionInv
<1>37. ASSUME NEW c \in Contexts, CompleteZero(c) PROVE FreshInv'
  BY <1>37, HeadFacts, SessionsAssumption
  DEF CompleteZero, Complete, FreshInv, SessionTypes, TableTypes, SessionInv
<1>38. ASSUME UNCHANGED vars PROVE FreshInv'
  BY <1>38 DEF vars, FreshInv, SessionTypes, TableTypes, SessionInv
<1> QED
  BY <1>1, <1>2, <1>3, <1>4, <1>5, <1>6, <1>7, <1>8, <1>9, <1>10, <1>11, <1>12, <1>13,
     <1>14, <1>15, <1>16, <1>17, <1>18, <1>19, <1>20, <1>21, <1>22, <1>23, <1>24, <1>25,
     <1>26, <1>27, <1>28, <1>29, <1>30, <1>31, <1>32, <1>33, <1>34, <1>35, <1>36, <1>37,
     <1>38
  DEF Next, ThreadStep, AccepterStep, PostStep, ReleaseStep, WorkerStep, CallerStep,
      Environment, Poll

(* Returning from a call does not make the accepter start a session.         *)
LEMMA NewReturn ==
    ASSUME TypeOK, SessionInv, NewInv, NEW t \in Threads, Return(t),
           UNCHANGED <<context, sessionMap>>
    PROVE  NewInv'
<1>1. SUFFICES ASSUME pc'[Accepter] \in {"count", "emplace"}
               PROVE  NewInv'
  BY DEF NewInv
<1>2. t # Accepter
  BY <1>1, ThreadsFacts DEF Return, TypeOK, LocalTypes
<1>3. pc'[Accepter] = pc[Accepter] /\ session'[Accepter] = session[Accepter]
  BY <1>2, ThreadsFacts DEF Return, TypeOK, LocalTypes
<1>4. session[Accepter] \in Sessions
  BY <1>1, <1>3, ThreadsFacts DEF SessionInv
<1>5. \A u \in Threads \ {Accepter} : session'[u] \in {session[u], NoSession}
  BY DEF Return, TypeOK, LocalTypes
<1> QED
  BY <1>1, <1>3, <1>4, <1>5, SessionsAssumption DEF NewInv

(* A session being made is known to the accepter only until it is emplaced.  *)
LEMMA NewStep == TypeOK /\ SessionInv /\ FreshInv /\ NewInv /\ [Next]_vars => NewInv'
<1> SUFFICES ASSUME TypeOK, SessionInv, FreshInv, NewInv, [Next]_vars PROVE NewInv'
  OBVIOUS
<1> USE ThreadsFacts
    DEF sessionVars, tableVars, ioVars, localVars, Goto, Return, TypeOK, LocalTypes
<1>1. ASSUME CountInWorker PROVE NewInv'
  BY <1>1, HeadFacts, ThreadsAssumption, SessionsAssumption
  DEF CountInWorker, FreshInv, NewInv, TableTypes, SessionInv
<1>2. ASSUME Emplace PROVE NewInv'
  BY <1>2, HeadFacts, ThreadsAssumption, SessionsAssumption
  DEF Emplace, FreshInv, NewInv, TableTypes, SessionInv
<1>3. ASSUME OnSessionEntered PROVE NewInv'
  BY <1>3, HeadFacts, ThreadsAssumption, SessionsAssumption
  DEF OnSessionEntered, FreshInv, NewInv, TableTypes, SessionInv
<1>4. ASSUME CountSession PROVE NewInv'
  BY <1>4, HeadFacts, ThreadsAssumption, SessionsAssumption
  DEF CountSession, FreshInv, NewInv, TableTypes, SessionInv
<1>5. ASSUME NEW t \in Threads, NEW c \in Contexts, RIOReceive(t, c) PROVE NewInv'
  BY <1>5, HeadFacts, ThreadsAssumption, SessionsAssumption
  DEF RIOReceive, Alloc, FreshInv, NewInv, TableTypes, SessionInv
<1>6. ASSUME NEW t \in Threads, NEW c \in Contexts, RIOReceiveFails(t, c) PROVE NewInv'
  BY <1>6, HeadFacts, ThreadsAssumption, SessionsAssumption
  DEF RIOReceiveFails, Leak, FreshInv, NewInv, TableTypes, SessionInv
<1>7. ASSUME NEW t \in Threads, NEW c \in Contexts, RIOSend(t, c) PROVE NewInv'
  BY <1>7, HeadFacts, ThreadsAssumption, SessionsAssumption
  DEF RIOSend, Alloc, FreshInv, NewInv, TableTypes, SessionInv
<1>8. ASSUME NEW t \in Threads, NEW c \in Contexts, RIOSendFails(t, c) PROVE NewInv'
  BY <1>8, HeadFacts, ThreadsAssumption, SessionsAssumption
  DEF RIOSendFails, Leak, FreshInv, NewInv, TableTypes, SessionInv
<1>9. ASSUME NEW t \in Threads, RecvPostIncrement(t) PROVE NewInv'
  BY <1>9, HeadFacts, ThreadsAssumption, SessionsAssumption
  DEF RecvPostIncrement, FreshInv, NewInv, TableTypes, SessionInv
<1>10. ASSUME NEW t \in Threads, RecvPostReturns(t) PROVE NewInv'
  BY <1>10, HeadFacts, ThreadsAssumption, SessionsAssumption
  DEF RecvPostReturns, FreshInv, NewInv, TableTypes, SessionInv
<1>11. ASSUME NEW t \in Threads, SendPostReturns(t) PROVE NewInv'
  BY <1>11, NewReturn DEF SendPostReturns
<1>12. ASSUME NEW t \in Threads, SendPostClaims(t) PROVE NewInv'
  BY <1>12, HeadFacts, ThreadsAssumption, SessionsAssumption
  DEF SendPostClaims, FreshInv, NewInv, TableTypes, SessionInv
<1>13. ASSUME NEW t \in Threads, SendPostIncrement(t) PROVE NewInv'
  BY <1>13, HeadFacts, ThreadsAssumption, SessionsAssumption
  DEF SendPostIncrement, FreshInv, NewInv, TableTypes, SessionInv
<1>14. ASSUME NEW t \in Threads, IOCountDecrement(t) PROVE NewInv'
  <2>1. CASE Return(t)
    BY <1>14, <2>1, NewReturn DEF IOCountDecrement
  <2>2. CASE Goto(t, "leave")
    BY <1>14, <2>2 DEF IOCountDecrement, NewInv
  <2> QED
    BY <1>14, <2>1, <2>2 DEF IOCountDecrement
<1>15. ASSUME NEW t \in Threads, OnSessionLeaved(t) PROVE NewInv'
  BY <1>15, HeadFacts, ThreadsAssumption, SessionsAssumption
  DEF OnSessionLeaved, FreshInv, NewInv, TableTypes, SessionInv
<1>16. ASSUME NEW t \in Threads, CloseSocket(t) PROVE NewInv'
  BY <1>16, HeadFacts, ThreadsAssumption, SessionsAssumption
  DEF CloseSocket, FreshInv, NewInv, TableTypes, SessionInv
<1>17. ASSUME NEW t \in Threads, EraseSession(t) PROVE NewInv'
  BY <1>17, HeadFacts, ThreadsAssumption, SessionsAssumption
  DEF EraseSession, FreshInv, NewInv, TableTypes, SessionInv
<1>18. ASSUME NEW t \in Threads, OnSessionReleased(t) PROVE NewInv'
  BY <1>18, NewReturn DEF OnSessionReleased
<1>19. ASSUME NEW t \in Threads, DropSession(t) PROVE NewInv'
  BY <1>19, HeadFacts, ThreadsAssumption, SessionsAssumption, SMTT(30)
  DEF DropSession, FreshInv, NewInv, TableTypes, SessionInv
<1>20. ASSUME NEW w \in Workers, DropCompletion(w) PROVE NewInv'
  BY <1>20, HeadFacts, ThreadsAssumption, SessionsAssumption
  DEF DropCompletion, FreeContext, FreshInv, NewInv, TableTypes, SessionInv
<1>21. ASSUME NEW w \in Workers, ZeroCompletion(w) PROVE NewInv'
  BY <1>21, HeadFacts, ThreadsAssumption, SessionsAssumption
  DEF ZeroCompletion, FreeContext, FreshInv, NewInv, TableTypes, SessionInv
<1>22. ASSUME NEW w \in Workers, NEW n \in 0 .. MaxBatch, IOCompleted(w, n) PROVE NewInv'
  BY <1>22, HeadFacts, ThreadsAssumption, SessionsAssumption
  DEF IOCompleted, FreshInv, NewInv, TableTypes, SessionInv
<1>23. ASSUME NEW w \in Workers, PacketIgnored(w) PROVE NewInv'
  BY <1>23, HeadFacts, ThreadsAssumption, SessionsAssumption
  DEF PacketIgnored, FreshInv, NewInv, TableTypes, SessionInv
<1>24. ASSUME NEW w \in Workers, NEW d \in BOOLEAN, PacketAnswered(w, d) PROVE NewInv'
  BY <1>24, HeadFacts, ThreadsAssumption, SessionsAssumption
  DEF PacketAnswered, Enqueue, FreshInv, NewInv, TableTypes, SessionInv
<1>25. ASSUME NEW w \in Workers, PacketBad(w) PROVE NewInv'
  BY <1>25, HeadFacts, ThreadsAssumption, SessionsAssumption
  DEF PacketBad, FreshInv, NewInv, TableTypes, SessionInv
<1>26. ASSUME NEW w \in Workers, RecvCompleted(w) PROVE NewInv'
  BY <1>26, HeadFacts, ThreadsAssumption, SessionsAssumption
  DEF RecvCompleted, FreshInv, NewInv, TableTypes, SessionInv
<1>27. ASSUME NEW w \in Workers, SendIOCompleted(w) PROVE NewInv'
  BY <1>27, HeadFacts, ThreadsAssumption, SessionsAssumption
  DEF SendIOCompleted, FreshInv, NewInv, TableTypes, SessionInv
<1>28. ASSUME NEW w \in Workers, SendCompleted(w) PROVE NewInv'
  BY <1>28, HeadFacts, ThreadsAssumption, SessionsAssumption
  DEF SendCompleted, Disconnect, FreshInv, NewInv, TableTypes, SessionInv
<1>29. ASSUME NEW w \in Workers, FreeIOContext(w) PROVE NewInv'
  BY <1>29, HeadFacts, ThreadsAssumption, SessionsAssumption
  DEF FreeIOContext, FreeContext, FreshInv, NewInv, TableTypes, SessionInv
<1>30. ASSUME NEW t \in Callers, NEW s \in Sessions, GetSession(t, s) PROVE NewInv'
  BY <1>30, HeadFacts, ThreadsAssumption, SessionsAssumption
  DEF GetSession, FreshInv, NewInv, TableTypes, SessionInv
<1>31. ASSUME NEW t \in Callers, NEW d \in BOOLEAN, SendPacket(t, d) PROVE NewInv'
  BY <1>31, HeadFacts, ThreadsAssumption, SessionsAssumption
  DEF SendPacket, Enqueue, FreshInv, NewInv, TableTypes, SessionInv
<1>32. ASSUME NEW t \in Callers, NEW s \in Sessions, CallDisconnect(t, s) PROVE NewInv'
  BY <1>32, HeadFacts, ThreadsAssumption, SessionsAssumption
  DEF CallDisconnect, Disconnect, FreshInv, NewInv, TableTypes, SessionInv
<1>33. ASSUME NEW s \in Sessions, NEW w \in Workers, Accept(s, w) PROVE NewInv'
  BY <1>33, HeadFacts, ThreadsAssumption, SessionsAssumption
  DEF Accept, InitSession, FreshInv, NewInv, TableTypes, SessionInv
<1>34. ASSUME NEW s \in Sessions, AcceptFails(s) PROVE NewInv'
  BY <1>34, HeadFacts, ThreadsAssumption, SessionsAssumption
  DEF AcceptFails, FreshInv, NewInv, TableTypes, SessionInv
<1>35. ASSUME NEW s \in Sessions, ClientCloses(s) PROVE NewInv'
  BY <1>35, HeadFacts, ThreadsAssumption, SessionsAssumption
  DEF ClientCloses, FreshInv, NewInv, TableTypes, SessionInv
<1>36. ASSUME NEW c \in Contexts, CompleteData(c) PROVE NewInv'
  BY <1>36, HeadFacts, ThreadsAssumption, SessionsAssumption
  DEF CompleteData, Complete, FreshInv, NewInv, TableTypes, SessionInv
<1>37. ASSUME NEW c \in Contexts, CompleteZero(c) PROVE NewInv'
  BY <1>37, HeadFacts, ThreadsAssumption, SessionsAssumption
  DEF CompleteZero, Complete, FreshInv, NewInv, TableTypes, SessionInv
<1>38. ASSUME UNCHANGED vars PROVE NewInv'
  BY <1>38 DEF vars, FreshInv, NewInv, TableTypes, SessionInv
<1> QED
  BY <1>1, <1>2, <1>3, <1>4, <1>5, <1>6, <1>7, <1>8, <1>9, <1>10, <1>11, <1>12, <1>13,
     <1>14, <1>15, <1>16, <1>17, <1>18, <1>19, <1>20, <1>21, <1>22, <1>23, <1>24, <1>25,
     <1>26, <1>27, <1>28, <1>29, <1>30, <1>31, <1>32, <1>33, <1>34, <1>35, <1>36, <1>37,
     <1>38
  DEF Next, ThreadStep, AccepterStep, PostStep, ReleaseStep, WorkerStep, CallerStep,
      Environment, Poll

(* A step that leaves the queues and the queued contexts alone keeps QueueInv. *)
LEMMA QueueKept ==
    ASSUME TypeOK, QueueInv, UNCHANGED cq,
           \A c \in Contexts : context[c].st = "queued" => context'[c].st = "queued"
    PROVE  QueueInv'
<1>1. ASSUME NEW w \in Workers, NEW i \in 1 .. Len(cq[w])
      PROVE  cq[w][i].ctx \in Contexts
  <2>1. cq[w] \in Seq(Completion)
    BY DEF TypeOK, IOTypes
  <2>2. cq[w][i] \in Completion
    BY <2>1
  <2> QED
    BY <2>2 DEF Completion
<1> QED
  BY <1>1, SMTT(30) DEF QueueInv

(* Dequeuing keeps QueueInv when the context dequeued changes its state.     *)
LEMMA QueueTail ==
    ASSUME TypeOK, QueueInv, NEW w \in Workers, cq[w] # <<>>,
           cq' = [cq EXCEPT ![w] = Tail(@)],
           \A c \in Contexts \ {Dequeued(w)} : context[c].st = "queued" => context'[c].st = "queued"
    PROVE  QueueInv'
<1>1. ASSUME NEW v \in Workers
      PROVE  cq[v] \in Seq(Completion)
  BY DEF TypeOK, IOTypes
<1>2. /\ Tail(cq[w]) \in Seq(Completion)
      /\ Len(Tail(cq[w])) = Len(cq[w]) - 1
      /\ \A i \in 1 .. Len(Tail(cq[w])) : Tail(cq[w])[i] = cq[w][i + 1]
  BY <1>1, HeadTailProperties
<1>3. Head(cq[w]) = cq[w][1] /\ Len(cq[w]) \in Nat \ {0}
  BY <1>1
<1>4. ASSUME NEW v \in Workers, NEW i \in 1 .. Len(cq'[v])
      PROVE  /\ cq[v] \in Seq(Completion)
             /\ i + (IF v = w THEN 1 ELSE 0) \in 1 .. Len(cq[v])
             /\ cq'[v][i] = cq[v][i + (IF v = w THEN 1 ELSE 0)]
  <2>1. CASE v = w
    BY <2>1, <1>1, <1>2, <1>3 DEF TypeOK, IOTypes
  <2>2. CASE v # w
    BY <2>2, <1>1 DEF TypeOK, IOTypes
  <2> QED
    BY <2>1, <2>2
<1>5. ASSUME NEW v \in Workers, NEW i \in 1 .. Len(cq'[v])
      PROVE  context'[cq'[v][i].ctx].st = "queued"
  <2> DEFINE k == i + (IF v = w THEN 1 ELSE 0)
  <2>1. cq[v][k] \in Completion /\ k \in 1 .. Len(cq[v])
    BY <1>4, <1>5
  <2>2. cq[v][k].ctx \in Contexts
    BY <2>1 DEF Completion
  <2>3. k # 1 \/ v # w
    OBVIOUS
  <2>4. cq[v][k].ctx # cq[w][1].ctx
    BY <2>1, <2>3, <1>3 DEF QueueInv
  <2>5. context[cq[v][k].ctx].st = "queued"
    BY <2>1 DEF QueueInv
  <2>6. cq[v][k].ctx # Dequeued(w)
    BY <1>3, <2>4 DEF Dequeued
  <2>7. cq'[v][i].ctx = cq[v][k].ctx
    BY <1>4, <1>5
  <2> QED
    BY <2>2, <2>5, <2>6, <2>7
<1>6. ASSUME NEW u \in Workers, NEW v \in Workers,
             NEW i \in 1 .. Len(cq'[u]), NEW j \in 1 .. Len(cq'[v]),
             cq'[u][i].ctx = cq'[v][j].ctx
      PROVE  u = v /\ i = j
  BY <1>4, <1>6 DEF QueueInv
<1> QED
  BY <1>5, <1>6 DEF QueueInv

(* A posted request enters the queue of one worker, once.                    *)
LEMMA QueueAppend ==
    ASSUME TypeOK, QueueInv, SessionInv, NEW c \in Contexts, NEW b,
           context[c].st = "posted", Complete(c, b)
    PROVE  QueueInv'
<1> DEFINE w == CompletionQueue(c)
           x == [ctx |-> c, bytes |-> b]
<1>0. /\ w \in Workers
      /\ cq' = [cq EXCEPT ![w] = Append(cq[w], x)]
      /\ x.ctx = c
      /\ context'[c].st = "queued"
      /\ \A d \in Contexts : context[d].st = "queued" => context'[d].st = "queued"
  BY DEF SessionInv, TypeOK, RequestQueueTypes, IOTypes, Complete, CompletionQueue
<1> HIDE DEF w, x
<1>1. ASSUME NEW v \in Workers
      PROVE  /\ cq[v] \in Seq(Completion)
             /\ \A i \in 1 .. Len(cq[v]) : cq[v][i].ctx \in Contexts \ {c}
  <2>1. cq[v] \in Seq(Completion)
    BY DEF TypeOK, IOTypes
  <2>2. \A i \in 1 .. Len(cq[v]) : cq[v][i] \in Completion
    BY <2>1
  <2> QED
    BY <2>1, <2>2 DEF Completion, QueueInv
<1>2. ASSUME NEW v \in Workers, NEW i \in 1 .. Len(cq'[v])
      PROVE  \/ i \in 1 .. Len(cq[v]) /\ cq'[v][i] = cq[v][i]
             \/ v = w /\ i = Len(cq[v]) + 1 /\ cq'[v][i] = x
  BY <1>0, <1>1 DEF TypeOK, IOTypes
<1>3. ASSUME NEW v \in Workers, NEW i \in 1 .. Len(cq'[v])
      PROVE  context'[cq'[v][i].ctx].st = "queued"
  BY <1>0, <1>1, <1>2, <1>3 DEF QueueInv
<1>4. ASSUME NEW u \in Workers, NEW v \in Workers,
             NEW i \in 1 .. Len(cq'[u]), NEW j \in 1 .. Len(cq'[v]),
             cq'[u][i].ctx = cq'[v][j].ctx
      PROVE  u = v /\ i = j
  BY <1>0, <1>1, <1>2, <1>4, SMTT(30) DEF QueueInv
<1> QED
  BY <1>3, <1>4 DEF QueueInv

(* The completion queues never hold a context twice.                         *)
LEMMA QueueStep == TypeOK /\ SessionInv /\ QueueInv /\ HeldInv /\ [Next]_vars => QueueInv'
<1> SUFFICES ASSUME TypeOK, SessionInv, QueueInv, HeldInv, [Next]_vars PROVE QueueInv'
  OBVIOUS
<1> USE ThreadsFacts DEF sessionVars, tableVars, ioVars, localVars, Goto, Return
<1>1. ASSUME CountInWorker PROVE QueueInv'
  BY <1>1, QueueKept DEF CountInWorker
<1>2. ASSUME Emplace PROVE QueueInv'
  BY <1>2, QueueKept DEF Emplace
<1>3. ASSUME OnSessionEntered PROVE QueueInv'
  BY <1>3, QueueKept DEF OnSessionEntered
<1>4. ASSUME CountSession PROVE QueueInv'
  BY <1>4, QueueKept DEF CountSession
<1>5. ASSUME NEW t \in Threads, NEW c \in Contexts, RIOReceive(t, c) PROVE QueueInv'
  BY <1>5, QueueKept DEF RIOReceive, Alloc, TypeOK, IOTypes
<1>6. ASSUME NEW t \in Threads, NEW c \in Contexts, RIOReceiveFails(t, c) PROVE QueueInv'
  BY <1>6, QueueKept DEF RIOReceiveFails, Leak, TypeOK, IOTypes
<1>7. ASSUME NEW t \in Threads, NEW c \in Contexts, RIOSend(t, c) PROVE QueueInv'
  BY <1>7, QueueKept DEF RIOSend, Alloc, TypeOK, IOTypes
<1>8. ASSUME NEW t \in Threads, NEW c \in Contexts, RIOSendFails(t, c) PROVE QueueInv'
  BY <1>8, QueueKept DEF RIOSendFails, Leak, TypeOK, IOTypes
<1>9. ASSUME NEW t \in Threads, RecvPostIncrement(t) PROVE QueueInv'
  BY <1>9, QueueKept DEF RecvPostIncrement
<1>10. ASSUME NEW t \in Threads, RecvPostReturns(t) PROVE QueueInv'
  BY <1>10, QueueKept DEF RecvPostReturns
<1>11. ASSUME NEW t \in Threads, SendPostReturns(t) PROVE QueueInv'
  BY <1>11, QueueKept DEF SendPostReturns
<1>12. ASSUME NEW t \in Threads, SendPostClaims(t) PROVE QueueInv'
  BY <1>12, QueueKept DEF SendPostClaims
<1>13. ASSUME NEW t \in Threads, SendPostIncrement(t) PROVE QueueInv'
  BY <1>13, QueueKept DEF SendPostIncrement
<1>14. ASSUME NEW t \in Threads, IOCountDecrement(t) PROVE QueueInv'
  BY <1>14, QueueKept DEF IOCountDecrement
<1>15. ASSUME NEW t \in Threads, OnSessionLeaved(t) PROVE QueueInv'
  BY <1>15, QueueKept DEF OnSessionLeaved
<1>16. ASSUME NEW t \in Threads, CloseSocket(t) PROVE QueueInv'
  BY <1>16, QueueKept DEF CloseSocket
<1>17. ASSUME NEW t \in Threads, EraseSession(t) PROVE QueueInv'
  BY <1>17, QueueKept DEF EraseSession
<1>18. ASSUME NEW t \in Threads, OnSessionReleased(t) PROVE QueueInv'
  BY <1>18, QueueKept DEF OnSessionReleased
<1>19. ASSUME NEW t \in Threads, DropSession(t) PROVE QueueInv'
  BY <1>19, QueueKept DEF DropSession
<1>20. ASSUME NEW w \in Workers, DropCompletion(w) PROVE QueueInv'
  BY <1>20, QueueTail DEF DropCompletion, FreeContext, TypeOK, IOTypes
<1>21. ASSUME NEW w \in Workers, ZeroCompletion(w) PROVE QueueInv'
  BY <1>21, QueueTail DEF ZeroCompletion, FreeContext, TypeOK, IOTypes
<1>22. ASSUME NEW w \in Workers, NEW n \in 0 .. MaxBatch, IOCompleted(w, n) PROVE QueueInv'
  BY <1>22, QueueTail DEF IOCompleted, TypeOK, IOTypes
<1>23. ASSUME NEW w \in Workers, PacketIgnored(w) PROVE QueueInv'
  BY <1>23, QueueKept DEF PacketIgnored
<1>24. ASSUME NEW w \in Workers, NEW d \in BOOLEAN, PacketAnswered(w, d) PROVE QueueInv'
  BY <1>24, QueueKept DEF PacketAnswered, Enqueue
<1>25. ASSUME NEW w \in Workers, PacketBad(w) PROVE QueueInv'
  BY <1>25, QueueKept DEF PacketBad
<1>26. ASSUME NEW w \in Workers, RecvCompleted(w) PROVE QueueInv'
  BY <1>26, QueueKept DEF RecvCompleted
<1>27. ASSUME NEW w \in Workers, SendIOCompleted(w) PROVE QueueInv'
  BY <1>27, QueueKept DEF SendIOCompleted
<1>28. ASSUME NEW w \in Workers, SendCompleted(w) PROVE QueueInv'
  BY <1>28, QueueKept DEF SendCompleted, Disconnect
<1>29. ASSUME NEW w \in Workers, FreeIOContext(w) PROVE QueueInv'
  <2>1. ioContext[w] = NoContext \/ context[ioContext[w]].st = "held"
    BY DEF HeldInv
  <2>2. \A c \in Contexts : context[c].st = "queued" => context'[c].st = "queued"
    BY <1>29, <2>1, ContextsAssumption DEF FreeIOContext, TypeOK, IOTypes
  <2> QED
    BY <1>29, <2>2, QueueKept DEF FreeIOContext
<1>30. ASSUME NEW t \in Callers, NEW s \in Sessions, GetSession(t, s) PROVE QueueInv'
  BY <1>30, QueueKept DEF GetSession
<1>31. ASSUME NEW t \in Callers, NEW d \in BOOLEAN, SendPacket(t, d) PROVE QueueInv'
  BY <1>31, QueueKept DEF SendPacket, Enqueue
<1>32. ASSUME NEW t \in Callers, NEW s \in Sessions, CallDisconnect(t, s) PROVE QueueInv'
  BY <1>32, QueueKept DEF CallDisconnect, Disconnect
<1>33. ASSUME NEW s \in Sessions, NEW w \in Workers, Accept(s, w) PROVE QueueInv'
  BY <1>33, QueueKept DEF Accept, InitSession
<1>34. ASSUME NEW s \in Sessions, AcceptFails(s) PROVE QueueInv'
  BY <1>34, QueueKept DEF AcceptFails
<1>35. ASSUME NEW s \in Sessions, ClientCloses(s) PROVE QueueInv'
  BY <1>35, QueueKept DEF ClientCloses
<1>36. ASSUME NEW c \in Contexts, CompleteData(c) PROVE QueueInv'
  BY <1>36, QueueAppend DEF CompleteData
<1>37. ASSUME NEW c \in Contexts, CompleteZero(c) PROVE QueueInv'
  BY <1>37, QueueAppend DEF CompleteZero
<1>38. ASSUME UNCHANGED vars PROVE QueueInv'
  BY <1>38, QueueKept DEF vars
<1> QED
  BY <1>1, <1>2, <1>3, <1>4, <1>5, <1>6, <1>7, <1>8, <1>9, <1>10, <1>11, <1>12, <1>13,
     <1>14, <1>15, <1>16, <1>17, <1>18, <1>19, <1>20, <1>21, <1>22, <1>23, <1>24, <1>25,
     <1>26, <1>27, <1>28, <1>29, <1>30, <1>31, <1>32, <1>33, <1>34, <1>35, <1>36, <1>37,
     <1>38
  DEF Next, ThreadStep, AccepterStep, PostStep, ReleaseStep, WorkerStep, CallerStep,
      Environment, Poll

(* A finite set that gains an element grows by one, ...                      *)
LEMMA CardGain ==
    ASSUME NEW S, IsFiniteSet(S), NEW x, x \notin S
    PROVE  Cardinality(S \cup {x}) = Cardinality(S) + 1
BY FS_AddElement

(* ... and one that loses an element shrinks by one.                         *)
LEMMA CardLose ==
    ASSUME NEW S, IsFiniteSet(S), NEW x \in S
    PROVE  Cardinality(S \ {x}) = Cardinality(S) - 1
BY FS_RemoveElement

(* The four sets of the accounting equation are finite.                      *)
LEMMA CountsFinite ==
    ASSUME NEW s
    PROVE  /\ IsFiniteSet(Inflight(s)) /\ Cardinality(Inflight(s)) \in Nat
           /\ IsFiniteSet(Handling(s)) /\ Cardinality(Handling(s)) \in Nat
           /\ IsFiniteSet(Sending(s)) /\ Cardinality(Sending(s)) \in Nat
           /\ IsFiniteSet(Uncounted(s)) /\ Cardinality(Uncounted(s)) \in Nat
<1>1. /\ Inflight(s) \subseteq Contexts /\ Handling(s) \subseteq Threads
      /\ Sending(s) \subseteq Threads /\ Uncounted(s) \subseteq Threads
  BY DEF Inflight, Handling, Sending, Uncounted
<1> QED
  BY <1>1, ContextsAssumption, ThreadsAssumption, FS_Subset, FS_CardinalityType

(* What a step that changes neither the count nor what it counts keeps: the  *)
(* role of every thread and the requests in flight.                          *)
RolesKept ==
    \A t \in Threads :
        /\ Handles(t)' <=> Handles(t)
        /\ pc'[t] \in {"rioSend", "sendDec"} <=> pc[t] \in {"rioSend", "sendDec"}
        /\ pc'[t] = "recvInc" <=> pc[t] = "recvInc"
        /\ \/ session'[t] = session[t]
           \/ ~Handles(t) /\ pc[t] \notin {"rioSend", "sendDec", "recvInc"}

InflightKept == \A s \in Alive' : Inflight(s)' = Inflight(s)

(* A step that keeps the count, the roles and the requests keeps the equation. *)
LEMMA Neutral ==
    ASSUME IOCountAccounting, UNCHANGED ioCount, Alive' \subseteq Alive, RolesKept, InflightKept
    PROVE  IOCountAccounting'
<1> SUFFICES ASSUME NEW s \in Alive'
             PROVE  ioCount'[s] + Cardinality(Uncounted(s)')
                      = Cardinality(Inflight(s)') + Cardinality(Handling(s)') + Cardinality(Sending(s)')
  BY DEF IOCountAccounting
<1>1. Inflight(s)' = Inflight(s)
  BY DEF InflightKept
<1>2. Handling(s)' = Handling(s)
  BY DEF Handling, RolesKept
<1>3. Sending(s)' = Sending(s) /\ Uncounted(s)' = Uncounted(s)
  BY DEF Sending, Uncounted, RolesKept
<1> QED
  BY <1>1, <1>2, <1>3 DEF IOCountAccounting

(* No session becomes alive unless it is accepted.                           *)
LEMMA AliveFrame ==
    ASSUME sessionMap' \subseteq sessionMap,
           pc'[Accepter] \in {"count", "emplace"} =>
               pc[Accepter] \in {"count", "emplace"} /\ session'[Accepter] = session[Accepter]
    PROVE  Alive' \subseteq Alive
BY DEF Alive

(* The accounting equation of one session.                                   *)
Balanced(s) ==
    ioCount[s] + Cardinality(Uncounted(s))
        = Cardinality(Inflight(s)) + Cardinality(Handling(s)) + Cardinality(Sending(s))

(* A session no part of whose equation changes stays balanced.               *)
LEMMA BalancedOther ==
    ASSUME NEW s, Balanced(s), ioCount'[s] = ioCount[s],
           Uncounted(s)' = Uncounted(s), Inflight(s)' = Inflight(s),
           Handling(s)' = Handling(s), Sending(s)' = Sending(s)
    PROVE  Balanced(s)'
BY DEF Balanced

(* Balance session by session is the accounting invariant.                   *)
LEMMA BalancedAll ==
    ASSUME IOCountAccounting, Alive' \subseteq Alive,
           \A s \in Alive : Balanced(s) => Balanced(s)'
    PROVE  IOCountAccounting'
BY DEF IOCountAccounting, Balanced

(* RIOReceive hands the kernel a request that is not counted yet.            *)
LEMMA RIOReceiveCounts ==
    ASSUME IInv, NEW t \in Threads, NEW c \in Contexts, RIOReceive(t, c)
    PROVE  IOCountAccounting'
<1>0. TypeOK /\ QueueInv /\ ReturnInv /\ SessionInv /\ FreshInv /\ NewInv /\ IOCountAccounting
  BY DEF IInv
<1> USE <1>0, ThreadsFacts DEF sessionVars, tableVars, ioVars, localVars
<1>1. /\ pc[t] = "recvPost" /\ pc' = [pc EXCEPT ![t] = "recvInc"]
      /\ UNCHANGED <<session, ret, sessionMap>>
      /\ UNCHANGED ioCount
      /\ context[c].st = "free" /\ context' = [context EXCEPT ![c] = [st |-> "posted", owner |-> session[t], op |-> "recv"]]
  BY DEF RIOReceive, Alloc, Goto
<1>2. PICK r \in Sessions : r = session[t]
  BY <1>1 DEF SessionInv
<1>3. pc \in [Threads -> PCs] /\ ioCount \in [Sessions -> Int] /\ context \in [Contexts -> ContextTypes]
  BY DEF TypeOK, LocalTypes, SessionTypes, IOTypes, ContextTypes
<1>4. Alive' \subseteq Alive
  BY <1>1, <1>2, <1>3 DEF Alive
<1>5. \A s : Handling(s)' = Handling(s)
  BY <1>1, <1>2, <1>3
  DEF Handling, Handles, HandlerPCs, RecvPostPCs, CompletionPCs, SendPostPCs, ReleasePCs
<1>6. /\ Inflight(r)' = Inflight(r) \cup {c} /\ c \notin Inflight(r)
      /\ Sending(r)' = Sending(r)
  BY <1>1, <1>2, <1>3 DEF Inflight, Sending, ContextTypes
<1>7. Uncounted(r)' = Uncounted(r) \cup {t} /\ t \notin Uncounted(r)
  BY <1>1, <1>2, <1>3 DEF Uncounted
<1>8. Balanced(r) => Balanced(r)'
  <2>1. ioCount[r] \in Int /\ ioCount'[r] = ioCount[r]
    BY <1>1, <1>2, <1>3
  <2>2. Cardinality(Uncounted(r)') = Cardinality(Uncounted(r)) + 1
    BY <1>6, <1>7, CountsFinite, CardGain, CardLose
  <2>3. Cardinality(Inflight(r)') = Cardinality(Inflight(r)) + 1
    BY <1>6, <1>7, CountsFinite, CardGain, CardLose
  <2>4. Cardinality(Sending(r)') = Cardinality(Sending(r))
    BY <1>6, <1>7, CountsFinite, CardGain, CardLose
  <2>5. Handling(r)' = Handling(r)
    BY <1>5
  <2> QED
    BY <2>1, <2>2, <2>3, <2>4, <2>5, CountsFinite DEF Balanced
<1>9. \A s \in Alive : s # r /\ Balanced(s) => Balanced(s)'
  <2> SUFFICES ASSUME NEW s \in Alive, s # r, Balanced(s) PROVE Balanced(s)'
    OBVIOUS
  <2>1. s \in Sessions
    BY DEF Alive, TypeOK, TableTypes
  <2>2. ioCount'[s] = ioCount[s]
    BY <1>1, <1>2, <1>3, <2>1
  <2>3. Uncounted(s)' = Uncounted(s) /\ Sending(s)' = Sending(s)
    BY <1>1, <1>2, <1>3 DEF Uncounted, Sending
  <2>4. Inflight(s)' = Inflight(s)
    BY <1>1, <1>2, <1>3 DEF Inflight, ContextTypes
  <2> QED
    BY <2>2, <2>3, <2>4, <1>5, BalancedOther
<1> QED
  BY <1>4, <1>8, <1>9, BalancedAll


(* RIOSend turns a counted send into a request in flight.                    *)
LEMMA RIOSendCounts ==
    ASSUME IInv, NEW t \in Threads, NEW c \in Contexts, RIOSend(t, c)
    PROVE  IOCountAccounting'
<1>0. TypeOK /\ QueueInv /\ ReturnInv /\ SessionInv /\ FreshInv /\ NewInv /\ IOCountAccounting
  BY DEF IInv
<1> USE <1>0, ThreadsFacts DEF sessionVars, tableVars, ioVars, localVars
<1>1. /\ pc[t] = "rioSend" /\ pc' = [pc EXCEPT ![t] = "sendPost"]
      /\ UNCHANGED <<session, ret, sessionMap>>
      /\ UNCHANGED ioCount
      /\ context[c].st = "free" /\ context' = [context EXCEPT ![c] = [st |-> "posted", owner |-> session[t], op |-> "send"]]
  BY DEF RIOSend, Alloc, Goto
<1>2. PICK r \in Sessions : r = session[t]
  BY <1>1 DEF SessionInv
<1>3. pc \in [Threads -> PCs] /\ ioCount \in [Sessions -> Int] /\ context \in [Contexts -> ContextTypes]
  BY DEF TypeOK, LocalTypes, SessionTypes, IOTypes, ContextTypes
<1>4. Alive' \subseteq Alive
  BY <1>1, <1>2, <1>3 DEF Alive
<1>5. \A s : Handling(s)' = Handling(s)
  BY <1>1, <1>2, <1>3
  DEF Handling, Handles, HandlerPCs, RecvPostPCs, CompletionPCs, SendPostPCs, ReleasePCs
<1>6. /\ Inflight(r)' = Inflight(r) \cup {c} /\ c \notin Inflight(r)
      /\ Uncounted(r)' = Uncounted(r)
  BY <1>1, <1>2, <1>3 DEF Inflight, Uncounted, ContextTypes
<1>7. Sending(r)' = Sending(r) \ {t} /\ t \in Sending(r)
  BY <1>1, <1>2, <1>3 DEF Sending
<1>8. Balanced(r) => Balanced(r)'
  <2>1. ioCount[r] \in Int /\ ioCount'[r] = ioCount[r]
    BY <1>1, <1>2, <1>3
  <2>2. Cardinality(Uncounted(r)') = Cardinality(Uncounted(r))
    BY <1>6, <1>7, CountsFinite, CardGain, CardLose
  <2>3. Cardinality(Inflight(r)') = Cardinality(Inflight(r)) + 1
    BY <1>6, <1>7, CountsFinite, CardGain, CardLose
  <2>4. Cardinality(Sending(r)') = Cardinality(Sending(r)) - 1
    BY <1>6, <1>7, CountsFinite, CardGain, CardLose
  <2>5. Handling(r)' = Handling(r)
    BY <1>5
  <2> QED
    BY <2>1, <2>2, <2>3, <2>4, <2>5, CountsFinite DEF Balanced
<1>9. \A s \in Alive : s # r /\ Balanced(s) => Balanced(s)'
  <2> SUFFICES ASSUME NEW s \in Alive, s # r, Balanced(s) PROVE Balanced(s)'
    OBVIOUS
  <2>1. s \in Sessions
    BY DEF Alive, TypeOK, TableTypes
  <2>2. ioCount'[s] = ioCount[s]
    BY <1>1, <1>2, <1>3, <2>1
  <2>3. Uncounted(s)' = Uncounted(s) /\ Sending(s)' = Sending(s)
    BY <1>1, <1>2, <1>3 DEF Uncounted, Sending
  <2>4. Inflight(s)' = Inflight(s)
    BY <1>1, <1>2, <1>3 DEF Inflight, ContextTypes
  <2> QED
    BY <2>2, <2>3, <2>4, <1>5, BalancedOther
<1> QED
  BY <1>4, <1>8, <1>9, BalancedAll


(* The increment of RecvPost counts the receive posted before it.            *)
LEMMA RecvPostCounts ==
    ASSUME IInv, NEW t \in Threads, RecvPostIncrement(t)
    PROVE  IOCountAccounting'
<1>0. TypeOK /\ QueueInv /\ ReturnInv /\ SessionInv /\ FreshInv /\ NewInv /\ IOCountAccounting
  BY DEF IInv
<1> USE <1>0, ThreadsFacts DEF sessionVars, tableVars, ioVars, localVars
<1>1. /\ pc[t] = "recvInc" /\ pc' = [pc EXCEPT ![t] = "recvPosted"]
      /\ UNCHANGED <<session, ret, sessionMap>>
      /\ ioCount' = [ioCount EXCEPT ![session[t]] = @ + 1]
      /\ UNCHANGED context
  BY DEF RecvPostIncrement, Goto
<1>2. PICK r \in Sessions : r = session[t]
  BY <1>1 DEF SessionInv
<1>3. pc \in [Threads -> PCs] /\ ioCount \in [Sessions -> Int] /\ context \in [Contexts -> ContextTypes]
  BY DEF TypeOK, LocalTypes, SessionTypes, IOTypes, ContextTypes
<1>4. Alive' \subseteq Alive
  BY <1>1, <1>2, <1>3 DEF Alive
<1>5. \A s : Handling(s)' = Handling(s)
  BY <1>1, <1>2, <1>3
  DEF Handling, Handles, HandlerPCs, RecvPostPCs, CompletionPCs, SendPostPCs, ReleasePCs
<1>6. Inflight(r)' = Inflight(r) /\ Sending(r)' = Sending(r)
  BY <1>1, <1>2, <1>3 DEF Inflight, Sending
<1>7. Uncounted(r)' = Uncounted(r) \ {t} /\ t \in Uncounted(r)
  BY <1>1, <1>2, <1>3 DEF Uncounted
<1>8. Balanced(r) => Balanced(r)'
  <2>1. ioCount[r] \in Int /\ ioCount'[r] = ioCount[r] + 1
    BY <1>1, <1>2, <1>3
  <2>2. Cardinality(Uncounted(r)') = Cardinality(Uncounted(r)) - 1
    BY <1>6, <1>7, CountsFinite, CardGain, CardLose
  <2>3. Cardinality(Inflight(r)') = Cardinality(Inflight(r))
    BY <1>6, <1>7, CountsFinite, CardGain, CardLose
  <2>4. Cardinality(Sending(r)') = Cardinality(Sending(r))
    BY <1>6, <1>7, CountsFinite, CardGain, CardLose
  <2>5. Handling(r)' = Handling(r)
    BY <1>5
  <2> QED
    BY <2>1, <2>2, <2>3, <2>4, <2>5, CountsFinite DEF Balanced
<1>9. \A s \in Alive : s # r /\ Balanced(s) => Balanced(s)'
  <2> SUFFICES ASSUME NEW s \in Alive, s # r, Balanced(s) PROVE Balanced(s)'
    OBVIOUS
  <2>1. s \in Sessions
    BY DEF Alive, TypeOK, TableTypes
  <2>2. ioCount'[s] = ioCount[s]
    BY <1>1, <1>2, <1>3, <2>1
  <2>3. Uncounted(s)' = Uncounted(s) /\ Sending(s)' = Sending(s)
    BY <1>1, <1>2, <1>3 DEF Uncounted, Sending
  <2>4. Inflight(s)' = Inflight(s)
    BY <1>1, <1>2, <1>3 DEF Inflight, ContextTypes
  <2> QED
    BY <2>2, <2>3, <2>4, <1>5, BalancedOther
<1> QED
  BY <1>4, <1>8, <1>9, BalancedAll


(* The increment of SendPost counts the send before it is posted.            *)
LEMMA SendPostCounts ==
    ASSUME IInv, NEW t \in Threads, SendPostIncrement(t)
    PROVE  IOCountAccounting'
<1>0. TypeOK /\ QueueInv /\ ReturnInv /\ SessionInv /\ FreshInv /\ NewInv /\ IOCountAccounting
  BY DEF IInv
<1> USE <1>0, ThreadsFacts DEF sessionVars, tableVars, ioVars, localVars
<1>1. /\ pc[t] = "sendInc" /\ pc' = [pc EXCEPT ![t] = "rioSend"]
      /\ UNCHANGED <<session, ret, sessionMap>>
      /\ ioCount' = [ioCount EXCEPT ![session[t]] = @ + 1]
      /\ UNCHANGED context
  BY DEF SendPostIncrement, Goto
<1>2. PICK r \in Sessions : r = session[t]
  BY <1>1 DEF SessionInv
<1>3. pc \in [Threads -> PCs] /\ ioCount \in [Sessions -> Int] /\ context \in [Contexts -> ContextTypes]
  BY DEF TypeOK, LocalTypes, SessionTypes, IOTypes, ContextTypes
<1>4. Alive' \subseteq Alive
  BY <1>1, <1>2, <1>3 DEF Alive
<1>5. \A s : Handling(s)' = Handling(s)
  BY <1>1, <1>2, <1>3
  DEF Handling, Handles, HandlerPCs, RecvPostPCs, CompletionPCs, SendPostPCs, ReleasePCs
<1>6. Inflight(r)' = Inflight(r) /\ Uncounted(r)' = Uncounted(r)
  BY <1>1, <1>2, <1>3 DEF Inflight, Uncounted
<1>7. Sending(r)' = Sending(r) \cup {t} /\ t \notin Sending(r)
  BY <1>1, <1>2, <1>3 DEF Sending
<1>8. Balanced(r) => Balanced(r)'
  <2>1. ioCount[r] \in Int /\ ioCount'[r] = ioCount[r] + 1
    BY <1>1, <1>2, <1>3
  <2>2. Cardinality(Uncounted(r)') = Cardinality(Uncounted(r))
    BY <1>6, <1>7, CountsFinite, CardGain, CardLose
  <2>3. Cardinality(Inflight(r)') = Cardinality(Inflight(r))
    BY <1>6, <1>7, CountsFinite, CardGain, CardLose
  <2>4. Cardinality(Sending(r)') = Cardinality(Sending(r)) + 1
    BY <1>6, <1>7, CountsFinite, CardGain, CardLose
  <2>5. Handling(r)' = Handling(r)
    BY <1>5
  <2> QED
    BY <2>1, <2>2, <2>3, <2>4, <2>5, CountsFinite DEF Balanced
<1>9. \A s \in Alive : s # r /\ Balanced(s) => Balanced(s)'
  <2> SUFFICES ASSUME NEW s \in Alive, s # r, Balanced(s) PROVE Balanced(s)'
    OBVIOUS
  <2>1. s \in Sessions
    BY DEF Alive, TypeOK, TableTypes
  <2>2. ioCount'[s] = ioCount[s]
    BY <1>1, <1>2, <1>3, <2>1
  <2>3. Uncounted(s)' = Uncounted(s) /\ Sending(s)' = Sending(s)
    BY <1>1, <1>2, <1>3 DEF Uncounted, Sending
  <2>4. Inflight(s)' = Inflight(s)
    BY <1>1, <1>2, <1>3 DEF Inflight, ContextTypes
  <2> QED
    BY <2>2, <2>3, <2>4, <1>5, BalancedOther
<1> QED
  BY <1>4, <1>8, <1>9, BalancedAll


(* IOCountDecrement gives up a handler's count or that of a failed send.     *)
LEMMA DecrementCounts ==
    ASSUME IInv, NEW t \in Threads, IOCountDecrement(t)
    PROVE  IOCountAccounting'
<1>0. TypeOK /\ QueueInv /\ ReturnInv /\ SessionInv /\ FreshInv /\ NewInv /\ IOCountAccounting
  BY DEF IInv
<1> USE <1>0, ThreadsFacts DEF sessionVars, tableVars, ioVars, localVars
<1>1. /\ pc[t] \in {"dec", "sendDec"}
      /\ UNCHANGED <<context, ret, sessionMap>>
      /\ ioCount' = [ioCount EXCEPT ![session[t]] = @ - 1]
  BY DEF IOCountDecrement, Goto, Return
<1>2. PICK r \in Sessions : r = session[t]
  BY <1>1 DEF SessionInv
<1>3. /\ pc \in [Threads -> PCs] /\ ioCount \in [Sessions -> Int]
      /\ ret \in [Threads -> {"idle", "entered", "recvDone", "finish"}]
      /\ session \in [Threads -> Sessions \cup {NoSession}]
  BY DEF TypeOK, LocalTypes, SessionTypes
<1>4. \/ pc' = [pc EXCEPT ![t] = "leave"] /\ session' = session
      \/ /\ pc' = [pc EXCEPT ![t] = ret[t]]
         /\ session' = [session EXCEPT ![t] = IF ret[t] = "idle" THEN NoSession ELSE @]
  BY DEF IOCountDecrement, Goto, Return
<1>5. \A u \in Threads \ {t} : pc'[u] = pc[u] /\ session'[u] = session[u]
  BY <1>3, <1>4
<1>6. /\ pc'[t] \in {"leave", ret[t]}
      /\ pc'[t] # "idle" => session'[t] = r
  BY <1>2, <1>3, <1>4
<1>a. ret[t] \in {"idle", "entered", "recvDone", "finish"} /\ ret'[t] = ret[t]
  BY <1>1, <1>3
<1>b. pc[t] = "dec" => ret[t] \in {"idle", "entered"}
  BY DEF ReturnInv
<1>7. Alive' \subseteq Alive
  <2>1. pc'[Accepter] \in {"count", "emplace"} =>
            pc[Accepter] \in {"count", "emplace"} /\ session'[Accepter] = session[Accepter]
    BY <1>5, <1>6, <1>a
  <2> QED
    BY <1>1, <2>1, AliveFrame
<1>8. \A s : Inflight(s)' = Inflight(s) /\ Uncounted(s)' = Uncounted(s)
  BY <1>1, <1>5, <1>6, <1>a DEF Inflight, Uncounted
<1>9. \A s : s # r => Handling(s)' = Handling(s) /\ Sending(s)' = Sending(s)
  <2> SUFFICES ASSUME NEW s, s # r
               PROVE  Handling(s)' = Handling(s) /\ Sending(s)' = Sending(s)
    OBVIOUS
  <2>1. session'[t] = s => pc'[t] = "idle"
    BY <1>6
  <2> QED
    BY <1>1, <1>2, <1>5, <2>1 DEF Handling, Sending, Handles, HandlerPCs, RecvPostPCs,
       CompletionPCs, SendPostPCs, ReleasePCs
<1>10. ASSUME pc[t] = "dec"
       PROVE  /\ t \in Handling(r) /\ Handling(r)' = Handling(r) \ {t}
              /\ Sending(r)' = Sending(r)
  <2>1. t \in Handling(r) /\ ~Handles(t)'
    BY <1>2, <1>10, <1>6, <1>a, <1>b DEF Handling, Handles, HandlerPCs, RecvPostPCs,
       CompletionPCs, SendPostPCs, ReleasePCs
  <2>2. \A u \in Threads \ {t} : Handles(u)' = Handles(u)
    BY <1>1, <1>5 DEF Handles
  <2>3. Handling(r)' = Handling(r) \ {t}
    BY <1>2, <1>5, <2>1, <2>2 DEF Handling
  <2>4. Sending(r)' = Sending(r)
    BY <1>2, <1>10, <1>5, <1>6, <1>a DEF Sending
  <2> QED
    BY <2>1, <2>3, <2>4
<1>11. ASSUME pc[t] = "sendDec"
       PROVE  /\ t \in Sending(r) /\ Sending(r)' = Sending(r) \ {t}
              /\ Handling(r)' = Handling(r)
  <2>1. t \in Sending(r) /\ pc'[t] \notin {"rioSend", "sendDec"}
    BY <1>2, <1>11, <1>6, <1>a DEF Sending
  <2>2. \A u \in Threads \ {t} : Handles(u)' = Handles(u)
    BY <1>1, <1>5 DEF Handles
  <2>3. Handles(t) <=> ret[t] \in {"recvDone", "finish"}
    BY <1>11 DEF Handles, HandlerPCs, RecvPostPCs, CompletionPCs, SendPostPCs, ReleasePCs
  <2>4. Handles(t)' <=> ret[t] \in {"recvDone", "finish"}
    BY <1>6, <1>a DEF Handles, HandlerPCs, RecvPostPCs, CompletionPCs, SendPostPCs, ReleasePCs
  <2>5. Handles(t)' => session'[t] = r
    BY <2>4, <1>6, <1>a
  <2>6. Handling(r)' = Handling(r)
    BY <1>2, <1>5, <2>2, <2>3, <2>4, <2>5 DEF Handling
  <2>7. Sending(r)' = Sending(r) \ {t}
    BY <1>2, <1>5, <2>1 DEF Sending
  <2> QED
    BY <2>1, <2>6, <2>7
<1>12. Balanced(r) => Balanced(r)'
  <2>1. ioCount[r] \in Int /\ ioCount'[r] = ioCount[r] - 1
    BY <1>1, <1>2, <1>3
  <2>2. Cardinality(Handling(r)') + Cardinality(Sending(r)')
          = Cardinality(Handling(r)) + Cardinality(Sending(r)) - 1
    <3>1. CASE pc[t] = "dec"
      BY <3>1, <1>10, CountsFinite, CardLose
    <3>2. CASE pc[t] = "sendDec"
      BY <3>2, <1>11, CountsFinite, CardLose
    <3> QED
      BY <3>1, <3>2, <1>1
  <2>3. /\ Cardinality(Handling(r)) \in Nat /\ Cardinality(Sending(r)) \in Nat
        /\ Cardinality(Inflight(r)) \in Nat /\ Cardinality(Uncounted(r)) \in Nat
    BY CountsFinite
  <2>4. Cardinality(Handling(r)') \in Nat /\ Cardinality(Sending(r)') \in Nat
    <3>1. CASE pc[t] = "dec"
      BY <3>1, <1>10, CountsFinite, FS_Subset, FS_CardinalityType
    <3>2. CASE pc[t] = "sendDec"
      BY <3>2, <1>11, CountsFinite, FS_Subset, FS_CardinalityType
    <3> QED
      BY <3>1, <3>2, <1>1
  <2> QED
    BY <1>8, <2>1, <2>2, <2>3, <2>4 DEF Balanced
<1>13. \A s \in Alive : s # r /\ Balanced(s) => Balanced(s)'
  <2> SUFFICES ASSUME NEW s \in Alive, s # r, Balanced(s) PROVE Balanced(s)'
    OBVIOUS
  <2>1. s \in Sessions
    BY DEF Alive, TypeOK, TableTypes
  <2>2. ioCount'[s] = ioCount[s]
    BY <1>1, <1>2, <1>3, <2>1
  <2> QED
    BY <2>2, <1>8, <1>9, BalancedOther
<1> QED
  BY <1>7, <1>12, <1>13, BalancedAll

(* A zero completion: the request becomes the worker's handler.              *)
LEMMA ZeroCompletionCounts ==
    ASSUME IInv, NEW w \in Workers, ZeroCompletion(w)
    PROVE  IOCountAccounting'
<1>0. TypeOK /\ QueueInv /\ ReturnInv /\ SessionInv /\ FreshInv /\ NewInv /\ IOCountAccounting
  BY DEF IInv
<1> USE <1>0, ThreadsFacts DEF sessionVars, tableVars, ioVars, localVars
<1>r. PICK c, r : c = Dequeued(w) /\ r = context[c].owner
  OBVIOUS
<1>1. /\ pc[w] = "idle" /\ cq[w] # <<>> /\ r \in sessionMap
      /\ UNCHANGED <<ioCount, sessionMap>>
      /\ context' = [context EXCEPT ![c] = FreeContext]
      /\ session' = [session EXCEPT ![w] = r]
      /\ \E x \in {"dec"} : pc' = [pc EXCEPT ![w] = x]
      /\ \E y \in {"idle", ret[w]} : ret' = [ret EXCEPT ![w] = y]
  <2>1. ret \in [Threads -> {"idle", "entered", "recvDone", "finish"}] /\ w \in Threads
    BY DEF TypeOK, LocalTypes
  <2>2. [ret EXCEPT ![w] = ret[w]] = ret
    BY <2>1
  <2> QED
    BY <1>r, <2>2 DEF ZeroCompletion
<1>2. c \in Contexts /\ context[c].st = "queued"
  BY <1>r, <1>1, HeadFacts, HeadQueued
<1>3. /\ pc \in [Threads -> PCs] /\ context \in [Contexts -> ContextTypes]
      /\ session \in [Threads -> Sessions \cup {NoSession}]
      /\ ret \in [Threads -> {"idle", "entered", "recvDone", "finish"}]
      /\ r \in Sessions /\ r # NoSession
  BY <1>r, <1>1, SessionsAssumption DEF TypeOK, LocalTypes, IOTypes, ContextTypes, TableTypes
<1>4. /\ w \in Threads /\ w # Accepter /\ pc'[w] \in {"dec"} /\ session'[w] = r
      /\ \A u \in Threads \ {w} : /\ pc'[u] = pc[u] /\ session'[u] = session[u]
                                  /\ ret'[u] = ret[u]
  BY <1>1, <1>3, ThreadsAssumption
<1>5. Alive' \subseteq Alive
  BY <1>1, <1>4 DEF Alive
<1>6. Handles(w)' /\ ~Handles(w) /\ \A u \in Threads \ {w} : Handles(u)' = Handles(u)
  BY <1>1, <1>4 DEF Handles, HandlerPCs, RecvPostPCs, CompletionPCs, SendPostPCs, ReleasePCs
<1>7. \A s : Uncounted(s)' = Uncounted(s) /\ Sending(s)' = Sending(s)
  BY <1>1, <1>4 DEF Uncounted, Sending
<1>8. Handling(r)' = Handling(r) \cup {w} /\ w \notin Handling(r)
  BY <1>4, <1>6 DEF Handling
<1>9. Inflight(r)' = Inflight(r) \ {c} /\ c \in Inflight(r)
  BY <1>r, <1>1, <1>2, <1>3 DEF Inflight, ContextTypes, FreeContext
<1>10. Balanced(r) => Balanced(r)'
  <2>1. Cardinality(Handling(r)') = Cardinality(Handling(r)) + 1
    BY <1>8, CountsFinite, CardGain
  <2>2. Cardinality(Inflight(r)') = Cardinality(Inflight(r)) - 1
    BY <1>9, CountsFinite, CardLose
  <2>3. ioCount[r] \in Int /\ ioCount'[r] = ioCount[r]
    BY <1>1, <1>3 DEF TypeOK, SessionTypes
  <2> QED
    BY <1>7, <2>1, <2>2, <2>3, CountsFinite DEF Balanced
<1>11. \A s \in Alive : s # r /\ Balanced(s) => Balanced(s)'
  <2> SUFFICES ASSUME NEW s \in Alive, s # r, Balanced(s) PROVE Balanced(s)'
    OBVIOUS
  <2>1. s # NoSession
    BY SessionsAssumption DEF Alive, TypeOK, TableTypes
  <2>2. Inflight(s)' = Inflight(s)
    BY <1>r, <1>1, <1>2, <1>3, <2>1 DEF Inflight, ContextTypes, FreeContext
  <2>3. Handling(s)' = Handling(s)
    BY <1>4, <1>6 DEF Handling
  <2> QED
    BY <1>1, <1>7, <2>2, <2>3, BalancedOther
<1> QED
  BY <1>5, <1>10, <1>11, BalancedAll

(* A completion with data: the request becomes the worker's handler.         *)
LEMMA IOCompletedCounts ==
    ASSUME IInv, NEW w \in Workers, NEW n \in 0 .. MaxBatch, IOCompleted(w, n)
    PROVE  IOCountAccounting'
<1>0. TypeOK /\ QueueInv /\ ReturnInv /\ SessionInv /\ FreshInv /\ NewInv /\ IOCountAccounting
  BY DEF IInv
<1> USE <1>0, ThreadsFacts DEF sessionVars, tableVars, ioVars, localVars
<1>r. PICK c, r : c = Dequeued(w) /\ r = context[c].owner
  OBVIOUS
<1>1. /\ pc[w] = "idle" /\ cq[w] # <<>> /\ r \in sessionMap
      /\ UNCHANGED <<ioCount, sessionMap>>
      /\ context' = [context EXCEPT ![c].st = "held"]
      /\ session' = [session EXCEPT ![w] = r]
      /\ \E x \in {"recvDone", "sendDone"} : pc' = [pc EXCEPT ![w] = x]
      /\ \E y \in {"idle", ret[w]} : ret' = [ret EXCEPT ![w] = y]
  <2>1. ret \in [Threads -> {"idle", "entered", "recvDone", "finish"}] /\ w \in Threads
    BY DEF TypeOK, LocalTypes
  <2>2. [ret EXCEPT ![w] = ret[w]] = ret
    BY <2>1
  <2> QED
    BY <1>r, <2>2 DEF IOCompleted
<1>2. c \in Contexts /\ context[c].st = "queued"
  BY <1>r, <1>1, HeadFacts, HeadQueued
<1>3. /\ pc \in [Threads -> PCs] /\ context \in [Contexts -> ContextTypes]
      /\ session \in [Threads -> Sessions \cup {NoSession}]
      /\ ret \in [Threads -> {"idle", "entered", "recvDone", "finish"}]
      /\ r \in Sessions /\ r # NoSession
  BY <1>r, <1>1, SessionsAssumption DEF TypeOK, LocalTypes, IOTypes, ContextTypes, TableTypes
<1>4. /\ w \in Threads /\ w # Accepter /\ pc'[w] \in {"recvDone", "sendDone"} /\ session'[w] = r
      /\ \A u \in Threads \ {w} : /\ pc'[u] = pc[u] /\ session'[u] = session[u]
                                  /\ ret'[u] = ret[u]
  BY <1>1, <1>3, ThreadsAssumption
<1>5. Alive' \subseteq Alive
  BY <1>1, <1>4 DEF Alive
<1>6. Handles(w)' /\ ~Handles(w) /\ \A u \in Threads \ {w} : Handles(u)' = Handles(u)
  BY <1>1, <1>4 DEF Handles, HandlerPCs, RecvPostPCs, CompletionPCs, SendPostPCs, ReleasePCs
<1>7. \A s : Uncounted(s)' = Uncounted(s) /\ Sending(s)' = Sending(s)
  BY <1>1, <1>4 DEF Uncounted, Sending
<1>8. Handling(r)' = Handling(r) \cup {w} /\ w \notin Handling(r)
  BY <1>4, <1>6 DEF Handling
<1>9. Inflight(r)' = Inflight(r) \ {c} /\ c \in Inflight(r)
  BY <1>r, <1>1, <1>2, <1>3 DEF Inflight, ContextTypes, FreeContext
<1>10. Balanced(r) => Balanced(r)'
  <2>1. Cardinality(Handling(r)') = Cardinality(Handling(r)) + 1
    BY <1>8, CountsFinite, CardGain
  <2>2. Cardinality(Inflight(r)') = Cardinality(Inflight(r)) - 1
    BY <1>9, CountsFinite, CardLose
  <2>3. ioCount[r] \in Int /\ ioCount'[r] = ioCount[r]
    BY <1>1, <1>3 DEF TypeOK, SessionTypes
  <2> QED
    BY <1>7, <2>1, <2>2, <2>3, CountsFinite DEF Balanced
<1>11. \A s \in Alive : s # r /\ Balanced(s) => Balanced(s)'
  <2> SUFFICES ASSUME NEW s \in Alive, s # r, Balanced(s) PROVE Balanced(s)'
    OBVIOUS
  <2>1. s # NoSession
    BY SessionsAssumption DEF Alive, TypeOK, TableTypes
  <2>2. Inflight(s)' = Inflight(s)
    BY <1>r, <1>1, <1>2, <1>3, <2>1 DEF Inflight, ContextTypes, FreeContext
  <2>3. Handling(s)' = Handling(s)
    BY <1>4, <1>6 DEF Handling
  <2> QED
    BY <1>1, <1>7, <2>2, <2>3, BalancedOther
<1> QED
  BY <1>5, <1>10, <1>11, BalancedAll

(* A new session is balanced: one count, the Accepter's handler.             *)
LEMMA AcceptCounts ==
    ASSUME IInv, NEW s \in Sessions, NEW w \in Workers, Accept(s, w)
    PROVE  IOCountAccounting'
<1>0. TypeOK /\ QueueInv /\ ReturnInv /\ SessionInv /\ FreshInv /\ NewInv /\ IOCountAccounting
  BY DEF IInv
<1> USE <1>0, ThreadsFacts DEF sessionVars, tableVars, ioVars, localVars
<1>1. /\ pc[Accepter] = "idle" /\ socket[s] = "none"
      /\ ioCount' = [ioCount EXCEPT ![s] = @ + 1]
      /\ pc' = [pc EXCEPT ![Accepter] = "count"]
      /\ session' = [session EXCEPT ![Accepter] = s]
      /\ ret' = [ret EXCEPT ![Accepter] = "entered"]
      /\ UNCHANGED <<context, sessionMap>>
  BY DEF Accept, InitSession
<1>2. /\ pc \in [Threads -> PCs] /\ ioCount \in [Sessions -> Int]
      /\ session \in [Threads -> Sessions \cup {NoSession}]
      /\ ret \in [Threads -> {"idle", "entered", "recvDone", "finish"}]
  BY DEF TypeOK, LocalTypes, SessionTypes
<1>3. /\ ioCount[s] = 0 /\ s \notin sessionMap
      /\ \A c \in Contexts : context[c].owner # s
      /\ \A t \in Threads : session[t] # s
  BY <1>1 DEF FreshInv
<1>4. /\ pc'[Accepter] = "count" /\ session'[Accepter] = s
      /\ \A u \in Threads \ {Accepter} : /\ pc'[u] = pc[u] /\ session'[u] = session[u]
                                         /\ ret'[u] = ret[u]
  BY <1>1, <1>2
<1>5. Alive' = sessionMap \cup {s} /\ sessionMap \subseteq Alive
  BY <1>1, <1>4 DEF Alive
<1>6. Balanced(s)'
  <2>1. ioCount'[s] = 1
    BY <1>1, <1>2, <1>3
  <2>2. Inflight(s)' = {} /\ Uncounted(s)' = {} /\ Sending(s)' = {}
    BY <1>1, <1>3, <1>4 DEF Inflight, Uncounted, Sending
  <2>3. Handling(s)' = {Accepter}
    BY <1>3, <1>4 DEF Handling, Handles, HandlerPCs
  <2>4. Cardinality({}) = 0 /\ Cardinality({Accepter}) = 1
    BY FS_EmptySet, FS_Singleton
  <2>5. /\ Cardinality(Inflight(s))' = 0 /\ Cardinality(Uncounted(s))' = 0
        /\ Cardinality(Sending(s))' = 0 /\ Cardinality(Handling(s))' = 1
    BY <2>2, <2>3, <2>4
  <2> QED
    BY <2>1, <2>5 DEF Balanced
<1>7. ASSUME NEW r \in sessionMap, Balanced(r) PROVE Balanced(r)'
  <2>1. r # s /\ r \in Sessions
    BY <1>3 DEF TypeOK, TableTypes
  <2>2. ioCount'[r] = ioCount[r]
    BY <1>1, <1>2, <2>1
  <2>3. ~Handles(Accepter)
    BY <1>1 DEF Handles, HandlerPCs, RecvPostPCs, CompletionPCs, SendPostPCs, ReleasePCs
  <2>4. \A u \in Threads \ {Accepter} : Handles(u)' = Handles(u)
    BY <1>4 DEF Handles
  <2>5. Handling(r)' = Handling(r)
    BY <1>4, <2>1, <2>3, <2>4 DEF Handling
  <2>6. /\ Inflight(r)' = Inflight(r) /\ Uncounted(r)' = Uncounted(r)
        /\ Sending(r)' = Sending(r)
    BY <1>1, <1>4, <2>1 DEF Inflight, Uncounted, Sending
  <2> QED
    BY <1>7, <2>2, <2>5, <2>6, BalancedOther
<1> QED
  BY <1>5, <1>6, <1>7 DEF IOCountAccounting, Balanced

(* Every step keeps ioCount exact: most change neither side of the equation, *)
(* the others have a lemma of their own above.                               *)
LEMMA AccountingStep == IInv /\ [Next]_vars => IOCountAccounting'
<1> SUFFICES ASSUME IInv, [Next]_vars PROVE IOCountAccounting'
  OBVIOUS
<1>0. /\ TypeOK /\ QueueInv /\ HeldInv /\ ReturnInv /\ SessionInv /\ FreshInv /\ NewInv
      /\ IOCountAccounting
  BY DEF IInv
<1> USE <1>0, ThreadsFacts DEF sessionVars, tableVars, ioVars, localVars, Goto, Return
<1>1. ASSUME CountInWorker PROVE IOCountAccounting'
  <2>1. RolesKept
    BY <1>1 DEF CountInWorker, RolesKept, Handles, HandlerPCs, RecvPostPCs,
       CompletionPCs, SendPostPCs, ReleasePCs, TypeOK, LocalTypes
  <2>2. UNCHANGED ioCount /\ Alive' \subseteq Alive /\ InflightKept
    BY <1>1 DEF CountInWorker, Alive, Inflight, InflightKept
  <2> QED
    BY <2>1, <2>2, Neutral
<1>2. ASSUME Emplace PROVE IOCountAccounting'
  <2>1. RolesKept
    BY <1>2 DEF Emplace, RolesKept, Handles, HandlerPCs, RecvPostPCs,
       CompletionPCs, SendPostPCs, ReleasePCs, TypeOK, LocalTypes
  <2>2. UNCHANGED ioCount /\ Alive' \subseteq Alive /\ InflightKept
    BY <1>2 DEF Emplace, Alive, Inflight, InflightKept, SessionInv
  <2> QED
    BY <2>1, <2>2, Neutral
<1>3. ASSUME OnSessionEntered PROVE IOCountAccounting'
  <2>1. RolesKept
    BY <1>3 DEF OnSessionEntered, RolesKept, Handles, HandlerPCs, RecvPostPCs,
       CompletionPCs, SendPostPCs, ReleasePCs, TypeOK, LocalTypes
  <2>2. UNCHANGED ioCount /\ Alive' \subseteq Alive /\ InflightKept
    BY <1>3 DEF OnSessionEntered, Alive, Inflight, InflightKept
  <2> QED
    BY <2>1, <2>2, Neutral
<1>4. ASSUME CountSession PROVE IOCountAccounting'
  <2>1. RolesKept
    BY <1>4 DEF CountSession, RolesKept, Handles, HandlerPCs, RecvPostPCs,
       CompletionPCs, SendPostPCs, ReleasePCs, TypeOK, LocalTypes
  <2>2. UNCHANGED ioCount /\ Alive' \subseteq Alive /\ InflightKept
    BY <1>4 DEF CountSession, Alive, Inflight, InflightKept
  <2> QED
    BY <2>1, <2>2, Neutral
<1>6. ASSUME NEW t \in Threads, NEW c \in Contexts, RIOReceiveFails(t, c) PROVE IOCountAccounting'
  <2>1. RolesKept
    BY <1>6 DEF RIOReceiveFails, Leak, RolesKept, Handles, HandlerPCs, RecvPostPCs,
       CompletionPCs, SendPostPCs, ReleasePCs, TypeOK, LocalTypes
  <2>2. UNCHANGED ioCount /\ Alive' \subseteq Alive /\ InflightKept
    BY <1>6 DEF RIOReceiveFails, Leak, Alive, Inflight, InflightKept
  <2> QED
    BY <2>1, <2>2, Neutral
<1>8. ASSUME NEW t \in Threads, NEW c \in Contexts, RIOSendFails(t, c) PROVE IOCountAccounting'
  <2>1. RolesKept
    BY <1>8 DEF RIOSendFails, Leak, RolesKept, Handles, HandlerPCs, RecvPostPCs,
       CompletionPCs, SendPostPCs, ReleasePCs, TypeOK, LocalTypes
  <2>2. UNCHANGED ioCount /\ Alive' \subseteq Alive /\ InflightKept
    BY <1>8 DEF RIOSendFails, Leak, Alive, Inflight, InflightKept
  <2> QED
    BY <2>1, <2>2, Neutral
<1>10. ASSUME NEW t \in Threads, RecvPostReturns(t) PROVE IOCountAccounting'
  <2>1. RolesKept
    BY <1>10 DEF RecvPostReturns, RolesKept, Handles, HandlerPCs, RecvPostPCs,
       CompletionPCs, SendPostPCs, ReleasePCs, TypeOK, LocalTypes
  <2>2. UNCHANGED ioCount /\ Alive' \subseteq Alive /\ InflightKept
    <3>1. UNCHANGED <<ioCount, context, sessionMap>>
      BY <1>10 DEF RecvPostReturns
    <3>2. Alive' \subseteq Alive
      BY <1>10, <3>1, AliveFrame DEF RecvPostReturns, TypeOK, LocalTypes
    <3> QED
      BY <3>1, <3>2 DEF InflightKept, Inflight
  <2> QED
    BY <2>1, <2>2, Neutral
<1>11. ASSUME NEW t \in Threads, SendPostReturns(t) PROVE IOCountAccounting'
  <2>1. RolesKept
    BY <1>11 DEF SendPostReturns, RolesKept, Handles, HandlerPCs, RecvPostPCs,
       CompletionPCs, SendPostPCs, ReleasePCs, TypeOK, LocalTypes
  <2>2. UNCHANGED ioCount /\ Alive' \subseteq Alive /\ InflightKept
    <3>1. UNCHANGED <<ioCount, context, sessionMap>>
      BY <1>11 DEF SendPostReturns
    <3>2. Alive' \subseteq Alive
      BY <1>11, <3>1, AliveFrame DEF SendPostReturns, TypeOK, LocalTypes
    <3> QED
      BY <3>1, <3>2 DEF InflightKept, Inflight
  <2> QED
    BY <2>1, <2>2, Neutral
<1>12. ASSUME NEW t \in Threads, SendPostClaims(t) PROVE IOCountAccounting'
  <2>1. RolesKept
    BY <1>12 DEF SendPostClaims, RolesKept, Handles, HandlerPCs, RecvPostPCs,
       CompletionPCs, SendPostPCs, ReleasePCs, TypeOK, LocalTypes
  <2>2. UNCHANGED ioCount /\ Alive' \subseteq Alive /\ InflightKept
    BY <1>12 DEF SendPostClaims, Alive, Inflight, InflightKept
  <2> QED
    BY <2>1, <2>2, Neutral
<1>15. ASSUME NEW t \in Threads, OnSessionLeaved(t) PROVE IOCountAccounting'
  <2>1. RolesKept
    BY <1>15 DEF OnSessionLeaved, RolesKept, Handles, HandlerPCs, RecvPostPCs,
       CompletionPCs, SendPostPCs, ReleasePCs, TypeOK, LocalTypes
  <2>2. UNCHANGED ioCount /\ Alive' \subseteq Alive /\ InflightKept
    BY <1>15 DEF OnSessionLeaved, Alive, Inflight, InflightKept
  <2> QED
    BY <2>1, <2>2, Neutral
<1>16. ASSUME NEW t \in Threads, CloseSocket(t) PROVE IOCountAccounting'
  <2>1. RolesKept
    BY <1>16 DEF CloseSocket, RolesKept, Handles, HandlerPCs, RecvPostPCs,
       CompletionPCs, SendPostPCs, ReleasePCs, TypeOK, LocalTypes
  <2>2. UNCHANGED ioCount /\ Alive' \subseteq Alive /\ InflightKept
    BY <1>16 DEF CloseSocket, Alive, Inflight, InflightKept
  <2> QED
    BY <2>1, <2>2, Neutral
<1>17. ASSUME NEW t \in Threads, EraseSession(t) PROVE IOCountAccounting'
  <2>1. RolesKept
    BY <1>17 DEF EraseSession, RolesKept, Handles, HandlerPCs, RecvPostPCs,
       CompletionPCs, SendPostPCs, ReleasePCs, TypeOK, LocalTypes
  <2>2. UNCHANGED ioCount /\ Alive' \subseteq Alive /\ InflightKept
    BY <1>17 DEF EraseSession, Alive, Inflight, InflightKept
  <2> QED
    BY <2>1, <2>2, Neutral
<1>18. ASSUME NEW t \in Threads, OnSessionReleased(t) PROVE IOCountAccounting'
  <2>1. RolesKept
    BY <1>18 DEF OnSessionReleased, RolesKept, Handles, HandlerPCs, RecvPostPCs,
       CompletionPCs, SendPostPCs, ReleasePCs, TypeOK, LocalTypes
  <2>2. UNCHANGED ioCount /\ Alive' \subseteq Alive /\ InflightKept
    <3>1. UNCHANGED <<ioCount, context, sessionMap>>
      BY <1>18 DEF OnSessionReleased
    <3>2. Alive' \subseteq Alive
      BY <1>18, <3>1, AliveFrame DEF OnSessionReleased, TypeOK, LocalTypes
    <3> QED
      BY <3>1, <3>2 DEF InflightKept, Inflight
  <2> QED
    BY <2>1, <2>2, Neutral
<1>19. ASSUME NEW t \in Threads, DropSession(t) PROVE IOCountAccounting'
  <2>1. RolesKept
    BY <1>19 DEF DropSession, RolesKept, Handles, HandlerPCs, RecvPostPCs,
       CompletionPCs, SendPostPCs, ReleasePCs, TypeOK, LocalTypes, ReturnInv
  <2>2. UNCHANGED ioCount /\ Alive' \subseteq Alive /\ InflightKept
    <3>1. UNCHANGED <<ioCount, context, sessionMap>>
      BY <1>19 DEF DropSession
    <3>2. Alive' \subseteq Alive
      BY <1>19, <3>1, AliveFrame DEF DropSession, TypeOK, LocalTypes
    <3> QED
      BY <3>1, <3>2 DEF InflightKept, Inflight
  <2> QED
    BY <2>1, <2>2, Neutral
<1>20. ASSUME NEW w \in Workers, DropCompletion(w) PROVE IOCountAccounting'
  <2>1. RolesKept
    BY <1>20 DEF DropCompletion, FreeContext, RolesKept, Handles, HandlerPCs, RecvPostPCs,
       CompletionPCs, SendPostPCs, ReleasePCs, TypeOK, LocalTypes
  <2>2. UNCHANGED ioCount /\ Alive' \subseteq Alive /\ InflightKept
    <3>1. UNCHANGED ioCount /\ Alive' \subseteq Alive
      BY <1>20, AliveFrame DEF DropCompletion
    <3>2. Dequeued(w) \in Contexts /\ context[Dequeued(w)].owner \notin Alive
      BY <1>20, HeadFacts DEF DropCompletion, NewInv, Alive
    <3>3. ASSUME NEW s \in Alive PROVE Inflight(s)' = Inflight(s)
      BY <1>20, <3>2 DEF DropCompletion, FreeContext, Inflight, TypeOK, IOTypes
    <3> QED
      BY <3>1, <3>3 DEF InflightKept
  <2> QED
    BY <2>1, <2>2, Neutral
<1>23. ASSUME NEW w \in Workers, PacketIgnored(w) PROVE IOCountAccounting'
  <2>1. RolesKept
    BY <1>23 DEF PacketIgnored, RolesKept, Handles, HandlerPCs, RecvPostPCs,
       CompletionPCs, SendPostPCs, ReleasePCs, TypeOK, LocalTypes
  <2>2. UNCHANGED ioCount /\ Alive' \subseteq Alive /\ InflightKept
    BY <1>23 DEF PacketIgnored, Alive, Inflight, InflightKept
  <2> QED
    BY <2>1, <2>2, Neutral
<1>24. ASSUME NEW w \in Workers, NEW d \in BOOLEAN, PacketAnswered(w, d) PROVE IOCountAccounting'
  <2>1. RolesKept
    BY <1>24 DEF PacketAnswered, Enqueue, RolesKept, Handles, HandlerPCs, RecvPostPCs,
       CompletionPCs, SendPostPCs, ReleasePCs, TypeOK, LocalTypes
  <2>2. UNCHANGED ioCount /\ Alive' \subseteq Alive /\ InflightKept
    BY <1>24 DEF PacketAnswered, Enqueue, Alive, Inflight, InflightKept
  <2> QED
    BY <2>1, <2>2, Neutral
<1>25. ASSUME NEW w \in Workers, PacketBad(w) PROVE IOCountAccounting'
  <2>1. RolesKept
    BY <1>25 DEF PacketBad, RolesKept, Handles, HandlerPCs, RecvPostPCs,
       CompletionPCs, SendPostPCs, ReleasePCs, TypeOK, LocalTypes
  <2>2. UNCHANGED ioCount /\ Alive' \subseteq Alive /\ InflightKept
    BY <1>25 DEF PacketBad, Alive, Inflight, InflightKept
  <2> QED
    BY <2>1, <2>2, Neutral
<1>26. ASSUME NEW w \in Workers, RecvCompleted(w) PROVE IOCountAccounting'
  <2>1. RolesKept
    BY <1>26 DEF RecvCompleted, RolesKept, Handles, HandlerPCs, RecvPostPCs,
       CompletionPCs, SendPostPCs, ReleasePCs, TypeOK, LocalTypes
  <2>2. UNCHANGED ioCount /\ Alive' \subseteq Alive /\ InflightKept
    BY <1>26 DEF RecvCompleted, Alive, Inflight, InflightKept
  <2> QED
    BY <2>1, <2>2, Neutral
<1>27. ASSUME NEW w \in Workers, SendIOCompleted(w) PROVE IOCountAccounting'
  <2>1. RolesKept
    BY <1>27 DEF SendIOCompleted, RolesKept, Handles, HandlerPCs, RecvPostPCs,
       CompletionPCs, SendPostPCs, ReleasePCs, TypeOK, LocalTypes
  <2>2. UNCHANGED ioCount /\ Alive' \subseteq Alive /\ InflightKept
    BY <1>27 DEF SendIOCompleted, Alive, Inflight, InflightKept
  <2> QED
    BY <2>1, <2>2, Neutral
<1>28. ASSUME NEW w \in Workers, SendCompleted(w) PROVE IOCountAccounting'
  <2>1. RolesKept
    BY <1>28 DEF SendCompleted, Disconnect, RolesKept, Handles, HandlerPCs, RecvPostPCs,
       CompletionPCs, SendPostPCs, ReleasePCs, TypeOK, LocalTypes
  <2>2. UNCHANGED ioCount /\ Alive' \subseteq Alive /\ InflightKept
    <3>1. UNCHANGED <<ioCount, context, sessionMap>>
      BY <1>28 DEF SendCompleted
    <3>2. Alive' \subseteq Alive
      BY <1>28, <3>1, AliveFrame DEF SendCompleted, TypeOK, LocalTypes
    <3> QED
      BY <3>1, <3>2 DEF InflightKept, Inflight
  <2> QED
    BY <2>1, <2>2, Neutral
<1>29. ASSUME NEW w \in Workers, FreeIOContext(w) PROVE IOCountAccounting'
  <2>1. RolesKept
    BY <1>29 DEF FreeIOContext, FreeContext, RolesKept, Handles, HandlerPCs, RecvPostPCs,
       CompletionPCs, SendPostPCs, ReleasePCs, TypeOK, LocalTypes
  <2>2. UNCHANGED ioCount /\ Alive' \subseteq Alive /\ InflightKept
    <3>1. UNCHANGED ioCount /\ Alive' \subseteq Alive
      BY <1>29, AliveFrame DEF FreeIOContext, TypeOK, LocalTypes
    <3>2. ioContext[w] = NoContext \/ context[ioContext[w]].st = "held"
      BY DEF HeldInv
    <3>3. \A s : Inflight(s)' = Inflight(s)
      BY <1>29, <3>2, ContextsAssumption
      DEF FreeIOContext, FreeContext, Inflight, TypeOK, IOTypes
    <3> QED
      BY <3>1, <3>3 DEF InflightKept
  <2> QED
    BY <2>1, <2>2, Neutral
<1>30. ASSUME NEW t \in Callers, NEW s \in Sessions, GetSession(t, s) PROVE IOCountAccounting'
  <2>1. RolesKept
    BY <1>30 DEF GetSession, RolesKept, Handles, HandlerPCs, RecvPostPCs,
       CompletionPCs, SendPostPCs, ReleasePCs, TypeOK, LocalTypes
  <2>2. UNCHANGED ioCount /\ Alive' \subseteq Alive /\ InflightKept
    BY <1>30 DEF GetSession, Alive, Inflight, InflightKept
  <2> QED
    BY <2>1, <2>2, Neutral
<1>31. ASSUME NEW t \in Callers, NEW d \in BOOLEAN, SendPacket(t, d) PROVE IOCountAccounting'
  <2>1. RolesKept
    BY <1>31 DEF SendPacket, Enqueue, RolesKept, Handles, HandlerPCs, RecvPostPCs,
       CompletionPCs, SendPostPCs, ReleasePCs, TypeOK, LocalTypes, ReturnInv
  <2>2. UNCHANGED ioCount /\ Alive' \subseteq Alive /\ InflightKept
    BY <1>31 DEF SendPacket, Enqueue, Alive, Inflight, InflightKept
  <2> QED
    BY <2>1, <2>2, Neutral
<1>32. ASSUME NEW t \in Callers, NEW s \in Sessions, CallDisconnect(t, s) PROVE IOCountAccounting'
  <2>1. RolesKept
    BY <1>32 DEF CallDisconnect, Disconnect, RolesKept, Handles, HandlerPCs, RecvPostPCs,
       CompletionPCs, SendPostPCs, ReleasePCs, TypeOK, LocalTypes
  <2>2. UNCHANGED ioCount /\ Alive' \subseteq Alive /\ InflightKept
    BY <1>32 DEF CallDisconnect, Disconnect, Alive, Inflight, InflightKept
  <2> QED
    BY <2>1, <2>2, Neutral
<1>34. ASSUME NEW s \in Sessions, AcceptFails(s) PROVE IOCountAccounting'
  <2>1. RolesKept
    BY <1>34 DEF AcceptFails, RolesKept, Handles, HandlerPCs, RecvPostPCs,
       CompletionPCs, SendPostPCs, ReleasePCs, TypeOK, LocalTypes
  <2>2. UNCHANGED ioCount /\ Alive' \subseteq Alive /\ InflightKept
    BY <1>34 DEF AcceptFails, Alive, Inflight, InflightKept
  <2> QED
    BY <2>1, <2>2, Neutral
<1>35. ASSUME NEW s \in Sessions, ClientCloses(s) PROVE IOCountAccounting'
  <2>1. RolesKept
    BY <1>35 DEF ClientCloses, RolesKept, Handles, HandlerPCs, RecvPostPCs,
       CompletionPCs, SendPostPCs, ReleasePCs, TypeOK, LocalTypes
  <2>2. UNCHANGED ioCount /\ Alive' \subseteq Alive /\ InflightKept
    BY <1>35 DEF ClientCloses, Alive, Inflight, InflightKept
  <2> QED
    BY <2>1, <2>2, Neutral
<1>36. ASSUME NEW c \in Contexts, CompleteData(c) PROVE IOCountAccounting'
  <2>1. RolesKept
    BY <1>36 DEF CompleteData, Complete, RolesKept, Handles, HandlerPCs, RecvPostPCs,
       CompletionPCs, SendPostPCs, ReleasePCs, TypeOK, LocalTypes
  <2>2. UNCHANGED ioCount /\ Alive' \subseteq Alive /\ InflightKept
    BY <1>36 DEF CompleteData, Complete, Alive, Inflight, InflightKept
  <2> QED
    BY <2>1, <2>2, Neutral
<1>37. ASSUME NEW c \in Contexts, CompleteZero(c) PROVE IOCountAccounting'
  <2>1. RolesKept
    BY <1>37 DEF CompleteZero, Complete, RolesKept, Handles, HandlerPCs, RecvPostPCs,
       CompletionPCs, SendPostPCs, ReleasePCs, TypeOK, LocalTypes
  <2>2. UNCHANGED ioCount /\ Alive' \subseteq Alive /\ InflightKept
    BY <1>37 DEF CompleteZero, Complete, Alive, Inflight, InflightKept
  <2> QED
    BY <2>1, <2>2, Neutral
<1>5. ASSUME NEW t \in Threads, NEW c \in Contexts, RIOReceive(t, c) PROVE IOCountAccounting'
  BY <1>5, RIOReceiveCounts
<1>7. ASSUME NEW t \in Threads, NEW c \in Contexts, RIOSend(t, c) PROVE IOCountAccounting'
  BY <1>7, RIOSendCounts
<1>9. ASSUME NEW t \in Threads, RecvPostIncrement(t) PROVE IOCountAccounting'
  BY <1>9, RecvPostCounts
<1>13. ASSUME NEW t \in Threads, SendPostIncrement(t) PROVE IOCountAccounting'
  BY <1>13, SendPostCounts
<1>14. ASSUME NEW t \in Threads, IOCountDecrement(t) PROVE IOCountAccounting'
  BY <1>14, DecrementCounts
<1>21. ASSUME NEW w \in Workers, ZeroCompletion(w) PROVE IOCountAccounting'
  BY <1>21, ZeroCompletionCounts
<1>22. ASSUME NEW w \in Workers, NEW n \in 0 .. MaxBatch, IOCompleted(w, n) PROVE IOCountAccounting'
  BY <1>22, IOCompletedCounts
<1>33. ASSUME NEW s \in Sessions, NEW w \in Workers, Accept(s, w) PROVE IOCountAccounting'
  BY <1>33, AcceptCounts
<1>38. ASSUME UNCHANGED vars PROVE IOCountAccounting'
  BY <1>38 DEF vars, IOCountAccounting, Alive, Inflight, Handling, Handles, Sending, Uncounted
<1> QED
  BY <1>1, <1>2, <1>3, <1>4, <1>5, <1>6, <1>7, <1>8, <1>9, <1>10, <1>11, <1>12, <1>13,
     <1>14, <1>15, <1>16, <1>17, <1>18, <1>19, <1>20, <1>21, <1>22, <1>23, <1>24, <1>25,
     <1>26, <1>27, <1>28, <1>29, <1>30, <1>31, <1>32, <1>33, <1>34, <1>35, <1>36, <1>37,
     <1>38
  DEF Next, ThreadStep, AccepterStep, PostStep, ReleaseStep, WorkerStep, CallerStep,
      Environment, Poll

(* The initial states satisfy the inductive invariant.                       *)
LEMMA InitInv == Init => IInv
<1> SUFFICES ASSUME Init PROVE IInv
  OBVIOUS
<1>1. TypeOK
  BY TypeInit
<1>2. QueueInv
  BY DEF Init, QueueInv
<1>3. HeldInv /\ ReturnInv
  BY ThreadsFacts DEF Init, HeldInv, ReturnInv, RecvPostPCs, SessionPCs
<1>4. SessionInv /\ FreshInv /\ NewInv
  BY ThreadsFacts, SessionsAssumption DEF Init, SessionInv, FreshInv, NewInv, FreeContext
<1>5. Alive = {}
  BY ThreadsFacts DEF Init, Alive
<1> QED
  BY <1>1, <1>2, <1>3, <1>4, <1>5 DEF IInv, IOCountAccounting

(* Every step preserves the inductive invariant.                             *)
LEMMA StepInv == IInv /\ [Next]_vars => IInv'
BY TypeStep, SessionStep, ReturnStep, HeldStep, FreshStep, NewStep, QueueStep, AccountingStep
DEF IInv

(* Every behaviour of the server satisfies the inductive invariant.          *)
LEMMA AlwaysInv == Spec => []IInv
BY InitInv, StepInv, PTL DEF Spec

(* Type correctness: in particular the UINT session counters stay in range   *)
(* although they may wrap, for any number of sessions, threads and contexts. *)
THEOREM TypeCorrect == Spec => []TypeOK
<1>1. IInv => TypeOK
  BY DEF IInv
<1> QED
  BY <1>1, AlwaysInv, PTL

(* RIOTestSession::ioCount is exact for every session that can be looked up, *)
(* whatever fails and however the threads interleave.                        *)
THEOREM IOCountExact == Spec => []IOCountAccounting
<1>1. IInv => IOCountAccounting
  BY DEF IInv
<1> QED
  BY <1>1, AlwaysInv, PTL
=============================================================================
