----------------------- MODULE SessionOwnershipProofs -----------------------
(* Who owns what in RIOTestServer: the request queue of a session is used by *)
(* one thread at a time, a session has one receive at a time, and an         *)
(* IOContext has one owner.                                                  *)
EXTENDS SessionLifecycleProofs

(* A completion waits in the queue of the worker of its session.             *)
QueueOwnerInv ==
    \A w \in Workers : \A i \in 1 .. Len(cq[w]) : threadId[context[cq[w][i].ctx].owner] = w

(* The request queue of a session is bound to the completion queue of its    *)
(* worker, for receives and for sends, ...                                   *)
BindingInv == \A s \in Sessions : rioRQ[s].recv = threadId[s] /\ rioRQ[s].send = threadId[s]

(* ... so that a busy worker works for a session of its own.                 *)
OwnWorkerInv == \A w \in Workers : pc[w] # "idle" => threadId[session[w]] = w

(* The Accepter never sends, and while it is going to post the first receive *)
(* of a session nothing of it is in flight and no worker works for it.       *)
FirstPostInv ==
    /\ pc[Accepter] \notin SendPostPCs
    /\ pc[Accepter] = "recvPost" =>
          /\ \A c \in Contexts : context[c].owner # session[Accepter]
          /\ \A t \in Threads \ {Accepter} : session[t] # session[Accepter]

(* A receive with the kernel, and a thread that is going to post one.        *)
Receives(c) == context[c].op = "recv" /\ context[c].st \in {"posted", "queued"}
WillReceive(t) ==
    \/ pc[t] \in {"count", "emplace", "recvPost", "recvDone"}
    \/ pc[t] \in SendPostPCs \cup ReleasePCs /\ ret[t] = "recvDone"

(* A session has one receive or one thread that is going to post it.         *)
ReceiveInv ==
    /\ \A c, d \in Contexts :
          Receives(c) /\ Receives(d) /\ context[c].owner = context[d].owner => c = d
    /\ \A t \in Threads, c \in Contexts :
          WillReceive(t) /\ Receives(c) => context[c].owner # session[t]
    /\ \A t, u \in Threads :
          WillReceive(t) /\ WillReceive(u) /\ session[t] = session[u] => t = u

(* Only a worker that handles a completion has an IOContext in its hands, ... *)
HasContext(t) ==
    \/ pc[t] \in RecvPostPCs \cup CompletionPCs
    \/ pc[t] \in SendPostPCs \cup ReleasePCs /\ ret[t] \in {"recvDone", "finish"}
HolderInv == \A t \in Threads : ioContext[t] # NoContext => t \in Workers /\ HasContext(t)

(* ... and no context is lost: a queued one is in a queue, a held one in the *)
(* hands of a thread.                                                        *)
QueuedPlaced ==
    \A c \in Contexts : context[c].st = "queued" =>
        \E w \in Workers : \E i \in 1 .. Len(cq[w]) : cq[w][i].ctx = c
HeldPlaced ==
    \A c \in Contexts : context[c].st = "held" => \E t \in Threads : ioContext[t] = c

-----------------------------------------------------------------------------
(* A step after which nobody else has or posts a receive keeps ReceiveInv.   *)
LEMMA ReceiveFrame ==
    ASSUME ReceiveInv,
           \A c \in Contexts : Receives(c)' => Receives(c) /\ context'[c].owner = context[c].owner,
           \A t \in Threads : WillReceive(t)' => WillReceive(t) /\ session'[t] = session[t]
    PROVE  ReceiveInv'
BY DEF ReceiveInv

(* RecvPost is called once for each receive that completed, and once for a   *)
(* new session.                                                              *)
LEMMA ReceiveStep == IInv /\ ReceiveInv /\ [Next]_vars => ReceiveInv'
<1> SUFFICES ASSUME IInv, ReceiveInv, [Next]_vars PROVE ReceiveInv'
  OBVIOUS
<1>i. TypeOK /\ QueueInv /\ HeldInv /\ ReturnInv /\ SessionInv /\ FreshInv
  BY DEF IInv
<1> USE ThreadsFacts
    DEF sessionVars, tableVars, ioVars, localVars, Goto, Return, TypeOK, LocalTypes
<1>1. ASSUME CountInWorker PROVE ReceiveInv'
  BY <1>1, <1>i, ReceiveFrame
  DEF CountInWorker, Receives, WillReceive, SendPostPCs, ReleasePCs, ReturnInv, IOTypes
<1>2. ASSUME Emplace PROVE ReceiveInv'
  BY <1>2, <1>i, ReceiveFrame
  DEF Emplace, Receives, WillReceive, SendPostPCs, ReleasePCs, ReturnInv, IOTypes
<1>3. ASSUME OnSessionEntered PROVE ReceiveInv'
  BY <1>3, <1>i, ReceiveFrame
  DEF OnSessionEntered, Receives, WillReceive, SendPostPCs, ReleasePCs, ReturnInv, IOTypes
<1>4. ASSUME CountSession PROVE ReceiveInv'
  BY <1>4, <1>i, ReceiveFrame
  DEF CountSession, Receives, WillReceive, SendPostPCs, ReleasePCs, ReturnInv, IOTypes
<1>5. ASSUME NEW t \in Threads, NEW c \in Contexts, RIOReceive(t, c) PROVE ReceiveInv'
  <2>1. Receives(c)' /\ context'[c].owner = session[t]
    BY <1>5, <1>i DEF RIOReceive, Alloc, Receives, IOTypes
  <2>2. \A d \in Contexts \ {c} : context'[d] = context[d]
    BY <1>5, <1>i DEF RIOReceive, Alloc, IOTypes
  <2>3. WillReceive(t) /\ ~WillReceive(t)'
    BY <1>5, <1>i DEF RIOReceive, WillReceive, SendPostPCs, ReleasePCs
  <2>4. \A u \in Threads \ {t} : WillReceive(u)' <=> WillReceive(u)
    BY <1>5, <1>i DEF RIOReceive, WillReceive
  <2>5. session' = session
    BY <1>5 DEF RIOReceive
  <2>6. \A d \in Contexts \ {c} : Receives(d)' <=> Receives(d)
    BY <2>2 DEF Receives
  <2> QED
    BY <2>1, <2>2, <2>3, <2>4, <2>5, <2>6 DEF ReceiveInv
<1>6. ASSUME NEW t \in Threads, NEW c \in Contexts, RIOReceiveFails(t, c) PROVE ReceiveInv'
  BY <1>6, <1>i, ReceiveFrame
  DEF RIOReceiveFails, Leak, Receives, WillReceive, SendPostPCs, ReleasePCs, ReturnInv,
      IOTypes
<1>7. ASSUME NEW t \in Threads, NEW c \in Contexts, RIOSend(t, c) PROVE ReceiveInv'
  BY <1>7, <1>i, ReceiveFrame
  DEF RIOSend, Alloc, Receives, WillReceive, SendPostPCs, ReleasePCs, ReturnInv, IOTypes
<1>8. ASSUME NEW t \in Threads, NEW c \in Contexts, RIOSendFails(t, c) PROVE ReceiveInv'
  BY <1>8, <1>i, ReceiveFrame
  DEF RIOSendFails, Leak, Receives, WillReceive, SendPostPCs, ReleasePCs, ReturnInv,
      IOTypes
<1>9. ASSUME NEW t \in Threads, RecvPostIncrement(t) PROVE ReceiveInv'
  BY <1>9, <1>i, ReceiveFrame
  DEF RecvPostIncrement, Receives, WillReceive, SendPostPCs, ReleasePCs, ReturnInv,
      IOTypes
<1>10. ASSUME NEW t \in Threads, RecvPostReturns(t) PROVE ReceiveInv'
  BY <1>10, <1>i, ReceiveFrame
  DEF RecvPostReturns, Receives, WillReceive, SendPostPCs, ReleasePCs, ReturnInv, IOTypes
<1>11. ASSUME NEW t \in Threads, SendPostReturns(t) PROVE ReceiveInv'
  BY <1>11, <1>i, ReceiveFrame
  DEF SendPostReturns, Receives, WillReceive, SendPostPCs, ReleasePCs, ReturnInv, IOTypes
<1>12. ASSUME NEW t \in Threads, SendPostClaims(t) PROVE ReceiveInv'
  BY <1>12, <1>i, ReceiveFrame
  DEF SendPostClaims, Receives, WillReceive, SendPostPCs, ReleasePCs, ReturnInv, IOTypes
<1>13. ASSUME NEW t \in Threads, SendPostIncrement(t) PROVE ReceiveInv'
  BY <1>13, <1>i, ReceiveFrame
  DEF SendPostIncrement, Receives, WillReceive, SendPostPCs, ReleasePCs, ReturnInv,
      IOTypes
<1>14. ASSUME NEW t \in Threads, IOCountDecrement(t) PROVE ReceiveInv'
  BY <1>14, <1>i, ReceiveFrame
  DEF IOCountDecrement, Receives, WillReceive, SendPostPCs, ReleasePCs, ReturnInv, IOTypes
<1>15. ASSUME NEW t \in Threads, OnSessionLeaved(t) PROVE ReceiveInv'
  BY <1>15, <1>i, ReceiveFrame
  DEF OnSessionLeaved, Receives, WillReceive, SendPostPCs, ReleasePCs, ReturnInv, IOTypes
<1>16. ASSUME NEW t \in Threads, CloseSocket(t) PROVE ReceiveInv'
  BY <1>16, <1>i, ReceiveFrame
  DEF CloseSocket, Receives, WillReceive, SendPostPCs, ReleasePCs, ReturnInv, IOTypes
<1>17. ASSUME NEW t \in Threads, EraseSession(t) PROVE ReceiveInv'
  BY <1>17, <1>i, ReceiveFrame
  DEF EraseSession, Receives, WillReceive, SendPostPCs, ReleasePCs, ReturnInv, IOTypes
<1>18. ASSUME NEW t \in Threads, OnSessionReleased(t) PROVE ReceiveInv'
  BY <1>18, <1>i, ReceiveFrame
  DEF OnSessionReleased, Receives, WillReceive, SendPostPCs, ReleasePCs, ReturnInv,
      IOTypes
<1>19. ASSUME NEW t \in Threads, DropSession(t) PROVE ReceiveInv'
  BY <1>19, <1>i, ReceiveFrame
  DEF DropSession, Receives, WillReceive, SendPostPCs, ReleasePCs, ReturnInv, IOTypes
<1>20. ASSUME NEW w \in Workers, DropCompletion(w) PROVE ReceiveInv'
  BY <1>20, <1>i, ReceiveFrame
  DEF DropCompletion, FreeContext, Receives, WillReceive, SendPostPCs, ReleasePCs,
      ReturnInv, IOTypes
<1>21. ASSUME NEW w \in Workers, ZeroCompletion(w) PROVE ReceiveInv'
  BY <1>21, <1>i, ReceiveFrame
  DEF ZeroCompletion, FreeContext, Receives, WillReceive, SendPostPCs, ReleasePCs,
      ReturnInv, IOTypes
<1>22. ASSUME NEW w \in Workers, NEW n \in 0 .. MaxBatch, IOCompleted(w, n) PROVE ReceiveInv'
  <2>1. PICK c \in Contexts : c = Dequeued(w)
    BY <1>22, <1>i, HeadFacts DEF IOCompleted
  <2>2. context' = [context EXCEPT ![c].st = "held"] /\ context[c].st = "queued"
    BY <1>22, <1>i, <2>1, HeadQueued DEF IOCompleted
  <2>3. ~Receives(c)' /\ \A d \in Contexts \ {c} : context'[d] = context[d]
    BY <1>i, <2>2 DEF Receives, IOTypes
  <2>4. \A u \in Threads \ {w} : WillReceive(u)' <=> WillReceive(u)
    BY <1>22, <1>i DEF IOCompleted, WillReceive
  <2>5. WillReceive(w)' => Receives(c)
    BY <1>22, <1>i, <2>1, <2>2
    DEF IOCompleted, WillReceive, Receives, SendPostPCs, ReleasePCs
  <2>6. \A d \in Contexts \ {c} : Receives(d)' <=> Receives(d)
    BY <2>3 DEF Receives
  <2>7. session'[w] = context[c].owner /\ \A u \in Threads \ {w} : session'[u] = session[u]
    BY <1>22, <1>i, <2>1 DEF IOCompleted
  <2> QED
    BY <2>1, <2>3, <2>4, <2>5, <2>6, <2>7 DEF ReceiveInv
<1>23. ASSUME NEW w \in Workers, PacketIgnored(w) PROVE ReceiveInv'
  BY <1>23, <1>i, ReceiveFrame
  DEF PacketIgnored, Receives, WillReceive, SendPostPCs, ReleasePCs, ReturnInv, IOTypes
<1>24. ASSUME NEW w \in Workers, NEW d \in BOOLEAN, PacketAnswered(w, d) PROVE ReceiveInv'
  BY <1>24, <1>i, ReceiveFrame
  DEF PacketAnswered, Enqueue, Receives, WillReceive, SendPostPCs, ReleasePCs, ReturnInv,
      IOTypes
<1>25. ASSUME NEW w \in Workers, PacketBad(w) PROVE ReceiveInv'
  BY <1>25, <1>i, ReceiveFrame
  DEF PacketBad, Receives, WillReceive, SendPostPCs, ReleasePCs, ReturnInv, IOTypes
<1>26. ASSUME NEW w \in Workers, RecvCompleted(w) PROVE ReceiveInv'
  BY <1>26, <1>i, ReceiveFrame
  DEF RecvCompleted, Receives, WillReceive, SendPostPCs, ReleasePCs, ReturnInv, IOTypes
<1>27. ASSUME NEW w \in Workers, SendIOCompleted(w) PROVE ReceiveInv'
  BY <1>27, <1>i, ReceiveFrame
  DEF SendIOCompleted, Receives, WillReceive, SendPostPCs, ReleasePCs, ReturnInv, IOTypes
<1>28. ASSUME NEW w \in Workers, SendCompleted(w) PROVE ReceiveInv'
  BY <1>28, <1>i, ReceiveFrame
  DEF SendCompleted, Disconnect, Receives, WillReceive, SendPostPCs, ReleasePCs,
      ReturnInv, IOTypes
<1>29. ASSUME NEW w \in Workers, FreeIOContext(w) PROVE ReceiveInv'
  BY <1>29, <1>i, ReceiveFrame
  DEF FreeIOContext, FreeContext, Receives, WillReceive, SendPostPCs, ReleasePCs,
      ReturnInv, IOTypes
<1>30. ASSUME NEW t \in Callers, NEW s \in Sessions, GetSession(t, s) PROVE ReceiveInv'
  BY <1>30, <1>i, ReceiveFrame
  DEF GetSession, Receives, WillReceive, SendPostPCs, ReleasePCs, ReturnInv, IOTypes
<1>31. ASSUME NEW t \in Callers, NEW d \in BOOLEAN, SendPacket(t, d) PROVE ReceiveInv'
  BY <1>31, <1>i, ReceiveFrame
  DEF SendPacket, Enqueue, Receives, WillReceive, SendPostPCs, ReleasePCs, ReturnInv,
      IOTypes
<1>32. ASSUME NEW t \in Callers, NEW s \in Sessions, CallDisconnect(t, s) PROVE ReceiveInv'
  BY <1>32, <1>i, ReceiveFrame
  DEF CallDisconnect, Disconnect, Receives, WillReceive, SendPostPCs, ReleasePCs,
      ReturnInv, IOTypes
<1>33. ASSUME NEW s \in Sessions, NEW w \in Workers, Accept(s, w) PROVE ReceiveInv'
  <2>1. /\ session'[Accepter] = s
        /\ \A u \in Threads \ {Accepter} : session'[u] = session[u] /\ session[u] # s
    BY <1>33, <1>i DEF Accept, InitSession, FreshInv
  <2>2. context' = context /\ \A c \in Contexts : context[c].owner # s
    BY <1>33, <1>i DEF Accept, InitSession, FreshInv
  <2>3. \A c \in Contexts : Receives(c)' <=> Receives(c)
    BY <2>2 DEF Receives
  <2>4. \A u \in Threads \ {Accepter} : WillReceive(u)' <=> WillReceive(u)
    BY <1>33, <1>i DEF Accept, InitSession, WillReceive
  <2> QED
    BY <2>1, <2>2, <2>3, <2>4 DEF ReceiveInv
<1>34. ASSUME NEW s \in Sessions, AcceptFails(s) PROVE ReceiveInv'
  BY <1>34, <1>i, ReceiveFrame
  DEF AcceptFails, Receives, WillReceive, SendPostPCs, ReleasePCs, ReturnInv, IOTypes
<1>35. ASSUME NEW s \in Sessions, ClientCloses(s) PROVE ReceiveInv'
  BY <1>35, <1>i, ReceiveFrame
  DEF ClientCloses, Receives, WillReceive, SendPostPCs, ReleasePCs, ReturnInv, IOTypes
<1>36. ASSUME NEW c \in Contexts, CompleteData(c) PROVE ReceiveInv'
  BY <1>36, <1>i, ReceiveFrame
  DEF CompleteData, Complete, Receives, WillReceive, SendPostPCs, ReleasePCs, ReturnInv,
      IOTypes
<1>37. ASSUME NEW c \in Contexts, CompleteZero(c) PROVE ReceiveInv'
  BY <1>37, <1>i, ReceiveFrame
  DEF CompleteZero, Complete, Receives, WillReceive, SendPostPCs, ReleasePCs, ReturnInv,
      IOTypes
<1>38. ASSUME UNCHANGED vars PROVE ReceiveInv'
  BY <1>38, <1>i, ReceiveFrame
  DEF vars, Receives, WillReceive, SendPostPCs, ReleasePCs, ReturnInv, IOTypes
<1> QED
  BY <1>1, <1>2, <1>3, <1>4, <1>5, <1>6, <1>7, <1>8, <1>9, <1>10, <1>11, <1>12, <1>13,
     <1>14, <1>15, <1>16, <1>17, <1>18, <1>19, <1>20, <1>21, <1>22, <1>23, <1>24, <1>25,
     <1>26, <1>27, <1>28, <1>29, <1>30, <1>31, <1>32, <1>33, <1>34, <1>35, <1>36, <1>37,
     <1>38
  DEF Next, ThreadStep, AccepterStep, PostStep, ReleaseStep, WorkerStep, CallerStep,
      Environment, Poll

(* What waits in a queue is the completion of a context in state "queued".   *)
LEMMA QueueElement ==
    ASSUME TypeOK, QueueInv, NEW w \in Workers, NEW i \in 1 .. Len(cq[w])
    PROVE  /\ cq[w][i].ctx \in Contexts
           /\ context[cq[w][i].ctx].st = "queued"
<1>1. cq[w] \in Seq(Completion)
  BY DEF TypeOK, IOTypes
<1>2. cq[w][i] \in Completion
  BY <1>1
<1> QED
  BY <1>2 DEF Completion, QueueInv

(* Queued contexts keep their owner, and its worker: QueueOwnerInv is kept   *)
(* by every step that leaves the queues alone, ...                           *)
LEMMA QueueOwnerKept ==
    ASSUME TypeOK, QueueInv, QueueOwnerInv, UNCHANGED cq,
           \A c \in Contexts : context[c].st = "queued" =>
               threadId'[context'[c].owner] = threadId[context[c].owner]
    PROVE  QueueOwnerInv'
BY QueueElement DEF QueueOwnerInv

(* ... by a dequeue, ...                                                     *)
LEMMA QueueOwnerTail ==
    ASSUME TypeOK, QueueInv, QueueOwnerInv, NEW w \in Workers, cq[w] # <<>>,
           cq' = [cq EXCEPT ![w] = Tail(@)], UNCHANGED threadId,
           \A c \in Contexts \ {Dequeued(w)} : context'[c] = context[c]
    PROVE  QueueOwnerInv'
<1>1. ASSUME NEW v \in Workers PROVE cq[v] \in Seq(Completion)
  BY DEF TypeOK, IOTypes
<1>2. /\ Tail(cq[w]) \in Seq(Completion)
      /\ Len(Tail(cq[w])) = Len(cq[w]) - 1
      /\ \A i \in 1 .. Len(Tail(cq[w])) : Tail(cq[w])[i] = cq[w][i + 1]
  BY <1>1, HeadTailProperties
<1>3. Head(cq[w]) = cq[w][1] /\ Len(cq[w]) \in Nat \ {0}
  BY <1>1
<1>4. cq'[w] = Tail(cq[w]) /\ \A v \in Workers \ {w} : cq'[v] = cq[v]
  BY DEF TypeOK, IOTypes
<1> SUFFICES ASSUME NEW v \in Workers, NEW i \in 1 .. Len(cq'[v])
             PROVE  threadId[context'[cq'[v][i].ctx].owner] = v
  BY DEF QueueOwnerInv
<1>5. PICK j \in 1 .. Len(cq[v]) : cq'[v][i] = cq[v][j] /\ (v = w => j # 1)
  <2>1. CASE v = w
    <3>1. i \in 1 .. Len(Tail(cq[w])) /\ cq'[v][i] = Tail(cq[w])[i]
      BY <1>4, <2>1
    <3>2. i \in 1 .. Len(cq[w]) - 1 /\ cq'[v][i] = cq[w][i + 1]
      BY <1>2, <3>1
    <3>3. i + 1 \in 1 .. Len(cq[w]) /\ i + 1 # 1
      BY <1>3, <3>2
    <3> QED
      BY <2>1, <3>2, <3>3
  <2>2. CASE v # w
    BY <1>4, <2>2
  <2> QED
    BY <2>1, <2>2
<1>6. 1 \in 1 .. Len(cq[w]) /\ cq[w][1].ctx = Dequeued(w)
  BY <1>3 DEF Dequeued
<1>7. cq[v][j].ctx # Dequeued(w)
  BY <1>5, <1>6 DEF QueueInv
<1>8. cq[v][j].ctx \in Contexts
  BY QueueElement
<1>9. context'[cq[v][j].ctx] = context[cq[v][j].ctx]
  BY <1>7, <1>8
<1> QED
  BY <1>5, <1>9 DEF QueueOwnerInv

(* ... and by a completion, which the kernel puts in the queue of the        *)
(* owner's worker.                                                           *)
LEMMA QueueOwnerAppend ==
    ASSUME TypeOK, SessionInv, QueueInv, BindingInv, QueueOwnerInv,
           NEW c \in Contexts, NEW b \in {"data", "zero"},
           context[c].st = "posted", Complete(c, b)
    PROVE  QueueOwnerInv'
<1> DEFINE u == threadId[context[c].owner]
           x == [ctx |-> c, bytes |-> b]
<1>1. u \in Workers /\ x \in Completion
  BY DEF TypeOK, SessionTypes, SessionInv, Completion
<1>2. ASSUME NEW v \in Workers PROVE cq[v] \in Seq(Completion)
  BY DEF TypeOK, IOTypes
<1>b. u = CompletionQueue(c)
  BY DEF SessionInv, BindingInv, CompletionQueue
<1>3. cq' = [cq EXCEPT ![u] = Append(cq[u], x)] /\ x.ctx = c
  BY <1>b DEF Complete
<1>4. \A d \in Contexts : context'[d].owner = context[d].owner
  BY DEF Complete, TypeOK, IOTypes
<1>5. threadId' = threadId
  BY DEF Complete, sessionVars
<1> SUFFICES ASSUME NEW v \in Workers, NEW i \in 1 .. Len(cq'[v])
             PROVE  threadId[context'[cq'[v][i].ctx].owner] = v
  BY <1>5 DEF QueueOwnerInv
<1> HIDE DEF u, x
<1>6. \/ i \in 1 .. Len(cq[v]) /\ cq'[v][i] = cq[v][i]
      \/ v = u /\ cq'[v][i] = x
  <2>1. CASE v = u
    <3>1. cq'[v] = Append(cq[v], x)
      BY <1>1, <1>3, <2>1 DEF TypeOK, IOTypes
    <3> QED
      BY <1>1, <1>2, <2>1, <3>1
  <2>2. CASE v # u
    BY <1>3, <2>2 DEF TypeOK, IOTypes
  <2> QED
    BY <2>1, <2>2
<1>7. CASE i \in 1 .. Len(cq[v]) /\ cq'[v][i] = cq[v][i]
  BY <1>4, <1>7, QueueElement DEF QueueOwnerInv
<1>8. CASE v = u /\ cq'[v][i] = x
  BY <1>3, <1>4, <1>8 DEF u
<1> QED
  BY <1>6, <1>7, <1>8

(* A worker dequeues the completions of its own sessions.                    *)
LEMMA HeadOwner ==
    ASSUME TypeOK, QueueOwnerInv, NEW w \in Workers, cq[w] # <<>>
    PROVE  threadId[context[Dequeued(w)].owner] = w
<1>1. cq[w] \in Seq(Completion)
  BY DEF TypeOK, IOTypes
<1>2. Head(cq[w]) = cq[w][1] /\ 1 \in 1 .. Len(cq[w])
  BY <1>1
<1> QED
  BY <1>2 DEF QueueOwnerInv, Dequeued

(* InitSession is given rioCQList[threadId] twice.                           *)
LEMMA BindingStep == TypeOK /\ BindingInv /\ [Next]_vars => BindingInv'
<1> SUFFICES ASSUME TypeOK, BindingInv, [Next]_vars PROVE BindingInv'
  OBVIOUS
<1>1. CASE UNCHANGED <<threadId, rioRQ>>
  BY <1>1 DEF BindingInv
<1>2. ASSUME NEW s \in Sessions, NEW w \in Workers, Accept(s, w) PROVE BindingInv'
  BY <1>2 DEF TypeOK, SessionTypes, RequestQueueTypes, BindingInv, Accept, InitSession
<1> QED
  BY <1>1, <1>2, RequestQueueStep

(* InitSession fixes the worker of a session before anyone knows it, and     *)
(* every completion goes to that worker.                                     *)
LEMMA QueueOwnerStep == IInv /\ BindingInv /\ QueueOwnerInv /\ [Next]_vars => QueueOwnerInv'
<1> SUFFICES ASSUME IInv, BindingInv, QueueOwnerInv, [Next]_vars PROVE QueueOwnerInv'
  OBVIOUS
<1>i. TypeOK /\ QueueInv /\ HeldInv /\ SessionInv /\ FreshInv
  BY DEF IInv
<1> USE ThreadsFacts
    DEF sessionVars, tableVars, ioVars, localVars, Goto, Return, TypeOK, LocalTypes
<1>1. ASSUME CountInWorker PROVE QueueOwnerInv'
  BY <1>1, <1>i, QueueOwnerKept DEF CountInWorker, IOTypes
<1>2. ASSUME Emplace PROVE QueueOwnerInv'
  BY <1>2, <1>i, QueueOwnerKept DEF Emplace, IOTypes
<1>3. ASSUME OnSessionEntered PROVE QueueOwnerInv'
  BY <1>3, <1>i, QueueOwnerKept DEF OnSessionEntered, IOTypes
<1>4. ASSUME CountSession PROVE QueueOwnerInv'
  BY <1>4, <1>i, QueueOwnerKept DEF CountSession, IOTypes
<1>5. ASSUME NEW t \in Threads, NEW c \in Contexts, RIOReceive(t, c) PROVE QueueOwnerInv'
  BY <1>5, <1>i, QueueOwnerKept DEF RIOReceive, Alloc, IOTypes
<1>6. ASSUME NEW t \in Threads, NEW c \in Contexts, RIOReceiveFails(t, c) PROVE QueueOwnerInv'
  BY <1>6, <1>i, QueueOwnerKept DEF RIOReceiveFails, Leak, IOTypes
<1>7. ASSUME NEW t \in Threads, NEW c \in Contexts, RIOSend(t, c) PROVE QueueOwnerInv'
  BY <1>7, <1>i, QueueOwnerKept DEF RIOSend, Alloc, IOTypes
<1>8. ASSUME NEW t \in Threads, NEW c \in Contexts, RIOSendFails(t, c) PROVE QueueOwnerInv'
  BY <1>8, <1>i, QueueOwnerKept DEF RIOSendFails, Leak, IOTypes
<1>9. ASSUME NEW t \in Threads, RecvPostIncrement(t) PROVE QueueOwnerInv'
  BY <1>9, <1>i, QueueOwnerKept DEF RecvPostIncrement, IOTypes
<1>10. ASSUME NEW t \in Threads, RecvPostReturns(t) PROVE QueueOwnerInv'
  BY <1>10, <1>i, QueueOwnerKept DEF RecvPostReturns, IOTypes
<1>11. ASSUME NEW t \in Threads, SendPostReturns(t) PROVE QueueOwnerInv'
  BY <1>11, <1>i, QueueOwnerKept DEF SendPostReturns, IOTypes
<1>12. ASSUME NEW t \in Threads, SendPostClaims(t) PROVE QueueOwnerInv'
  BY <1>12, <1>i, QueueOwnerKept DEF SendPostClaims, IOTypes
<1>13. ASSUME NEW t \in Threads, SendPostIncrement(t) PROVE QueueOwnerInv'
  BY <1>13, <1>i, QueueOwnerKept DEF SendPostIncrement, IOTypes
<1>14. ASSUME NEW t \in Threads, IOCountDecrement(t) PROVE QueueOwnerInv'
  BY <1>14, <1>i, QueueOwnerKept DEF IOCountDecrement, IOTypes
<1>15. ASSUME NEW t \in Threads, OnSessionLeaved(t) PROVE QueueOwnerInv'
  BY <1>15, <1>i, QueueOwnerKept DEF OnSessionLeaved, IOTypes
<1>16. ASSUME NEW t \in Threads, CloseSocket(t) PROVE QueueOwnerInv'
  BY <1>16, <1>i, QueueOwnerKept DEF CloseSocket, IOTypes
<1>17. ASSUME NEW t \in Threads, EraseSession(t) PROVE QueueOwnerInv'
  BY <1>17, <1>i, QueueOwnerKept DEF EraseSession, IOTypes
<1>18. ASSUME NEW t \in Threads, OnSessionReleased(t) PROVE QueueOwnerInv'
  BY <1>18, <1>i, QueueOwnerKept DEF OnSessionReleased, IOTypes
<1>19. ASSUME NEW t \in Threads, DropSession(t) PROVE QueueOwnerInv'
  BY <1>19, <1>i, QueueOwnerKept DEF DropSession, IOTypes
<1>20. ASSUME NEW w \in Workers, DropCompletion(w) PROVE QueueOwnerInv'
  <2>1. \A c \in Contexts \ {Dequeued(w)} : context'[c] = context[c]
    BY <1>20, <1>i, HeadFacts DEF DropCompletion, IOTypes
  <2> QED
    BY <1>20, <1>i, <2>1, QueueOwnerTail DEF DropCompletion
<1>21. ASSUME NEW w \in Workers, ZeroCompletion(w) PROVE QueueOwnerInv'
  <2>1. \A c \in Contexts \ {Dequeued(w)} : context'[c] = context[c]
    BY <1>21, <1>i, HeadFacts DEF ZeroCompletion, IOTypes
  <2> QED
    BY <1>21, <1>i, <2>1, QueueOwnerTail DEF ZeroCompletion
<1>22. ASSUME NEW w \in Workers, NEW n \in 0 .. MaxBatch, IOCompleted(w, n)
       PROVE  QueueOwnerInv'
  <2>1. \A c \in Contexts \ {Dequeued(w)} : context'[c] = context[c]
    BY <1>22, <1>i, HeadFacts DEF IOCompleted, IOTypes
  <2> QED
    BY <1>22, <1>i, <2>1, QueueOwnerTail DEF IOCompleted
<1>23. ASSUME NEW w \in Workers, PacketIgnored(w) PROVE QueueOwnerInv'
  BY <1>23, <1>i, QueueOwnerKept DEF PacketIgnored, IOTypes
<1>24. ASSUME NEW w \in Workers, NEW d \in BOOLEAN, PacketAnswered(w, d) PROVE QueueOwnerInv'
  BY <1>24, <1>i, QueueOwnerKept DEF PacketAnswered, Enqueue, IOTypes
<1>25. ASSUME NEW w \in Workers, PacketBad(w) PROVE QueueOwnerInv'
  BY <1>25, <1>i, QueueOwnerKept DEF PacketBad, IOTypes
<1>26. ASSUME NEW w \in Workers, RecvCompleted(w) PROVE QueueOwnerInv'
  BY <1>26, <1>i, QueueOwnerKept DEF RecvCompleted, IOTypes
<1>27. ASSUME NEW w \in Workers, SendIOCompleted(w) PROVE QueueOwnerInv'
  BY <1>27, <1>i, QueueOwnerKept DEF SendIOCompleted, IOTypes
<1>28. ASSUME NEW w \in Workers, SendCompleted(w) PROVE QueueOwnerInv'
  BY <1>28, <1>i, QueueOwnerKept DEF SendCompleted, Disconnect, IOTypes
<1>29. ASSUME NEW w \in Workers, FreeIOContext(w) PROVE QueueOwnerInv'
  <2>1. \A c \in Contexts : context[c].st = "queued" => context'[c] = context[c]
    BY <1>29, <1>i, ContextsAssumption DEF FreeIOContext, HeldInv, IOTypes
  <2> QED
    BY <1>29, <1>i, <2>1, QueueOwnerKept DEF FreeIOContext
<1>30. ASSUME NEW t \in Callers, NEW s \in Sessions, GetSession(t, s) PROVE QueueOwnerInv'
  BY <1>30, <1>i, QueueOwnerKept DEF GetSession, IOTypes
<1>31. ASSUME NEW t \in Callers, NEW d \in BOOLEAN, SendPacket(t, d) PROVE QueueOwnerInv'
  BY <1>31, <1>i, QueueOwnerKept DEF SendPacket, Enqueue, IOTypes
<1>32. ASSUME NEW t \in Callers, NEW s \in Sessions, CallDisconnect(t, s) PROVE QueueOwnerInv'
  BY <1>32, <1>i, QueueOwnerKept DEF CallDisconnect, Disconnect, IOTypes
<1>33. ASSUME NEW s \in Sessions, NEW w \in Workers, Accept(s, w) PROVE QueueOwnerInv'
  BY <1>33, <1>i, QueueOwnerKept
  DEF Accept, InitSession, IOTypes, FreshInv, SessionInv, SessionTypes
<1>34. ASSUME NEW s \in Sessions, AcceptFails(s) PROVE QueueOwnerInv'
  BY <1>34, <1>i, QueueOwnerKept DEF AcceptFails, IOTypes
<1>35. ASSUME NEW s \in Sessions, ClientCloses(s) PROVE QueueOwnerInv'
  BY <1>35, <1>i, QueueOwnerKept DEF ClientCloses, IOTypes
<1>36. ASSUME NEW c \in Contexts, CompleteData(c) PROVE QueueOwnerInv'
  BY <1>36, <1>i, QueueOwnerAppend DEF CompleteData
<1>37. ASSUME NEW c \in Contexts, CompleteZero(c) PROVE QueueOwnerInv'
  BY <1>37, <1>i, QueueOwnerAppend DEF CompleteZero
<1>38. ASSUME UNCHANGED vars PROVE QueueOwnerInv'
  BY <1>38, <1>i, QueueOwnerKept DEF vars, IOTypes
<1> QED
  BY <1>1, <1>2, <1>3, <1>4, <1>5, <1>6, <1>7, <1>8, <1>9, <1>10, <1>11, <1>12, <1>13,
     <1>14, <1>15, <1>16, <1>17, <1>18, <1>19, <1>20, <1>21, <1>22, <1>23, <1>24, <1>25,
     <1>26, <1>27, <1>28, <1>29, <1>30, <1>31, <1>32, <1>33, <1>34, <1>35, <1>36, <1>37,
     <1>38
  DEF Next, ThreadStep, AccepterStep, PostStep, ReleaseStep, WorkerStep, CallerStep,
      Environment, Poll

(* The session of a busy worker is its own.                                  *)
LEMMA OwnWorkerStep ==
    IInv /\ QueueOwnerInv /\ OwnWorkerInv /\ [Next]_vars => OwnWorkerInv'
<1> SUFFICES ASSUME IInv, QueueOwnerInv, OwnWorkerInv, [Next]_vars
             PROVE  OwnWorkerInv'
  OBVIOUS
<1>i. TypeOK /\ SessionInv /\ FreshInv /\ ReturnInv
  BY DEF IInv
<1> USE ThreadsAssumption
<1> USE ThreadsFacts
    DEF sessionVars, tableVars, ioVars, localVars, Goto, Return, TypeOK, LocalTypes
<1>1. ASSUME CountInWorker PROVE OwnWorkerInv'
  BY <1>1, <1>i DEF CountInWorker, OwnWorkerInv
<1>2. ASSUME Emplace PROVE OwnWorkerInv'
  BY <1>2, <1>i DEF Emplace, OwnWorkerInv
<1>3. ASSUME OnSessionEntered PROVE OwnWorkerInv'
  BY <1>3, <1>i DEF OnSessionEntered, OwnWorkerInv
<1>4. ASSUME CountSession PROVE OwnWorkerInv'
  BY <1>4, <1>i DEF CountSession, OwnWorkerInv
<1>5. ASSUME NEW t \in Threads, NEW c \in Contexts, RIOReceive(t, c) PROVE OwnWorkerInv'
  BY <1>5, <1>i DEF RIOReceive, Alloc, OwnWorkerInv
<1>6. ASSUME NEW t \in Threads, NEW c \in Contexts, RIOReceiveFails(t, c)
      PROVE  OwnWorkerInv'
  BY <1>6, <1>i DEF RIOReceiveFails, Leak, OwnWorkerInv
<1>7. ASSUME NEW t \in Threads, NEW c \in Contexts, RIOSend(t, c) PROVE OwnWorkerInv'
  BY <1>7, <1>i DEF RIOSend, Alloc, OwnWorkerInv
<1>8. ASSUME NEW t \in Threads, NEW c \in Contexts, RIOSendFails(t, c)
      PROVE  OwnWorkerInv'
  BY <1>8, <1>i DEF RIOSendFails, Leak, OwnWorkerInv
<1>9. ASSUME NEW t \in Threads, RecvPostIncrement(t) PROVE OwnWorkerInv'
  BY <1>9, <1>i DEF RecvPostIncrement, OwnWorkerInv
<1>10. ASSUME NEW t \in Threads, RecvPostReturns(t) PROVE OwnWorkerInv'
  BY <1>10, <1>i DEF RecvPostReturns, OwnWorkerInv
<1>11. ASSUME NEW t \in Threads, SendPostReturns(t) PROVE OwnWorkerInv'
  BY <1>11, <1>i DEF SendPostReturns, OwnWorkerInv
<1>12. ASSUME NEW t \in Threads, SendPostClaims(t) PROVE OwnWorkerInv'
  BY <1>12, <1>i DEF SendPostClaims, OwnWorkerInv
<1>13. ASSUME NEW t \in Threads, SendPostIncrement(t) PROVE OwnWorkerInv'
  BY <1>13, <1>i DEF SendPostIncrement, OwnWorkerInv
<1>14. ASSUME NEW t \in Threads, IOCountDecrement(t) PROVE OwnWorkerInv'
  BY <1>14, <1>i DEF IOCountDecrement, OwnWorkerInv
<1>15. ASSUME NEW t \in Threads, OnSessionLeaved(t) PROVE OwnWorkerInv'
  BY <1>15, <1>i DEF OnSessionLeaved, OwnWorkerInv
<1>16. ASSUME NEW t \in Threads, CloseSocket(t) PROVE OwnWorkerInv'
  BY <1>16, <1>i DEF CloseSocket, OwnWorkerInv
<1>17. ASSUME NEW t \in Threads, EraseSession(t) PROVE OwnWorkerInv'
  BY <1>17, <1>i DEF EraseSession, OwnWorkerInv
<1>18. ASSUME NEW t \in Threads, OnSessionReleased(t) PROVE OwnWorkerInv'
  BY <1>18, <1>i DEF OnSessionReleased, OwnWorkerInv
<1>19. ASSUME NEW t \in Threads, DropSession(t) PROVE OwnWorkerInv'
  BY <1>19, <1>i DEF DropSession, OwnWorkerInv
<1>20. ASSUME NEW w \in Workers, DropCompletion(w) PROVE OwnWorkerInv'
  BY <1>20, <1>i DEF DropCompletion, FreeContext, OwnWorkerInv
<1>21. ASSUME NEW w \in Workers, ZeroCompletion(w) PROVE OwnWorkerInv'
  BY <1>21, <1>i, HeadOwner DEF ZeroCompletion, FreeContext, OwnWorkerInv
<1>22. ASSUME NEW w \in Workers, NEW n \in 0 .. MaxBatch, IOCompleted(w, n)
       PROVE  OwnWorkerInv'
  BY <1>22, <1>i, HeadOwner DEF IOCompleted, OwnWorkerInv
<1>23. ASSUME NEW w \in Workers, PacketIgnored(w) PROVE OwnWorkerInv'
  BY <1>23, <1>i DEF PacketIgnored, OwnWorkerInv
<1>24. ASSUME NEW w \in Workers, NEW d \in BOOLEAN, PacketAnswered(w, d)
       PROVE  OwnWorkerInv'
  BY <1>24, <1>i DEF PacketAnswered, Enqueue, OwnWorkerInv
<1>25. ASSUME NEW w \in Workers, PacketBad(w) PROVE OwnWorkerInv'
  BY <1>25, <1>i DEF PacketBad, OwnWorkerInv
<1>26. ASSUME NEW w \in Workers, RecvCompleted(w) PROVE OwnWorkerInv'
  BY <1>26, <1>i DEF RecvCompleted, OwnWorkerInv
<1>27. ASSUME NEW w \in Workers, SendIOCompleted(w) PROVE OwnWorkerInv'
  BY <1>27, <1>i DEF SendIOCompleted, OwnWorkerInv
<1>28. ASSUME NEW w \in Workers, SendCompleted(w) PROVE OwnWorkerInv'
  BY <1>28, <1>i DEF SendCompleted, Disconnect, OwnWorkerInv
<1>29. ASSUME NEW w \in Workers, FreeIOContext(w) PROVE OwnWorkerInv'
  BY <1>29, <1>i DEF FreeIOContext, FreeContext, OwnWorkerInv
<1>30. ASSUME NEW t \in Callers, NEW s \in Sessions, GetSession(t, s)
       PROVE  OwnWorkerInv'
  BY <1>30, <1>i DEF GetSession, OwnWorkerInv
<1>31. ASSUME NEW t \in Callers, NEW d \in BOOLEAN, SendPacket(t, d) PROVE OwnWorkerInv'
  BY <1>31, <1>i DEF SendPacket, Enqueue, OwnWorkerInv
<1>32. ASSUME NEW t \in Callers, NEW s \in Sessions, CallDisconnect(t, s)
       PROVE  OwnWorkerInv'
  BY <1>32, <1>i DEF CallDisconnect, Disconnect, OwnWorkerInv
<1>33. ASSUME NEW s \in Sessions, NEW w \in Workers, Accept(s, w) PROVE OwnWorkerInv'
  BY <1>33, <1>i DEF Accept, InitSession, OwnWorkerInv, FreshInv, SessionInv, SessionTypes
<1>34. ASSUME NEW s \in Sessions, AcceptFails(s) PROVE OwnWorkerInv'
  BY <1>34, <1>i DEF AcceptFails, OwnWorkerInv
<1>35. ASSUME NEW s \in Sessions, ClientCloses(s) PROVE OwnWorkerInv'
  BY <1>35, <1>i DEF ClientCloses, OwnWorkerInv
<1>36. ASSUME NEW c \in Contexts, CompleteData(c) PROVE OwnWorkerInv'
  BY <1>36, <1>i DEF CompleteData, Complete, OwnWorkerInv
<1>37. ASSUME NEW c \in Contexts, CompleteZero(c) PROVE OwnWorkerInv'
  BY <1>37, <1>i DEF CompleteZero, Complete, OwnWorkerInv
<1>38. ASSUME UNCHANGED vars PROVE OwnWorkerInv'
  BY <1>38, <1>i DEF vars, OwnWorkerInv
<1> QED
  BY <1>1, <1>2, <1>3, <1>4, <1>5, <1>6, <1>7, <1>8, <1>9, <1>10, <1>11, <1>12, <1>13,
     <1>14, <1>15, <1>16, <1>17, <1>18, <1>19, <1>20, <1>21, <1>22, <1>23, <1>24, <1>25,
     <1>26, <1>27, <1>28, <1>29, <1>30, <1>31, <1>32, <1>33, <1>34, <1>35, <1>36, <1>37,
     <1>38
  DEF Next, ThreadStep, AccepterStep, PostStep, ReleaseStep, WorkerStep, CallerStep,
      Environment, Poll

(* No completion and no worker knows a session before its first receive is   *)
(* posted: the Accepter leaves MakeNewSession's RecvPost with it.            *)
LEMMA FirstPostStep ==
    ASSUME Callers = {}, IInv, FirstPostInv, [Next]_vars
    PROVE  FirstPostInv'
<1>i. TypeOK /\ SessionInv /\ HeldInv /\ FreshInv /\ NewInv
  BY DEF IInv
<1> USE ThreadsAssumption, ThreadsFacts
    DEF sessionVars, tableVars, ioVars, localVars, Goto, Return, TypeOK, LocalTypes, SendPostPCs
<1>1. ASSUME CountInWorker PROVE FirstPostInv'
  BY <1>1, <1>i DEF CountInWorker, FirstPostInv
<1>2. ASSUME Emplace PROVE FirstPostInv'
  BY <1>2, <1>i DEF Emplace, FirstPostInv, NewInv
<1>3. ASSUME OnSessionEntered PROVE FirstPostInv'
  BY <1>3, <1>i DEF OnSessionEntered, FirstPostInv
<1>4. ASSUME CountSession PROVE FirstPostInv'
  BY <1>4, <1>i DEF CountSession, FirstPostInv
<1>5. ASSUME NEW t \in Threads, NEW c \in Contexts, RIOReceive(t, c) PROVE FirstPostInv'
  BY <1>5, <1>i DEF RIOReceive, Alloc, FirstPostInv, IOTypes, SessionInv
<1>6. ASSUME NEW t \in Threads, NEW c \in Contexts, RIOReceiveFails(t, c)
      PROVE  FirstPostInv'
  BY <1>6, <1>i DEF RIOReceiveFails, Leak, FirstPostInv, IOTypes, SessionInv
<1>7. ASSUME NEW t \in Threads, NEW c \in Contexts, RIOSend(t, c) PROVE FirstPostInv'
  BY <1>7, <1>i DEF RIOSend, Alloc, FirstPostInv, IOTypes, SessionInv
<1>8. ASSUME NEW t \in Threads, NEW c \in Contexts, RIOSendFails(t, c)
      PROVE  FirstPostInv'
  BY <1>8, <1>i DEF RIOSendFails, Leak, FirstPostInv, IOTypes, SessionInv
<1>9. ASSUME NEW t \in Threads, RecvPostIncrement(t) PROVE FirstPostInv'
  BY <1>9, <1>i DEF RecvPostIncrement, FirstPostInv
<1>10. ASSUME NEW t \in Threads, RecvPostReturns(t) PROVE FirstPostInv'
  BY <1>10, <1>i DEF RecvPostReturns, FirstPostInv
<1>11. ASSUME NEW t \in Threads, SendPostReturns(t) PROVE FirstPostInv'
  BY <1>11, <1>i, SessionsAssumption DEF SendPostReturns, FirstPostInv, SessionInv
<1>12. ASSUME NEW t \in Threads, SendPostClaims(t) PROVE FirstPostInv'
  BY <1>12, <1>i DEF SendPostClaims, FirstPostInv
<1>13. ASSUME NEW t \in Threads, SendPostIncrement(t) PROVE FirstPostInv'
  BY <1>13, <1>i DEF SendPostIncrement, FirstPostInv
<1>14. ASSUME NEW t \in Threads, IOCountDecrement(t) PROVE FirstPostInv'
  BY <1>14, <1>i, SessionsAssumption DEF IOCountDecrement, FirstPostInv, SessionInv
<1>15. ASSUME NEW t \in Threads, OnSessionLeaved(t) PROVE FirstPostInv'
  BY <1>15, <1>i DEF OnSessionLeaved, FirstPostInv
<1>16. ASSUME NEW t \in Threads, CloseSocket(t) PROVE FirstPostInv'
  BY <1>16, <1>i DEF CloseSocket, FirstPostInv
<1>17. ASSUME NEW t \in Threads, EraseSession(t) PROVE FirstPostInv'
  BY <1>17, <1>i DEF EraseSession, FirstPostInv
<1>18. ASSUME NEW t \in Threads, OnSessionReleased(t) PROVE FirstPostInv'
  BY <1>18, <1>i, SessionsAssumption DEF OnSessionReleased, FirstPostInv, SessionInv
<1>19. ASSUME NEW t \in Threads, DropSession(t) PROVE FirstPostInv'
  BY <1>19, <1>i, SessionsAssumption DEF DropSession, FirstPostInv, SessionInv
<1>20. ASSUME NEW w \in Workers, DropCompletion(w) PROVE FirstPostInv'
  BY <1>20, <1>i, HeadFacts, SessionsAssumption
  DEF DropCompletion, FreeContext, FirstPostInv, IOTypes, SessionInv
<1>21. ASSUME NEW w \in Workers, ZeroCompletion(w) PROVE FirstPostInv'
  BY <1>21, <1>i, HeadFacts, SessionsAssumption
  DEF ZeroCompletion, FreeContext, FirstPostInv, IOTypes, SessionInv
<1>22. ASSUME NEW w \in Workers, NEW n \in 0 .. MaxBatch, IOCompleted(w, n)
       PROVE  FirstPostInv'
  BY <1>22, <1>i, HeadFacts DEF IOCompleted, FirstPostInv
<1>23. ASSUME NEW w \in Workers, PacketIgnored(w) PROVE FirstPostInv'
  BY <1>23, <1>i DEF PacketIgnored, FirstPostInv
<1>24. ASSUME NEW w \in Workers, NEW d \in BOOLEAN, PacketAnswered(w, d)
       PROVE  FirstPostInv'
  BY <1>24, <1>i DEF PacketAnswered, Enqueue, FirstPostInv
<1>25. ASSUME NEW w \in Workers, PacketBad(w) PROVE FirstPostInv'
  BY <1>25, <1>i DEF PacketBad, FirstPostInv
<1>26. ASSUME NEW w \in Workers, RecvCompleted(w) PROVE FirstPostInv'
  BY <1>26, <1>i DEF RecvCompleted, FirstPostInv
<1>27. ASSUME NEW w \in Workers, SendIOCompleted(w) PROVE FirstPostInv'
  BY <1>27, <1>i DEF SendIOCompleted, FirstPostInv
<1>28. ASSUME NEW w \in Workers, SendCompleted(w) PROVE FirstPostInv'
  BY <1>28, <1>i DEF SendCompleted, Disconnect, FirstPostInv
<1>29. ASSUME NEW w \in Workers, FreeIOContext(w) PROVE FirstPostInv'
  BY <1>29, <1>i, SessionsAssumption
  DEF FreeIOContext, FreeContext, FirstPostInv, IOTypes, SessionInv
<1>30. ASSUME NEW t \in Callers, NEW s \in Sessions, GetSession(t, s)
       PROVE  FirstPostInv'
  BY <1>30, <1>i DEF GetSession, FirstPostInv
<1>31. ASSUME NEW t \in Callers, NEW d \in BOOLEAN, SendPacket(t, d) PROVE FirstPostInv'
  BY <1>31, <1>i DEF SendPacket, Enqueue, FirstPostInv
<1>32. ASSUME NEW t \in Callers, NEW s \in Sessions, CallDisconnect(t, s)
       PROVE  FirstPostInv'
  BY <1>32, <1>i DEF CallDisconnect, Disconnect, FirstPostInv
<1>33. ASSUME NEW s \in Sessions, NEW w \in Workers, Accept(s, w) PROVE FirstPostInv'
  BY <1>33, <1>i DEF Accept, InitSession, FirstPostInv
<1>34. ASSUME NEW s \in Sessions, AcceptFails(s) PROVE FirstPostInv'
  BY <1>34, <1>i DEF AcceptFails, FirstPostInv
<1>35. ASSUME NEW s \in Sessions, ClientCloses(s) PROVE FirstPostInv'
  BY <1>35, <1>i DEF ClientCloses, FirstPostInv
<1>36. ASSUME NEW c \in Contexts, CompleteData(c) PROVE FirstPostInv'
  BY <1>36, <1>i DEF CompleteData, Complete, FirstPostInv
<1>37. ASSUME NEW c \in Contexts, CompleteZero(c) PROVE FirstPostInv'
  BY <1>37, <1>i DEF CompleteZero, Complete, FirstPostInv
<1>38. ASSUME UNCHANGED vars PROVE FirstPostInv'
  BY <1>38, <1>i DEF vars, FirstPostInv
<1> QED
  BY <1>1, <1>2, <1>3, <1>4, <1>5, <1>6, <1>7, <1>8, <1>9, <1>10, <1>11, <1>12, <1>13,
     <1>14, <1>15, <1>16, <1>17, <1>18, <1>19, <1>20, <1>21, <1>22, <1>23, <1>24, <1>25,
     <1>26, <1>27, <1>28, <1>29, <1>30, <1>31, <1>32, <1>33, <1>34, <1>35, <1>36, <1>37,
     <1>38
  DEF Next, ThreadStep, AccepterStep, PostStep, ReleaseStep, WorkerStep, CallerStep,
      Environment, Poll

(* A worker gives its context back before it returns to its loop.            *)
LEMMA HolderStep == IInv /\ HolderInv /\ [Next]_vars => HolderInv'
<1> SUFFICES ASSUME IInv, HolderInv, [Next]_vars PROVE HolderInv'
  OBVIOUS
<1>i. TypeOK /\ ReturnInv
  BY DEF IInv
<1> USE ThreadsAssumption
<1> USE DEF HasContext, RecvPostPCs, CompletionPCs, SendPostPCs, ReleasePCs
<1> USE ThreadsFacts
    DEF sessionVars, tableVars, ioVars, localVars, Goto, Return, TypeOK, LocalTypes
<1>1. ASSUME CountInWorker PROVE HolderInv'
  BY <1>1, <1>i DEF CountInWorker, HolderInv
<1>2. ASSUME Emplace PROVE HolderInv'
  BY <1>2, <1>i DEF Emplace, HolderInv
<1>3. ASSUME OnSessionEntered PROVE HolderInv'
  BY <1>3, <1>i DEF OnSessionEntered, HolderInv
<1>4. ASSUME CountSession PROVE HolderInv'
  BY <1>4, <1>i DEF CountSession, HolderInv
<1>5. ASSUME NEW t \in Threads, NEW c \in Contexts, RIOReceive(t, c) PROVE HolderInv'
  BY <1>5, <1>i DEF RIOReceive, Alloc, HolderInv
<1>6. ASSUME NEW t \in Threads, NEW c \in Contexts, RIOReceiveFails(t, c) PROVE HolderInv'
  BY <1>6, <1>i DEF RIOReceiveFails, Leak, HolderInv
<1>7. ASSUME NEW t \in Threads, NEW c \in Contexts, RIOSend(t, c) PROVE HolderInv'
  BY <1>7, <1>i DEF RIOSend, Alloc, HolderInv
<1>8. ASSUME NEW t \in Threads, NEW c \in Contexts, RIOSendFails(t, c) PROVE HolderInv'
  BY <1>8, <1>i DEF RIOSendFails, Leak, HolderInv
<1>9. ASSUME NEW t \in Threads, RecvPostIncrement(t) PROVE HolderInv'
  BY <1>9, <1>i DEF RecvPostIncrement, HolderInv
<1>10. ASSUME NEW t \in Threads, RecvPostReturns(t) PROVE HolderInv'
  <2>1. CASE t = Accepter
    BY <1>10, <1>i, <2>1 DEF RecvPostReturns, HolderInv
  <2>2. CASE t # Accepter
    BY <1>10, <1>i, <2>2 DEF RecvPostReturns, HolderInv
  <2> QED
    BY <2>1, <2>2
<1>11. ASSUME NEW t \in Threads, SendPostReturns(t) PROVE HolderInv'
  BY <1>11, <1>i DEF SendPostReturns, HolderInv, ReturnInv, SessionPCs
<1>12. ASSUME NEW t \in Threads, SendPostClaims(t) PROVE HolderInv'
  BY <1>12, <1>i DEF SendPostClaims, HolderInv
<1>13. ASSUME NEW t \in Threads, SendPostIncrement(t) PROVE HolderInv'
  BY <1>13, <1>i DEF SendPostIncrement, HolderInv
<1>14. ASSUME NEW t \in Threads, IOCountDecrement(t) PROVE HolderInv'
  BY <1>14, <1>i DEF IOCountDecrement, HolderInv, ReturnInv, SessionPCs
<1>15. ASSUME NEW t \in Threads, OnSessionLeaved(t) PROVE HolderInv'
  BY <1>15, <1>i DEF OnSessionLeaved, HolderInv
<1>16. ASSUME NEW t \in Threads, CloseSocket(t) PROVE HolderInv'
  BY <1>16, <1>i DEF CloseSocket, HolderInv
<1>17. ASSUME NEW t \in Threads, EraseSession(t) PROVE HolderInv'
  BY <1>17, <1>i DEF EraseSession, HolderInv
<1>18. ASSUME NEW t \in Threads, OnSessionReleased(t) PROVE HolderInv'
  BY <1>18, <1>i DEF OnSessionReleased, HolderInv, ReturnInv, SessionPCs
<1>19. ASSUME NEW t \in Threads, DropSession(t) PROVE HolderInv'
  BY <1>19, <1>i DEF DropSession, HolderInv, ReturnInv, SessionPCs
<1>20. ASSUME NEW w \in Workers, DropCompletion(w) PROVE HolderInv'
  BY <1>20, <1>i DEF DropCompletion, FreeContext, HolderInv
<1>21. ASSUME NEW w \in Workers, ZeroCompletion(w) PROVE HolderInv'
  BY <1>21, <1>i DEF ZeroCompletion, FreeContext, HolderInv
<1>22. ASSUME NEW w \in Workers, NEW n \in 0 .. MaxBatch, IOCompleted(w, n) PROVE HolderInv'
  BY <1>22, <1>i DEF IOCompleted, HolderInv
<1>23. ASSUME NEW w \in Workers, PacketIgnored(w) PROVE HolderInv'
  BY <1>23, <1>i DEF PacketIgnored, HolderInv
<1>24. ASSUME NEW w \in Workers, NEW d \in BOOLEAN, PacketAnswered(w, d) PROVE HolderInv'
  BY <1>24, <1>i DEF PacketAnswered, Enqueue, HolderInv
<1>25. ASSUME NEW w \in Workers, PacketBad(w) PROVE HolderInv'
  BY <1>25, <1>i DEF PacketBad, HolderInv
<1>26. ASSUME NEW w \in Workers, RecvCompleted(w) PROVE HolderInv'
  BY <1>26, <1>i DEF RecvCompleted, HolderInv
<1>27. ASSUME NEW w \in Workers, SendIOCompleted(w) PROVE HolderInv'
  BY <1>27, <1>i DEF SendIOCompleted, HolderInv
<1>28. ASSUME NEW w \in Workers, SendCompleted(w) PROVE HolderInv'
  BY <1>28, <1>i DEF SendCompleted, Disconnect, HolderInv
<1>29. ASSUME NEW w \in Workers, FreeIOContext(w) PROVE HolderInv'
  BY <1>29, <1>i DEF FreeIOContext, FreeContext, HolderInv
<1>30. ASSUME NEW t \in Callers, NEW s \in Sessions, GetSession(t, s) PROVE HolderInv'
  BY <1>30, <1>i DEF GetSession, HolderInv
<1>31. ASSUME NEW t \in Callers, NEW d \in BOOLEAN, SendPacket(t, d) PROVE HolderInv'
  BY <1>31, <1>i DEF SendPacket, Enqueue, HolderInv, ReturnInv, SessionPCs
<1>32. ASSUME NEW t \in Callers, NEW s \in Sessions, CallDisconnect(t, s) PROVE HolderInv'
  BY <1>32, <1>i DEF CallDisconnect, Disconnect, HolderInv
<1>33. ASSUME NEW s \in Sessions, NEW w \in Workers, Accept(s, w) PROVE HolderInv'
  BY <1>33, <1>i DEF Accept, InitSession, HolderInv, ReturnInv, SessionPCs
<1>34. ASSUME NEW s \in Sessions, AcceptFails(s) PROVE HolderInv'
  BY <1>34, <1>i DEF AcceptFails, HolderInv
<1>35. ASSUME NEW s \in Sessions, ClientCloses(s) PROVE HolderInv'
  BY <1>35, <1>i DEF ClientCloses, HolderInv
<1>36. ASSUME NEW c \in Contexts, CompleteData(c) PROVE HolderInv'
  BY <1>36, <1>i DEF CompleteData, Complete, HolderInv
<1>37. ASSUME NEW c \in Contexts, CompleteZero(c) PROVE HolderInv'
  BY <1>37, <1>i DEF CompleteZero, Complete, HolderInv
<1>38. ASSUME UNCHANGED vars PROVE HolderInv'
  BY <1>38, <1>i DEF vars, HolderInv
<1> QED
  BY <1>1, <1>2, <1>3, <1>4, <1>5, <1>6, <1>7, <1>8, <1>9, <1>10, <1>11, <1>12, <1>13,
     <1>14, <1>15, <1>16, <1>17, <1>18, <1>19, <1>20, <1>21, <1>22, <1>23, <1>24, <1>25,
     <1>26, <1>27, <1>28, <1>29, <1>30, <1>31, <1>32, <1>33, <1>34, <1>35, <1>36, <1>37,
     <1>38
  DEF Next, ThreadStep, AccepterStep, PostStep, ReleaseStep, WorkerStep, CallerStep,
      Environment, Poll

(* A queued context stays in its queue until the worker dequeues it.         *)
LEMMA QueuedStep == IInv /\ QueuedPlaced /\ [Next]_vars => QueuedPlaced'
<1> SUFFICES ASSUME IInv, QueuedPlaced, [Next]_vars PROVE QueuedPlaced'
  OBVIOUS
<1>i. TypeOK /\ QueueInv /\ SessionInv
  BY DEF IInv
<1>t. ASSUME NEW w \in Workers, cq[w] # <<>>, cq' = [cq EXCEPT ![w] = Tail(@)],
             \A c \in Contexts : context'[c].st = "queued" =>
                 context[c].st = "queued" /\ c # Dequeued(w)
      PROVE  QueuedPlaced'
  <2>1. cq[w] \in Seq(Completion)
    BY <1>i DEF TypeOK, IOTypes
  <2>2. /\ Len(Tail(cq[w])) = Len(cq[w]) - 1
        /\ \A i \in 1 .. Len(Tail(cq[w])) : Tail(cq[w])[i] = cq[w][i + 1]
    BY <1>t, <2>1, HeadTailProperties
  <2>3. Dequeued(w) = cq[w][1].ctx /\ Len(cq[w]) \in Nat
    BY <1>t, <2>1 DEF Dequeued
  <2>4. cq'[w] = Tail(cq[w]) /\ \A v \in Workers \ {w} : cq'[v] = cq[v]
    BY <1>t, <1>i DEF TypeOK, IOTypes
  <2> SUFFICES ASSUME NEW c \in Contexts, context[c].st = "queued", c # Dequeued(w)
               PROVE  \E v \in Workers : \E i \in 1 .. Len(cq'[v]) : cq'[v][i].ctx = c
    BY <1>t DEF QueuedPlaced
  <2>5. PICK v \in Workers : \E i \in 1 .. Len(cq[v]) : cq[v][i].ctx = c
    BY DEF QueuedPlaced
  <2>6. PICK i \in 1 .. Len(cq[v]) : cq[v][i].ctx = c
    BY <2>5
  <2>7. CASE v # w
    BY <2>4, <2>6, <2>7
  <2>8. CASE v = w
    <3>1. i # 1
      BY <2>3, <2>6, <2>8
    <3>2. i - 1 \in 1 .. Len(Tail(cq[w])) /\ (i - 1) + 1 = i
      BY <2>2, <2>3, <2>6, <2>8, <3>1
    <3>3. Tail(cq[w])[i - 1] = cq[w][i]
      BY <2>2, <3>2
    <3> QED
      BY <2>4, <2>6, <2>8, <3>2, <3>3
  <2> QED
    BY <2>7, <2>8
<1>a. ASSUME NEW c \in Contexts, NEW b \in {"data", "zero"},
             context[c].st = "posted", Complete(c, b)
      PROVE  QueuedPlaced'
  <2>1. PICK u \in Workers : u = CompletionQueue(c)
    BY <1>a, <1>i DEF TypeOK, RequestQueueTypes, SessionInv, CompletionQueue
  <2>2. PICK x \in Completion : x = [ctx |-> c, bytes |-> b]
    BY DEF Completion
  <2>3. cq[u] \in Seq(Completion)
    BY <1>i DEF TypeOK, IOTypes
  <2>4. cq' = [cq EXCEPT ![u] = Append(cq[u], x)] /\ x.ctx = c
    BY <1>a, <2>1, <2>2 DEF Complete
  <2>5. cq'[u] = Append(cq[u], x) /\ \A v \in Workers \ {u} : cq'[v] = cq[v]
    BY <1>i, <2>4 DEF TypeOK, IOTypes
  <2>6. /\ Len(cq'[u]) = Len(cq[u]) + 1 /\ cq'[u][Len(cq[u]) + 1] = x
        /\ \A i \in 1 .. Len(cq[u]) : cq'[u][i] = cq[u][i]
        /\ Len(cq[u]) \in Nat
    BY <2>3, <2>5
  <2>7. \A d \in Contexts \ {c} : context'[d] = context[d]
    BY <1>a, <1>i DEF Complete, TypeOK, IOTypes
  <2> SUFFICES ASSUME NEW d \in Contexts, context'[d].st = "queued"
               PROVE  \E v \in Workers : \E i \in 1 .. Len(cq'[v]) : cq'[v][i].ctx = d
    BY DEF QueuedPlaced
  <2>8. CASE d = c
    <3>1. Len(cq[u]) + 1 \in 1 .. Len(cq'[u])
      BY <2>6
    <3> QED
      BY <2>4, <2>6, <2>8, <3>1
  <2>9. CASE d # c
    <3>1. PICK v \in Workers : \E i \in 1 .. Len(cq[v]) : cq[v][i].ctx = d
      BY <2>7, <2>9 DEF QueuedPlaced
    <3>2. PICK i \in 1 .. Len(cq[v]) : cq[v][i].ctx = d
      BY <3>1
    <3>3. i \in 1 .. Len(cq'[v]) /\ cq'[v][i] = cq[v][i]
      BY <2>5, <2>6, <3>2
    <3> QED
      BY <3>2, <3>3
  <2> QED
    BY <2>8, <2>9
<1> USE ThreadsFacts
    DEF sessionVars, tableVars, ioVars, localVars, Goto, Return, TypeOK, LocalTypes
<1>1. ASSUME CountInWorker PROVE QueuedPlaced'
  BY <1>1, <1>i DEF CountInWorker, QueuedPlaced, IOTypes
<1>2. ASSUME Emplace PROVE QueuedPlaced'
  BY <1>2, <1>i DEF Emplace, QueuedPlaced, IOTypes
<1>3. ASSUME OnSessionEntered PROVE QueuedPlaced'
  BY <1>3, <1>i DEF OnSessionEntered, QueuedPlaced, IOTypes
<1>4. ASSUME CountSession PROVE QueuedPlaced'
  BY <1>4, <1>i DEF CountSession, QueuedPlaced, IOTypes
<1>5. ASSUME NEW t \in Threads, NEW c \in Contexts, RIOReceive(t, c) PROVE QueuedPlaced'
  BY <1>5, <1>i DEF RIOReceive, Alloc, QueuedPlaced, IOTypes
<1>6. ASSUME NEW t \in Threads, NEW c \in Contexts, RIOReceiveFails(t, c) PROVE QueuedPlaced'
  BY <1>6, <1>i DEF RIOReceiveFails, Leak, QueuedPlaced, IOTypes
<1>7. ASSUME NEW t \in Threads, NEW c \in Contexts, RIOSend(t, c) PROVE QueuedPlaced'
  BY <1>7, <1>i DEF RIOSend, Alloc, QueuedPlaced, IOTypes
<1>8. ASSUME NEW t \in Threads, NEW c \in Contexts, RIOSendFails(t, c) PROVE QueuedPlaced'
  BY <1>8, <1>i DEF RIOSendFails, Leak, QueuedPlaced, IOTypes
<1>9. ASSUME NEW t \in Threads, RecvPostIncrement(t) PROVE QueuedPlaced'
  BY <1>9, <1>i DEF RecvPostIncrement, QueuedPlaced, IOTypes
<1>10. ASSUME NEW t \in Threads, RecvPostReturns(t) PROVE QueuedPlaced'
  BY <1>10, <1>i DEF RecvPostReturns, QueuedPlaced, IOTypes
<1>11. ASSUME NEW t \in Threads, SendPostReturns(t) PROVE QueuedPlaced'
  BY <1>11, <1>i DEF SendPostReturns, QueuedPlaced, IOTypes
<1>12. ASSUME NEW t \in Threads, SendPostClaims(t) PROVE QueuedPlaced'
  BY <1>12, <1>i DEF SendPostClaims, QueuedPlaced, IOTypes
<1>13. ASSUME NEW t \in Threads, SendPostIncrement(t) PROVE QueuedPlaced'
  BY <1>13, <1>i DEF SendPostIncrement, QueuedPlaced, IOTypes
<1>14. ASSUME NEW t \in Threads, IOCountDecrement(t) PROVE QueuedPlaced'
  BY <1>14, <1>i DEF IOCountDecrement, QueuedPlaced, IOTypes
<1>15. ASSUME NEW t \in Threads, OnSessionLeaved(t) PROVE QueuedPlaced'
  BY <1>15, <1>i DEF OnSessionLeaved, QueuedPlaced, IOTypes
<1>16. ASSUME NEW t \in Threads, CloseSocket(t) PROVE QueuedPlaced'
  BY <1>16, <1>i DEF CloseSocket, QueuedPlaced, IOTypes
<1>17. ASSUME NEW t \in Threads, EraseSession(t) PROVE QueuedPlaced'
  BY <1>17, <1>i DEF EraseSession, QueuedPlaced, IOTypes
<1>18. ASSUME NEW t \in Threads, OnSessionReleased(t) PROVE QueuedPlaced'
  BY <1>18, <1>i DEF OnSessionReleased, QueuedPlaced, IOTypes
<1>19. ASSUME NEW t \in Threads, DropSession(t) PROVE QueuedPlaced'
  BY <1>19, <1>i DEF DropSession, QueuedPlaced, IOTypes
<1>20. ASSUME NEW w \in Workers, DropCompletion(w) PROVE QueuedPlaced'
  <2>1. \A c \in Contexts : context'[c].st = "queued" =>
            context[c].st = "queued" /\ c # Dequeued(w)
    BY <1>20, <1>i, HeadFacts DEF DropCompletion, FreeContext, IOTypes
  <2> QED
    BY <1>20, <2>1, <1>t DEF DropCompletion
<1>21. ASSUME NEW w \in Workers, ZeroCompletion(w) PROVE QueuedPlaced'
  <2>1. \A c \in Contexts : context'[c].st = "queued" =>
            context[c].st = "queued" /\ c # Dequeued(w)
    BY <1>21, <1>i, HeadFacts DEF ZeroCompletion, FreeContext, IOTypes
  <2> QED
    BY <1>21, <2>1, <1>t DEF ZeroCompletion
<1>22. ASSUME NEW w \in Workers, NEW n \in 0 .. MaxBatch, IOCompleted(w, n)
       PROVE  QueuedPlaced'
  <2>1. PICK c \in Contexts : c = Dequeued(w)
    BY <1>22, <1>i, HeadFacts DEF IOCompleted
  <2>2. context' = [context EXCEPT ![c].st = "held"]
    BY <1>22, <2>1 DEF IOCompleted
  <2>3. \A d \in Contexts : context'[d].st = "queued" =>
            context[d].st = "queued" /\ d # Dequeued(w)
    BY <1>i, <2>1, <2>2 DEF IOTypes
  <2> QED
    BY <1>22, <2>3, <1>t DEF IOCompleted
<1>23. ASSUME NEW w \in Workers, PacketIgnored(w) PROVE QueuedPlaced'
  BY <1>23, <1>i DEF PacketIgnored, QueuedPlaced, IOTypes
<1>24. ASSUME NEW w \in Workers, NEW d \in BOOLEAN, PacketAnswered(w, d) PROVE QueuedPlaced'
  BY <1>24, <1>i DEF PacketAnswered, Enqueue, QueuedPlaced, IOTypes
<1>25. ASSUME NEW w \in Workers, PacketBad(w) PROVE QueuedPlaced'
  BY <1>25, <1>i DEF PacketBad, QueuedPlaced, IOTypes
<1>26. ASSUME NEW w \in Workers, RecvCompleted(w) PROVE QueuedPlaced'
  BY <1>26, <1>i DEF RecvCompleted, QueuedPlaced, IOTypes
<1>27. ASSUME NEW w \in Workers, SendIOCompleted(w) PROVE QueuedPlaced'
  BY <1>27, <1>i DEF SendIOCompleted, QueuedPlaced, IOTypes
<1>28. ASSUME NEW w \in Workers, SendCompleted(w) PROVE QueuedPlaced'
  BY <1>28, <1>i DEF SendCompleted, Disconnect, QueuedPlaced, IOTypes
<1>29. ASSUME NEW w \in Workers, FreeIOContext(w) PROVE QueuedPlaced'
  BY <1>29, <1>i DEF FreeIOContext, FreeContext, QueuedPlaced, IOTypes
<1>30. ASSUME NEW t \in Callers, NEW s \in Sessions, GetSession(t, s) PROVE QueuedPlaced'
  BY <1>30, <1>i DEF GetSession, QueuedPlaced, IOTypes
<1>31. ASSUME NEW t \in Callers, NEW d \in BOOLEAN, SendPacket(t, d) PROVE QueuedPlaced'
  BY <1>31, <1>i DEF SendPacket, Enqueue, QueuedPlaced, IOTypes
<1>32. ASSUME NEW t \in Callers, NEW s \in Sessions, CallDisconnect(t, s) PROVE QueuedPlaced'
  BY <1>32, <1>i DEF CallDisconnect, Disconnect, QueuedPlaced, IOTypes
<1>33. ASSUME NEW s \in Sessions, NEW w \in Workers, Accept(s, w) PROVE QueuedPlaced'
  BY <1>33, <1>i DEF Accept, InitSession, QueuedPlaced, IOTypes
<1>34. ASSUME NEW s \in Sessions, AcceptFails(s) PROVE QueuedPlaced'
  BY <1>34, <1>i DEF AcceptFails, QueuedPlaced, IOTypes
<1>35. ASSUME NEW s \in Sessions, ClientCloses(s) PROVE QueuedPlaced'
  BY <1>35, <1>i DEF ClientCloses, QueuedPlaced, IOTypes
<1>36. ASSUME NEW c \in Contexts, CompleteData(c) PROVE QueuedPlaced'
  BY <1>36, <1>a DEF CompleteData
<1>37. ASSUME NEW c \in Contexts, CompleteZero(c) PROVE QueuedPlaced'
  BY <1>37, <1>a DEF CompleteZero
<1>38. ASSUME UNCHANGED vars PROVE QueuedPlaced'
  BY <1>38, <1>i DEF vars, QueuedPlaced, IOTypes
<1> QED
  BY <1>1, <1>2, <1>3, <1>4, <1>5, <1>6, <1>7, <1>8, <1>9, <1>10, <1>11, <1>12, <1>13,
     <1>14, <1>15, <1>16, <1>17, <1>18, <1>19, <1>20, <1>21, <1>22, <1>23, <1>24, <1>25,
     <1>26, <1>27, <1>28, <1>29, <1>30, <1>31, <1>32, <1>33, <1>34, <1>35, <1>36, <1>37,
     <1>38
  DEF Next, ThreadStep, AccepterStep, PostStep, ReleaseStep, WorkerStep, CallerStep,
      Environment, Poll

(* A held context stays in its worker's hands until the worker frees it.     *)
LEMMA HeldPlacedStep == IInv /\ HolderInv /\ HeldPlaced /\ [Next]_vars => HeldPlaced'
<1> SUFFICES ASSUME IInv, HolderInv, HeldPlaced, [Next]_vars PROVE HeldPlaced'
  OBVIOUS
<1>i. TypeOK
  BY DEF IInv
<1> USE ThreadsFacts
    DEF sessionVars, tableVars, ioVars, localVars, Goto, Return, TypeOK, LocalTypes
<1>1. ASSUME CountInWorker PROVE HeldPlaced'
  BY <1>1, <1>i DEF CountInWorker, HeldPlaced, IOTypes
<1>2. ASSUME Emplace PROVE HeldPlaced'
  BY <1>2, <1>i DEF Emplace, HeldPlaced, IOTypes
<1>3. ASSUME OnSessionEntered PROVE HeldPlaced'
  BY <1>3, <1>i DEF OnSessionEntered, HeldPlaced, IOTypes
<1>4. ASSUME CountSession PROVE HeldPlaced'
  BY <1>4, <1>i DEF CountSession, HeldPlaced, IOTypes
<1>5. ASSUME NEW t \in Threads, NEW c \in Contexts, RIOReceive(t, c) PROVE HeldPlaced'
  BY <1>5, <1>i DEF RIOReceive, Alloc, HeldPlaced, IOTypes
<1>6. ASSUME NEW t \in Threads, NEW c \in Contexts, RIOReceiveFails(t, c) PROVE HeldPlaced'
  BY <1>6, <1>i DEF RIOReceiveFails, Leak, HeldPlaced, IOTypes
<1>7. ASSUME NEW t \in Threads, NEW c \in Contexts, RIOSend(t, c) PROVE HeldPlaced'
  BY <1>7, <1>i DEF RIOSend, Alloc, HeldPlaced, IOTypes
<1>8. ASSUME NEW t \in Threads, NEW c \in Contexts, RIOSendFails(t, c) PROVE HeldPlaced'
  BY <1>8, <1>i DEF RIOSendFails, Leak, HeldPlaced, IOTypes
<1>9. ASSUME NEW t \in Threads, RecvPostIncrement(t) PROVE HeldPlaced'
  BY <1>9, <1>i DEF RecvPostIncrement, HeldPlaced, IOTypes
<1>10. ASSUME NEW t \in Threads, RecvPostReturns(t) PROVE HeldPlaced'
  BY <1>10, <1>i DEF RecvPostReturns, HeldPlaced, IOTypes
<1>11. ASSUME NEW t \in Threads, SendPostReturns(t) PROVE HeldPlaced'
  BY <1>11, <1>i DEF SendPostReturns, HeldPlaced, IOTypes
<1>12. ASSUME NEW t \in Threads, SendPostClaims(t) PROVE HeldPlaced'
  BY <1>12, <1>i DEF SendPostClaims, HeldPlaced, IOTypes
<1>13. ASSUME NEW t \in Threads, SendPostIncrement(t) PROVE HeldPlaced'
  BY <1>13, <1>i DEF SendPostIncrement, HeldPlaced, IOTypes
<1>14. ASSUME NEW t \in Threads, IOCountDecrement(t) PROVE HeldPlaced'
  BY <1>14, <1>i DEF IOCountDecrement, HeldPlaced, IOTypes
<1>15. ASSUME NEW t \in Threads, OnSessionLeaved(t) PROVE HeldPlaced'
  BY <1>15, <1>i DEF OnSessionLeaved, HeldPlaced, IOTypes
<1>16. ASSUME NEW t \in Threads, CloseSocket(t) PROVE HeldPlaced'
  BY <1>16, <1>i DEF CloseSocket, HeldPlaced, IOTypes
<1>17. ASSUME NEW t \in Threads, EraseSession(t) PROVE HeldPlaced'
  BY <1>17, <1>i DEF EraseSession, HeldPlaced, IOTypes
<1>18. ASSUME NEW t \in Threads, OnSessionReleased(t) PROVE HeldPlaced'
  BY <1>18, <1>i DEF OnSessionReleased, HeldPlaced, IOTypes
<1>19. ASSUME NEW t \in Threads, DropSession(t) PROVE HeldPlaced'
  BY <1>19, <1>i DEF DropSession, HeldPlaced, IOTypes
<1>20. ASSUME NEW w \in Workers, DropCompletion(w) PROVE HeldPlaced'
  BY <1>20, <1>i, HeadFacts DEF DropCompletion, FreeContext, HeldPlaced, IOTypes
<1>21. ASSUME NEW w \in Workers, ZeroCompletion(w) PROVE HeldPlaced'
  BY <1>21, <1>i, HeadFacts DEF ZeroCompletion, FreeContext, HeldPlaced, IOTypes
<1>22. ASSUME NEW w \in Workers, NEW n \in 0 .. MaxBatch, IOCompleted(w, n) PROVE HeldPlaced'
  <2>1. PICK c \in Contexts : c = Dequeued(w)
    BY <1>22, <1>i, HeadFacts DEF IOCompleted
  <2>2. /\ context' = [context EXCEPT ![c].st = "held"]
        /\ ioContext' = [ioContext EXCEPT ![w] = c]
    BY <1>22, <2>1 DEF IOCompleted
  <2>3. \A d \in Contexts \ {c} : context'[d] = context[d]
    BY <1>i, <2>2 DEF IOTypes
  <2>4. ioContext[w] = NoContext
    BY <1>22
    DEF IOCompleted, HolderInv, HasContext, RecvPostPCs, CompletionPCs, SendPostPCs, ReleasePCs
  <2>5. ioContext'[w] = c /\ \A t \in Threads \ {w} : ioContext'[t] = ioContext[t]
    BY <1>i, <2>2
  <2> QED
    BY <2>3, <2>4, <2>5, ContextsAssumption DEF HeldPlaced
<1>23. ASSUME NEW w \in Workers, PacketIgnored(w) PROVE HeldPlaced'
  BY <1>23, <1>i DEF PacketIgnored, HeldPlaced, IOTypes
<1>24. ASSUME NEW w \in Workers, NEW d \in BOOLEAN, PacketAnswered(w, d) PROVE HeldPlaced'
  BY <1>24, <1>i DEF PacketAnswered, Enqueue, HeldPlaced, IOTypes
<1>25. ASSUME NEW w \in Workers, PacketBad(w) PROVE HeldPlaced'
  BY <1>25, <1>i DEF PacketBad, HeldPlaced, IOTypes
<1>26. ASSUME NEW w \in Workers, RecvCompleted(w) PROVE HeldPlaced'
  BY <1>26, <1>i DEF RecvCompleted, HeldPlaced, IOTypes
<1>27. ASSUME NEW w \in Workers, SendIOCompleted(w) PROVE HeldPlaced'
  BY <1>27, <1>i DEF SendIOCompleted, HeldPlaced, IOTypes
<1>28. ASSUME NEW w \in Workers, SendCompleted(w) PROVE HeldPlaced'
  BY <1>28, <1>i DEF SendCompleted, Disconnect, HeldPlaced, IOTypes
<1>29. ASSUME NEW w \in Workers, FreeIOContext(w) PROVE HeldPlaced'
  BY <1>29, <1>i DEF FreeIOContext, FreeContext, HeldPlaced, IOTypes
<1>30. ASSUME NEW t \in Callers, NEW s \in Sessions, GetSession(t, s) PROVE HeldPlaced'
  BY <1>30, <1>i DEF GetSession, HeldPlaced, IOTypes
<1>31. ASSUME NEW t \in Callers, NEW d \in BOOLEAN, SendPacket(t, d) PROVE HeldPlaced'
  BY <1>31, <1>i DEF SendPacket, Enqueue, HeldPlaced, IOTypes
<1>32. ASSUME NEW t \in Callers, NEW s \in Sessions, CallDisconnect(t, s) PROVE HeldPlaced'
  BY <1>32, <1>i DEF CallDisconnect, Disconnect, HeldPlaced, IOTypes
<1>33. ASSUME NEW s \in Sessions, NEW w \in Workers, Accept(s, w) PROVE HeldPlaced'
  BY <1>33, <1>i DEF Accept, InitSession, HeldPlaced, IOTypes
<1>34. ASSUME NEW s \in Sessions, AcceptFails(s) PROVE HeldPlaced'
  BY <1>34, <1>i DEF AcceptFails, HeldPlaced, IOTypes
<1>35. ASSUME NEW s \in Sessions, ClientCloses(s) PROVE HeldPlaced'
  BY <1>35, <1>i DEF ClientCloses, HeldPlaced, IOTypes
<1>36. ASSUME NEW c \in Contexts, CompleteData(c) PROVE HeldPlaced'
  BY <1>36, <1>i DEF CompleteData, Complete, HeldPlaced, IOTypes
<1>37. ASSUME NEW c \in Contexts, CompleteZero(c) PROVE HeldPlaced'
  BY <1>37, <1>i DEF CompleteZero, Complete, HeldPlaced, IOTypes
<1>38. ASSUME UNCHANGED vars PROVE HeldPlaced'
  BY <1>38, <1>i DEF vars, HeldPlaced, IOTypes
<1> QED
  BY <1>1, <1>2, <1>3, <1>4, <1>5, <1>6, <1>7, <1>8, <1>9, <1>10, <1>11, <1>12, <1>13,
     <1>14, <1>15, <1>16, <1>17, <1>18, <1>19, <1>20, <1>21, <1>22, <1>23, <1>24, <1>25,
     <1>26, <1>27, <1>28, <1>29, <1>30, <1>31, <1>32, <1>33, <1>34, <1>35, <1>36, <1>37,
     <1>38
  DEF Next, ThreadStep, AccepterStep, PostStep, ReleaseStep, WorkerStep, CallerStep,
      Environment, Poll

-----------------------------------------------------------------------------
OwnershipInv ==
    /\ IInv /\ BindingInv /\ QueueOwnerInv /\ OwnWorkerInv /\ ReceiveInv
    /\ HolderInv /\ QueuedPlaced /\ HeldPlaced

(* Every behaviour of the server satisfies the ownership invariant.          *)
LEMMA AlwaysOwnership == Spec => []OwnershipInv
<1>1. Init => OwnershipInv
  <2> SUFFICES ASSUME Init PROVE OwnershipInv
    OBVIOUS
  <2>1. IInv
    BY InitInv
  <2>2. BindingInv /\ QueueOwnerInv /\ OwnWorkerInv
    BY ThreadsFacts DEF Init, BindingInv, QueueOwnerInv, OwnWorkerInv
  <2>3. \A c \in Contexts : context[c].st = "free"
    BY DEF Init, FreeContext
  <2>4. ReceiveInv
    BY <2>3 DEF Init, ReceiveInv, Receives, WillReceive, SendPostPCs, ReleasePCs
  <2>5. HolderInv /\ QueuedPlaced /\ HeldPlaced
    BY <2>3 DEF Init, HolderInv, QueuedPlaced, HeldPlaced
  <2> QED
    BY <2>1, <2>2, <2>4, <2>5 DEF OwnershipInv
<1>2. OwnershipInv /\ [Next]_vars => OwnershipInv'
  BY StepInv, BindingStep, QueueOwnerStep, OwnWorkerStep, ReceiveStep, HolderStep, QueuedStep,
     HeldPlacedStep
  DEF OwnershipInv, IInv
<1> QED
  BY <1>1, <1>2, PTL DEF Spec

LEMMA IntervalCount == ASSUME NEW n \in Nat PROVE Cardinality(1 .. n) = n
<1>1. 1 \in Int /\ n \in Int
  OBVIOUS
<1>2. Cardinality(1 .. n) = IF 1 > n THEN 0 ELSE n - 1 + 1
  BY <1>1, FS_Interval, Zenon
<1> QED
  BY <1>2

(* The completion queues never hold more completions than there are contexts. *)
LEMMA QueueLength ==
    ASSUME TypeOK, QueueInv, NEW w \in Workers
    PROVE  Len(cq[w]) \in Nat /\ Len(cq[w]) <= Cardinality(Contexts)
<1> DEFINE f == [i \in 1 .. Len(cq[w]) |-> cq[w][i].ctx]
<1>1. Len(cq[w]) \in Nat
  BY DEF TypeOK, IOTypes
<1>2. f \in Injection(1 .. Len(cq[w]), Contexts)
  BY QueueElement DEF Injection, IsInjective, QueueInv
<1> HIDE DEF f
<1>3. Cardinality(1 .. Len(cq[w])) <= Cardinality(Contexts)
  BY <1>2, FS_Injection, ContextsAssumption
<1>4. Cardinality(1 .. Len(cq[w])) = Len(cq[w])
  BY <1>1, IntervalCount
<1>5. Cardinality(Contexts) \in Nat
  BY FS_CardinalityType, ContextsAssumption
<1> QED
  BY <1>1, <1>3, <1>4, <1>5

(* RecvPost and SendPost need no lock for the request queue of a session as  *)
(* long as handlers answer on their own session only: InitSession binds it   *)
(* to one worker, and the Accepter is done with it before that worker starts.*)
THEOREM RIOCallsSerialized ==
    ASSUME Callers = {}
    PROVE  Spec => []RequestQueueSerialized
<1>1. Init => FirstPostInv
  BY ThreadsFacts DEF Init, FirstPostInv, SendPostPCs
<1>2. OwnershipInv /\ FirstPostInv /\ [Next]_vars => FirstPostInv'
  BY FirstPostStep DEF OwnershipInv
<1>3. OwnershipInv /\ FirstPostInv => RequestQueueSerialized
  <2> SUFFICES ASSUME OwnershipInv, FirstPostInv, NEW s \in Sessions
               PROVE  Cardinality(InRIOCall(s)) <= 1
    BY DEF RequestQueueSerialized
  <2>1. ASSUME NEW t \in InRIOCall(s), NEW u \in InRIOCall(s) PROVE t = u
    <3>1. t \in Workers \cup {Accepter} /\ u \in Workers \cup {Accepter}
      BY DEF InRIOCall, Threads
    <3>2. CASE t \in Workers /\ u \in Workers
      BY <3>2 DEF InRIOCall, OwnershipInv, OwnWorkerInv
    <3>3. CASE t = Accepter \/ u = Accepter
      BY <3>3 DEF InRIOCall, FirstPostInv, SendPostPCs
    <3> QED
      BY <3>1, <3>2, <3>3
  <2> DEFINE R == InRIOCall(s)
  <2> HIDE DEF R
  <2>2. CASE R = {}
    BY <2>2, FS_EmptySet DEF R
  <2>3. CASE R # {}
    <3>1. PICK t : R = {t}
      BY <2>1, <2>3 DEF R
    <3> QED
      BY <3>1, FS_Singleton DEF R
  <2> QED
    BY <2>2, <2>3
<1> QED
  BY <1>1, <1>2, <1>3, AlwaysOwnership, PTL DEF Spec

(* RecvPost never posts a receive while another one of the session is with   *)
(* the kernel, so the receive ring has one writer.                           *)
THEOREM ReceiveIsUnique == Spec => []OneReceive
<1>1. OwnershipInv => OneReceive
  <2> SUFFICES ASSUME OwnershipInv, NEW s \in Sessions
               PROVE  Cardinality({c \in Inflight(s) : context[c].op = "recv"}) <= 1
    BY DEF OneReceive
  <2> DEFINE R == {c \in Inflight(s) : context[c].op = "recv"}
  <2>1. \A c, d \in R : c = d
    BY DEF OwnershipInv, ReceiveInv, Receives, Inflight
  <2> HIDE DEF R
  <2>2. CASE R = {}
    BY <2>2, FS_EmptySet DEF R
  <2>3. CASE R # {}
    <3>1. PICK c : R = {c}
      BY <2>1, <2>3
    <3> QED
      BY <3>1, FS_Singleton DEF R
  <2> QED
    BY <2>2, <2>3
<1> QED
  BY <1>1, AlwaysOwnership, PTL

(* contextPool.Alloc and Free are balanced: a context is in one queue, once, *)
(* or in the hands of one worker, and never in both.                         *)
THEOREM ContextOwnedOnce == Spec => []ContextHasOneOwner
<1>1. OwnershipInv => ContextHasOneOwner
  <2> SUFFICES ASSUME OwnershipInv, NEW c \in Contexts
               PROVE  /\ Cardinality(Completions(c)) = (IF context[c].st = "queued" THEN 1 ELSE 0)
                      /\ Cardinality({t \in Threads : ioContext[t] = c})
                             = (IF context[c].st = "held" THEN 1 ELSE 0)
    BY DEF ContextHasOneOwner
  <2>i. TypeOK /\ QueueInv /\ HeldInv /\ QueuedPlaced /\ HeldPlaced
    BY DEF OwnershipInv, IInv
  <2>1. ASSUME context[c].st = "queued" PROVE Cardinality(Completions(c)) = 1
    <3>1. PICK w \in Workers : \E i \in 1 .. Len(cq[w]) : cq[w][i].ctx = c
      BY <2>1, <2>i DEF QueuedPlaced
    <3>2. PICK i \in 1 .. Len(cq[w]) : cq[w][i].ctx = c
      BY <3>1
    <3>3. Cardinality(Contexts) \in Nat
      BY FS_CardinalityType, ContextsAssumption
    <3>4. i \in 1 .. Cardinality(Contexts)
      BY <2>i, <3>2, <3>3, QueueLength
    <3>5. <<w, i>> \in Completions(c)
      BY <3>2, <3>4 DEF Completions
    <3>6. ASSUME NEW p \in Completions(c) PROVE p = <<w, i>>
      <4>1. PICK v \in Workers, j \in 1 .. Cardinality(Contexts) : p = <<v, j>>
        BY <3>6 DEF Completions
      <4>2. j \in 1 .. Len(cq[v]) /\ cq[v][j].ctx = c
        BY <3>6, <4>1 DEF Completions
      <4>3. v = w /\ j = i
        BY <2>i, <3>2, <4>2 DEF QueueInv
      <4> QED
        BY <4>1, <4>3
    <3>7. Completions(c) = {<<w, i>>}
      BY <3>5, <3>6
    <3> QED
      BY <3>7, FS_Singleton
  <2>2. ASSUME context[c].st # "queued" PROVE Cardinality(Completions(c)) = 0
    <3>1. Completions(c) = {}
      BY <2>i, <2>2, QueueElement DEF Completions
    <3> QED
      BY <3>1, FS_EmptySet
  <2>3. ASSUME context[c].st = "held"
        PROVE  Cardinality({t \in Threads : ioContext[t] = c}) = 1
    <3>1. PICK t \in Threads : ioContext[t] = c
      BY <2>3, <2>i DEF HeldPlaced
    <3>2. {u \in Threads : ioContext[u] = c} = {t}
      BY <2>i, <3>1, ContextsAssumption DEF HeldInv
    <3> QED
      BY <3>2, FS_Singleton
  <2>4. ASSUME context[c].st # "held"
        PROVE  Cardinality({t \in Threads : ioContext[t] = c}) = 0
    <3>1. {t \in Threads : ioContext[t] = c} = {}
      BY <2>i, <2>4, ContextsAssumption DEF HeldInv
    <3> QED
      BY <3>1, FS_EmptySet
  <2> QED
    BY <2>1, <2>2, <2>3, <2>4
<1> QED
  BY <1>1, AlwaysOwnership, PTL
=============================================================================
