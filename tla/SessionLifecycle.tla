-------------------------- MODULE SessionLifecycle --------------------------
(* The life of a session of RIOTestServer, from accept to release.  The      *)
(* Accepter thread makes sessions, the session's Worker thread handles the   *)
(* completions of its I/O, and any other thread (a DB client thread, another *)
(* worker that broadcasts) may send to a session it looked up.  A session is *)
(* kept alive by ioCount, the number of requests and handlers in progress;   *)
(* whoever brings it to zero releases the session.  Each interlocked         *)
(* operation, each locked section and each call into RIO is one step.        *)
EXTENDS Integers, FiniteSets, Sequences

CONSTANTS
    Sessions,        \* the session ids InterlockedIncrement(&nextSessionId) hands out
    NumWorkers,      \* numOfWorkerThread
    Accepter,        \* the accepter thread
    Callers,         \* threads that use the session API without being its worker
    Contexts,        \* the IOContext objects of contextPool
    maxClientCount,
    UIntMod,         \* 2^32 of UINT, small in the models
    MaxQueue,        \* bound: packets waiting in one sendQueue
    MaxBatch,        \* bound: packets completed by one receive
    BadPackets,      \* may a client send a packet that fails to decode
    RIOMayFail,      \* may a RIO call fail on a socket that is open
    NoSession, NoContext

Workers == 0 .. NumWorkers - 1
Threads == Workers \cup {Accepter} \cup Callers

ASSUME WorkersAssumption == NumWorkers \in Nat \ {0}
ASSUME ThreadsAssumption ==
    /\ IsFiniteSet(Threads)
    /\ Accepter \notin Workers \cup Callers
    /\ Workers \cap Callers = {}
ASSUME ContextsAssumption == IsFiniteSet(Contexts) /\ NoContext \notin Contexts
ASSUME SessionsAssumption == NoSession \notin Sessions
ASSUME BoundsAssumption ==
    /\ maxClientCount \in Nat
    /\ UIntMod \in Nat \ {0}
    /\ MaxQueue \in Nat
    /\ MaxBatch \in Nat \ {0}
    /\ BadPackets \in BOOLEAN
    /\ RIOMayFail \in BOOLEAN

VARIABLES
    ioCount,         \* RIOTestSession::ioCount
    socket,          \* "none" before accept, "open", "down" (reset or shut down), "closed"
    threadId,        \* RIOTestSession::threadId
    rioRQ,           \* RIOTestSession::rioRQ: whose completion queues it was created on
    ioMode,          \* SendItem::ioMode is IO_SENDING
    sendQueue,       \* packets in SendItem::sendQueue
    sendDisconnect,  \* RIOTestSession::sendDisconnect
    registered,      \* sessions whose RIO buffers are registered
    sessionMap,      \* RIOTestServer::sessionMap
    sessionIdSet,    \* Broadcaster::sessionIdSet
    numOfSession,    \* RIOTestServer::numOfSessionInWorkerThread
    sessionCount,    \* RIOTestServer::sessionCount
    context,         \* where each IOContext is, its ownerSessionId and its ioType
    cq,              \* rioCQList: the completions each worker has still to dequeue
    pc, session, ioContext, ret, todo, packetError  \* the locals of each thread

sessionVars == <<ioCount, socket, threadId, rioRQ, ioMode, sendQueue, sendDisconnect,
                 registered>>
tableVars == <<sessionMap, sessionIdSet, numOfSession, sessionCount>>
ioVars == <<context, cq>>
localVars == <<pc, session, ioContext, ret, todo, packetError>>
vars == <<sessionVars, tableVars, ioVars, localVars>>

SessionPCs == {"count", "emplace", "entered", "counted"}            \* Accepter
RecvPostPCs == {"recvPost", "recvInc", "recvPosted"}                \* RecvPost
CompletionPCs == {"recvDone", "sendDone", "sendChk", "finish"}      \* Worker
SendPostPCs == {"sendPost", "sendInc", "rioSend", "sendDec"}        \* SendPost
ReleasePCs == {"leave", "close", "erase", "dereg"}                  \* ReleaseSession
PCs == {"idle", "hold", "dec"} \cup SessionPCs \cup RecvPostPCs
         \cup CompletionPCs \cup SendPostPCs \cup ReleasePCs

ContextStates == {"free", "posted", "queued", "held", "leaked"}
FreeContext == [st |-> "free", owner |-> NoSession, op |-> "none"]

Completion == [ctx : Contexts, bytes : {"data", "zero"}]

SessionTypes ==
    /\ ioCount \in [Sessions -> Int]
    /\ socket \in [Sessions -> {"none", "open", "down", "closed"}]
    /\ threadId \in [Sessions -> Workers]
    /\ ioMode \in [Sessions -> BOOLEAN]
    /\ sendQueue \in [Sessions -> 0 .. MaxQueue]
    /\ sendDisconnect \in [Sessions -> BOOLEAN]
    /\ registered \subseteq Sessions

RequestQueueTypes == rioRQ \in [Sessions -> [recv : Workers, send : Workers]]

TableTypes ==
    /\ sessionMap \subseteq Sessions
    /\ sessionIdSet \subseteq Sessions
    /\ numOfSession \in [Workers -> 0 .. UIntMod - 1]
    /\ sessionCount \in 0 .. UIntMod - 1

IOTypes ==
    /\ context \in [Contexts -> [st : ContextStates,
                                 owner : Sessions \cup {NoSession},
                                 op : {"none", "recv", "send"}]]
    /\ cq \in [Workers -> Seq(Completion)]

LocalTypes ==
    /\ pc \in [Threads -> PCs]
    /\ session \in [Threads -> Sessions \cup {NoSession}]
    /\ ioContext \in [Threads -> Contexts \cup {NoContext}]
    /\ ret \in [Threads -> {"idle", "entered", "recvDone", "finish"}]
    /\ todo \in [Threads -> 0 .. MaxBatch]
    /\ packetError \in [Threads -> BOOLEAN]

TypeOK == SessionTypes /\ RequestQueueTypes /\ TableTypes /\ IOTypes /\ LocalTypes

Init ==
    /\ ioCount = [s \in Sessions |-> 0]
    /\ socket = [s \in Sessions |-> "none"]
    /\ threadId = [s \in Sessions |-> 0]
    /\ rioRQ = [s \in Sessions |-> [recv |-> 0, send |-> 0]]
    /\ ioMode = [s \in Sessions |-> FALSE]
    /\ sendQueue = [s \in Sessions |-> 0]
    /\ sendDisconnect = [s \in Sessions |-> FALSE]
    /\ registered = {}
    /\ sessionMap = {}
    /\ sessionIdSet = {}
    /\ numOfSession = [w \in Workers |-> 0]
    /\ sessionCount = 0
    /\ context = [c \in Contexts |-> FreeContext]
    /\ cq = [w \in Workers |-> <<>>]
    /\ pc = [t \in Threads |-> "idle"]
    /\ session = [t \in Threads |-> NoSession]
    /\ ioContext = [t \in Threads |-> NoContext]
    /\ ret = [t \in Threads |-> "idle"]
    /\ todo = [t \in Threads |-> 0]
    /\ packetError = [t \in Threads |-> FALSE]

-----------------------------------------------------------------------------
(* InterlockedIncrement and InterlockedDecrement on a UINT.                  *)
UIntInc(n) == IF n = UIntMod - 1 THEN 0 ELSE n + 1
UIntDec_NoWrap(n) == n - 1
UIntDec(n) == IF n = 0 THEN UIntMod - 1 ELSE n - 1

(* A step of thread t that touches nothing but its program counter.          *)
Goto(t, label) ==
    /\ pc' = [pc EXCEPT ![t] = label]
    /\ UNCHANGED <<session, ioContext, ret, todo, packetError>>

(* Thread t returns to where it was called from; back in its main loop it    *)
(* drops the shared pointer to the session.                                  *)
Return(t) ==
    /\ pc' = [pc EXCEPT ![t] = ret[t]]
    /\ session' = [session EXCEPT ![t] = IF ret[t] = "idle" THEN NoSession ELSE @]
    /\ UNCHANGED <<ioContext, ret, todo, packetError>>

(* The worker has the fewest sessions and is the first one that does; worker *)
(* 0 if every worker has reached maxClientCount.                             *)
IsMinimumSessionThread(w) ==
    LET least == {v \in Workers : /\ numOfSession[v] = 0 \/ numOfSession[v] < maxClientCount
                                  /\ \A u \in Workers : numOfSession[v] <= numOfSession[u]}
    IN  IF least = {} THEN w = 0 ELSE w \in least /\ \A v \in least : w <= v

-----------------------------------------------------------------------------
(* The Accepter thread.                                                      *)

(* Mutant: the next worker's completion queue is given for the sends.        *)
InitSession_SendNext(s, w) ==
    /\ registered' = registered \cup {s}
    /\ rioRQ' = [rioRQ EXCEPT ![s] = [recv |-> w, send |-> (w + 1) % NumWorkers]]

(* The two buffers are registered and the request queue is created, for      *)
(* receives and for sends on the completion queue rioCQList[w].              *)
InitSession(s, w) ==
    /\ registered' = registered \cup {s}
    /\ rioRQ' = [rioRQ EXCEPT ![s] = [recv |-> w, send |-> w]]

(* accept, then MakeNewSession up to a successful InitSession.  The new      *)
(* session starts with the ioCount of the thread that is making it.          *)
Accept(s, w) ==
    /\ pc[Accepter] = "idle"
    /\ socket[s] = "none"
    /\ IsMinimumSessionThread(w)
    /\ socket' = [socket EXCEPT ![s] = "open"]
    /\ threadId' = [threadId EXCEPT ![s] = w]
    /\ ioCount' = [ioCount EXCEPT ![s] = @ + 1]
    /\ InitSession(s, w)
    /\ pc' = [pc EXCEPT ![Accepter] = "count"]
    /\ session' = [session EXCEPT ![Accepter] = s]
    /\ ret' = [ret EXCEPT ![Accepter] = "entered"]
    /\ UNCHANGED <<ioMode, sendQueue, sendDisconnect, tableVars, ioVars,
                   ioContext, todo, packetError>>

(* InitSession fails: the session object is dropped and Accepter closes the  *)
(* socket.  A buffer registered before the failing call stays registered.    *)
AcceptFails(s) ==
    /\ RIOMayFail
    /\ pc[Accepter] = "idle"
    /\ socket[s] = "none"
    /\ socket' = [socket EXCEPT ![s] = "closed"]
    /\ registered' \in {registered, registered \cup {s}}
    /\ UNCHANGED <<ioCount, threadId, rioRQ, ioMode, sendQueue, sendDisconnect,
                   tableVars, ioVars, localVars>>

CountInWorker ==
    /\ pc[Accepter] = "count"
    /\ LET w == threadId[session[Accepter]]
       IN  numOfSession' = [numOfSession EXCEPT ![w] = UIntInc(@)]
    /\ Goto(Accepter, "emplace")
    /\ UNCHANGED <<sessionVars, sessionMap, sessionIdSet, sessionCount, ioVars>>

Emplace ==
    /\ pc[Accepter] = "emplace"
    /\ sessionMap' = sessionMap \cup {session[Accepter]}
    /\ Goto(Accepter, "recvPost")
    /\ UNCHANGED <<sessionVars, sessionIdSet, numOfSession, sessionCount, ioVars>>

OnSessionEntered ==
    /\ pc[Accepter] = "entered"
    /\ sessionIdSet' = sessionIdSet \cup {session[Accepter]}
    /\ Goto(Accepter, "counted")
    /\ UNCHANGED <<sessionVars, sessionMap, numOfSession, sessionCount, ioVars>>

CountSession ==
    /\ pc[Accepter] = "counted"
    /\ sessionCount' = UIntInc(sessionCount)
    /\ pc' = [pc EXCEPT ![Accepter] = "idle"]
    /\ session' = [session EXCEPT ![Accepter] = NoSession]
    /\ UNCHANGED <<sessionVars, sessionMap, sessionIdSet, numOfSession, ioVars,
                   ioContext, ret, todo, packetError>>

-----------------------------------------------------------------------------
(* RecvPost, run by the Accepter for the first receive and by the worker     *)
(* after each one.  RIOReceive comes first, the increment of ioCount second. *)

Alloc(c, t, op) ==
    /\ context[c].st = "free"
    /\ context' = [context EXCEPT ![c] = [st |-> "posted", owner |-> session[t], op |-> op]]

Leak(c, t, op) ==
    /\ context[c].st = "free"
    /\ context' = [context EXCEPT ![c] = [st |-> "leaked", owner |-> session[t], op |-> op]]

RIOReceive(t, c) ==
    /\ pc[t] = "recvPost"
    /\ socket[session[t]] # "closed"
    /\ Alloc(c, t, "recv")
    /\ Goto(t, "recvInc")
    /\ UNCHANGED <<sessionVars, tableVars, cq>>

(* RIOReceive fails: RecvPost returns without freeing the context.           *)
RIOReceiveFails(t, c) ==
    /\ pc[t] = "recvPost"
    /\ RIOMayFail \/ socket[session[t]] = "closed"
    /\ Leak(c, t, "recv")
    /\ Goto(t, "recvPosted")
    /\ UNCHANGED <<sessionVars, tableVars, cq>>

RecvPostIncrement(t) ==
    /\ pc[t] = "recvInc"
    /\ ioCount' = [ioCount EXCEPT ![session[t]] = @ + 1]
    /\ Goto(t, "recvPosted")
    /\ UNCHANGED <<socket, threadId, rioRQ, ioMode, sendQueue, sendDisconnect, registered,
                   tableVars, ioVars>>

(* Back in MakeNewSession (which gives up its own count) or in RecvCompleted *)
(* (which releases the session at once if a packet was bad).                 *)
RecvPostReturns(t) ==
    /\ pc[t] = "recvPosted"
    /\ \/ t = Accepter /\ Goto(t, "dec")
       \/ t # Accepter /\ ~packetError[t] /\ Goto(t, "finish")
       \/ /\ t # Accepter /\ packetError[t]
          /\ pc' = [pc EXCEPT ![t] = "close"]
          /\ ret' = [ret EXCEPT ![t] = "finish"]
          /\ UNCHANGED <<session, ioContext, todo, packetError>>
    /\ UNCHANGED <<sessionVars, tableVars, ioVars>>

-----------------------------------------------------------------------------
(* SendPost.  The claim of ioMode, the emptiness checks and MakeSendStream   *)
(* are one step here and the subject of module SendPath; sendQueue counts    *)
(* the reserved packet too, and MakeSendStream takes at least one.           *)

SendPostReturns(t) ==
    /\ pc[t] = "sendPost"
    /\ ioMode[session[t]] \/ sendQueue[session[t]] = 0
    /\ Return(t)
    /\ UNCHANGED <<sessionVars, tableVars, ioVars>>

SendPostClaims(t) ==
    /\ pc[t] = "sendPost"
    /\ ~ioMode[session[t]] /\ sendQueue[session[t]] > 0
    /\ ioMode' = [ioMode EXCEPT ![session[t]] = TRUE]
    /\ \E rest \in 0 .. sendQueue[session[t]] - 1 :
          sendQueue' = [sendQueue EXCEPT ![session[t]] = rest]
    /\ Goto(t, "sendInc")
    /\ UNCHANGED <<ioCount, socket, threadId, rioRQ, sendDisconnect, registered, tableVars, ioVars>>

(* Mutant: the send is not counted.                                          *)
SendPostIncrement_Missing(t) ==
    /\ pc[t] = "sendInc"
    /\ Goto(t, "rioSend")
    /\ UNCHANGED <<sessionVars, tableVars, ioVars>>

SendPostIncrement(t) ==
    /\ pc[t] = "sendInc"
    /\ ioCount' = [ioCount EXCEPT ![session[t]] = @ + 1]
    /\ Goto(t, "rioSend")
    /\ UNCHANGED <<socket, threadId, rioRQ, ioMode, sendQueue, sendDisconnect, registered,
                   tableVars, ioVars>>

RIOSend(t, c) ==
    /\ pc[t] = "rioSend"
    /\ socket[session[t]] # "closed"
    /\ Alloc(c, t, "send")
    /\ Goto(t, "sendPost")
    /\ UNCHANGED <<sessionVars, tableVars, cq>>

(* Mutant: the error path forgets IOCountDecrement.                          *)
RIOSendFails_NoDecrement(t, c) ==
    /\ pc[t] = "rioSend"
    /\ RIOMayFail \/ socket[session[t]] = "closed"
    /\ Leak(c, t, "send")
    /\ Return(t)
    /\ UNCHANGED <<sessionVars, tableVars, cq>>

(* RIOSend fails: the context is not freed and ioMode stays IO_SENDING.      *)
RIOSendFails(t, c) ==
    /\ pc[t] = "rioSend"
    /\ RIOMayFail \/ socket[session[t]] = "closed"
    /\ Leak(c, t, "send")
    /\ Goto(t, "sendDec")
    /\ UNCHANGED <<sessionVars, tableVars, cq>>

-----------------------------------------------------------------------------
(* IOCountDecrement: for the count of the thread's own handler ("dec") and   *)
(* for the count SendPost took ("sendDec").                                  *)
IOCountDecrement(t) ==
    /\ pc[t] \in {"dec", "sendDec"}
    /\ ioCount' = [ioCount EXCEPT ![session[t]] = @ - 1]
    /\ IF ioCount[session[t]] - 1 = 0 THEN Goto(t, "leave") ELSE Return(t)
    /\ UNCHANGED <<socket, threadId, rioRQ, ioMode, sendQueue, sendDisconnect, registered,
                   tableVars, ioVars>>

OnSessionLeaved(t) ==
    /\ pc[t] = "leave"
    /\ sessionIdSet' = sessionIdSet \ {session[t]}
    /\ Goto(t, "close")
    /\ UNCHANGED <<sessionVars, sessionMap, numOfSession, sessionCount, ioVars>>

(* ReleaseSession: closesocket and the two counters, ...                     *)
CloseSocket(t) ==
    /\ pc[t] = "close"
    /\ LET s == session[t]
           w == threadId[s]
       IN  /\ socket' = [socket EXCEPT ![s] = "closed"]
           /\ numOfSession' = [numOfSession EXCEPT ![w] = UIntDec(@)]
           /\ sessionCount' = UIntDec(sessionCount)
    /\ Goto(t, "erase")
    /\ UNCHANGED <<ioCount, threadId, rioRQ, ioMode, sendQueue, sendDisconnect, registered,
                   sessionMap, sessionIdSet, ioVars>>

(* ... the erase under the map's lock, ...                                   *)
EraseSession(t) ==
    /\ pc[t] = "erase"
    /\ sessionMap' = sessionMap \ {session[t]}
    /\ Goto(t, "dereg")
    /\ UNCHANGED <<sessionVars, sessionIdSet, numOfSession, sessionCount, ioVars>>

(* ... and OnSessionReleased, which deregisters the buffers.                 *)
OnSessionReleased(t) ==
    /\ pc[t] = "dereg"
    /\ registered' = registered \ {session[t]}
    /\ Return(t)
    /\ UNCHANGED <<ioCount, socket, threadId, rioRQ, ioMode, sendQueue, sendDisconnect,
                   tableVars, ioVars>>

-----------------------------------------------------------------------------
(* The Worker thread: RIODequeueCompletion, GetIOCompletedContext and the    *)
(* handlers.  A worker alone dequeues its queue, so taking the results of a  *)
(* batch one at a time is the same.                                          *)

Dequeued(w) == Head(cq[w]).ctx

(* The session is gone: the context goes back to the pool and nothing else.  *)
DropCompletion(w) ==
    /\ pc[w] = "idle" /\ cq[w] # <<>>
    /\ context[Dequeued(w)].owner \notin sessionMap
    /\ cq' = [cq EXCEPT ![w] = Tail(@)]
    /\ context' = [context EXCEPT ![Dequeued(w)] = FreeContext]
    /\ UNCHANGED <<sessionVars, tableVars, localVars>>

(* Mutants: the session is released whatever its count, or never counted     *)
(* down.                                                                     *)
ZeroCompletion_Releases(w) ==
    /\ pc[w] = "idle" /\ cq[w] # <<>>
    /\ context[Dequeued(w)].owner \in sessionMap
    /\ Head(cq[w]).bytes = "zero"
    /\ cq' = [cq EXCEPT ![w] = Tail(@)]
    /\ context' = [context EXCEPT ![Dequeued(w)] = FreeContext]
    /\ session' = [session EXCEPT ![w] = context[Dequeued(w)].owner]
    /\ pc' = [pc EXCEPT ![w] = "leave"]
    /\ ret' = [ret EXCEPT ![w] = "idle"]
    /\ UNCHANGED <<sessionVars, tableVars, ioContext, todo, packetError>>

ZeroCompletion_NoDecrement(w) ==
    /\ pc[w] = "idle" /\ cq[w] # <<>>
    /\ context[Dequeued(w)].owner \in sessionMap
    /\ Head(cq[w]).bytes = "zero"
    /\ cq' = [cq EXCEPT ![w] = Tail(@)]
    /\ context' = [context EXCEPT ![Dequeued(w)] = FreeContext]
    /\ UNCHANGED <<sessionVars, tableVars, localVars>>

(* Zero bytes: the peer is gone, or the request was cancelled.               *)
ZeroCompletion(w) ==
    /\ pc[w] = "idle" /\ cq[w] # <<>>
    /\ context[Dequeued(w)].owner \in sessionMap
    /\ Head(cq[w]).bytes = "zero"
    /\ cq' = [cq EXCEPT ![w] = Tail(@)]
    /\ context' = [context EXCEPT ![Dequeued(w)] = FreeContext]
    /\ session' = [session EXCEPT ![w] = context[Dequeued(w)].owner]
    /\ pc' = [pc EXCEPT ![w] = "dec"]
    /\ ret' = [ret EXCEPT ![w] = "idle"]
    /\ UNCHANGED <<sessionVars, tableVars, ioContext, todo, packetError>>

(* IOCompleted: a receive brought n packets, or a send is done.              *)
IOCompleted(w, n) ==
    /\ pc[w] = "idle" /\ cq[w] # <<>>
    /\ context[Dequeued(w)].owner \in sessionMap
    /\ Head(cq[w]).bytes = "data"
    /\ cq' = [cq EXCEPT ![w] = Tail(@)]
    /\ context' = [context EXCEPT ![Dequeued(w)].st = "held"]
    /\ session' = [session EXCEPT ![w] = context[Dequeued(w)].owner]
    /\ ioContext' = [ioContext EXCEPT ![w] = Dequeued(w)]
    /\ packetError' = [packetError EXCEPT ![w] = FALSE]
    /\ \/ /\ context[Dequeued(w)].op = "recv"
          /\ pc' = [pc EXCEPT ![w] = "recvDone"]
          /\ todo' = [todo EXCEPT ![w] = n]
       \/ /\ context[Dequeued(w)].op # "recv" /\ n = 0
          /\ pc' = [pc EXCEPT ![w] = "sendDone"]
          /\ todo' = todo
    /\ UNCHANGED <<sessionVars, tableVars, ret>>

(* The packet loop of RecvCompleted.  A handler that does not answer, ...    *)
PacketIgnored(w) ==
    /\ pc[w] = "recvDone" /\ todo[w] > 0
    /\ todo' = [todo EXCEPT ![w] = @ - 1]
    /\ UNCHANGED <<sessionVars, tableVars, ioVars, pc, session, ioContext, ret, packetError>>

(* ... one that answers with SendPacket or SendPacketAndDisconnect (d), ...  *)
Enqueue(t, d) ==
    /\ sendQueue[session[t]] < MaxQueue
    /\ sendQueue' = [sendQueue EXCEPT ![session[t]] = @ + 1]
    /\ sendDisconnect' = [sendDisconnect EXCEPT ![session[t]] = @ \/ d]
    /\ UNCHANGED <<ioCount, socket, threadId, rioRQ, ioMode, registered>>

PacketAnswered(w, d) ==
    /\ pc[w] = "recvDone" /\ todo[w] > 0
    /\ Enqueue(w, d)
    /\ todo' = [todo EXCEPT ![w] = @ - 1]
    /\ pc' = [pc EXCEPT ![w] = "sendPost"]
    /\ ret' = [ret EXCEPT ![w] = "recvDone"]
    /\ UNCHANGED <<tableVars, ioVars, session, ioContext, packetError>>

(* ... a packet too long or one that Decode refuses, which ends the loop.    *)
PacketBad(w) ==
    /\ pc[w] = "recvDone" /\ todo[w] > 0
    /\ BadPackets
    /\ todo' = [todo EXCEPT ![w] = 0]
    /\ packetError' = [packetError EXCEPT ![w] = TRUE]
    /\ UNCHANGED <<sessionVars, tableVars, ioVars, pc, session, ioContext, ret>>

RecvCompleted(w) ==
    /\ pc[w] = "recvDone" /\ todo[w] = 0
    /\ Goto(w, "recvPost")
    /\ UNCHANGED <<sessionVars, tableVars, ioVars>>

(* Mutant: the handler frees the context that Worker frees after it.         *)
SendIOCompleted_Frees(w) ==
    /\ pc[w] = "sendDone"
    /\ context' = [context EXCEPT ![ioContext[w]] = FreeContext]
    /\ ioMode' = [ioMode EXCEPT ![session[w]] = FALSE]
    /\ Goto(w, "sendChk")
    /\ UNCHANGED <<ioCount, socket, threadId, rioRQ, sendQueue, sendDisconnect, registered,
                   tableVars, cq>>

(* SendIOCompleted gives ioMode back before SendCompleted looks at           *)
(* sendDisconnect.                                                           *)
SendIOCompleted(w) ==
    /\ pc[w] = "sendDone"
    /\ ioMode' = [ioMode EXCEPT ![session[w]] = FALSE]
    /\ Goto(w, "sendChk")
    /\ UNCHANGED <<ioCount, socket, threadId, rioRQ, sendQueue, sendDisconnect, registered,
                   tableVars, ioVars>>

(* shutdown(SD_BOTH), under the map's read lock, if the session is there.    *)
Disconnect(s) ==
    socket' = [socket EXCEPT ![s] = IF s \in sessionMap /\ @ = "open" THEN "down" ELSE @]

(* Mutant: a completed send posts a receive too.                             *)
SendCompleted_Receives(w) ==
    /\ pc[w] = "sendChk"
    /\ Goto(w, "recvPost")
    /\ UNCHANGED <<sessionVars, tableVars, ioVars>>

SendCompleted(w) ==
    /\ pc[w] = "sendChk"
    /\ \/ /\ sendDisconnect[session[w]]
          /\ Disconnect(session[w])
          /\ Goto(w, "finish")
       \/ /\ ~sendDisconnect[session[w]]
          /\ pc' = [pc EXCEPT ![w] = "sendPost"]
          /\ ret' = [ret EXCEPT ![w] = "finish"]
          /\ UNCHANGED <<socket, session, ioContext, todo, packetError>>
    /\ UNCHANGED <<ioCount, threadId, rioRQ, ioMode, sendQueue, sendDisconnect, registered,
                   tableVars, ioVars>>

(* The end of the completion: the context is freed, then the count given up. *)
FreeIOContext(w) ==
    /\ pc[w] = "finish"
    /\ context' = [context EXCEPT ![ioContext[w]] = FreeContext]
    /\ ioContext' = [ioContext EXCEPT ![w] = NoContext]
    /\ pc' = [pc EXCEPT ![w] = "dec"]
    /\ ret' = [ret EXCEPT ![w] = "idle"]
    /\ UNCHANGED <<sessionVars, tableVars, cq, session, todo, packetError>>

-----------------------------------------------------------------------------
(* Threads that are not the session's worker.  GetSession hands out a shared *)
(* pointer that stays valid after the release of the session.                *)

GetSession(t, s) ==
    /\ pc[t] = "idle" /\ s \in sessionMap
    /\ pc' = [pc EXCEPT ![t] = "hold"]
    /\ session' = [session EXCEPT ![t] = s]
    /\ ret' = [ret EXCEPT ![t] = "idle"]
    /\ UNCHANGED <<sessionVars, tableVars, ioVars, ioContext, todo, packetError>>

SendPacket(t, d) ==
    /\ pc[t] = "hold"
    /\ Enqueue(t, d)
    /\ Goto(t, "sendPost")
    /\ UNCHANGED <<tableVars, ioVars>>

DropSession(t) ==
    /\ pc[t] = "hold"
    /\ Return(t)
    /\ UNCHANGED <<sessionVars, tableVars, ioVars>>

CallDisconnect(t, s) ==
    /\ pc[t] = "idle" /\ s \in sessionMap
    /\ Disconnect(s)
    /\ UNCHANGED <<ioCount, threadId, rioRQ, ioMode, sendQueue, sendDisconnect, registered,
                   tableVars, ioVars, localVars>>

-----------------------------------------------------------------------------
(* The client and the kernel.                                                *)

ClientCloses(s) ==
    /\ socket[s] = "open"
    /\ socket' = [socket EXCEPT ![s] = "down"]
    /\ UNCHANGED <<ioCount, threadId, rioRQ, ioMode, sendQueue, sendDisconnect, registered,
                   tableVars, ioVars, localVars>>

(* The completion queue of the request queue that request c was posted on.   *)
CompletionQueue(c) ==
    LET rq == rioRQ[context[c].owner]
    IN  IF context[c].op = "recv" THEN rq.recv ELSE rq.send

Complete(c, bytes) ==
    /\ context' = [context EXCEPT ![c].st = "queued"]
    /\ cq' = [cq EXCEPT ![CompletionQueue(c)] = Append(@, [ctx |-> c, bytes |-> bytes])]
    /\ UNCHANGED <<sessionVars, tableVars, localVars>>

(* A receive brings data on an open connection only; a send may also be      *)
(* reported as sent after the connection is gone.                            *)
CompleteData(c) ==
    /\ context[c].st = "posted"
    /\ context[c].op = "send" \/ socket[context[c].owner] = "open"
    /\ Complete(c, "data")

(* A receive completes with zero bytes when the client has stopped sending,  *)
(* any request when the connection is down or the socket closed.             *)
CompleteZero(c) ==
    /\ context[c].st = "posted"
    /\ context[c].op = "recv" \/ socket[context[c].owner] # "open"
    /\ Complete(c, "zero")

-----------------------------------------------------------------------------
AccepterStep ==
    \/ CountInWorker \/ Emplace \/ OnSessionEntered \/ CountSession

PostStep(t) ==
    \/ \E c \in Contexts : \/ RIOReceive(t, c) \/ RIOReceiveFails(t, c)
                           \/ RIOSend(t, c) \/ RIOSendFails(t, c)
    \/ RecvPostIncrement(t) \/ RecvPostReturns(t)
    \/ SendPostReturns(t) \/ SendPostClaims(t) \/ SendPostIncrement(t)

ReleaseStep(t) ==
    \/ IOCountDecrement(t)
    \/ OnSessionLeaved(t) \/ CloseSocket(t) \/ EraseSession(t) \/ OnSessionReleased(t)

WorkerStep(w) ==
    \/ DropCompletion(w) \/ ZeroCompletion(w)
    \/ \E n \in 0 .. MaxBatch : IOCompleted(w, n)
    \/ PacketIgnored(w) \/ PacketBad(w) \/ RecvCompleted(w)
    \/ \E d \in BOOLEAN : PacketAnswered(w, d)
    \/ SendIOCompleted(w) \/ SendCompleted(w) \/ FreeIOContext(w)

(* What a thread does without waiting for a new client or a new call.        *)
ThreadStep(t) ==
    \/ t = Accepter /\ AccepterStep
    \/ PostStep(t)
    \/ ReleaseStep(t)
    \/ t \in Workers /\ WorkerStep(t)
    \/ t \in Callers /\ DropSession(t)

CallerStep(t) ==
    \/ \E s \in Sessions : GetSession(t, s) \/ CallDisconnect(t, s)
    \/ \E d \in BOOLEAN : SendPacket(t, d)

Environment ==
    \/ \E s \in Sessions, w \in Workers : Accept(s, w)
    \/ \E s \in Sessions : AcceptFails(s) \/ ClientCloses(s)
    \/ \E c \in Contexts : CompleteData(c) \/ CompleteZero(c)
    \/ \E t \in Callers : CallerStep(t)

(* Workers poll for ever; a poll that finds nothing changes nothing.         *)
Poll == (\A w \in Workers : pc[w] = "idle" /\ cq[w] = <<>>) /\ UNCHANGED vars

Next == (\E t \in Threads : ThreadStep(t)) \/ Environment \/ Poll

Spec == Init /\ [][Next]_vars

(* Every thread keeps running, and the kernel reports the end of a request   *)
(* on a connection that is gone: strong fairness for sends, some of which it *)
(* may report as sent, yet not for ever.                                     *)
RequestEnds(s, op) ==
    /\ socket[s] # "open"
    /\ \E c \in Contexts : context[c].owner = s /\ context[c].op = op /\ CompleteZero(c)

Fairness ==
    /\ \A t \in Threads : WF_vars(ThreadStep(t))
    /\ \A s \in Sessions : WF_vars(RequestEnds(s, "recv")) /\ SF_vars(RequestEnds(s, "send"))

FairSpec == Spec /\ Fairness

-----------------------------------------------------------------------------
(* What ioCount counts: the requests of s the kernel or a completion queue   *)
(* holds, ...                                                                *)
Inflight(s) == {c \in Contexts : context[c].owner = s /\ context[c].st \in {"posted", "queued"}}

(* ... the handlers that run for it (the Accepter making it, the worker      *)
(* between dequeue and IOCountDecrement), ...                                *)
HandlerPCs == {"count", "emplace", "dec"} \cup RecvPostPCs \cup CompletionPCs
Handles(t) ==
    \/ pc[t] \in HandlerPCs
    \/ pc[t] \in SendPostPCs \cup ReleasePCs /\ ret[t] \in {"recvDone", "finish"}
Handling(s) == {t \in Threads : session[t] = s /\ Handles(t)}

(* ... the sends counted and not yet posted, ...                             *)
Sending(s) == {t \in Threads : session[t] = s /\ pc[t] \in {"rioSend", "sendDec"}}

(* ... and, with a minus sign, the receives posted and not yet counted.      *)
Uncounted(s) == {t \in Threads : session[t] = s /\ pc[t] = "recvInc"}

Alive == sessionMap \cup {s \in Sessions : session[Accepter] = s
                                           /\ pc[Accepter] \in {"count", "emplace"}}

(* ioCount is exact for every session that can still be looked up            *)
(* (InterlockedIncrement and IOCountDecrement in MakeNewSession, RecvPost,   *)
(* SendPost and Worker balance on every path, error paths included).         *)
IOCountAccounting ==
    \A s \in Alive :
        ioCount[s] + Cardinality(Uncounted(s))
            = Cardinality(Inflight(s)) + Cardinality(Handling(s)) + Cardinality(Sending(s))

(* ioCount never goes below zero, where IOCountDecrement would miss the one  *)
(* value it tests: also not that of a session that was released with its     *)
(* receive in flight (RecvCompleted), whose completion nobody counts down,   *)
(* or that a thread still uses through the pointer GetSession gave it.       *)
IOCountNotNegative == \A s \in Sessions : ioCount[s] >= 0

(* An IOContext has one owner at a time: the completion queues hold exactly  *)
(* the contexts the kernel gave back, each once, and no two workers handle   *)
(* the same one (contextPool.Alloc and Free in RecvPost, SendPost,           *)
(* GetIOCompletedContext and Worker).                                        *)
Completions(c) == {p \in {<<w, i>> : w \in Workers, i \in 1 .. Cardinality(Contexts)} :
                      p[2] \in 1 .. Len(cq[p[1]]) /\ cq[p[1]][p[2]].ctx = c}
ContextHasOneOwner ==
    \A c \in Contexts :
        /\ Cardinality(Completions(c)) = (IF context[c].st = "queued" THEN 1 ELSE 0)
        /\ Cardinality({t \in Threads : ioContext[t] = c})
               = (IF context[c].st = "held" THEN 1 ELSE 0)

(* Only one receive of a session is ever outstanding, so the receive ring is *)
(* written by one request at a time (RecvPost is called once per receive).   *)
OneReceive ==
    \A s \in Sessions :
        Cardinality({c \in Inflight(s) : context[c].op = "recv"}) <= 1

(* At most one thread is in a RIO call on the request queue of a session:    *)
(* RIO leaves the serialisation to the caller, and RecvPost and SendPost     *)
(* take no lock.  It holds because InitSession creates the request queue on  *)
(* the completion queues of one worker, so that no other worker handles the  *)
(* session's completions, and because the Accepter posts the first receive   *)
(* before there is any completion.  Sends by other threads (Callers) break   *)
(* it.                                                                       *)
InRIOCall(s) == {t \in Threads : session[t] = s /\ pc[t] \in {"recvPost", "rioSend"}}
RequestQueueSerialized == \A s \in Sessions : Cardinality(InRIOCall(s)) <= 1

(* The kernel never holds a request on buffers that OnSessionReleased has    *)
(* deregistered.  True as long as packets are well formed and only the       *)
(* worker sends.                                                             *)
PostedBuffersRegistered ==
    \A c \in Contexts : context[c].st = "posted" => context[c].owner \in registered

(* A session whose connection is gone leaves the map.                        *)
DeadSessionRemoved ==
    \A s \in Sessions : (s \in sessionMap /\ socket[s] = "down") ~> (s \notin sessionMap)

-----------------------------------------------------------------------------
(* What README.md says of the server, refuted by the code.                   *)

Settled == \A t \in Threads : pc[t] = "idle"

(* README.md:51: the Accepter assigns a client to the worker with the fewest *)
(* sessions, so the counters it compares must be the numbers of sessions.    *)
WorkerLoadExact ==
    Settled => \A w \in Workers :
        numOfSession[w] = Cardinality({s \in sessionMap : threadId[s] = w})
=============================================================================
