------------------------ MODULE ServerLifecycleProofs ------------------------
(* For every number of workers: until the workers are joined, the Accepter   *)
(* finds all completion queues made and none closed, and no queue is closed  *)
(* under the worker that polls it.                                           *)
EXTENDS ServerLifecycle, TLAPS

(* The thread of worker w was never started, or has ended.                   *)
Gone(w) == pcWorker[w] \in {"none", "exited"}

(* No thread exists before the lists are allocated; the loops of the main    *)
(* thread begin with the first worker.                                       *)
StartedInv ==
    /\ lists = "none" =>
        /\ pcAccepter = "none"
        /\ pcMain \notin {"create", "wait"}
        /\ \A w \in Workers : pcWorker[w] = "none"
    /\ pcMain \in {"start", "run", "signal"} => next = 1

(* A worker that says it is on has made its queue; the main thread has seen  *)
(* this of every worker before next, and of all when the Accepter exists.    *)
QueuesInv ==
    /\ \A w \in Workers :
        workerOnList[w] \/ pcWorker[w] \in {"on", "loop", "poll"} => rioCQ[w] # "none"
    /\ pcMain = "wait" => \A w \in Workers : w < next => rioCQ[w] # "none"
    /\ pcAccepter # "none" => \A w \in Workers : rioCQ[w] # "none"

(* Queues are closed and lists deleted only after all workers were joined.   *)
ClosedInv ==
    /\ pcMain \notin {"close", "return"} =>
        lists # "deleted" /\ \A w \in Workers : rioCQ[w] # "closed"
    /\ pcMain = "join" => \A w \in Workers : w < next => Gone(w)
    /\ pcMain \in {"close", "return"} => \A w \in Workers : Gone(w)

IInv == TypeOK /\ StartedInv /\ QueuesInv /\ ClosedInv

-----------------------------------------------------------------------------
(* The invariant holds before StartServer.                                   *)
LEMMA InitInv == Init => IInv
<1> SUFFICES ASSUME Init PROVE IInv
  OBVIOUS
<1>1. TypeOK
  <2>1. 1 \in 1 .. ThreadCount + 1
    BY ThreadAssumption
  <2> QED
    BY <2>1 DEF Init, TypeOK
<1>2. StartedInv
  BY DEF Init, StartedInv
<1>3. QueuesInv
  BY DEF Init, QueuesInv
<1>4. ClosedInv
  BY DEF Init, ClosedInv
<1> QED
  BY <1>1, <1>2, <1>3, <1>4 DEF IInv

(* Every step keeps the types.                                                *)
LEMMA TypeStep == ASSUME IInv, [Next]_vars PROVE TypeOK'
<1> USE ThreadAssumption DEF IInv, TypeOK, Workers
<1>1. CASE StartServer
  BY <1>1 DEF StartServer
<1>2. CASE StartServerFails
  BY <1>2 DEF StartServerFails
<1>3. CASE CreateWorker
  BY <1>3 DEF CreateWorker
<1>4. CASE AllCreated
  BY <1>4 DEF AllCreated
<1>5. CASE SeeWorkerOn
  BY <1>5 DEF SeeWorkerOn
<1>6. CASE StartAccepter
  BY <1>6 DEF StartAccepter
<1>7. CASE StopServer
  BY <1>7 DEF StopServer
<1>8. CASE SetServerStop
  BY <1>8 DEF SetServerStop
<1>9. CASE JoinWorker
  BY <1>9 DEF JoinWorker
<1>10. CASE AllJoined
  BY <1>10 DEF AllJoined
<1>11. CASE CloseQueue
  BY <1>11 DEF CloseQueue
<1>12. CASE DeleteLists
  BY <1>12 DEF DeleteLists
<1>13. CASE Return
  BY <1>13 DEF Return
<1>14. ASSUME NEW w \in Workers, CreateQueue(w) PROVE TypeOK'
  BY <1>14 DEF CreateQueue
<1>15. ASSUME NEW w \in Workers, WorkerOn(w) PROVE TypeOK'
  BY <1>15 DEF WorkerOn
<1>16. ASSUME NEW w \in Workers, CheckServerStop(w) PROVE TypeOK'
  BY <1>16 DEF CheckServerStop
<1>17. ASSUME NEW w \in Workers, Poll(w) PROVE TypeOK'
  BY <1>17 DEF Poll
<1>18. CASE CallAccept
  BY <1>18 DEF CallAccept
<1>19. CASE CallAcceptFails
  BY <1>19 DEF CallAcceptFails, vars
<1>20. CASE ClientArrives
  BY <1>20 DEF ClientArrives
<1>21. CASE AcceptFails
  BY <1>21 DEF AcceptFails
<1>22. CASE AcceptInterrupted
  BY <1>22 DEF AcceptInterrupted
<1>23. CASE MakeNewSession
  BY <1>23 DEF MakeNewSession
<1>24. CASE UNCHANGED vars
  BY <1>24 DEF vars
<1> QED
  BY <1>1, <1>2, <1>3, <1>4, <1>5, <1>6, <1>7, <1>8, <1>9, <1>10, <1>11, <1>12,
     <1>13, <1>14, <1>15, <1>16, <1>17, <1>18, <1>19, <1>20, <1>21, <1>22, <1>23, <1>24
  DEF Next, Main, Worker, Accepter, Over

(* Threads start only after InitializeRIO allocated the lists.               *)
LEMMA StartedStep == ASSUME IInv, [Next]_vars PROVE StartedInv'
<1> USE ThreadAssumption DEF IInv, TypeOK, StartedInv, Workers
<1>1. CASE StartServer
  BY <1>1 DEF StartServer
<1>2. CASE StartServerFails
  BY <1>2 DEF StartServerFails
<1>3. CASE CreateWorker
  BY <1>3 DEF CreateWorker
<1>4. CASE AllCreated
  BY <1>4 DEF AllCreated
<1>5. CASE SeeWorkerOn
  BY <1>5 DEF SeeWorkerOn
<1>6. CASE StartAccepter
  BY <1>6 DEF StartAccepter
<1>7. CASE StopServer
  BY <1>7 DEF StopServer
<1>8. CASE SetServerStop
  BY <1>8 DEF SetServerStop
<1>9. CASE JoinWorker
  BY <1>9 DEF JoinWorker
<1>10. CASE AllJoined
  BY <1>10 DEF AllJoined
<1>11. CASE CloseQueue
  BY <1>11 DEF CloseQueue
<1>12. CASE DeleteLists
  BY <1>12 DEF DeleteLists
<1>13. CASE Return
  BY <1>13 DEF Return
<1>14. ASSUME NEW w \in Workers, CreateQueue(w) PROVE StartedInv'
  BY <1>14 DEF CreateQueue
<1>15. ASSUME NEW w \in Workers, WorkerOn(w) PROVE StartedInv'
  BY <1>15 DEF WorkerOn
<1>16. ASSUME NEW w \in Workers, CheckServerStop(w) PROVE StartedInv'
  BY <1>16 DEF CheckServerStop
<1>17. ASSUME NEW w \in Workers, Poll(w) PROVE StartedInv'
  BY <1>17 DEF Poll
<1>18. CASE CallAccept
  BY <1>18 DEF CallAccept
<1>19. CASE CallAcceptFails
  BY <1>19 DEF CallAcceptFails, vars
<1>20. CASE ClientArrives
  BY <1>20 DEF ClientArrives
<1>21. CASE AcceptFails
  BY <1>21 DEF AcceptFails
<1>22. CASE AcceptInterrupted
  BY <1>22 DEF AcceptInterrupted
<1>23. CASE MakeNewSession
  BY <1>23 DEF MakeNewSession
<1>24. CASE UNCHANGED vars
  BY <1>24 DEF vars
<1> QED
  BY <1>1, <1>2, <1>3, <1>4, <1>5, <1>6, <1>7, <1>8, <1>9, <1>10, <1>11, <1>12,
     <1>13, <1>14, <1>15, <1>16, <1>17, <1>18, <1>19, <1>20, <1>21, <1>22, <1>23, <1>24
  DEF Next, Main, Worker, Accepter, Over

(* RunThreads waits for the queues before it starts the Accepter.             *)
LEMMA QueuesStep == ASSUME IInv, [Next]_vars PROVE QueuesInv'
<1> USE ThreadAssumption DEF IInv, TypeOK, QueuesInv, Workers
<1>1. CASE StartServer
  BY <1>1 DEF StartServer
<1>2. CASE StartServerFails
  BY <1>2 DEF StartServerFails
<1>3. CASE CreateWorker
  BY <1>3 DEF CreateWorker
<1>4. CASE AllCreated
  BY <1>4 DEF AllCreated
<1>5. CASE SeeWorkerOn
  BY <1>5 DEF SeeWorkerOn
<1>6. CASE StartAccepter
  BY <1>6 DEF StartAccepter
<1>7. CASE StopServer
  BY <1>7 DEF StopServer
<1>8. CASE SetServerStop
  BY <1>8 DEF SetServerStop
<1>9. CASE JoinWorker
  BY <1>9 DEF JoinWorker
<1>10. CASE AllJoined
  BY <1>10 DEF AllJoined
<1>11. CASE CloseQueue
  BY <1>11 DEF CloseQueue
<1>12. CASE DeleteLists
  BY <1>12 DEF DeleteLists
<1>13. CASE Return
  BY <1>13 DEF Return
<1>14. ASSUME NEW w \in Workers, CreateQueue(w) PROVE QueuesInv'
  BY <1>14 DEF CreateQueue
<1>15. ASSUME NEW w \in Workers, WorkerOn(w) PROVE QueuesInv'
  BY <1>15 DEF WorkerOn
<1>16. ASSUME NEW w \in Workers, CheckServerStop(w) PROVE QueuesInv'
  BY <1>16 DEF CheckServerStop
<1>17. ASSUME NEW w \in Workers, Poll(w) PROVE QueuesInv'
  BY <1>17 DEF Poll
<1>18. CASE CallAccept
  BY <1>18 DEF CallAccept
<1>19. CASE CallAcceptFails
  BY <1>19 DEF CallAcceptFails, vars
<1>20. CASE ClientArrives
  BY <1>20 DEF ClientArrives
<1>21. CASE AcceptFails
  BY <1>21 DEF AcceptFails
<1>22. CASE AcceptInterrupted
  BY <1>22 DEF AcceptInterrupted
<1>23. CASE MakeNewSession
  BY <1>23 DEF MakeNewSession
<1>24. CASE UNCHANGED vars
  BY <1>24 DEF vars
<1> QED
  BY <1>1, <1>2, <1>3, <1>4, <1>5, <1>6, <1>7, <1>8, <1>9, <1>10, <1>11, <1>12,
     <1>13, <1>14, <1>15, <1>16, <1>17, <1>18, <1>19, <1>20, <1>21, <1>22, <1>23, <1>24
  DEF Next, Main, Worker, Accepter, Over

(* StopServer joins the workers before it closes anything.                    *)
LEMMA ClosedStep == ASSUME IInv, [Next]_vars PROVE ClosedInv'
<1> USE ThreadAssumption DEF IInv, TypeOK, StartedInv, ClosedInv, Gone, Workers
<1>1. CASE StartServer
  BY <1>1 DEF StartServer
<1>2. CASE StartServerFails
  BY <1>2 DEF StartServerFails
<1>3. CASE CreateWorker
  BY <1>3 DEF CreateWorker
<1>4. CASE AllCreated
  BY <1>4 DEF AllCreated
<1>5. CASE SeeWorkerOn
  BY <1>5 DEF SeeWorkerOn
<1>6. CASE StartAccepter
  BY <1>6 DEF StartAccepter
<1>7. CASE StopServer
  BY <1>7 DEF StopServer
<1>8. CASE SetServerStop
  BY <1>8 DEF SetServerStop
<1>9. CASE JoinWorker
  BY <1>9 DEF JoinWorker
<1>10. CASE AllJoined
  BY <1>10 DEF AllJoined
<1>11. CASE CloseQueue
  BY <1>11 DEF CloseQueue
<1>12. CASE DeleteLists
  BY <1>12 DEF DeleteLists
<1>13. CASE Return
  BY <1>13 DEF Return
<1>14. ASSUME NEW w \in Workers, CreateQueue(w) PROVE ClosedInv'
  BY <1>14 DEF CreateQueue
<1>15. ASSUME NEW w \in Workers, WorkerOn(w) PROVE ClosedInv'
  BY <1>15 DEF WorkerOn
<1>16. ASSUME NEW w \in Workers, CheckServerStop(w) PROVE ClosedInv'
  BY <1>16 DEF CheckServerStop
<1>17. ASSUME NEW w \in Workers, Poll(w) PROVE ClosedInv'
  BY <1>17 DEF Poll
<1>18. CASE CallAccept
  BY <1>18 DEF CallAccept
<1>19. CASE CallAcceptFails
  BY <1>19 DEF CallAcceptFails, vars
<1>20. CASE ClientArrives
  BY <1>20 DEF ClientArrives
<1>21. CASE AcceptFails
  BY <1>21 DEF AcceptFails
<1>22. CASE AcceptInterrupted
  BY <1>22 DEF AcceptInterrupted
<1>23. CASE MakeNewSession
  BY <1>23 DEF MakeNewSession
<1>24. CASE UNCHANGED vars
  BY <1>24 DEF vars
<1> QED
  BY <1>1, <1>2, <1>3, <1>4, <1>5, <1>6, <1>7, <1>8, <1>9, <1>10, <1>11, <1>12,
     <1>13, <1>14, <1>15, <1>16, <1>17, <1>18, <1>19, <1>20, <1>21, <1>22, <1>23, <1>24
  DEF Next, Main, Worker, Accepter, Over

(* The invariant holds always.                                               *)
LEMMA AlwaysInv == Spec => []IInv
<1>1. IInv /\ [Next]_vars => IInv'
  <2> SUFFICES ASSUME IInv, [Next]_vars PROVE IInv'
    OBVIOUS
  <2> QED
    BY TypeStep, StartedStep, QueuesStep, ClosedStep DEF IInv
<1> QED
  BY InitInv, <1>1, PTL DEF Spec

(* Every run of StartServer, the threads and StopServer keeps the state well *)
(* formed, the lists of threads and of completion queues included.           *)
THEOREM TypeCorrect == Spec => []TypeOK
<1>1. IInv => TypeOK
  BY DEF IInv
<1> QED
  BY AlwaysInv, <1>1, PTL

(* Until StopServer has joined the workers, MakeNewSession reads from a list *)
(* that is allocated the queue its worker was given, open or invalid as      *)
(* RIOCreateCompletionQueue returned it, never one still to be made or one   *)
(* closed, however the workers and the wait of RunThreads interleave.        *)
THEOREM QueuesBeforeAccept == Spec => []AcceptOnlyWithQueues
<1>1. IInv => AcceptOnlyWithQueues
  BY DEF IInv, TypeOK, StartedInv, QueuesInv, ClosedInv, AcceptOnlyWithQueues
<1> QED
  BY AlwaysInv, <1>1, PTL

(* StopServer never closes a queue, or deletes the list, of a worker that is *)
(* still in its loop, also after a start that failed half-way.               *)
THEOREM QueueUsableByWorker == Spec => []QueueOutlivesWorker
<1>1. IInv => QueueOutlivesWorker
  BY DEF IInv, TypeOK, StartedInv, ClosedInv, Gone, QueueOutlivesWorker
<1> QED
  BY AlwaysInv, <1>1, PTL
=============================================================================
