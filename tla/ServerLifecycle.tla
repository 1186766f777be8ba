--------------------------- MODULE ServerLifecycle ---------------------------
(* Start and stop of RIOTestServer: the main thread creates the workers,     *)
(* waits until each has made its completion queue, starts the Accepter, and  *)
(* on the escape key stops the server.  What the threads do to sessions is   *)
(* the subject of SessionLifecycle; here they use the completion queues.     *)
EXTENDS Naturals

CONSTANT ThreadCount   \* THREAD_COUNT of the option file

ASSUME ThreadAssumption == ThreadCount \in Nat

Workers == 1 .. ThreadCount

VARIABLES
    pcMain, pcAccepter, pcWorker,
    listenSocket,   \* none, open or closed
    rioCQ,          \* rioCQList[w]: none, open, invalid or closed
    workerOnList,
    lists,          \* rioCQList and workerOnList: none, allocated or deleted
    serverStop, numOfWorkerThread,
    next,           \* the worker a loop of the main thread has come to
    process         \* up, ended, or crashed

vars == <<pcMain, pcAccepter, pcWorker, listenSocket, rioCQ, workerOnList, lists, serverStop,
          numOfWorkerThread, next, process>>

TypeOK ==
    /\ pcMain \in {"start", "create", "wait", "run", "signal", "join", "close", "return"}
    /\ pcAccepter \in {"none", "call", "accept", "make", "exited"}
    /\ pcWorker \in [Workers -> {"none", "begin", "on", "loop", "poll", "exited"}]
    /\ listenSocket \in {"none", "open", "closed"}
    /\ rioCQ \in [Workers -> {"none", "open", "invalid", "closed"}]
    /\ workerOnList \in [Workers -> BOOLEAN]
    /\ lists \in {"none", "allocated", "deleted"}
    /\ serverStop \in BOOLEAN
    /\ next \in 1 .. ThreadCount + 1
    /\ numOfWorkerThread \in {0, ThreadCount}
    /\ process \in {"up", "ended", "crashed"}

Init ==
    /\ pcMain = "start" /\ pcAccepter = "none" /\ pcWorker = [w \in Workers |-> "none"]
    /\ listenSocket = "none"
    /\ rioCQ = [w \in Workers |-> "none"] /\ workerOnList = [w \in Workers |-> FALSE]
    /\ lists = "none" /\ serverStop = FALSE /\ numOfWorkerThread = 0 /\ next = 1
    /\ process = "up"

-----------------------------------------------------------------------------
(* The main thread.                                                          *)

(* Options, WSAStartup, socket, bind, listen, socket options, InitializeRIO. *)
StartServer ==
    /\ pcMain = "start"
    /\ numOfWorkerThread' = ThreadCount
    /\ listenSocket' = "open" /\ lists' = "allocated"
    /\ pcMain' = "create"
    /\ UNCHANGED <<pcAccepter, pcWorker, rioCQ, workerOnList, serverStop, next, process>>

(* One of these fails, the options perhaps before THREAD_COUNT was read;     *)
(* main does not look at the result.                                         *)
StartServerFails ==
    /\ pcMain = "start"
    /\ numOfWorkerThread' \in {0, ThreadCount}
    /\ listenSocket' \in {"none", "open"}
    /\ pcMain' = "run"
    /\ UNCHANGED <<pcAccepter, pcWorker, rioCQ, workerOnList, lists, serverStop, next, process>>

(* RunThreads creates the workers, ...                                       *)
CreateWorker ==
    /\ pcMain = "create" /\ next \in Workers
    /\ workerOnList' = [workerOnList EXCEPT ![next] = FALSE]
    /\ pcWorker' = [pcWorker EXCEPT ![next] = "begin"]
    /\ next' = next + 1
    /\ UNCHANGED <<numOfWorkerThread, pcMain, pcAccepter, listenSocket, rioCQ, lists,
                   serverStop, process>>

AllCreated ==
    /\ pcMain = "create" /\ next \notin Workers
    /\ pcMain' = "wait" /\ next' = 1
    /\ UNCHANGED <<numOfWorkerThread, pcAccepter, pcWorker, listenSocket, rioCQ, workerOnList,
                   lists, serverStop, process>>

(* ... reads workerOnList until a whole pass finds every worker on, ...      *)
SeeWorkerOn ==
    /\ pcMain = "wait" /\ next \in Workers
    /\ next' = IF workerOnList[next] THEN next + 1 ELSE 1
    /\ UNCHANGED <<numOfWorkerThread, pcMain, pcAccepter, pcWorker, listenSocket, rioCQ,
                   workerOnList, lists, serverStop, process>>

(* Mutant: the first worker found on is enough.                              *)
StartAccepter_Early ==
    /\ pcMain = "wait" /\ next > 1
    /\ pcAccepter' = "call"
    /\ pcMain' = "run" /\ next' = 1
    /\ UNCHANGED <<numOfWorkerThread, pcWorker, listenSocket, rioCQ, workerOnList, lists,
                   serverStop, process>>

(* ... and starts the Accepter.                                              *)
StartAccepter ==
    /\ pcMain = "wait" /\ next \notin Workers
    /\ pcAccepter' = "call"
    /\ pcMain' = "run" /\ next' = 1
    /\ UNCHANGED <<numOfWorkerThread, pcWorker, listenSocket, rioCQ, workerOnList, lists,
                   serverStop, process>>

(* main sees the escape key and calls StopServer: closesocket, ...           *)
StopServer ==
    /\ pcMain = "run"
    /\ listenSocket' = "closed"
    /\ pcMain' = "signal"
    /\ UNCHANGED <<numOfWorkerThread, pcAccepter, pcWorker, rioCQ, workerOnList, lists,
                   serverStop, next, process>>

(* Mutant: the workers are not told.                                         *)
SetServerStop_Missing ==
    /\ pcMain = "signal"
    /\ pcMain' = "join"
    /\ UNCHANGED <<numOfWorkerThread, pcAccepter, pcWorker, listenSocket, rioCQ, workerOnList,
                   lists, next, process, serverStop>>

SetServerStop ==
    /\ pcMain = "signal"
    /\ serverStop' = TRUE
    /\ pcMain' = "join"
    /\ UNCHANGED <<numOfWorkerThread, pcAccepter, pcWorker, listenSocket, rioCQ, workerOnList,
                   lists, next, process>>

(* Mutant: the worker is not waited for.                                     *)
JoinWorker_Detached ==
    /\ pcMain = "join" /\ next \in Workers
    /\ next' = next + 1
    /\ UNCHANGED <<numOfWorkerThread, pcMain, pcAccepter, pcWorker, listenSocket, rioCQ,
                   workerOnList, lists, serverStop, process>>

(* Mutant: the loop goes one worker too far.                                 *)
JoinWorker_OneMore ==
    /\ pcMain = "join" /\ next <= ThreadCount + 1
    /\ next \in Workers => pcWorker[next] \in {"none", "exited"}
    /\ next' = next + 1
    /\ UNCHANGED <<numOfWorkerThread, pcMain, pcAccepter, pcWorker, listenSocket, rioCQ,
                   workerOnList, lists, serverStop, process>>

(* ... join of the worker threads that exist, ...                            *)
JoinWorker ==
    /\ pcMain = "join" /\ next \in Workers
    /\ pcWorker[next] \in {"none", "exited"}
    /\ next' = next + 1
    /\ UNCHANGED <<numOfWorkerThread, pcMain, pcAccepter, pcWorker, listenSocket, rioCQ,
                   workerOnList, lists, serverStop, process>>

AllJoined ==
    /\ pcMain = "join" /\ next \notin Workers
    /\ pcMain' = "close" /\ next' = 1
    /\ UNCHANGED <<numOfWorkerThread, pcAccepter, pcWorker, listenSocket, rioCQ, workerOnList,
                   lists, serverStop, process>>

(* ... RIOCloseCompletionQueue, through a function table and a list that a   *)
(* failed start has left null, ...                                           *)
CloseQueue ==
    /\ pcMain = "close" /\ next <= numOfWorkerThread
    /\ rioCQ' = [rioCQ EXCEPT ![next] = IF lists = "none" THEN @ ELSE "closed"]
    /\ process' = IF lists = "none" THEN "crashed" ELSE process
    /\ next' = next + 1
    /\ UNCHANGED <<numOfWorkerThread, pcMain, pcAccepter, pcWorker, listenSocket, workerOnList,
                   lists, serverStop>>

(* ... delete[], and main returns.  The Accepter is not joined: destroying   *)
(* its std::thread with the server object calls std::terminate.              *)
DeleteLists ==
    /\ pcMain = "close" /\ next > numOfWorkerThread
    /\ lists' = IF lists = "none" THEN "none" ELSE "deleted"
    /\ pcMain' = "return" /\ next' = 1
    /\ UNCHANGED <<numOfWorkerThread, pcAccepter, pcWorker, listenSocket, rioCQ, workerOnList,
                   serverStop, process>>

Return ==
    /\ pcMain = "return"
    /\ process' = IF pcAccepter = "none" THEN "ended" ELSE "crashed"
    /\ UNCHANGED <<numOfWorkerThread, pcMain, pcAccepter, pcWorker, listenSocket, rioCQ,
                   workerOnList, lists, serverStop, next>>

-----------------------------------------------------------------------------
(* A worker.  RIOCreateCompletionQueue may fail; nobody looks.               *)
CreateQueue(w) ==
    /\ pcWorker[w] = "begin"
    /\ \E q \in {"open", "invalid"} : rioCQ' = [rioCQ EXCEPT ![w] = q]
    /\ pcWorker' = [pcWorker EXCEPT ![w] = "on"]
    /\ UNCHANGED <<numOfWorkerThread, pcMain, pcAccepter, listenSocket, workerOnList, lists,
                   serverStop, next, process>>

WorkerOn(w) ==
    /\ pcWorker[w] = "on"
    /\ workerOnList' = [workerOnList EXCEPT ![w] = TRUE]
    /\ pcWorker' = [pcWorker EXCEPT ![w] = "loop"]
    /\ UNCHANGED <<numOfWorkerThread, pcMain, pcAccepter, listenSocket, rioCQ, lists,
                   serverStop, next, process>>

CheckServerStop(w) ==
    /\ pcWorker[w] = "loop"
    /\ pcWorker' = [pcWorker EXCEPT ![w] = IF serverStop THEN "exited" ELSE "poll"]
    /\ UNCHANGED <<numOfWorkerThread, pcMain, pcAccepter, listenSocket, rioCQ, workerOnList,
                   lists, serverStop, next, process>>

(* Worker does not compare the result of RIODequeueCompletion with           *)
(* RIO_CORRUPT_CQ: for a queue that is not open it walks past rioResults.    *)
Poll(w) ==
    /\ pcWorker[w] = "poll"
    /\ process' = IF rioCQ[w] = "open" THEN process ELSE "crashed"
    /\ pcWorker' = [pcWorker EXCEPT ![w] = "loop"]
    /\ UNCHANGED <<numOfWorkerThread, pcMain, pcAccepter, listenSocket, rioCQ, workerOnList,
                   lists, serverStop, next>>

Worker(w) == CreateQueue(w) \/ WorkerOn(w) \/ CheckServerStop(w) \/ Poll(w)

-----------------------------------------------------------------------------
(* The Accepter.                                                             *)
CallAccept ==
    /\ pcAccepter = "call" /\ listenSocket = "open"
    /\ pcAccepter' = "accept"
    /\ UNCHANGED <<numOfWorkerThread, pcMain, pcWorker, listenSocket, rioCQ, workerOnList,
                   lists, serverStop, next, process>>

(* accept on a closed socket fails with an error that is not WSAEINTR: the   *)
(* loop goes on, for ever.                                                   *)
CallAcceptFails ==
    /\ pcAccepter = "call" /\ listenSocket = "closed"
    /\ UNCHANGED vars

ClientArrives ==
    /\ pcAccepter = "accept" /\ listenSocket = "open"
    /\ pcAccepter' = "make"
    /\ UNCHANGED <<numOfWorkerThread, pcMain, pcWorker, listenSocket, rioCQ, workerOnList,
                   lists, serverStop, next, process>>

(* Any other error is logged and the loop goes on.                           *)
AcceptFails ==
    /\ pcAccepter = "accept" /\ listenSocket = "open"
    /\ pcAccepter' = "call"
    /\ UNCHANGED <<numOfWorkerThread, pcMain, pcWorker, listenSocket, rioCQ, workerOnList,
                   lists, serverStop, next, process>>

(* closesocket ends an accept that is waiting with WSAEINTR.                 *)
AcceptInterrupted ==
    /\ pcAccepter = "accept" /\ listenSocket = "closed"
    /\ pcAccepter' = "exited"
    /\ UNCHANGED <<numOfWorkerThread, pcMain, pcWorker, listenSocket, rioCQ, workerOnList,
                   lists, serverStop, next, process>>

(* MakeNewSession reads rioCQList[threadId]; after delete[] anything can     *)
(* come of that.                                                             *)
MakeNewSession ==
    /\ pcAccepter = "make"
    /\ pcAccepter' = "call"
    /\ process' \in IF lists = "deleted" THEN {"up", "crashed"} ELSE {process}
    /\ UNCHANGED <<numOfWorkerThread, pcMain, pcWorker, listenSocket, rioCQ, workerOnList,
                   lists, serverStop, next>>

Accepter ==
    \/ CallAccept \/ CallAcceptFails
    \/ ClientArrives \/ AcceptFails \/ AcceptInterrupted
    \/ MakeNewSession

-----------------------------------------------------------------------------
Main ==
    \/ StartServer \/ StartServerFails
    \/ CreateWorker \/ AllCreated \/ SeeWorkerOn \/ StartAccepter
    \/ SetServerStop \/ JoinWorker \/ AllJoined \/ CloseQueue \/ DeleteLists \/ Return

Over == process # "up" /\ UNCHANGED vars

Next ==
    \/ process = "up" /\ (Main \/ StopServer \/ Accepter \/ \E w \in Workers : Worker(w))
    \/ Over

Spec == Init /\ [][Next]_vars

(* Every thread keeps running; nobody has to press the escape key.           *)
FairSpec ==
    /\ Spec
    /\ WF_vars(process = "up" /\ Main)
    /\ \A w \in Workers : WF_vars(process = "up" /\ Worker(w))

-----------------------------------------------------------------------------
(* Until StopServer has joined the workers, MakeNewSession finds in          *)
(* rioCQList what RIOCreateCompletionQueue gave every worker: no queue that  *)
(* is still to be made and none that is closed.  The queue may be an invalid *)
(* one, since nobody looks at the result; and after the joins it may be      *)
(* closed or gone, since nobody waits for the Accepter (RunThreads,          *)
(* StopServer).                                                              *)
AcceptOnlyWithQueues ==
    pcAccepter = "make" /\ pcMain \notin {"close", "return"} =>
        lists = "allocated" /\ \A w \in Workers : rioCQ[w] \in {"open", "invalid"}

(* Until its thread has ended, nobody closes the queue a worker polls or     *)
(* deletes the list it is in (StopServer, Worker).                           *)
QueueOutlivesWorker ==
    \A w \in Workers : pcWorker[w] \in {"loop", "poll"} =>
        rioCQ[w] # "closed" /\ lists = "allocated"

(* StopServer returns: the joins end because every worker sees serverStop.   *)
StopServerReturns == pcMain = "signal" ~> pcMain = "return" \/ process = "crashed"
=============================================================================
