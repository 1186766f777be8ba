------------------------------- MODULE Logger -------------------------------
(* The Logger: any thread queues a log object under logQueueLock and sets an *)
(* event; the logger thread waits for it, drains the queue under the lock    *)
(* and writes what it took to the file.                                      *)
EXTENDS Naturals, Sequences, Functions

CONSTANT Logs   \* the log objects that threads may write

VARIABLES
    logWaitingQueue, waitingLogList,
    logEvent, stopEvent,   \* loggerEventHandles, auto-reset
    logQueueLock,          \* the logger thread holds the lock
    restSize,              \* local of WriteLogImpl
    file,                  \* what logFileStream got
    pc,                    \* the logger thread
    stopping,              \* STOP_HANDLE was seen
    crashed

vars == <<logWaitingQueue, waitingLogList, logEvent, stopEvent, logQueueLock, restSize, file,
          pc, stopping, crashed>>

Init ==
    /\ logWaitingQueue = <<>> /\ waitingLogList = <<>>
    /\ logEvent = FALSE /\ stopEvent = FALSE /\ logQueueLock = FALSE
    /\ restSize = 0 /\ file = <<>>
    /\ pc = "none" /\ stopping = FALSE /\ crashed = FALSE

-----------------------------------------------------------------------------
(* WriteLog on any thread.  Before RunLoggerThread the handle is NULL and    *)
(* SetEvent does nothing.                                                    *)
WriteLog(l) ==
    /\ ~logQueueLock
    /\ l \notin Range(logWaitingQueue) \cup Range(waitingLogList) \cup Range(file)
    /\ logWaitingQueue' = Append(logWaitingQueue, l)
    /\ logEvent' = (pc # "none")
    /\ UNCHANGED <<waitingLogList, stopEvent, logQueueLock, restSize, file, pc, stopping,
                   crashed>>

RunLoggerThread ==
    /\ pc = "none"
    /\ pc' = "wait"
    /\ UNCHANGED <<logWaitingQueue, waitingLogList, logEvent, stopEvent, logQueueLock, restSize,
                   file, stopping, crashed>>

StopLoggerThread ==
    /\ pc # "none" /\ ~stopEvent /\ ~stopping
    /\ stopEvent' = TRUE
    /\ UNCHANGED <<logWaitingQueue, waitingLogList, logEvent, logQueueLock, restSize, file, pc,
                   stopping, crashed>>

-----------------------------------------------------------------------------
(* WaitForMultipleObjects returns the first event that is set and resets it. *)
WaitLog ==
    /\ pc = "wait" /\ logEvent
    /\ logEvent' = FALSE
    /\ pc' = "lock"
    /\ UNCHANGED <<logWaitingQueue, waitingLogList, stopEvent, logQueueLock, restSize, file,
                   stopping, crashed>>

WaitStop ==
    /\ pc = "wait" /\ ~logEvent /\ stopEvent
    /\ stopEvent' = FALSE /\ stopping' = TRUE
    /\ pc' = "lock"
    /\ UNCHANGED <<logWaitingQueue, waitingLogList, logEvent, logQueueLock, restSize,
                   file, crashed>>

(* WriteLogImpl: restSize is the number of waiting logs, ...                 *)
WriteLogImpl ==
    /\ pc = "lock"
    /\ logQueueLock' = TRUE
    /\ restSize' = Len(logWaitingQueue)
    /\ pc' = "drain"
    /\ UNCHANGED <<logWaitingQueue, waitingLogList, logEvent, stopEvent, file, stopping,
                   crashed>>

(* ... and stays it: the loop does not count down.                           *)
Drain ==
    /\ pc = "drain" /\ restSize > 0 /\ logWaitingQueue # <<>>
    /\ waitingLogList' = Append(waitingLogList, Head(logWaitingQueue))
    /\ logWaitingQueue' = Tail(logWaitingQueue)
    /\ UNCHANGED <<logEvent, stopEvent, logQueueLock, restSize, file, pc, stopping, crashed>>

(* front and pop of an empty queue are undefined: the process ends or the    *)
(* loop goes on.                                                             *)
DrainEmpty ==
    /\ pc = "drain" /\ restSize > 0 /\ logWaitingQueue = <<>>
    /\ crashed' \in BOOLEAN
    /\ UNCHANGED <<logWaitingQueue, waitingLogList, logEvent, stopEvent, logQueueLock, restSize,
                   file, pc, stopping>>

Drained ==
    /\ pc = "drain" /\ restSize = 0
    /\ logQueueLock' = FALSE
    /\ pc' = "write"
    /\ UNCHANGED <<logWaitingQueue, waitingLogList, logEvent, stopEvent, restSize, file,
                   stopping, crashed>>

WriteLogToFile ==
    /\ pc = "write"
    /\ file' = file \o waitingLogList
    /\ waitingLogList' = <<>>
    /\ pc' = IF stopping THEN "exited" ELSE "wait"
    /\ UNCHANGED <<logWaitingQueue, logEvent, stopEvent, logQueueLock, restSize, stopping,
                   crashed>>

LoggerThread ==
    WaitLog \/ WaitStop \/ WriteLogImpl \/ Drain \/ DrainEmpty \/ Drained \/ WriteLogToFile

Over == (crashed \/ pc \in {"none", "wait", "exited"}) /\ UNCHANGED vars

Next ==
    \/ /\ ~crashed
       /\ \/ \E l \in Logs : WriteLog(l)
          \/ RunLoggerThread \/ StopLoggerThread
          \/ LoggerThread
    \/ Over

Spec == Init /\ [][Next]_vars

(* The logger thread keeps running.                                          *)
FairSpec == Spec /\ WF_vars(~crashed /\ LoggerThread)

-----------------------------------------------------------------------------
(* README.md:87: WriteLog on the Logger's instance records the log object in *)
(* the file.  Asked only of logs that the logger thread was told about and   *)
(* before it is stopped.                                                     *)
LogsReachFile ==
    \A l \in Logs : logEvent /\ ~stopping /\ l \in Range(logWaitingQueue) ~> l \in Range(file)
=============================================================================
