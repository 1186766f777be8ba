CONSTANT ThreadCount = 3
SPECIFICATION FairSpec
PROPERTY StopServerReturns
INVARIANTS
    TypeOK
    AcceptOnlyWithQueues
    QueueOutlivesWorker
