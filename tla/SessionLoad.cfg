SPECIFICATION Spec
CONSTANTS
    Sessions = {s1}
    NumWorkers = 1
    Accepter = accepter
    Callers = {}
    Contexts = {c1, c2, c3}
    maxClientCount = 2
    UIntMod = 8
    MaxQueue = 1
    MaxBatch = 1
    BadPackets = FALSE
    RIOMayFail = FALSE
    NoSession = NoSession
    NoContext = NoContext
INVARIANT WorkerLoadExact
