SPECIFICATION Spec
CONSTANTS
    Sessions = {s1}
    NumWorkers = 2
    Accepter = accepter
    Callers = {}
    Contexts = {c1, c2, c3}
    maxClientCount = 2
    UIntMod = 8
    MaxQueue = 2
    MaxBatch = 2
    BadPackets = FALSE
    RIOMayFail = TRUE
    NoSession = NoSession
    NoContext = NoContext
SYMMETRY PoolSymmetry
INVARIANTS
    IOCountAccounting
    PostedBuffersRegistered
    RequestQueueSerialized
