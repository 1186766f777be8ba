SPECIFICATION FairSpec
CONSTANTS
    Sessions = {s1}
    NumWorkers = 1
    Accepter = accepter
    Callers = {db}
    Contexts = {c1, c2, c3}
    maxClientCount = 2
    UIntMod = 8
    MaxQueue = 1
    MaxBatch = 1
    BadPackets = TRUE
    RIOMayFail = FALSE
    NoSession = NoSession
    NoContext = NoContext
INVARIANTS
    TypeOK
    IOCountAccounting
    IOCountNotNegative
    ContextHasOneOwner
    OneReceive
PROPERTY DeadSessionRemoved
