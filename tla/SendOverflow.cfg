SPECIFICATION Spec
CONSTANTS
    Callers = {a, b}
    Worker = worker
    p1 = p1
    p2 = p2
    p3 = p3
    p4 = p4
    Packets = {p1, p2, p3, p4}
    Size <- LargeSizes
    Farewell = {p2}
    MAX_SEND_BUFFER_SIZE = 8
    RIOMayFail = TRUE
    NoPacket = NoPacket
SYMMETRY CallerSymmetry
INVARIANTS
    TypeOK
    SendExclusive
    LengthIsCopied
    NothingLost
    NoLostWakeup
PROPERTY ImplementsChannelSafety
