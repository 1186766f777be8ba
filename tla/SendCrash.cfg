SPECIFICATION Spec
CONSTANTS
    Callers = {a}
    Worker = worker
    p1 = p1
    p2 = p2
    p3 = p3
    p4 = p4
    Packets = {p1, p2}
    Size <- MiddleSizes
    Farewell = {}
    MAX_SEND_BUFFER_SIZE = 12
    RIOMayFail = FALSE
    NoPacket = NoPacket
INVARIANT ValidPacketsNeverCrash
