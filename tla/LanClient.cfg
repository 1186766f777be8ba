SPECIFICATION Spec
CONSTANTS
    NumOfSession = 1
    NumOfUsingWorkerThread = 2
    Workers = {w1, w2}
    Callers = {c1}
    Main = main
    Reconnecter = reconnecter
    SendMax = 1
    MaxSocket = 2
    MaxPackets = 1
    MaxFaults = 1
SYMMETRY WorkerSymmetry
INVARIANTS
    TypeOK
    IOCountExact
    SendExclusive
    ReleaseIsAlone
