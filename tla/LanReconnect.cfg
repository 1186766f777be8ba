SPECIFICATION FairSpec
CONSTANTS
    NumOfSession = 2
    NumOfUsingWorkerThread = 1
    Workers = {w1}
    Callers = {}
    Main = main
    Reconnecter = reconnecter
    SendMax = 1
    MaxSocket = 2
    MaxPackets = 0
    MaxFaults = 2
INVARIANT IOCountExact
PROPERTIES
    Reconnects
    StopEnds
