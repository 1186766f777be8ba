CONSTANTS
    RingSize = 9
    OffsetMod = 18
    HeaderSize = 2
    DefaultSize = 2
    Payloads = {0, 1, 2, 3}
    MaxPackets = 3
SPECIFICATION FairSpec
INVARIANTS
    TypeOK
    ReceiveLeavesUnread
    PacketsInOrder
    ErrorIsClients
PROPERTY NeverStuck
