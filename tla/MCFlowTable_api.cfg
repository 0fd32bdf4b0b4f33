SPECIFICATION Spec
CONSTANTS
    t1 = t1
    t2 = t2
    u1 = u1
    Keys = {t1, t2, u1}
    IpProto <- MCIpProto
    W = 16
    Times <- MCFewTimes
    FlagSets <- MCEndFlagSets
    ToCheckInterval = 2
    AckCheckInterval = 1
    UdpTo = 3
    TcpTo = 5
    IncompleteEvictPktCount = 2
    MaxPackets = 4
SYMMETRY MCSymmetry
INVARIANTS
    TypeOK
    Conservation
    PacketCounts
    FlowIdentity
    FinEndsFlow
    OnlyLoneAcksVanish
