SPECIFICATION ExporterSpec
CONSTANTS
    t1 = t1
    u1 = u1
    zero = zero
    Keys = {t1, u1, zero}
    ZeroKey = zero
    IpProto <- MCIpProto
    W = 16
    Times <- MCTimes
    FlagSets <- MCFlagSets
    ToCheckInterval = 2
    AckCheckInterval = 1
    UdpTo = 3
    TcpTo = 5
    IncompleteEvictPktCount = 2
    MaxPackets = 3
    FrameKinds <- MCFrameKinds
    MaxFrames = 3
    MaxRecords = 3
INVARIANT AllClfrsInFile
