SPECIFICATION PipelineSpec
CONSTANTS
    t1 = t1
    t2 = t2
    u1 = u1
    addr_a = addr_a
    addr_b = addr_b
    Src <- MCSrc
    IpProto <- MCIpProto
    TsW = 16
    SeqW = 8
    Second = 2
    Alpha = 2
    Programs <- MCPrograms
    Timed = {"passthrough"}
    Records <- MCRecords
    MaxFile = 3
    BatchSize = 2
    QueueSize = 1
INVARIANTS
    ResultsFollowFile
    BenchmarkCounts
PROPERTY ProgramsEnd
