SPECIFICATION ProgramsSpec
CONSTANTS
    k1 = k1
    k2 = k2
    k3 = k3
    Microflows <- MCMicroflows
    Programs <- MCPrograms
    Printers <- MCPrinters
    Files <- MCFiles
    Lengths <- MCLengths
    MfBatch = 2
    BatchSize = 1
    ReplayBatch = 1
    CheckPeriod = 2
    Threshold = 3
    Capacity = 1
    Src <- MCSrc
    Dst <- MCDst
    ProfileDuration = 8
    WatchedSources <- MCWatched
    QueueThreshold = 2
    Variants = {"rich", "allstats", "netflow", "pfe"}
    Label <- MCLabel
    NoLabel = "none"
    Classes = {"ssh", "dns"}
    TrainCt = 1
    MinPktCt = 2
    WarmUp = 2
    BenchmarkCt = 2
INVARIANTS
    MicroflowsAccounted
    StopsNearEnd
    HalfOfDueLeave
    KernelsAccount
    QueueComplete
    TrainedThenJudged
PROPERTIES
    MicroflowProgramsEnd
