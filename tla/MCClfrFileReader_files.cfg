SPECIFICATION FileSpec
CONSTANTS
    MaxRecords = 4
    BatchSizes <- MCBatchSizes
    MaxGot = 8
INVARIANTS
    ReadBack
    EndMeansAll
PROPERTY ClosedFilesEnd
