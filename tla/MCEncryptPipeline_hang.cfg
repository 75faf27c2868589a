SPECIFICATION FairSpec
CONSTANTS
    Workers = {w1}
    QueueDepth = 2
    ChunkSize = 1
    RecordSizes = {6}
    MaxBytes = 6
    ExpectedBytes = 6
    Faulty = {"writer"}
PROPERTIES FailureIsReported
CHECK_DEADLOCK FALSE
