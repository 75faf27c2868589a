SPECIFICATION FairSpec
CONSTANTS
    Workers = {w1, w2}
    QueueDepth = 2
    ChunkSize = 2
    RecordSizes = {1, 3, 6}
    MaxBytes = 8
    ExpectedBytes = 7
    Faulty = {"producer", "worker", "writer"}
INVARIANTS TypeOK WrittenInOrder FinishOnlyComplete NoInternalError OutcomeHonest
PROPERTIES NonceUsedOnce ImplementsStream Termination
CHECK_DEADLOCK FALSE
