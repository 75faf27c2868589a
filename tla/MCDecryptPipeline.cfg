SPECIFICATION FairSpec
CONSTANTS
    Workers = {w1, w2}
    QueueDepth = 1
    NumChunks = 4
    ChunkSize = 2
    PaddedSize = 7
    Faulty = {"reader", "consumer"}
INVARIANTS TypeOK ConsumesAuthenticPrefix PromoteOnlyAuthentic NoInternalError
PROPERTIES ImplementsStream Termination
CHECK_DEADLOCK FALSE
