SPECIFICATION Spec
CONSTANTS
    ChunkSize = 2
    FrameOverhead = 1
    Names = {f1, f2, f3}
    Stuck = {f3}
    Layouts <- MCLayouts
    ShardSizes = {3, 6, 8}
    Modes = {"on", "best_effort", "off"}
    MaxInFlight = 2
    StreamBuffer = 3
    Faults = {"pipeline", "open", "write", "reopen", "fsync", "power"}
SYMMETRY Symmetry
INVARIANTS TypeOK PlannerAgrees AbortRemovesAll AcceptedIsComplete SuccessIsReadable
PROPERTY ExistingUntouched
