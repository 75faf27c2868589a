SPECIFICATION Spec
CONSTANTS
    ChunkSize = 2
    FrameOverhead = 1
    Names = {f1, f2, f3}
    Stuck = {}
    Layouts <- MCLayouts
    ShardSizes = {6}
    Modes = {"on"}
    MaxInFlight = 1
    StreamBuffer = 3
    Faults = {"close"}
INVARIANT SuccessIsReadable
