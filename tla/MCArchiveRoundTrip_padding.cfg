SPECIFICATION Spec
CONSTANTS
    RecordPrefix = 3
    MetaSize = 1
    MaxRecordPayload = 8
    Width = 6
    ChunkMin = 4
    ChunkMax = 16
    FrameBytes = 2
    Trees <- MCTrees
    PathOrder <- MCPathOrder
    EncryptParams <- MCPower2
    MaxChanges = 0
    PayloadMin = 1
    PayloadMax = 4
    DecryptParams <- MCFresh
    Outputs <- MCNoOutput
    IntruderPaths = {}
    ForeignStreams = {}
INVARIANT WrittenIsReadable
