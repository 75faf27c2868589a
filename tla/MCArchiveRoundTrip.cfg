SPECIFICATION Spec
CONSTANTS
    RecordPrefix = 3
    MetaSize = 1
    MaxRecordPayload = 40
    Width = 6
    ChunkMin = 4
    ChunkMax = 16
    FrameBytes = 2
    Trees <- MCTrees
    PathOrder <- MCPathOrder
    EncryptParams <- MCEncryptParams
    MaxChanges = 1
    PayloadMin = 1
    PayloadMax = 4
    DecryptParams <- MCDecryptParams
    Outputs <- MCOutputs
    IntruderPaths <- MCIntruderPaths
    ForeignStreams <- MCForeignStreams
INVARIANTS TypeOK AnnouncedLayout WrittenIsReadable RoundTrip
           SuccessIsExact OutputConsistent NoDebris
PROPERTY OthersKept
