SPECIFICATION Spec
CONSTANTS
    RecordPrefix = 3
    MetaSize = 1
    MaxRecordPayload = 40
    Width = 6
    ChunkMin = 4
    ChunkMax = 16
    FrameBytes = 2
    DefaultChunk = 8
    DefaultShard = 20
    DefaultLimit = 2
    LimitMax = 4
    Inputs = {"a"}
    Keyfiles <- MCKeyfiles
    Passphrases = {"", "p", "q"}
    EncryptForms <- MCEncryptForms
    DecryptForms <- MCDecryptForms
    DefaultEncryptForm <- MCDefaultEncryptForm
    DefaultDecryptForm <- MCDefaultDecryptForm
    Usable = {"p", "q"}
    Phases = 2
    MaxKeyfiles = 1
    MaxEdits = 3
CHECK_DEADLOCK FALSE
INVARIANT WorkNotInterrupted
