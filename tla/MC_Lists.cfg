SPECIFICATION ListsSpec
CONSTANTS
    NUM_ENTRIES = 2
    NUM_CHECKPOINTS = 4
    NUM_ISA_REGISTERS = 1
    ZERO_IS_FREEABLE = FALSE
    GL_NUM_ENTRIES = 5
    Payload = {0}
    NumEntries = 4
    NumTags = 5
    None = None
    MaxLoads = 6
INVARIANTS
    PointersAgree
    VersionsAgree
    GlTypeOK
    Occupancy
    RecordOldest
    ExceptionAtHead
    QueueInv
    TransactionsExact
PROPERTY LoadsComplete
