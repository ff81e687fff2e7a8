SPECIFICATION PySpec
CONSTANTS
    Jobs <- PyJobs
    Half = 16
    CHUNK_FRAMES = 3
    SwrLag = 2
    EncDelay = 1
    AV_NUM_DATA_POINTERS = 3
INVARIANTS
    TypeOK
    FifoBounded
    EncoderReadsTheArgument
PROPERTIES
    KeepsPromise
    CallReturns
