SPECIFICATION FairSpec
CONSTANTS
    Jobs <- WideJobs
    Half = 4
    CHUNK_FRAMES = 3
    SwrLag = 0
    EncDelay = 0
PROPERTY Terminates
