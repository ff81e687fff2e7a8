SPECIFICATION FairSpec
CONSTANTS
    Jobs <- ExactJobs
    NoLimit = NoLimit
    Half = 16
    TickNum = 1
    TickDen = 2
    MaxPacket = 2
    MaxFrame = 2
    DecDelay = 1
    SwrLag = 2
    MaxOthers = 1
    Faults <- ReportedFaults
INVARIANTS
    TypeOK
    NumFramesIsACap
PROPERTIES
    KeepsPromise
    Terminates
