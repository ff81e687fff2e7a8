SPECIFICATION Spec
CONSTANTS
    Jobs <- CoarseJobs
    NoLimit = NoLimit
    Half = 16
    TickNum = 5
    TickDen = 1
    MaxPacket = 4
    MaxFrame = 4
    DecDelay = 0
    SwrLag = 0
    MaxOthers = 0
    Faults <- NoFaults
INVARIANT NumFramesIsACap
