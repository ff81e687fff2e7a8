SPECIFICATION Spec
CONSTANTS
    Jobs <- LateJobs
    NoLimit = NoLimit
    Half = 16
    TickNum = 1
    TickDen = 1
    MaxPacket = 2
    MaxFrame = 2
    DecDelay = 0
    SwrLag = 0
    MaxOthers = 0
    Faults <- NoFaults
INVARIANT SkipsFrameOffset
