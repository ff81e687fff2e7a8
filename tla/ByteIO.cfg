SPECIFICATION CallSpec
CONSTANTS
    Calls <- AllCalls
    Bytes = {1, 2}
    Zero = 0
    MaxI64 = 6
    Offsets <- SmallOffsets
    AVIO_BUFFER_SIZE = 2
    InputLengths = {0, 3}
    MaxFile = 4
INVARIANTS
    TypeOK
    CursorInBounds
    NothingDangles
    NothingLeaks
PROPERTY KeepsPromise
