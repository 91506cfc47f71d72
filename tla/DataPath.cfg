SPECIFICATION DataSpec
CONSTANTS
    None = None
    Scripts <- MCScripts
    Calls <- MCCalls
    Noise <- MCNoise
    Garbled <- MCGarbled
    MaxFaults = 2
    MaxLine = 2
    InRequired = 3
    RcInitBytes = 2
    DictSize = 5
    Base = 4
    MaxIn = 4
    MaxOut = 3
    Lzma2Plans <- MCLzma2Plans
    StreamHeaderSize = 3
    Align = 2
    CrcBytes = 2
    VliBase = 8
    VliBytesMax = 3
    OutSize = 2
    MaxFrame = 5
    Hold = 1
    StreamPlans <- MCStreamPlans
    Unit = 3
    TempSize = 4
    Lead = 8
    MaxGive = 4
    MaxRoom = 5
    Blocks <- MCBlocks
INVARIANTS
    StaysInBounds
    FramesWereSent
    IntactFrameDelivered
    OutputIsReference
    FeedFaithful
    FilteredOnce
PROPERTIES
    Completes
    ReceiveReturns
CHECK_DEADLOCK FALSE
