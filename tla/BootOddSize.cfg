SPECIFICATION Spec
CONSTANTS
    DRAM_LIMIT = 80
    ProgStart = 8
    ProgEnd = 32
    StubSize = 8
    ChunkSize = 15
    OutSize = 17
    WordMod = 1024
    Metas <- SmallMetas
INVARIANT
    CopyStopsAtEnd
CHECK_DEADLOCK FALSE
