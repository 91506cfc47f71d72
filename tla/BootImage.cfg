SPECIFICATION FairSpec
CONSTANTS
    DRAM_LIMIT = 80
    ProgStart = 8
    ProgEnd = 32
    StubSize = 8
    ChunkSize = 15
    OutSize = 17
    WordMod = 1024
    Metas <- AllMetas
INVARIANTS
    TypeOK
    BootLoaderIntact
    VerdictSound
    StubIntact
    StartedComplete
PROPERTY
    WordsStart
CHECK_DEADLOCK FALSE
