SPECIFICATION Spec
CONSTANTS
    None = None
    Tokens <- SmallTokens
    MaxArgs = 4
    Numbers <- SmallNumbers
    Files <- SmallFiles
    Ttys <- SmallTtys
    Chunk = 3
    SizeMod = 1000
    MaxBaud = 4000000
    MaxRetries = 20
    DefaultAddr = 32768
    Supersections = 2
    Fan = 2
    SizeMax = 1000000
    ChainEnd = 65535
    MaxLive = 4
    Layouts <- Lists
    MainLayout <- TwoRegions
    DramEnd = 5
    HeaderRange <- ThirdByte
    Values = {0, 1}
    RegionFlags <- FiveFlags
    Half = 16
    Starts = {13, 252}
    MaxTicks = 8
    Delays = {0, 2, 4}
    Mega = 2
    Giga = 4
    Hz = 4
    MaxCycles = 70
    MaxLag = 2
    Tags = {"memory", "clock"}
    Right <- OwnName
    ChanCount = 3
    LiteFrom = 1
    LiteTo = 1
    Clients = {"a", "b"}
    ArenaStart = 16
    ArenaEnd = 40
    MaxMono = 3
    MaxContext = 2
    MaxProbes = 1
    Needs <- ThreeUses
INVARIANTS
    TypeOK
    MetaDescribesFile
    ChunksCoverFile
    RightDevice
    ClockSound
    
    CoverageSound
    ResultsFresh
    AllocationsApart
CHECK_DEADLOCK FALSE
