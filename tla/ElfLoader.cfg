SPECIFICATION Spec
CONSTANTS
    MemHi = 44
    AddrMod = 1024
    ProgStart = 10
    ProgEnd = 18
    TrampSize = 3
    ELF_MAX_SEGMENTS = 3
    Elfs <- ManyFiles
INVARIANTS
    TypeOK
    MapSorted
    PlacesClear
    LowDelivers
CHECK_DEADLOCK FALSE
