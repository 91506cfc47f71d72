SPECIFICATION Spec
CONSTANTS
    Bits = 3
    Operations <- AllOperations
    Widths = {2, 3}
    Inputs <- Operands
    MaxRuns = 2
INVARIANTS
    TypeOK
    ResultRight
    NothingElseWritten
PROPERTIES
    PatchesAhead
    Halts
CHECK_DEADLOCK FALSE
