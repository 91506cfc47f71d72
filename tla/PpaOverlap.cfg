SPECIFICATION PpaSpec
CONSTANTS
    Supersections = 2
    Fan = 2
    SizeMax = 1000000
    ChainEnd = 65535
    MaxLive = 3
INVARIANT WholeHasOneOwner
CHECK_DEADLOCK FALSE
