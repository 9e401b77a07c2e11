CONSTANTS
    p1 = p1
    p2 = p2
    Pids <- MCPids
    Postures <- MCPostures
    ErrCodes <- ENOENT
    Faults <- None
    MaxFaults = 0
    MaxSignals = 3
    MaxMoves = 1
SPECIFICATION FairSpec
PROPERTY EdgeUpIsShown
CHECK_DEADLOCK FALSE
