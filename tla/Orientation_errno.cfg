CONSTANTS
    p1 = p1
    p2 = p2
    Pids <- MCPids
    Postures <- AnEdge
    ErrCodes <- ENOENT
    Faults <- Errno
    MaxFaults = 2
    MaxSignals = 0
    MaxMoves = 0
SPECIFICATION Spec
INVARIANT AutoRotatesToEdge
CHECK_DEADLOCK FALSE
