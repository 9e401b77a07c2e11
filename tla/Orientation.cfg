CONSTANTS
    p1 = p1
    p2 = p2
    Pids <- MCPids
    Postures <- TwoPostures
    ErrCodes <- ENOENT
    Faults <- AllFaults
    MaxFaults = 1
    MaxSignals = 3
    MaxMoves = 1
SPECIFICATION FairSpec
INVARIANTS
    TypeOK
    ChildrenAwaited
    Agreement
PROPERTIES
    AutoRotationJustified
    RotationCompletes
    StableEdgeShown
CHECK_DEADLOCK FALSE
